----------------------------- MODULE RunContract -----------------------------
(***************************************************************************)
(* What the producer promises the client of one run, whatever happens to   *)
(* the workers behind it: an accepted run stays open until it is closed    *)
(* once and for all, it is closed as done or failed only after some worker *)
(* has taken it to the end of execute, and it is closed as canceled only   *)
(* while it was open.  Claims, leases, heartbeats, crashes and repeated    *)
(* executions are invisible at this level; JobQueue implements it.         *)
(***************************************************************************)
CONSTANT Runs

VARIABLES phase,  \* phase[r]: what a client sees of run r
          ran     \* the runs some worker has executed

vars == <<phase, ran>>

Closed == {"done", "failed", "canceled"}

Init ==
    /\ phase = [r \in Runs |-> "absent"]
    /\ ran = {}

\* A trigger or a retry is accepted.
Submit(r) ==
    /\ phase[r] = "absent"
    /\ phase' = [phase EXCEPT ![r] = "open"]
    /\ UNCHANGED ran

\* Some worker has executed r and is about to ack: ExecuteTasks returned or
\* panicked, or the payload did not parse.  A worker that was not told of a
\* cancel, or that lost its claim, may still come to this on a closed run.
Execute(r) ==
    /\ phase[r] # "absent"
    /\ ran' = ran \union {r}
    /\ UNCHANGED phase

\* The result of an execution is accepted.
Close(r, outcome) ==
    /\ phase[r] = "open"
    /\ r \in ran
    /\ phase' = [phase EXCEPT ![r] = outcome]
    /\ UNCHANGED ran

\* An operator cancels an open run.
Withdraw(r) ==
    /\ phase[r] = "open"
    /\ phase' = [phase EXCEPT ![r] = "canceled"]
    /\ UNCHANGED ran

Next ==
    \E r \in Runs :
        \/ Submit(r)
        \/ Execute(r)
        \/ \E outcome \in {"done", "failed"} : Close(r, outcome)
        \/ Withdraw(r)

Spec == Init /\ [][Next]_vars

=============================================================================
