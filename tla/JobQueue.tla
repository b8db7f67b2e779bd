------------------------------ MODULE JobQueue ------------------------------
(***************************************************************************)
(* The durable job queue of the producer (internal/cronicle/state/queue.go)*)
(* with the actors around it: the adapter and the operator verbs that put  *)
(* jobs in (queue_self.go, state/control.go), the workers that claim,      *)
(* heartbeat, execute and ack them (worker_http.go, worker_queue.go), the  *)
(* reaper that takes lapsed claims back (queue_self.go), and the faults    *)
(* these have to survive.                                                  *)
(*                                                                         *)
(* Every operation of the store runs under Store.mu in one transaction, so *)
(* it is one action.  What a worker does between two store operations is a *)
(* step of its own.  A worker drives one job at a time.                    *)
(*                                                                         *)
(* Time.  One Tick is a time step longer than the HTTP client timeout: a   *)
(* reply or an ack in flight does not survive it.  claim_expires_at is     *)
(* kept as the ticks left until it lapses, so time needs no bound.         *)
(***************************************************************************)
EXTENDS Naturals

CONSTANTS
    Runs,            \* run ids, minted by producers, listener and retries
    Workers,         \* worker ids: one consume loop each
    NoRun,           \* workers.current_run = ''
    NoWorker,        \* jobs.claimed_by = ''
    Visibility,      \* defaultClaimVisibility, in ticks
    HeartbeatEvery,  \* worker.hbEvery, in ticks
    MaxFaults        \* bound: how many faults a behaviour may contain

\* Sentinels are no ids; a claim outlives the pause between two heartbeats.
ASSUME QueueAssumption ==
    /\ NoRun \notin Runs
    /\ NoWorker \notin Workers
    /\ HeartbeatEvery \in Nat \ {0}
    /\ Visibility \in Nat
    /\ HeartbeatEvery < Visibility
    /\ MaxFaults \in Nat

VARIABLES
    \* The jobs table.
    status,      \* status[r]; "absent" when there is no row
    claimedBy,   \* claimedBy[r]
    lease,       \* lease[r]: ticks left on claim_expires_at, 0 for NULL
    attempt,     \* attempt[r]
    enqueuedAt,  \* enqueuedAt[r]: the second the row was inserted in
    latest,      \* the second of the latest insert
    \* The workers table.
    currentRun,  \* currentRun[w]
    \* The worker processes.
    pc,          \* where worker w is in its consume loop
    held,        \* held[w]: the job of w's execute call
    beat,        \* beat[w]: whether w's heartbeat loop is alive, and on time
    nextBeat,    \* nextBeat[w]: ticks left until w's next heartbeat
    runCanceled, \* runCanceled[w]: w's run context was canceled
    \* The control streams.
    control,     \* control[w]: cancel messages on their way to w
    \* History and bounds.
    origin,      \* origin[r]: the first run that r is a retry of
    ran,         \* runs some worker has executed, up to its ack
    faults       \* faults so far

rows == <<status, claimedBy, lease, attempt, enqueuedAt, latest>>
procs == <<pc, held, beat, nextBeat, runCanceled>>
vars == <<rows, currentRun, procs, control, origin, ran, faults>>

Terminal == {"done", "failed", "canceled"}
InFlight == {"pending", "claimed"}

Init ==
    /\ status = [r \in Runs |-> "absent"]
    /\ claimedBy = [r \in Runs |-> NoWorker]
    /\ lease = [r \in Runs |-> 0]
    /\ attempt = [r \in Runs |-> 0]
    /\ enqueuedAt = [r \in Runs |-> 0]
    /\ latest = 0
    /\ currentRun = [w \in Workers |-> NoRun]
    /\ pc = [w \in Workers |-> "idle"]
    /\ held = [w \in Workers |-> NoRun]
    /\ beat = [w \in Workers |-> "off"]
    /\ nextBeat = [w \in Workers |-> 0]
    /\ runCanceled = [w \in Workers |-> FALSE]
    /\ control = [w \in Workers |-> {}]
    /\ origin = [r \in Runs |-> r]
    /\ ran = {}
    /\ faults = 0

(***************************************************************************)
(* Putting jobs in.                                                        *)
(***************************************************************************)

\* Enqueue.  enqueued_at is a string with trimmed fractional digits, so rows
\* of one second compare in any order: only the second of an insert counts.
Insert(r) ==
    \E second \in {latest, latest + 1} :
        /\ status[r] = "absent"
        /\ status' = [status EXCEPT ![r] = "pending"]
        /\ enqueuedAt' = [enqueuedAt EXCEPT ![r] = second]
        /\ latest' = second
        /\ UNCHANGED <<claimedBy, lease, attempt>>

\* A schedule tick or an HTTP trigger reaches the queue.
Enqueue(r) ==
    /\ Insert(r)
    /\ UNCHANGED <<currentRun, procs, control, origin, ran, faults>>

\* POST /v1/runs/{r}/retry, with n the fresh run id.
Retry(r, n) ==
    /\ status[r] \in Terminal
    /\ Insert(n)
    /\ origin' = [origin EXCEPT ![n] = origin[r]]
    /\ UNCHANGED <<currentRun, procs, control, ran, faults>>

(***************************************************************************)
(* Claiming and executing.                                                 *)
(***************************************************************************)

\* Seeded fault: ORDER BY enqueued_at DESC.
NewestPending(r) ==
    /\ status[r] = "pending"
    /\ \A q \in Runs : status[q] = "pending" => enqueuedAt[q] <= enqueuedAt[r]

\* The row that Claim's SELECT may return.
OldestPending(r) ==
    /\ status[r] = "pending"
    /\ \A q \in Runs : status[q] = "pending" => enqueuedAt[r] <= enqueuedAt[q]

\* Seeded fault: Claim without its upsert of the workers row.
ClaimRowUnregistered(w, r) ==
    /\ OldestPending(r)
    /\ status' = [status EXCEPT ![r] = "claimed"]
    /\ claimedBy' = [claimedBy EXCEPT ![r] = w]
    /\ lease' = [lease EXCEPT ![r] = Visibility]
    /\ attempt' = [attempt EXCEPT ![r] = @ + 1]
    /\ UNCHANGED <<enqueuedAt, latest, currentRun>>

\* Store.Claim: the jobs row and the workers row change in one transaction.
ClaimRow(w, r) ==
    /\ OldestPending(r)
    /\ status' = [status EXCEPT ![r] = "claimed"]
    /\ claimedBy' = [claimedBy EXCEPT ![r] = w]
    /\ lease' = [lease EXCEPT ![r] = Visibility]
    /\ attempt' = [attempt EXCEPT ![r] = @ + 1]
    /\ currentRun' = [currentRun EXCEPT ![w] = r]
    /\ UNCHANGED <<enqueuedAt, latest>>

\* GET /v1/jobs answered with a job.  The job is w's in the table before w
\* knows of it.  (Without a pending row the handler waits and nothing moves.)
Claim(w, r) ==
    /\ pc[w] = "idle"
    /\ ClaimRow(w, r)
    /\ pc' = [pc EXCEPT ![w] = "granted"]
    /\ held' = [held EXCEPT ![w] = r]
    /\ UNCHANGED <<beat, nextBeat, runCanceled, control, origin, ran, faults>>

\* The reply arrives: execute registers the run with a fresh context and
\* starts the heartbeat loop.
Start(w) ==
    /\ pc[w] = "granted"
    /\ pc' = [pc EXCEPT ![w] = "running"]
    /\ beat' = [beat EXCEPT ![w] = "on"]
    /\ nextBeat' = [nextBeat EXCEPT ![w] = HeartbeatEvery]
    /\ UNCHANGED <<rows, currentRun, held, runCanceled, control, origin, ran,
                   faults>>

\* The execute call of w ends at place, and its context and ticker with it.
Leave(w, place) ==
    /\ pc' = [pc EXCEPT ![w] = place]
    /\ held' = [held EXCEPT ![w] = NoRun]
    /\ beat' = [beat EXCEPT ![w] = "off"]
    /\ nextBeat' = [nextBeat EXCEPT ![w] = 0]
    /\ runCanceled' = [runCanceled EXCEPT ![w] = FALSE]

\* ExecuteTasks returned and the run context is alive, or the payload did not
\* parse: w stops its heartbeat loop and goes on to ack.
Finish(w) ==
    /\ pc[w] = "running"
    /\ ~runCanceled[w]
    /\ pc' = [pc EXCEPT ![w] = "acking"]
    /\ ran' = ran \union {held[w]}
    /\ UNCHANGED <<rows, currentRun, held, beat, nextBeat, runCanceled,
                   control, origin, faults>>

\* ExecuteTasks returned on a canceled run context: no ack.  (A payload that
\* did not parse is acked even then, on a canceled row: to no effect.)
Abandon(w) ==
    /\ pc[w] = "running"
    /\ runCanceled[w]
    /\ Leave(w, "idle")
    /\ UNCHANGED <<rows, currentRun, control, origin, ran, faults>>

\* The WHERE clause of Ack and of Heartbeat.
Owns(w, r) == status[r] = "claimed" /\ claimedBy[r] = w

\* Seeded fault: the WHERE clause of Ack without claimed_by.
AckRowOfAnyone(w, r, ok) ==
    IF status[r] = "claimed"
    THEN /\ status' = [status EXCEPT ![r] = IF ok THEN "done" ELSE "failed"]
         /\ lease' = [lease EXCEPT ![r] = 0]
         /\ currentRun' = [currentRun EXCEPT ![w] = NoRun]
         /\ UNCHANGED <<claimedBy, attempt, enqueuedAt, latest>>
    ELSE UNCHANGED <<rows, currentRun>>

\* Store.Ack: a row that w no longer owns is left alone, without an error.
AckRow(w, r, ok) ==
    IF Owns(w, r)
    THEN /\ status' = [status EXCEPT ![r] = IF ok THEN "done" ELSE "failed"]
         /\ lease' = [lease EXCEPT ![r] = 0]
         /\ currentRun' = [currentRun EXCEPT ![w] = NoRun]
         /\ UNCHANGED <<claimedBy, attempt, enqueuedAt, latest>>
    ELSE UNCHANGED <<rows, currentRun>>

\* POST /v1/jobs/{run}/ack.  ok is FALSE for a bad payload or a panic only:
\* ExecuteTasks returns nothing, so a run with failed tasks acks success.
\* Whether the reply arrives makes no difference: w does not try again.
Ack(w, ok) ==
    /\ pc[w] = "acking"
    /\ AckRow(w, held[w], ok)
    /\ Leave(w, "idle")
    /\ UNCHANGED <<control, origin, ran, faults>>

(***************************************************************************)
(* Keeping a claim, and losing it.                                         *)
(***************************************************************************)

\* The heartbeat loop of w is running; it ends with the run context.
Beating(w) == pc[w] = "running" /\ beat[w] # "off" /\ ~runCanceled[w]

\* Seeded fault: Heartbeat answers the owner without moving the expiry.
HeartbeatRowUnextended(w, r) ==
    IF Owns(w, r)
    THEN /\ UNCHANGED lease
         /\ beat' = [beat EXCEPT ![w] = "on"]
         /\ nextBeat' = [nextBeat EXCEPT ![w] = HeartbeatEvery]
    ELSE /\ beat' = [beat EXCEPT ![w] = "off"]
         /\ UNCHANGED <<lease, nextBeat>>

\* Seeded fault: Heartbeat adds the visibility to the expiry the row has,
\* instead of counting it from now.
HeartbeatRowStacked(w, r) ==
    IF Owns(w, r)
    THEN /\ lease' = [lease EXCEPT ![r] = @ + Visibility]
         /\ beat' = [beat EXCEPT ![w] = "on"]
         /\ nextBeat' = [nextBeat EXCEPT ![w] = HeartbeatEvery]
    ELSE /\ beat' = [beat EXCEPT ![w] = "off"]
         /\ UNCHANGED <<lease, nextBeat>>

\* Store.Heartbeat, and what the loop does with its answer: the owner's claim
\* is extended, even one that lapsed and was not reaped yet; anyone else's
\* loop ends, and the execution goes on without it.
HeartbeatRow(w, r) ==
    IF Owns(w, r)
    THEN /\ lease' = [lease EXCEPT ![r] = Visibility]
         /\ beat' = [beat EXCEPT ![w] = "on"]
         /\ nextBeat' = [nextBeat EXCEPT ![w] = HeartbeatEvery]
    ELSE /\ beat' = [beat EXCEPT ![w] = "off"]
         /\ UNCHANGED <<lease, nextBeat>>

\* The ticker of w fires; a stalled worker's heartbeat comes late.
Heartbeat(w) ==
    /\ Beating(w)
    /\ beat[w] = "on" => nextBeat[w] = 0
    /\ HeartbeatRow(w, held[w])
    /\ UNCHANGED <<status, claimedBy, attempt, enqueuedAt, latest, currentRun,
                   pc, held, runCanceled, control, origin, ran, faults>>

\* What keeps time from passing: a request in flight, or a heartbeat due.
Urgent(w) ==
    \/ pc[w] \in {"granted", "acking"}
    \/ Beating(w) /\ beat[w] = "on" /\ nextBeat[w] = 0

\* Time passes for every claim and every ticker.
Tick ==
    /\ \A w \in Workers : ~Urgent(w)
    /\ lease' = [r \in Runs |-> IF lease[r] > 0 THEN lease[r] - 1 ELSE 0]
    /\ nextBeat' = [w \in Workers |->
                      IF nextBeat[w] > 0 THEN nextBeat[w] - 1 ELSE 0]
    /\ UNCHANGED <<status, claimedBy, attempt, enqueuedAt, latest, currentRun,
                   pc, held, beat, runCanceled, control, origin, ran, faults>>

\* The claims whose claim_expires_at has passed.
Lapsed == {r \in Runs : status[r] = "claimed" /\ lease[r] = 0}

\* Seeded fault: a lapsed claim is given up instead of given back.
ReapAsFailed ==
    /\ Lapsed # {}
    /\ status' = [r \in Runs |-> IF r \in Lapsed THEN "failed" ELSE status[r]]
    /\ claimedBy' = [r \in Runs |->
                       IF r \in Lapsed THEN NoWorker ELSE claimedBy[r]]
    /\ UNCHANGED <<lease, attempt, enqueuedAt, latest,
                   currentRun, procs, control, origin, ran, faults>>

\* Seeded fault: the reaper matches pending rows, so it takes nothing back.
ReapNothing ==
    /\ \E r \in Runs : status[r] = "pending" /\ lease[r] # 0
    /\ UNCHANGED vars

\* One pass of reaperLoop.  The workers row keeps its current_run.
ReapExpired ==
    /\ Lapsed # {}
    /\ status' = [r \in Runs |-> IF r \in Lapsed THEN "pending" ELSE status[r]]
    /\ claimedBy' = [r \in Runs |->
                       IF r \in Lapsed THEN NoWorker ELSE claimedBy[r]]
    /\ UNCHANGED <<lease, attempt, enqueuedAt, latest,
                   currentRun, procs, control, origin, ran, faults>>

(***************************************************************************)
(* Canceling.                                                              *)
(***************************************************************************)

\* Store.Cancel on the jobs row: claimed_by stays.
CancelRow(r) ==
    /\ status[r] \in InFlight
    /\ status' = [status EXCEPT ![r] = "canceled"]
    /\ lease' = [lease EXCEPT ![r] = 0]
    /\ UNCHANGED <<claimedBy, attempt, enqueuedAt, latest>>

\* PushControl is a hint: it is dropped when the worker has no stream, or
\* when its buffer is full; a stream that breaks drops what was in it.
PushControl(w, r) ==
    \/ control' = [control EXCEPT ![w] = @ \union {r}]
    \/ UNCHANGED control

\* POST /v1/runs/{r}/cancel.
Cancel(r) ==
    /\ CancelRow(r)
    /\ IF status[r] = "claimed" THEN PushControl(claimedBy[r], r)
                                ELSE UNCHANGED control
    /\ UNCHANGED <<currentRun, procs, origin, ran, faults>>

\* Seeded fault: a control message cancels whatever run w executes.
HandleControlOfAnyRun(w, r) ==
    /\ r \in control[w]
    /\ control' = [control EXCEPT ![w] = @ \ {r}]
    /\ runCanceled' =
         IF pc[w] \in {"running", "acking"}
         THEN [runCanceled EXCEPT ![w] = TRUE]
         ELSE runCanceled
    /\ UNCHANGED <<rows, currentRun, pc, held, beat, nextBeat, origin, ran,
                   faults>>

\* A control message reaches w: it cancels the run context if the run is
\* registered, and is dropped otherwise.
HandleControl(w, r) ==
    /\ r \in control[w]
    /\ control' = [control EXCEPT ![w] = @ \ {r}]
    /\ runCanceled' =
         IF pc[w] \in {"running", "acking"} /\ held[w] = r
         THEN [runCanceled EXCEPT ![w] = TRUE]
         ELSE runCanceled
    /\ UNCHANGED <<rows, currentRun, pc, held, beat, nextBeat, origin, ran,
                   faults>>

(***************************************************************************)
(* Faults.                                                                 *)
(***************************************************************************)

Fault == faults < MaxFaults /\ faults' = faults + 1

\* The reply to a claim is lost, so w never hears of its job.
ClaimReplyLost(w) ==
    /\ Fault
    /\ pc[w] = "granted"
    /\ Leave(w, "idle")
    /\ UNCHANGED <<rows, currentRun, control, origin, ran>>

\* The ack does not reach the producer; execute logs it and moves on.
AckLost(w) ==
    /\ Fault
    /\ pc[w] = "acking"
    /\ Leave(w, "idle")
    /\ UNCHANGED <<rows, currentRun, control, origin, ran>>

\* A heartbeat request fails, which ends the loop for good.
HeartbeatLost(w) ==
    /\ Fault
    /\ Beating(w)
    /\ beat' = [beat EXCEPT ![w] = "off"]
    /\ UNCHANGED <<rows, currentRun, pc, held, nextBeat, runCanceled, control,
                   origin, ran>>

\* The process or its host is suspended past a heartbeat.
Stall(w) ==
    /\ Fault
    /\ Beating(w) /\ beat[w] = "on"
    /\ beat' = [beat EXCEPT ![w] = "late"]
    /\ UNCHANGED <<rows, currentRun, pc, held, nextBeat, runCanceled, control,
                   origin, ran>>

\* The worker is killed or shut down: either way it acks nothing.
Crash(w) ==
    /\ Fault
    /\ pc[w] # "down"
    /\ Leave(w, "down")
    /\ control' = [control EXCEPT ![w] = {}]
    /\ UNCHANGED <<rows, currentRun, origin, ran>>

\* A worker comes up under the id it had.
Restart(w) ==
    /\ pc[w] = "down"
    /\ Leave(w, "idle")
    /\ UNCHANGED <<rows, currentRun, control, origin, ran, faults>>

Worker(w) ==
    \/ \E r \in Runs : Claim(w, r)
    \/ Start(w)
    \/ Finish(w)
    \/ Abandon(w)
    \/ \E ok \in BOOLEAN : Ack(w, ok)
    \/ Heartbeat(w)
    \/ \E r \in Runs : HandleControl(w, r)

Failure(w) ==
    \/ ClaimReplyLost(w)
    \/ AckLost(w)
    \/ HeartbeatLost(w)
    \/ Stall(w)
    \/ Crash(w)
    \/ Restart(w)

Client ==
    \/ \E r \in Runs : Enqueue(r) \/ Cancel(r)
    \/ \E r, n \in Runs : Retry(r, n)

Next ==
    \/ Client
    \/ \E w \in Workers : Worker(w) \/ Failure(w)
    \/ ReapExpired
    \/ Tick

Spec == Init /\ [][Next]_vars

\* Tickers, the reaper and the workers' loops are goroutines that run; tasks
\* end; somebody starts a dead worker again.  Clients owe nothing.
Fairness ==
    /\ WF_vars(Tick)
    /\ WF_vars(ReapExpired)
    /\ \A w \in Workers :
         /\ WF_vars(\E r \in Runs : Claim(w, r))
         /\ WF_vars(Start(w))
         /\ WF_vars(Finish(w))
         /\ WF_vars(Abandon(w))
         /\ WF_vars(\E ok \in BOOLEAN : Ack(w, ok))
         /\ WF_vars(Heartbeat(w))
         /\ WF_vars(Restart(w))

FairSpec == Spec /\ Fairness

-----------------------------------------------------------------------------
(***************************************************************************)
(* Properties.                                                             *)
(***************************************************************************)

\* The tables and the worker states have the shape the code gives them.
TypeOK ==
    /\ status \in [Runs -> {"absent"} \union InFlight \union Terminal]
    /\ claimedBy \in [Runs -> Workers \union {NoWorker}]
    /\ lease \in [Runs -> 0..Visibility]
    /\ attempt \in [Runs -> Nat]
    /\ enqueuedAt \in [Runs -> Nat]
    /\ latest \in Nat
    /\ currentRun \in [Workers -> Runs \union {NoRun}]
    /\ pc \in [Workers -> {"idle", "granted", "running", "acking", "down"}]
    /\ held \in [Workers -> Runs \union {NoRun}]
    /\ beat \in [Workers -> {"on", "late", "off"}]
    /\ nextBeat \in [Workers -> 0..HeartbeatEvery]
    /\ runCanceled \in [Workers -> BOOLEAN]
    /\ control \in [Workers -> SUBSET Runs]
    /\ origin \in [Runs -> Runs]
    /\ ran \in SUBSET Runs
    /\ faults \in Nat

\* w executes held[w], and none of its heartbeats failed or came late.
Healthy(w) ==
    \/ pc[w] = "granted"
    \/ pc[w] \in {"running", "acking"} /\ beat[w] = "on"

\* As long as its heartbeats arrive, a worker keeps the claim on the run it
\* executes: the reaper never takes it and nobody else gets it, because a
\* heartbeat always comes before claim_expires_at.  Only Cancel ends it.
HealthyWorkerKeepsClaim ==
    \A w \in Workers :
        Healthy(w) => \/ Owns(w, held[w])
                      \/ status[held[w]] = "canceled"

\* Two workers with good heartbeats never execute the same run: the reason
\* the queue has claims at all.
ExclusiveExecution ==
    \A v, w \in Workers :
        v # w /\ Healthy(v) /\ Healthy(w) => held[v] # held[w]

\* Every execution of a run beyond its first was caused by a fault: without
\* one the attempt counter of a row stays at one.
ReexecutionNeedsFault ==
    \A r \in Runs : attempt[r] <= 1 + faults

\* The workers table names the run a worker executes for as long as it does,
\* also when the worker lost its claim and another one has it.
RegistryNamesTheRun ==
    \A w \in Workers :
        pc[w] \in {"running", "acking"} => currentRun[w] = held[w]

\* A run is not handed out before one that was enqueued in an earlier second,
\* unless that one was canceled while it waited.
NoOvertaking ==
    \A q, r \in Runs :
        /\ status[q] # "absent"
        /\ enqueuedAt[q] < enqueuedAt[r]
        /\ attempt[r] > 0
        => attempt[q] > 0 \/ status[q] = "canceled"

\* A run context is canceled only for a run that the producer canceled, so
\* the execution that returns without an ack leaves no claim behind.
AbandonedOnlyIfCanceled ==
    \A w \in Workers :
        pc[w] = "running" /\ runCanceled[w] => status[held[w]] = "canceled"

\* What Ack, Cancel and the reaper may never do: change a row that is done,
\* failed or canceled.
TerminalIsFinal ==
    [][\A r \in Runs : status[r] \in Terminal => status'[r] = status[r]]_vars

\* A row becomes done or failed only when the worker that holds its current
\* claim has executed it to the end: the ack of a worker that lost its claim
\* does not close the run under the worker that has it now.
OnlyHolderCompletes ==
    [][\A r \in Runs :
         status'[r] # status[r] /\ status'[r] \in {"done", "failed"}
         => \E w \in Workers :
              Owns(w, r) /\ pc[w] = "acking" /\ held[w] = r]_vars

\* The queue keeps the contract of RunContract.
Contract == INSTANCE RunContract WITH
    phase <- [r \in Runs |-> IF status[r] \in InFlight THEN "open"
                                                       ELSE status[r]]

ImplementsContract == Contract!Spec

\* Whatever fails, a run that was enqueued is done, failed or canceled in the
\* end: no claim is lost for good, and no job waits forever.
EveryRunSettles ==
    \A r \in Runs : status[r] \in InFlight ~> status[r] \in Terminal

\* state/control.go on Retry: "Only terminal runs can be retried - refusing to
\* re-fire a job that's still in flight prevents duplicate execution."
RetryNeverOverlaps ==
    \A v, w \in Workers :
        /\ v # w
        /\ pc[v] = "running"
        /\ pc[w] = "running"
        /\ held[v] # held[w]
        => origin[held[v]] # origin[held[w]]

=============================================================================
