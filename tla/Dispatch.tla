------------------------------ MODULE Dispatch ------------------------------
(***************************************************************************)
(* How runs get from their causes to the workers on the producer: cron     *)
(* ticks (cron.go, ProduceSchedule), HTTP triggers (listen.go) and retries *)
(* (state/control.go), the gates that pause and drain set up for them, the *)
(* channel and its adapter (queue_self.go), the long poll of the workers   *)
(* (listen.go, state/queue.go), and the shutdown of the process around all *)
(* of them (cron.go, Run; RunFromSource has the same sequence).            *)
(*                                                                         *)
(* A tick is a goroutine of its own and takes no lock; the trigger, pause  *)
(* and drain handlers share triggerMu.  One schedule is followed: pausing  *)
(* another one leaves it alone.  Run ids are numbers in the order in which *)
(* the runs reach the channel or the table.                                *)
(***************************************************************************)
EXTENDS Naturals, Sequences, FiniteSets, SequencesExt

CONSTANTS
    Ticks,       \* goroutines of the cron library
    Handlers,    \* trigger requests that may be under way at once
    Workers,     \* the workers of selfWorkerPool, which end with the process
    QueueSize,   \* buffer of enqueueChan
    MaxRuns,     \* bound: runs in a behaviour
    MaxFaults,   \* bound: shutdowns, failed calls of the store, stalled workers
    Nobody       \* triggerMu is free; jobs.claimed_by = ''

ASSUME DispatchAssumption ==
    /\ QueueSize \in Nat \ {0}
    /\ MaxRuns \in Nat
    /\ MaxFaults \in Nat
    /\ Nobody \notin Handlers \union Workers

VARIABLES
    \* Durable: the state store.
    paused,     \* schedule_state.paused of the schedule
    drained,    \* runner_state.drained
    job,        \* job[r]: status of the jobs row, "none" without one
    claimedBy,  \* claimedBy[r]
    lapsed,     \* the rows whose claim_expires_at has passed
    \* History: how many runs there are, and what caused them.
    minted, source,
    \* The producer process.
    phase,      \* how far the process is on its way from "up" to "off"
    late,       \* the listener's deadline passed with handlers under way
    tick,       \* tick[t]: how far the goroutine of a tick is
    handler,    \* handler[h]: how far a trigger handler is
    triggerMu,  \* the handler that holds the mutex
    queue,      \* enqueueChan
    closed,     \* whether it was closed
    hand,       \* the run enqueueAdapter has received and not inserted, or 0
    \* The workers.
    poll,       \* poll[w]: how far the long poll or the run of w is
    claim,      \* claim[w]: the run w has, or 0
    \* Faults so far: shutdowns, failed calls of the store, and claims that
    \* lapsed although their worker lives.
    restarts, errors, stalls

gates == <<paused, drained>>
jobs == <<job, claimedBy, lapsed>>
store == <<gates, jobs>>
runs == <<minted, source>>
process == <<phase, late>>
causes == <<tick, handler, triggerMu>>
chan == <<queue, closed, hand>>
polls == <<poll, claim>>
faults == <<restarts, errors, stalls>>
vars == <<store, runs, process, causes, chan, polls, faults>>

Runs == 1..MaxRuns

\* Another fault may come.
FaultsLeft == restarts + errors + stalls < MaxFaults

\* The statuses that are never left: done stands for failed too.
Closed == {"done", "canceled"}

Init ==
    /\ paused = FALSE
    /\ drained = FALSE
    /\ job = [r \in Runs |-> "none"]
    /\ claimedBy = [r \in Runs |-> Nobody]
    /\ lapsed = {}
    /\ minted = 0
    /\ source = [r \in Runs |-> "none"]
    /\ phase = "up"
    /\ late = FALSE
    /\ tick = [t \in Ticks |-> "idle"]
    /\ handler = [h \in Handlers |-> "idle"]
    /\ triggerMu = Nobody
    /\ queue = << >>
    /\ closed = FALSE
    /\ hand = 0
    /\ poll = [w \in Workers |-> "idle"]
    /\ claim = [w \in Workers |-> 0]
    /\ restarts = 0
    /\ errors = 0
    /\ stalls = 0

(***************************************************************************)
(* Shared by the operations.                                               *)
(***************************************************************************)

\* A gate reads its flag from the store, and is open when the read fails: that
\* makes a difference when the flag is set.
Gate(flag, open) ==
    \/ /\ open = ~flag
       /\ UNCHANGED errors
    \/ /\ flag
       /\ open
       /\ FaultsLeft
       /\ errors' = errors + 1

\* newRunID, for a run with the given cause.
Mint(cause) ==
    /\ minted < MaxRuns
    /\ minted' = minted + 1
    /\ source' = [source EXCEPT ![minted'] = cause]

\* signalWaiters: every worker that blocks in WaitForJob tries again.
signalWaiters(base) ==
    poll' = [w \in Workers |-> IF base[w] = "waiting" THEN "polling"
                                                      ELSE base[w]]

(***************************************************************************)
(* Cron ticks.                                                             *)
(***************************************************************************)

\* A tick fires and passes the drain gate, or is skipped by it.  c.Stop runs
\* in a goroutine of its own, so that a tick may fire during the shutdown.
ProduceSchedule(t) ==
    /\ tick[t] = "idle"
    /\ phase # "off"
    /\ \E open \in BOOLEAN :
         /\ Gate(drained, open)
         /\ tick' = [tick EXCEPT ![t] = IF open THEN "undrained" ELSE "idle"]
    /\ UNCHANGED <<store, runs, process, handler, triggerMu, chan, polls,
                   restarts, stalls>>

\* It passes the pause gate, or is skipped: by the gate or by its dates.
ProducePauseCheck(t) ==
    /\ tick[t] = "undrained"
    /\ \E open, inWindow \in BOOLEAN :
         /\ Gate(paused, open)
         /\ tick' = [tick EXCEPT ![t] = IF open /\ inWindow THEN "sending"
                                                            ELSE "idle"]
    /\ UNCHANGED <<store, runs, process, handler, triggerMu, chan, polls,
                   restarts, stalls>>

\* Its send goes through once there is room, after CleanGit.
ProduceSend(t) ==
    /\ tick[t] = "sending"
    /\ ~closed
    /\ Len(queue) < QueueSize
    /\ Mint("cron")
    /\ queue' = Append(queue, minted')
    /\ tick' = [tick EXCEPT ![t] = "idle"]
    /\ UNCHANGED <<store, process, handler, triggerMu, closed, hand, polls,
                   faults>>

(***************************************************************************)
(* HTTP: triggers, pause and drain.                                        *)
(***************************************************************************)

\* A trigger request arrives; Shutdown accepts no new ones.
handleScheduleRoute(h) ==
    /\ phase = "up"
    /\ handler[h] = "idle"
    /\ handler' = [handler EXCEPT ![h] = "locking"]
    /\ UNCHANGED <<store, runs, process, tick, triggerMu, chan, polls, faults>>

\* It gets the mutex and looks at both flags.  Nobody can set one of them
\* before it is done, so the two reads are one step.
TriggerCheck(h) ==
    /\ handler[h] = "locking"
    /\ triggerMu = Nobody
    /\ \E open \in BOOLEAN :
         /\ Gate(drained \/ paused, open)
         /\ handler' = [handler EXCEPT ![h] = IF open THEN "sending" ELSE "idle"]
         /\ triggerMu' = IF open THEN h ELSE Nobody
    /\ UNCHANGED <<store, runs, process, tick, chan, polls, restarts, stalls>>

\* The handler returns, and unlocks.
Answer(h) ==
    /\ handler' = [handler EXCEPT ![h] = "idle"]
    /\ triggerMu' = Nobody

\* send: there is room, and the answer is 202.
TriggerSend(h) ==
    /\ handler[h] = "sending"
    /\ ~closed
    /\ Len(queue) < QueueSize
    /\ Mint("http")
    /\ queue' = Append(queue, minted')
    /\ Answer(h)
    /\ UNCHANGED <<store, process, tick, closed, hand, polls, faults>>

\* send: five seconds without room; or the panic of a send on the closed
\* channel, which net/http recovers.  Neither answer is a 202.
TriggerFails(h) ==
    /\ handler[h] = "sending"
    /\ closed \/ Len(queue) >= QueueSize
    /\ Answer(h)
    /\ UNCHANGED <<store, runs, process, tick, chan, polls, faults>>

\* Seeded fault: the flags are set without the mutex.
SetFlagsUnlocked(p, d) ==
    /\ phase = "up"
    /\ paused' = p
    /\ drained' = d
    /\ UNCHANGED <<jobs, runs, process, causes, chan, polls, faults>>

\* The pause and the drain handler set their flag under the mutex.
SetFlags(p, d) ==
    /\ phase = "up"
    /\ triggerMu = Nobody
    /\ paused' = p
    /\ drained' = d
    /\ UNCHANGED <<jobs, runs, process, causes, chan, polls, faults>>

Pause == ~paused /\ SetFlags(TRUE, drained)

Drain == ~drained /\ SetFlags(paused, TRUE)

\* The resume and the undrain handler take no mutex.
ClearFlags(p, d) ==
    /\ phase = "up"
    /\ paused' = p
    /\ drained' = d
    /\ UNCHANGED <<jobs, runs, process, causes, chan, polls, faults>>

Resume == paused /\ ClearFlags(FALSE, drained)

Undrain == drained /\ ClearFlags(paused, FALSE)

(***************************************************************************)
(* Into the jobs table.                                                    *)
(***************************************************************************)

\* enqueueAdapter takes the next payload out.
AdapterReceive ==
    /\ phase # "off"
    /\ hand = 0
    /\ queue # << >>
    /\ hand' = Head(queue)
    /\ queue' = Tail(queue)
    /\ UNCHANGED <<store, runs, process, causes, closed, polls, faults>>

\* It inserts the row and wakes the workers.
AdapterEnqueue ==
    /\ phase # "off"
    /\ hand # 0
    /\ job' = [job EXCEPT ![hand] = "pending"]
    /\ hand' = 0
    /\ signalWaiters(poll)
    /\ UNCHANGED <<gates, claimedBy, lapsed, runs, process, causes, queue, closed,
                   claim, faults>>

\* The insert fails: the run is logged and dropped.
AdapterFails ==
    /\ phase # "off"
    /\ hand # 0
    /\ hand' = 0
    /\ FaultsLeft
    /\ errors' = errors + 1
    /\ UNCHANGED <<store, runs, process, causes, queue, closed, polls, restarts,
                   stalls>>

\* POST /v1/runs/{r}/retry goes to the table, past the gates.
RetryRun(r) ==
    /\ phase = "up"
    /\ job[r] \in Closed
    /\ Mint("retry")
    /\ job' = [job EXCEPT ![minted'] = "pending"]
    /\ signalWaiters(poll)
    /\ UNCHANGED <<gates, claimedBy, lapsed, process, causes, chan, claim, faults>>

(***************************************************************************)
(* Out of it: the long poll.                                               *)
(***************************************************************************)

Pending == {r \in Runs : job[r] = "pending"}

\* A worker asks for a job.
Ask(w) ==
    /\ phase = "up"
    /\ poll[w] = "idle"
    /\ poll' = [poll EXCEPT ![w] = "polling"]
    /\ UNCHANGED <<store, runs, process, causes, chan, claim, faults>>

\* Claim finds a row.
ClaimJob(w, r) ==
    /\ phase # "off"
    /\ poll[w] \in {"polling", "last"}
    /\ r \in Pending
    /\ job' = [job EXCEPT ![r] = "claimed"]
    /\ claimedBy' = [claimedBy EXCEPT ![r] = w]
    /\ claim' = [claim EXCEPT ![w] = r]
    /\ poll' = [poll EXCEPT ![w] = "claimed"]
    /\ UNCHANGED <<gates, lapsed, runs, process, causes, chan, faults>>

\* Claim finds nothing.  A row inserted from here on wakes only the workers
\* that have got to WaitForJob.  After the deadline the answer is 204.
NoJobs(w) ==
    /\ phase # "off"
    /\ poll[w] \in {"polling", "last"}
    /\ Pending = {}
    /\ poll' = [poll EXCEPT ![w] = IF poll[w] = "last" THEN "idle" ELSE "empty"]
    /\ UNCHANGED <<store, runs, process, causes, chan, claim, faults>>

\* WaitForJob takes the current waiters channel and blocks on it.
WaitForJob(w) ==
    /\ poll[w] = "empty"
    /\ poll' = [poll EXCEPT ![w] = "waiting"]
    /\ UNCHANGED <<store, runs, process, causes, chan, claim, faults>>

\* Seeded fault: WaitForJob has no timer.
PollTimeoutNever(w) ==
    /\ FALSE
    /\ UNCHANGED vars

\* The timer of WaitForJob fires; the handler tries one more claim.
PollTimeout(w) ==
    /\ poll[w] = "waiting"
    /\ poll' = [poll EXCEPT ![w] = "last"]
    /\ UNCHANGED <<store, runs, process, causes, chan, claim, faults>>

\* The walk of w's run launches its task, unless the runner is drained: one of
\* the two flags that awaitRunPauseClear polls.  (LocalRun has both.)
Launch(w) ==
    /\ poll[w] = "claimed"
    /\ Gate(drained, TRUE)
    /\ poll' = [poll EXCEPT ![w] = "busy"]
    /\ UNCHANGED <<store, runs, process, causes, chan, claim, restarts, stalls>>

\* The WHERE clause of Ack and of Heartbeat.
Owns(w, r) == job[r] = "claimed" /\ claimedBy[r] = w

\* The task ends, and the run is acked.  A row that w lost is left alone.
AckJob(w) ==
    /\ phase = "up"
    /\ poll[w] = "busy"
    /\ IF Owns(w, claim[w])
       THEN /\ job' = [job EXCEPT ![claim[w]] = "done"]
            /\ lapsed' = lapsed \ {claim[w]}
       ELSE UNCHANGED <<job, lapsed>>
    /\ claim' = [claim EXCEPT ![w] = 0]
    /\ poll' = [poll EXCEPT ![w] = "idle"]
    /\ UNCHANGED <<gates, claimedBy, runs, process, causes, chan, faults>>

\* Claim_expires_at passes: nobody extends the claim, since its worker is no
\* more, or stalls.  (JobQueue shows that a claim whose heartbeats arrive does
\* not lapse.)
Lapse(r) ==
    /\ job[r] = "claimed"
    /\ r \notin lapsed
    /\ lapsed' = lapsed \union {r}
    /\ \/ claim[claimedBy[r]] # r /\ UNCHANGED stalls
       \/ claim[claimedBy[r]] = r /\ FaultsLeft /\ stalls' = stalls + 1
    /\ UNCHANGED <<gates, job, claimedBy, runs, process, causes, chan, polls,
                   restarts, errors>>

\* A worker that stalled heartbeats again, before the reaper comes.
Heartbeat(w) ==
    /\ phase # "off"
    /\ claim[w] \in lapsed
    /\ Owns(w, claim[w])
    /\ lapsed' = lapsed \ {claim[w]}
    /\ UNCHANGED <<gates, job, claimedBy, runs, process, causes, chan, polls,
                   faults>>

\* Seeded fault: no reaper.
ReapNever ==
    /\ FALSE
    /\ UNCHANGED vars

\* The rows of taken go back to pending.
GiveBack(taken) ==
    /\ phase = "up"
    /\ taken # {}
    /\ job' = [r \in Runs |-> IF r \in taken THEN "pending" ELSE job[r]]
    /\ claimedBy' = [r \in Runs |-> IF r \in taken THEN Nobody ELSE claimedBy[r]]
    /\ lapsed' = {}
    /\ signalWaiters(poll)
    /\ UNCHANGED <<gates, runs, process, causes, chan, claim, faults>>

\* Seeded fault: the reaper does not look at the expiry.
ReapEveryClaim == GiveBack({r \in Runs : job[r] = "claimed"})

\* reaperLoop gives back every claim that has lapsed, whether or not its worker
\* is still at it.
Reap == GiveBack(lapsed)

\* POST /v1/runs/{r}/cancel: the worker that has the run goes on, and its ack
\* comes to nothing.
Cancel(r) ==
    /\ phase = "up"
    /\ job[r] \in {"pending", "claimed"}
    /\ job' = [job EXCEPT ![r] = "canceled"]
    /\ lapsed' = lapsed \ {r}
    /\ UNCHANGED <<gates, claimedBy, runs, process, causes, chan, polls, faults>>

(***************************************************************************)
(* Shutdown.                                                               *)
(***************************************************************************)

\* The context is canceled.
Shutdown ==
    /\ phase = "up"
    /\ FaultsLeft
    /\ restarts' = restarts + 1
    /\ phase' = "stopping"
    /\ UNCHANGED <<store, runs, late, causes, chan, polls, errors, stalls>>

\* Seeded fault: nobody waits for the handlers.
ListenerDoneAtOnce ==
    /\ phase = "stopping"
    /\ phase' = "unheard"
    /\ UNCHANGED <<store, runs, late, causes, chan, polls, faults>>

\* srv.Shutdown returns: the handlers are done, or its deadline passed.
ListenerDone ==
    /\ phase = "stopping"
    /\ phase' = "unheard"
    /\ late' = (\E h \in Handlers : handler[h] # "idle")
    /\ UNCHANGED <<store, runs, causes, chan, polls, faults>>

\* closeQueue.
CloseQueue ==
    /\ phase = "unheard"
    /\ phase' = "waiting"
    /\ closed' = TRUE
    /\ UNCHANGED <<store, runs, late, causes, queue, hand, polls, faults>>

\* The store is closed after the workers, or after 30 seconds; enqueueAdapter
\* is not waited for.  The process exits.  It also does when a tick sends on
\* the closed channel, a panic that nobody recovers.
Exit ==
    /\ phase = "waiting"
    /\ phase' = "off"
    /\ tick' = [t \in Ticks |-> "idle"]
    /\ handler' = [h \in Handlers |-> "idle"]
    /\ triggerMu' = Nobody
    /\ queue' = << >>
    /\ hand' = 0
    /\ poll' = [w \in Workers |-> "idle"]
    /\ claim' = [w \in Workers |-> 0]
    /\ UNCHANGED <<store, runs, late, closed, faults>>

\* A new process on the same store.
Restart ==
    /\ phase = "off"
    /\ phase' = "up"
    /\ late' = FALSE
    /\ closed' = FALSE
    /\ UNCHANGED <<store, runs, causes, queue, hand, polls, faults>>

Next ==
    \/ \E t \in Ticks :
         ProduceSchedule(t) \/ ProducePauseCheck(t) \/ ProduceSend(t)
    \/ \E h \in Handlers :
         \/ handleScheduleRoute(h)
         \/ TriggerCheck(h)
         \/ TriggerSend(h)
         \/ TriggerFails(h)
    \/ Pause \/ Resume \/ Drain \/ Undrain
    \/ AdapterReceive \/ AdapterEnqueue \/ AdapterFails
    \/ \E r \in Runs : RetryRun(r) \/ Cancel(r) \/ Lapse(r)
    \/ \E w \in Workers :
         \/ Ask(w)
         \/ \E r \in Runs : ClaimJob(w, r)
         \/ NoJobs(w)
         \/ WaitForJob(w)
         \/ PollTimeout(w)
         \/ Launch(w)
         \/ AckJob(w)
         \/ Heartbeat(w)
    \/ Reap
    \/ Shutdown \/ ListenerDone \/ CloseQueue \/ Exit \/ Restart

Spec == Init /\ [][Next]_vars

\* What the goroutine of a worker does next, when no read of a gate fails.
Work(w) ==
    \/ Ask(w)
    \/ \E r \in Runs : ClaimJob(w, r)
    \/ NoJobs(w)
    \/ WaitForJob(w)
    \/ PollTimeout(w)
    \/ Launch(w) /\ UNCHANGED errors
    \/ AckJob(w)

\* The adapter, the workers, their timers and the reaper run; claims that
\* nobody extends lapse; a shutdown goes on, and the process is started again.
\* Nobody has to trigger, resume or undrain, no worker to stall and no call of
\* the store to fail.
Fairness ==
    /\ WF_vars(AdapterReceive \/ AdapterEnqueue)
    /\ WF_vars(Reap)
    /\ \A r \in Runs : WF_vars(Lapse(r) /\ UNCHANGED stalls)
    /\ WF_vars(ListenerDone \/ CloseQueue \/ Exit \/ Restart)
    /\ \A w \in Workers : WF_vars(Work(w))

FairSpec == Spec /\ Fairness

-----------------------------------------------------------------------------
(***************************************************************************)
(* Properties.                                                             *)
(***************************************************************************)

\* A run is in the channel, in the adapter's hand or in the table, and never
\* in two of them or twice in one.  As long as no worker stalls, the row of a
\* run that a worker has names this worker or is canceled: through reaps,
\* cancels, shutdowns and restarts the reaper takes only what nobody works on,
\* although it looks at nothing but the expiry.
EachRunInOnePlace ==
    /\ IsInjective(queue)
    /\ \A r \in Runs :
         Cardinality({p \in {"channel", "hand", "table"} :
                        \/ p = "channel" /\ r \in ToSet(queue)
                        \/ p = "hand" /\ r = hand
                        \/ p = "table" /\ job[r] # "none"}) <= 1
    /\ stalls = 0 =>
         \A w \in Workers :
            claim[w] # 0 => Owns(w, claim[w]) \/ job[claim[w]] = "canceled"

\* No trigger is answered with 202 while its schedule is paused or the runner
\* drained, although the handler looked at the flags earlier: triggerMu keeps
\* them from changing between the check and the send.  (A cron tick has no
\* such promise.  Gates are open when the store cannot be read.)
TriggersRespectTheGates ==
    [][\A r \in Runs :
         /\ source[r] # "http" /\ source'[r] = "http"
         /\ errors = 0
         => ~paused /\ ~drained]_vars

\* A handler never finds the queue closed under it, unless the listener's
\* deadline passed with the handler still under way: the queue is closed after
\* the listener is done.
QueueOutlivesHandlers ==
    closed => late \/ \A h \in Handlers : handler[h] = "idle"

\* A trigger that was answered with 202 is executed or canceled, as long as the
\* process lives, the store works and the runner is not drained: the adapter's
\* insert finds its worker even when it comes between the worker's claim and its
\* wait.
AcceptedIsServed ==
    \A r \in Runs :
        source[r] = "http"
        ~> \/ job[r] \in Closed
           \/ restarts > 0 \/ errors > 0 \/ drained

\* A run that has got into the jobs table is executed or canceled, through every
\* stall, shutdown and restart, unless the runner is drained: what the exiting
\* process held is given back.
JobsSurviveRestart ==
    \A r \in Runs : job[r] \in {"pending", "claimed"} ~> job[r] \in Closed \/ drained

===========================================================================
