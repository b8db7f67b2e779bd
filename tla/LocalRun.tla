------------------------------ MODULE LocalRun ------------------------------
(***************************************************************************)
(* One run on a single node: the in-process worker of cronicle run         *)
(* --worker claims the job, ExecuteTasks (dag.go) walks the DAG, each task *)
(* passes the gates of task_skip.go and goes through the attempts of       *)
(* Task.Execute (exec.go), and every event is put into the projection as   *)
(* it is logged (state/sink.go).  Operators cancel, pause and skip         *)
(* meanwhile, and the process may die and be started again on its state    *)
(* file.                                                                   *)
(*                                                                         *)
(* Any of these uses of the store may fail.  The run goes on: a gate whose *)
(* read fails is open, and an event whose Apply fails is dropped.          *)
(*                                                                         *)
(* The in-process worker has no control stream (queue_self.go gives it a   *)
(* localQueueClient), so its run context is never canceled: what stops a   *)
(* canceled run are the gates.                                             *)
(***************************************************************************)
EXTENDS Projection, Naturals, Sequences, FiniteSets

CONSTANTS
    Unknown, Graphs,  \* as in DagWalk
    Agents,           \* the tasks with an agent block; the others run a shell
    RetryCount,       \* RetryCount[n]: the count of the retry block of n
    MaxFaults         \* bound: how often the process dies or the store fails

ASSUME LocalAssumption ==
    /\ IsFiniteSet(Tasks)
    /\ Unknown \notin Tasks
    /\ Graphs \subseteq [Tasks -> SUBSET (Tasks \union {Unknown})]
    /\ Agents \subseteq Tasks
    /\ RetryCount \in [Tasks -> Nat]
    /\ MaxFaults \in Nat

VARIABLES
    deps, continueOnFailure, inDegree, node, failed, firstErr, done, running,
    loop, todo,  \* the walk
    job,         \* jobs.status
    exec,        \* how far the worker is with the job
    step,        \* step[n]: where the function of n is, while node[n] runs
    tries,       \* tries[n]: attempts of n so far in this walk
    blocked,     \* the run is paused or the runner is drained
    skipFlags,   \* the tasks with a skip flag
    crashes, errors,
    \* History.
    withdrawn,   \* tasks whose row was canceled before they passed the gate
    unread,      \* tasks whose canceled row the gate could not read
    dropped      \* an event did not get into the projection

Walk == INSTANCE DagWalk

walk == <<deps, continueOnFailure, inDegree, node, failed, firstErr, done,
          running, loop, todo>>
bodies == <<step, tries>>
flags == <<blocked, skipFlags>>
failures == <<errors, unread, dropped>>
vars == <<projection, walk, job, exec, bodies, flags, crashes, withdrawn, failures>>

Init ==
    /\ ProjectionInit
    /\ Walk!Init
    /\ job = "pending"
    /\ exec = "waiting"
    /\ step = [n \in Tasks |-> "pause"]
    /\ tries = [n \in Tasks |-> 0]
    /\ blocked = FALSE
    /\ skipFlags = {}
    /\ crashes = 0
    /\ errors = 0
    /\ withdrawn = {}
    /\ unread = {}
    /\ dropped = FALSE

(***************************************************************************)
(* The store, which may fail.                                              *)
(***************************************************************************)

StoreFails ==
    /\ crashes + errors < MaxFaults
    /\ errors' = errors + 1

\* The sink applies an event to the projection, or drops it without a word.
Logged(change) ==
    \/ change /\ UNCHANGED failures
    \/ StoreFails /\ dropped' = TRUE /\ UNCHANGED <<projection, unread>>

(***************************************************************************)
(* The worker.                                                             *)
(***************************************************************************)

Claim ==
    /\ exec = "waiting" /\ job = "pending"
    /\ job' = "claimed"
    /\ exec' = "claimed"
    /\ UNCHANGED <<projection, walk, bodies, flags, crashes, withdrawn, failures>>

\* ExecuteTasks up to the walk: the schedule_start event.
ScheduleStart ==
    /\ exec = "claimed"
    /\ Logged(applyScheduleStart)
    /\ exec' = "walking"
    /\ UNCHANGED <<walk, job, bodies, flags, crashes, withdrawn>>

\* A step of walkDAG itself.
WalkStep ==
    /\ exec = "walking"
    /\ Walk!Step
    /\ UNCHANGED <<projection, job, exec, bodies, flags, crashes, withdrawn, failures>>

At(n, place) == exec = "walking" /\ node[n] = "running" /\ step[n] = place

GoTo(n, place) ==
    /\ step' = [step EXCEPT ![n] = place]
    /\ UNCHANGED walk

\* awaitRunPauseClear.  It goes on when the flags cannot be read.
PauseGate(n) ==
    /\ At(n, "pause")
    /\ \/ ~blocked /\ UNCHANGED failures
       \/ blocked /\ StoreFails /\ UNCHANGED <<unread, dropped>>
    /\ GoTo(n, "cancel")
    /\ UNCHANGED <<projection, job, exec, tries, flags, crashes, withdrawn>>

\* taskCanceledInRun: a row that cannot be read is not canceled.  The
\* task_canceled event changes no row.
CancelGate(n) ==
    /\ At(n, "cancel")
    /\ \/ /\ IsTaskCanceledInRun(n)
          /\ Walk!Return(n, TRUE)
          /\ UNCHANGED <<step, failures>>
       \/ /\ ~IsTaskCanceledInRun(n)
          /\ GoTo(n, "skip")
          /\ UNCHANGED failures
       \/ /\ IsTaskCanceledInRun(n)
          /\ StoreFails
          /\ unread' = unread \union {n}
          /\ GoTo(n, "skip")
          /\ UNCHANGED dropped
    /\ UNCHANGED <<projection, job, exec, tries, flags, crashes, withdrawn>>

\* taskIsSkipped: a flag that cannot be read is not set.  A skipped task
\* counts as a success.
SkipGate(n) ==
    /\ At(n, "skip")
    /\ \/ /\ n \in skipFlags
          /\ Walk!Return(n, TRUE)
          /\ Logged(applyTaskSkipped(n))
          /\ UNCHANGED step
       \/ /\ n \notin skipFlags
          /\ GoTo(n, "execute")
          /\ UNCHANGED <<projection, failures>>
       \/ /\ n \in skipFlags
          /\ StoreFails
          /\ GoTo(n, "execute")
          /\ UNCHANGED <<projection, unread, dropped>>
    /\ UNCHANGED <<job, exec, tries, flags, crashes, withdrawn>>

\* Task.Execute fails before its first attempt (validation, clone, checkout),
\* which is not logged.
Unprepared(n) ==
    /\ At(n, "execute")
    /\ Walk!Return(n, FALSE)
    /\ UNCHANGED <<projection, job, exec, bodies, flags, crashes, withdrawn, failures>>

\* An attempt begins with a task_start event.
StartAttempt(n) ==
    /\ At(n, "execute") \/ At(n, "retry")
    /\ Logged(applyTaskStart(n))
    /\ tries' = [tries EXCEPT ![n] = @ + 1]
    /\ GoTo(n, "attempt")
    /\ UNCHANGED <<job, exec, flags, crashes, withdrawn>>

\* try.Do goes on.
TriesLeft(n) == tries[n] <= RetryCount[n]

\* The attempt ends: another one, or the function returns.
AfterAttempt(n, ok) ==
    IF ~ok /\ TriesLeft(n)
    THEN GoTo(n, "retry")
    ELSE Walk!Return(n, ok) /\ UNCHANGED step

\* The body of n ran: Log or execAgent emits the terminal event.
EndAttempt(n, ok) ==
    /\ At(n, "attempt")
    /\ Logged(applyTaskTerminal(n, ok))
    /\ AfterAttempt(n, ok)
    /\ UNCHANGED <<job, exec, tries, flags, crashes, withdrawn>>

\* execAgent returns early: skills, secrets or MCP servers could not be set
\* up.  Log leaves agents to execAgent, which has logged nothing.
AgentSetupFails(n) ==
    /\ n \in Agents
    /\ At(n, "attempt")
    /\ AfterAttempt(n, FALSE)
    /\ UNCHANGED <<projection, job, exec, tries, flags, crashes, withdrawn, failures>>

\* The walk is over: the schedule_complete event.
ScheduleComplete ==
    /\ exec = "walking"
    /\ loop = "ended"
    /\ Logged(applyScheduleComplete(Walk!Verdict = "ok"))
    /\ exec' = "complete"
    /\ UNCHANGED <<walk, job, bodies, flags, crashes, withdrawn>>

Ack ==
    /\ exec = "complete"
    /\ job' = IF job = "claimed" THEN "done" ELSE job
    /\ exec' = "over"
    /\ UNCHANGED <<projection, walk, bodies, flags, crashes, withdrawn, failures>>

(***************************************************************************)
(* The operator.                                                           *)
(***************************************************************************)

\* n has not passed its cancel gate in this walk.
BeforeGate(n) ==
    \/ node[n] = "waiting"
    \/ node[n] = "running" /\ step[n] \in {"pause", "cancel"}

\* The rows that a verb has just turned to canceled.
Withdrawn == {n \in Tasks : /\ taskRow[n] # "canceled"
                            /\ taskRow'[n] = "canceled"
                            /\ BeforeGate(n)}

\* POST /v1/runs/{id}/cancel; PushControl finds no stream.
Cancel ==
    /\ job \in {"pending", "claimed"}
    /\ job' = "canceled"
    /\ CancelRows
    /\ withdrawn' = withdrawn \union Withdrawn
    /\ UNCHANGED <<walk, exec, bodies, flags, crashes, failures>>

\* downstreamTasks: everything that depends on t, but for t itself.
Downstream(t) ==
    {m \in Tasks \ {t} :
       \A S \in SUBSET Tasks :
          /\ Walk!Dependents(t) \subseteq S
          /\ \A n \in S : Walk!Dependents(n) \subseteq S
          => m \in S}

\* computeCascade: nothing when the schedule has left the config.
CancelTask(t) ==
    /\ runRow # "absent"
    /\ \E cascade \in {Downstream(t), {}} : CancelTaskRows(t, cascade)
    /\ withdrawn' = withdrawn \union Withdrawn
    /\ UNCHANGED <<walk, job, exec, bodies, flags, crashes, failures>>

\* Pause and drain, or their reverse.
SetBlocked(b) ==
    /\ blocked # b
    /\ blocked' = b
    /\ UNCHANGED <<projection, walk, job, exec, bodies, skipFlags, crashes,
                   withdrawn, failures>>

\* Skip a task of the schedule, or stop skipping it.
ToggleSkip(n) ==
    /\ skipFlags' = IF n \in skipFlags THEN skipFlags \ {n}
                                       ELSE skipFlags \union {n}
    /\ UNCHANGED <<projection, walk, job, exec, bodies, blocked, crashes,
                   withdrawn, failures>>

(***************************************************************************)
(* Crash and restart.                                                      *)
(***************************************************************************)

\* The walk starts over.
ResetWalk ==
    /\ UNCHANGED <<deps, continueOnFailure>>
    /\ inDegree' = [n \in Tasks |-> Cardinality(deps[n])]
    /\ node' = [n \in Tasks |-> "waiting"]
    /\ failed' = {}
    /\ firstErr' = FALSE
    /\ done' = << >>
    /\ running' = 0
    /\ loop' = "begin"
    /\ todo' = {}
    /\ step' = [n \in Tasks |-> "pause"]
    /\ tries' = [n \in Tasks |-> 0]

\* The process dies on the job and comes back with the store it had.  The
\* reaper gives a claim back once it lapses; a canceled job is nobody's.
Crash ==
    /\ crashes + errors < MaxFaults
    /\ crashes' = crashes + 1
    /\ exec \in {"claimed", "walking", "complete"}
    /\ job' = IF job = "claimed" THEN "pending" ELSE job
    /\ exec' = IF job = "claimed" THEN "waiting" ELSE "dead"
    /\ ResetWalk
    /\ UNCHANGED <<projection, flags, withdrawn, failures>>

Body(n) ==
    \/ PauseGate(n)
    \/ CancelGate(n)
    \/ SkipGate(n)
    \/ Unprepared(n)
    \/ StartAttempt(n)
    \/ \E ok \in BOOLEAN : EndAttempt(n, ok)
    \/ AgentSetupFails(n)

Run == Claim \/ ScheduleStart \/ WalkStep \/ ScheduleComplete \/ Ack

Operator ==
    \/ Cancel
    \/ \E b \in BOOLEAN : SetBlocked(b)
    \/ \E n \in Tasks : CancelTask(n) \/ ToggleSkip(n)

Next ==
    \/ Run
    \/ \E n \in Tasks : Body(n)
    \/ Operator
    \/ Crash

Spec == Init /\ [][Next]_vars

\* The worker and the task goroutines run, and tasks end.  No failure of the
\* store is owed to a task that waits at its pause gate.
Fairness ==
    /\ WF_vars(Run)
    /\ \A n \in Tasks : WF_vars(Body(n) /\ UNCHANGED errors)

FairSpec == Spec /\ Fairness

-----------------------------------------------------------------------------
(***************************************************************************)
(* Properties.                                                             *)
(***************************************************************************)

\* A run shows as succeeded only if each of its tasks shows as succeeded, or
\* was skipped or canceled by an operator: no failure, no task below one and
\* no task in a cycle hides behind a success, and a restart undoes neither.
\* Only an event that the sink dropped leaves another row under a success.
SucceededMeansDone ==
    runRow = "succeeded" /\ ~dropped =>
        \A n \in Tasks : taskRow[n] \in {"succeeded", "skipped", "canceled"}

\* A task whose row was canceled before the walker came to it never runs,
\* also when the process dies and another walk follows, unless the gate could
\* not read that row; and that needs a failure of the store for every such
\* task.
WithdrawnNeverStarts ==
    /\ \A n \in withdrawn \ unread : tries[n] = 0
    /\ Cardinality(unread) <= errors

\* Unless it stays paused or drained, the run is closed in the end, and so is
\* its job.  A process that dies on a canceled run may leave the run's row
\* behind, and so does a dropped event; the job is closed all the same.
RunCloses ==
    <>[]~blocked =>
        <>[](/\ job \in {"done", "canceled"}
             /\ \/ runRow \in Final
                \/ runRow = "absent"
                \/ exec = "dead"
                \/ dropped)

\* docs/design-state-plane.md:446, on stopping a run: "Tasks not yet started
\* in the same DAG are skipped."  Once the run is canceled, no task passes the
\* gate that is there to skip it.
CancelStopsTheRun ==
    [][\A n \in Tasks :
         job = "canceled" /\ At(n, "cancel") => step'[n] # "skip"]_vars

=============================================================================
