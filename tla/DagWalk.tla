------------------------------ MODULE DagWalk ------------------------------
(***************************************************************************)
(* walkDAG (internal/cronicle/dag.go): one goroutine per task, a main loop *)
(* that counts dependencies down, and a channel from the goroutines to the *)
(* loop, to which the loop itself also sends the tasks it skips.           *)
(*                                                                         *)
(* What a task does is left open here: its function returns, with an error *)
(* or without.  LocalRun fills it in.                                      *)
(***************************************************************************)
EXTENDS Naturals, Sequences, FiniteSets

CONSTANTS
    Tasks,    \* the task names of the schedule
    Unknown,  \* a name in a depends list that is no task of the schedule
    Graphs    \* the deps maps to walk: task -> what it depends on

ASSUME WalkAssumption ==
    /\ IsFiniteSet(Tasks)
    /\ Unknown \notin Tasks
    /\ Graphs \subseteq [Tasks -> SUBSET (Tasks \union {Unknown})]

VARIABLES
    deps,               \* the parameter of the same name
    continueOnFailure,  \* the tasks with that flag
    inDegree,           \* inDegree[n]: dependencies of n not seen done
    node,               \* node[n]: how far n and its goroutine are
    failed,             \* the failed map
    firstErr,           \* whether some function returned an error
    done,               \* the channel: a sequence of tasks
    running,            \* the main loop's counter
    loop,               \* where the main loop is
    todo                \* dependents of the last completed task to visit

input == <<deps, continueOnFailure>>
walk == <<input, inDegree, node, failed, firstErr, done, running, loop, todo>>

Dependents(n) == {m \in Tasks : n \in deps[m]}

\* The buffer of the channel.
Capacity == Cardinality(Tasks)

Init ==
    /\ deps \in Graphs
    /\ continueOnFailure \in SUBSET Tasks
    /\ inDegree = [n \in Tasks |-> Cardinality(deps[n])]
    /\ node = [n \in Tasks |-> "waiting"]
    /\ failed = {}
    /\ firstErr = FALSE
    /\ done = << >>
    /\ running = 0
    /\ loop = "begin"
    /\ todo = {}

\* The tasks without dependencies are launched.
Begin ==
    /\ loop = "begin"
    /\ LET roots == {n \in Tasks : inDegree[n] = 0} IN
         /\ node' = [n \in Tasks |-> IF n \in roots THEN "running"
                                                     ELSE node[n]]
         /\ running' = Cardinality(roots)
    /\ loop' = "receive"
    /\ UNCHANGED <<input, inDegree, failed, firstErr, done, todo>>

\* The function of n returns.  An error is on record before n is done.
Return(n, ok) ==
    /\ node[n] = "running"
    /\ node' = [node EXCEPT ![n] = "returned"]
    /\ failed' = IF ok THEN failed ELSE failed \union {n}
    /\ firstErr' = (firstErr \/ ~ok)
    /\ UNCHANGED <<input, inDegree, done, running, loop, todo>>

\* The goroutine of n sends its name, once the channel has room.
Send(n) ==
    /\ node[n] = "returned"
    /\ Len(done) < Capacity
    /\ node' = [node EXCEPT ![n] = "sent"]
    /\ done' = Append(done, n)
    /\ UNCHANGED <<input, inDegree, failed, firstErr, running, loop, todo>>

\* The main loop takes the next completed task.
Receive ==
    /\ loop = "receive"
    /\ running > 0
    /\ done # << >>
    /\ done' = Tail(done)
    /\ running' = running - 1
    /\ todo' = Dependents(Head(done))
    /\ loop' = IF todo' = {} THEN "receive" ELSE "visit"
    /\ UNCHANGED <<input, inDegree, node, failed, firstErr>>

\* Seeded fault: the opt-out is not looked at.
FailedDepsOfAnyone(n) == deps[n] \intersect failed

\* The dependencies that keep n from running.
FailedDeps(n) == IF n \in continueOnFailure THEN {} ELSE deps[n] \intersect failed

Launch(n) ==
    /\ node' = [node EXCEPT ![n] = "running"]
    /\ running' = running + 1
    /\ UNCHANGED <<failed, done>>

\* Seeded fault: a skipped task is sent but not counted.
SkipUncounted(n) ==
    /\ Len(done) < Capacity
    /\ node' = [node EXCEPT ![n] = "skipped"]
    /\ failed' = failed \union {n}
    /\ done' = Append(done, n)
    /\ UNCHANGED running

\* Seeded fault: a skipped task is counted but not sent.
SkipUnsent(n) ==
    /\ node' = [node EXCEPT ![n] = "skipped"]
    /\ failed' = failed \union {n}
    /\ running' = running + 1
    /\ UNCHANGED done

\* The loop marks n failed and sends it to itself, without a goroutine.
Skip(n) ==
    /\ Len(done) < Capacity
    /\ node' = [node EXCEPT ![n] = "skipped"]
    /\ failed' = failed \union {n}
    /\ running' = running + 1
    /\ done' = Append(done, n)

\* Seeded fault: n is ready as soon as one dependency is done.
ReadyEarly(n) == node[n] = "waiting"

\* The dependency that was just counted down was the last one of n.
Ready(n) == inDegree[n] = 1

\* The loop counts one dependency of n down.
Visit(n) ==
    /\ loop = "visit"
    /\ n \in todo
    /\ inDegree' = [inDegree EXCEPT ![n] = @ - 1]
    /\ todo' = todo \ {n}
    /\ loop' = IF todo' = {} THEN "receive" ELSE "visit"
    /\ CASE ~Ready(n)                      -> UNCHANGED <<node, failed, running, done>>
         [] Ready(n) /\ FailedDeps(n) = {} -> Launch(n)
         [] Ready(n) /\ FailedDeps(n) # {} -> Skip(n)
    /\ UNCHANGED <<input, firstErr>>

\* Nothing is running any more.
End ==
    /\ loop = "receive"
    /\ running = 0
    /\ loop' = "ended"
    /\ UNCHANGED <<input, inDegree, node, failed, firstErr, done, running, todo>>

\* Seeded fault: no check for tasks that were never reached.
VerdictUnchecked == IF firstErr THEN "failed" ELSE "ok"

\* What walkDAG returns.  The cycle error goes ahead of the first error.
Verdict ==
    CASE \E n \in Tasks : inDegree[n] > 0 -> "cycle"
      [] firstErr /\ \A n \in Tasks : inDegree[n] = 0 -> "failed"
      [] OTHER -> "ok"

\* The walk without what the tasks do.
Step ==
    \/ Begin
    \/ Receive
    \/ End
    \/ \E n \in Tasks : Send(n) \/ Visit(n)

Next == Step \/ \E n \in Tasks, ok \in BOOLEAN : Return(n, ok)

Spec == Init /\ [][Next]_walk

\* Goroutines and the loop run when they can, and task functions return.
WalkFairness ==
    /\ WF_walk(Begin)
    /\ WF_walk(Receive)
    /\ WF_walk(\E n \in Tasks : Visit(n))
    /\ WF_walk(End)
    /\ \A n \in Tasks : WF_walk(Send(n))

FairSpec ==
    /\ Spec
    /\ WalkFairness
    /\ \A n \in Tasks : WF_walk(\E ok \in BOOLEAN : Return(n, ok))

-----------------------------------------------------------------------------
(***************************************************************************)
(* Properties.                                                             *)
(***************************************************************************)

Settled == {n \in Tasks : node[n] \in {"sent", "skipped"}}

\* No task starts, and none is skipped, before all its dependencies are
\* settled, whatever the order in which the goroutines finish.
DependenciesFirst ==
    \A n \in Tasks : node[n] # "waiting" => deps[n] \subseteq Settled

\* README.md:262: the dependents of a failed task are skipped.  A failure
\* reaches exactly the tasks it has to: none runs below a failed dependency
\* unless it opted out, and none is skipped without one.
CascadeIsExact ==
    \A n \in Tasks :
        /\ node[n] \in {"running", "returned", "sent"} => FailedDeps(n) = {}
        /\ node[n] = "skipped" =>
             n \notin continueOnFailure /\ deps[n] \intersect failed # {}

\* n is on a cycle, names an unknown task, or depends on one that does.
Unreachable(n) ==
    \E S \in SUBSET Tasks :
        /\ n \in S
        /\ \A m \in S : Unknown \in deps[m] \/ deps[m] \intersect S # {}

\* When the walk ends no goroutine is left and nothing is in the channel,
\* every task that can be reached was settled, and no other was touched.
NothingLeftBehind ==
    loop = "ended" =>
        /\ done = << >>
        /\ Settled = {n \in Tasks : ~Unreachable(n)}
        /\ \A n \in Tasks \ Settled : node[n] = "waiting"

\* The walk reports a cycle exactly for the graphs that have one, or that name
\* an unknown task, and success exactly when no task failed or was skipped.
VerdictIsRight ==
    loop = "ended" =>
        /\ Verdict = "cycle" <=> \E n \in Tasks : Unreachable(n)
        /\ Verdict = "ok" => failed = {} /\ Settled = Tasks

\* The walk ends, on every graph: the loop never blocks on its own channel
\* and never waits for a task that nobody launched.
WalkEnds == <>(loop = "ended")

=============================================================================
