----------------------------- MODULE RetryChain -----------------------------
(***************************************************************************)
(* What a run is made of when it is triggered or fired again: the payloads *)
(* that the trigger verbs build (listen.go) and the ones that Retry,       *)
(* RetryFailed and RetryTask derive from an earlier run's payload and rows *)
(* (state/control.go), over any number of generations.                     *)
(*                                                                         *)
(* A payload is a set of tasks and their depends lists.  The walk of a run *)
(* is taken from DagWalk's results: a task runs after its dependencies and *)
(* not after a failed one.  An edit of the config may come between a run   *)
(* and its retry.  Runs share nothing but the config, and a retry of a run *)
(* is the same whenever it is asked for, so the model follows one line of  *)
(* descent: a run, a retry of it, a retry of that one, and so on.          *)
(*                                                                         *)
(* The names differ from those of ConfigReload: ConfigProofs extends both. *)
(***************************************************************************)
EXTENDS Naturals, Sequences, SequencesExt

CONSTANTS
    Order,    \* the tasks of the schedule, in the order of the config
    Graphs    \* the depends lists that a config may have

Tasks == ToSet(Order)

ASSUME ChainAssumption ==
    /\ Order \in Seq(Tasks)
    /\ IsInjective(Order)
    /\ Graphs \subseteq [Tasks -> SUBSET Tasks]

VARIABLES
    graph,    \* the loaded config: task -> what it depends on
    job,      \* the latest run: "none", "open" or "closed"
    payload,  \* its payload: tasks and deps
    row,      \* row[t]: its tasks rows, "absent" without one
    first,    \* history: the payload of the run it resumes by retry-failed,
              \* directly or not; its own when it resumes none
    through   \* history: the tasks that got through in the runs it resumes

chainVars == <<graph, job, payload, row, first, through>>

Done == {"succeeded", "skipped"}

Empty == [tasks |-> {}, deps |-> [t \in Tasks |-> {}]]

ChainInit ==
    /\ graph \in Graphs
    /\ job = "none"
    /\ payload = Empty
    /\ row = [t \in Tasks |-> "absent"]
    /\ first = Empty
    /\ through = {}

(***************************************************************************)
(* The pure part.                                                          *)
(***************************************************************************)

\* Seeded fault: the search stops after the direct dependents.
downstreamDirect(root) == SelectSeq(Order, LAMBDA m : root \in graph[m] /\ m # root)

\* The breadth-first search: its queue, seen and out, and the task of the
\* config that it compares next with the head of the queue.
SearchStates == [queue : Seq(Tasks), seen : SUBSET Tasks, out : Seq(Tasks),
                 next : 1..Len(Order) + 1]

\* One turn of its loops: a child that was not seen is appended to the queue
\* and to the output; after the last child the next task is dequeued.
SearchStep(s) ==
    IF s.next > Len(Order)
    THEN [s EXCEPT !.queue = Tail(@), !.next = 1]
    ELSE LET child == Order[s.next]
         IN  IF Head(s.queue) \in graph[child] /\ child \notin s.seen
             THEN [queue |-> Append(s.queue, child),
                   seen  |-> s.seen \union {child},
                   out   |-> Append(s.out, child),
                   next  |-> s.next + 1]
             ELSE [s EXCEPT !.next = @ + 1]

Search[s \in SearchStates] ==
    IF s.queue = << >> THEN s.out ELSE Search[SearchStep(s)]

SearchFrom(root) == [queue |-> <<root>>, seen |-> {root}, out |-> << >>, next |-> 1]

downstreamTasks(root) == Search[SearchFrom(root)]

\* The head task and its cascade; also computeCascade of the loaded config.
Keep(t) == {t} \union ToSet(downstreamTasks(t))

\* Seeded fault: depends lists are dropped with the tasks.
filterWithoutDepends(p, skip) ==
    [tasks |-> p.tasks \ skip, deps |-> [t \in Tasks |-> {}]]

\* Seeded fault: depends lists are kept as they were.
filterTasksOnly(p, skip) == [tasks |-> p.tasks \ skip, deps |-> p.deps]

\* filterScheduleTasks: the skipped tasks go, and so do references to them.
filterScheduleTasks(p, skip) ==
    [tasks |-> p.tasks \ skip,
     deps |-> [t \in Tasks |-> IF t \in skip THEN {} ELSE p.deps[t] \ skip]]

\* buildSkipFromKeep.
buildSkipFromKeep(p, keep) == p.tasks \ keep

(***************************************************************************)
(* New runs.                                                               *)
(***************************************************************************)

\* The tasks of the latest run that got through.
ThroughNow == {t \in Tasks : row[t] \in Done}

\* A new job with payload p, which must not be empty.
Enqueue(p) ==
    /\ job # "open"
    /\ p.tasks # {}
    /\ job' = "open"
    /\ payload' = p
    /\ row' = [t \in Tasks |-> IF t \in p.tasks THEN "queued" ELSE "absent"]
    /\ UNCHANGED graph

\* It resumes nothing.
Afresh(p) ==
    /\ Enqueue(p)
    /\ first' = p
    /\ through' = {}

Live == [tasks |-> Tasks, deps |-> graph]

triggerSchedule == Afresh(Live)

triggerTask(t) == Afresh([Empty EXCEPT !.tasks = {t}])

triggerSubgraph(t) == Afresh(filterScheduleTasks(Live, Tasks \ Keep(t)))

\* The payload again, under a new run id.
Retry ==
    /\ job = "closed"
    /\ Afresh(payload)

\* Seeded fault: only the tasks that ran and failed are fired again.
AlreadyDoneUnlessFailed == {t \in Tasks : row[t] # "failed"}

\* The tasks that RetryFailed leaves out.
AlreadyDone == {t \in Tasks : row[t] = "succeeded"}

RetryFailed ==
    /\ job = "closed"
    /\ Enqueue(filterScheduleTasks(payload, AlreadyDone))
    /\ through' = through \union ThroughNow
    /\ UNCHANGED first

\* The cascade is the one of the config as it is now.
RetryTask(t) ==
    /\ job = "closed"
    /\ row[t] # "absent"
    /\ Afresh(filterScheduleTasks(payload, buildSkipFromKeep(payload, Keep(t))))

(***************************************************************************)
(* Running it.                                                             *)
(***************************************************************************)

SetRow(t, s) ==
    /\ row' = [row EXCEPT ![t] = s]
    /\ UNCHANGED <<graph, job, payload, first, through>>

\* The dependencies of t in its run, known to the walk, are through.
Ready(t) ==
    /\ job = "open"
    /\ row[t] = "queued"
    /\ payload.deps[t] \subseteq ThroughNow

TaskStart(t) == Ready(t) /\ SetRow(t, "running")

TaskSkipped(t) == Ready(t) /\ SetRow(t, "skipped")

TaskTerminal(t, ok) ==
    /\ row[t] = "running"
    /\ SetRow(t, IF ok THEN "succeeded" ELSE "failed")

\* The walk ends: what is still queued was skipped for a failed dependency,
\* and its rows stay as they are.
Complete ==
    /\ job = "open"
    /\ \A t \in Tasks : row[t] # "running" /\ ~Ready(t)
    /\ job' = "closed"
    /\ UNCHANGED <<graph, payload, row, first, through>>

\* POST /v1/runs/{id}/cancel: a skipped row is turned to canceled too.
Cancel ==
    /\ job = "open"
    /\ job' = "closed"
    /\ row' = [t \in Tasks |->
                 IF row[t] \in {"queued", "running", "skipped"} THEN "canceled"
                                                                ELSE row[t]]
    /\ UNCHANGED <<graph, payload, first, through>>

\* The config is edited and reloaded.
EditDepends(g) ==
    /\ g # graph
    /\ graph' = g
    /\ UNCHANGED <<job, payload, row, first, through>>

ChainNext ==
    \/ triggerSchedule
    \/ Retry \/ RetryFailed \/ Complete \/ Cancel
    \/ \E t \in Tasks :
         \/ triggerTask(t)
         \/ triggerSubgraph(t)
         \/ RetryTask(t)
         \/ TaskStart(t)
         \/ TaskSkipped(t)
         \/ \E ok \in BOOLEAN : TaskTerminal(t, ok)
    \/ \E g \in Graphs : EditDepends(g)

ChainSpec == ChainInit /\ [][ChainNext]_chainVars

-----------------------------------------------------------------------------
(***************************************************************************)
(* Properties.                                                             *)
(***************************************************************************)

\* The search agrees with what it is meant to find: the tasks that depend on
\* root, directly or through others.
CascadeIsReachability ==
    \A root \in Tasks :
        ToSet(downstreamTasks(root)) =
        {m \in Tasks \ {root} :
           \A S \in SUBSET Tasks :
              (\A n \in Tasks : graph[n] \intersect ({root} \union S) # {} => n \in S)
              => m \in S}

\* Every payload is one that the walk gets through, whichever verbs built it
\* and whatever the config said in the meantime: no task waits for one that
\* was filtered out.
NoPhantomDepends ==
    \A t \in payload.tasks : payload.deps[t] \subseteq payload.tasks

\* Retry-failed keeps the order of the first run's DAG although it strips
\* depends lists: a task starts when everything it depended on there has got
\* through, in this run or in one it resumes.
ResumedInOrder ==
    \A t \in Tasks :
        row[t] = "running" => first.deps[t] \subseteq through \union ThroughNow

\* Retry-failed leaves nothing out: when all of a resumed run got through,
\* every task of the first run has got through in one of the runs, those that
\* never ran because of a failed dependency included.
ResumedCompletes ==
    payload.tasks \subseteq ThroughNow
    => first.tasks \subseteq through \union ThroughNow

=============================================================================
