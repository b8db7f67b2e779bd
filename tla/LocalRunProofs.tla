--------------------------- MODULE LocalRunProofs ---------------------------
(***************************************************************************)
(* Proofs about LocalRun, for every finite set of tasks and every deps map *)
(* on it, any retry counts and any number of crashes and failures of the   *)
(* store.  What walkDAG does comes from DagWalkProofs, instantiated with   *)
(* the walk of this run.                                                   *)
(***************************************************************************)
EXTENDS LocalRun, FiniteSetTheorems, TLAPS

Proved == INSTANCE DagWalkProofs

\* Where the function of a task may be.
Places == {"pause", "cancel", "skip", "execute", "attempt", "retry"}

\* The types of what the properties look at, but for the walk.
Types ==
    /\ runRow \in Statuses
    /\ taskRow \in [Tasks -> Statuses]
    /\ exec \in {"waiting", "claimed", "walking", "complete", "over", "dead"}
    /\ step \in [Tasks -> Places]
    /\ tries \in [Tasks -> Nat]
    /\ withdrawn \subseteq Tasks
    /\ unread \subseteq Tasks
    /\ errors \in Nat
    /\ dropped \in BOOLEAN

\* The walk is one of walkDAG, also after a crash.
WalkOK ==
    /\ deps \in Graphs
    /\ continueOnFailure \in SUBSET Tasks
    /\ Proved!Inv
    /\ Proved!EmptyAtEnd

\* Nothing was launched before the schedule_start event.
NotYetOK == exec \in {"waiting", "claimed"} => \A n \in Tasks : node[n] = "waiting"

\* While it walks, the run is running or canceled: schedule_start has undone
\* whatever an earlier walk had left in its row, unless it was dropped.
RunRowOK == exec = "walking" /\ ~dropped => runRow \in {"running", "canceled"}

\* What counts as done when the run succeeds.
GotThrough == {"succeeded", "skipped", "canceled"}

\* The rows of the tasks that returned without an error, when none of their
\* events was dropped.
RowsOK ==
    ~dropped => \A n \in Tasks :
        node[n] \in {"returned", "sent"} /\ n \notin failed => taskRow[n] \in GotThrough

\* The attempts of a task begin with its execution.
BodiesOK ==
    \A n \in Tasks :
        /\ node[n] = "waiting" => step[n] = "pause" /\ tries[n] = 0
        /\ node[n] = "running" /\ step[n] \notin {"attempt", "retry"} => tries[n] = 0

\* A withdrawn task keeps its canceled row, and stays in front of the gate that
\* reads it until it returns there, or the gate cannot read it.
WithdrawnOK ==
    \A n \in withdrawn \ unread :
        /\ taskRow[n] = "canceled"
        /\ tries[n] = 0
        /\ node[n] = "running" => step[n] \in {"pause", "cancel"}

\* Every row that a gate could not read is a failure of the store.
UnreadOK == Cardinality(unread) <= errors

\* The inductive invariant.
Inv ==
    /\ Types
    /\ WalkOK
    /\ NotYetOK
    /\ RunRowOK
    /\ RowsOK
    /\ BodiesOK
    /\ WithdrawnOK
    /\ UnreadOK
    /\ SucceededMeansDone

-----------------------------------------------------------------------------
(***************************************************************************)
(* The walk inside the run.                                                *)
(***************************************************************************)

\* The walk's constants are as its proofs need them.
LEMMA WalkConstants == Proved!WalkAssumption
<1>1. Proved!IsFiniteSet(Tasks)
  BY LocalAssumption DEF Proved!IsFiniteSet, IsFiniteSet
<1> QED
  BY <1>1, LocalAssumption DEF Proved!WalkAssumption

\* LocalRun and the proofs speak of the same walk.
LEMMA SameWalk ==
    /\ Walk!Step => Proved!Step
    /\ \A n \in Tasks, ok \in BOOLEAN : Walk!Return(n, ok) => Proved!Return(n, ok)
    /\ Walk!Verdict = Proved!Verdict
    /\ Walk!Init => Proved!Init
<1> USE DEF Walk!input, Proved!input
<1>0. ASSUME NEW S PROVE /\ Walk!Cardinality(S) = Proved!Cardinality(S)
                         /\ Walk!Cardinality(S) = Cardinality(S)
  BY DEF Walk!Cardinality, Proved!Cardinality, Cardinality
<1>1. Walk!Begin => Proved!Begin
  BY <1>0 DEF Walk!Begin, Proved!Begin
<1>2. Walk!Receive => Proved!Receive
  BY DEF Walk!Receive, Proved!Receive, Walk!Dependents, Proved!Dependents
<1>3. Walk!End => Proved!End
  BY DEF Walk!End, Proved!End
<1>4. Walk!Capacity = Proved!Capacity
  BY <1>0 DEF Walk!Capacity, Proved!Capacity
<1>5. ASSUME NEW n \in Tasks, Walk!Send(n) PROVE Proved!Send(n)
  BY <1>4, <1>5 DEF Walk!Send, Proved!Send
<1>6. ASSUME NEW n \in Tasks, Walk!Visit(n) PROVE Proved!Visit(n)
  BY <1>4, <1>6 DEF Walk!Visit, Proved!Visit, Walk!Ready, Proved!Ready,
     Walk!FailedDeps, Proved!FailedDeps, Walk!Launch, Proved!Launch, Walk!Skip,
     Proved!Skip
<1>7. Walk!Step => Proved!Step
  BY <1>1, <1>2, <1>3, <1>5, <1>6 DEF Walk!Step, Proved!Step
<1>8. ASSUME NEW n \in Tasks, NEW ok \in BOOLEAN, Walk!Return(n, ok)
      PROVE  Proved!Return(n, ok)
  BY <1>8 DEF Walk!Return, Proved!Return
<1>9. Walk!Verdict = Proved!Verdict
  BY DEF Walk!Verdict, Proved!Verdict
<1>10. Walk!Init => Proved!Init
  BY <1>0 DEF Walk!Init, Proved!Init
<1> QED
  BY <1>7, <1>8, <1>9, <1>10

\* A walk that begins is one of walkDAG.
LEMMA NewWalk == Proved!Init => WalkOK
<1>1. Proved!Init => Proved!Inv
  BY WalkConstants, Proved!InitInv
<1>2. Proved!Init => Proved!EmptyAtEnd
  BY DEF Proved!Init, Proved!EmptyAtEnd
<1>3. Proved!Init => deps \in Graphs /\ continueOnFailure \in SUBSET Tasks
  BY DEF Proved!Init
<1> QED
  BY <1>1, <1>2, <1>3 DEF WalkOK

\* So is the one after a crash.
LEMMA NextWalk == ASSUME WalkOK, ResetWalk PROVE WalkOK'
<1>1. Proved!Init' => WalkOK'
  BY NewWalk, PTL
<1>2. ASSUME NEW S PROVE Proved!Cardinality(S) = Cardinality(S)
  BY DEF Proved!Cardinality, Cardinality
<1>3. Proved!Init'
  BY <1>2 DEF WalkOK, ResetWalk, Proved!Init
<1> QED
  BY <1>1, <1>3

\* A step of the walk, a return of a task and a step elsewhere keep it one.
LEMMA WalkKept ==
    ASSUME WalkOK,
           \/ Walk!Step
           \/ \E n \in Tasks, ok \in BOOLEAN : Walk!Return(n, ok)
           \/ UNCHANGED walk
    PROVE  WalkOK'
<1>1. [Proved!Next]_(Proved!walk)
  BY SameWalk DEF Proved!Next, Proved!walk, Proved!input, walk
<1>2. Proved!Inv'
  BY <1>1, WalkConstants, Proved!WalkKeepsInv DEF WalkOK
<1>3. Proved!EmptyAtEnd'
  BY <1>1, WalkConstants, Proved!WalkKeepsEmptyAtEnd DEF WalkOK
<1>4. UNCHANGED <<deps, continueOnFailure>>
  BY DEF Walk!Step, Walk!Begin, Walk!Receive, Walk!End, Walk!Send, Walk!Visit,
         Walk!Return, Walk!input, walk
<1> QED
  BY <1>2, <1>3, <1>4 DEF WalkOK

\* The types of the walk that the proofs below need.
LEMMA WalkTypes ==
    ASSUME WalkOK
    PROVE  /\ node \in [Tasks -> {"waiting", "running", "returned", "sent", "skipped"}]
           /\ failed \subseteq Tasks
  BY DEF WalkOK, Proved!Inv, Proved!Types

\* After a walk whose verdict is ok, every task has returned without an error.
LEMMA OkMeansReturned ==
    ASSUME WalkOK, loop = "ended", Walk!Verdict = "ok"
    PROVE  \A n \in Tasks : node[n] = "sent" /\ n \notin failed
<1>1. Proved!VerdictIsRight
  BY WalkConstants, Proved!VerdictAtEnd DEF WalkOK
<1>2. failed = {} /\ Proved!Settled = Tasks
  BY <1>1, SameWalk DEF Proved!VerdictIsRight
<1>3. ASSUME NEW n \in Tasks PROVE node[n] # "skipped"
  BY <1>2 DEF WalkOK, Proved!Inv, Proved!CascadeIsExact
<1> QED
  BY <1>2, <1>3 DEF Proved!Settled

-----------------------------------------------------------------------------
(***************************************************************************)
(* The steps of the run.                                                   *)
(***************************************************************************)

\* What a step may do to the counts and the history of failures.
FailuresGo ==
    /\ unread \subseteq unread' /\ unread' \subseteq Tasks
    /\ errors' \in Nat
    /\ dropped' \in BOOLEAN
    /\ dropped => dropped'
    /\ UnreadOK'

LEMMA NothingFails == ASSUME Inv, UNCHANGED failures PROVE FailuresGo
  BY DEF Inv, Types, UnreadOK, failures, FailuresGo

\* An event is dropped, or a flag cannot be read.
LEMMA FailureCounts ==
    ASSUME Inv, StoreFails, UNCHANGED unread, dropped' \in {dropped, TRUE}
    PROVE  FailuresGo
<1>1. IsFiniteSet(unread)
  BY LocalAssumption, FS_Subset DEF Inv, Types
<1>2. Cardinality(unread) \in Nat
  BY <1>1, FS_CardinalityType
<1>3. errors \in Nat /\ errors' = errors + 1 /\ Cardinality(unread) <= errors
  BY DEF Inv, Types, UnreadOK, StoreFails
<1>4. errors' \in Nat /\ UnreadOK'
  BY <1>2, <1>3 DEF UnreadOK
<1>5. dropped' \in BOOLEAN /\ (dropped => dropped')
  BY DEF Inv, Types
<1> QED
  BY <1>4, <1>5 DEF Inv, Types, FailuresGo

\* A canceled row cannot be read.
LEMMA UnreadCounts ==
    ASSUME Inv, NEW n \in Tasks, StoreFails, unread' = unread \union {n},
           UNCHANGED dropped
    PROVE  FailuresGo
<1>1. IsFiniteSet(unread)
  BY LocalAssumption, FS_Subset DEF Inv, Types
<1>2. Cardinality(unread) \in Nat
  BY <1>1, FS_CardinalityType
<1>3. Cardinality(unread') \in {Cardinality(unread), Cardinality(unread) + 1}
  BY <1>1, FS_AddElement
<1>4. errors \in Nat /\ errors' = errors + 1 /\ Cardinality(unread) <= errors
  BY DEF Inv, Types, UnreadOK, StoreFails
<1>5. UnreadOK'
  BY <1>2, <1>3, <1>4 DEF UnreadOK
<1> QED
  BY <1>4, <1>5 DEF Inv, Types, FailuresGo

\* A step of the function of n, seen from the rest of the run: what n leaves
\* behind must fit the invariant.
LEMMA BodyKeeps ==
    ASSUME Inv, WalkOK', Types', NEW n \in Tasks,
           exec = "walking", node[n] = "running",
           UNCHANGED <<exec, runRow, withdrawn>>, FailuresGo,
           \A m \in Tasks \ {n} :
              /\ node'[m] = node[m] /\ step'[m] = step[m] /\ tries'[m] = tries[m]
              /\ taskRow'[m] = taskRow[m]
              /\ m \in failed' <=> m \in failed,
           node'[n] \in {"running", "returned"},
           node'[n] = "returned" /\ n \notin failed' /\ ~dropped' =>
              taskRow'[n] \in GotThrough,
           node'[n] = "running" /\ step'[n] \notin {"attempt", "retry"} => tries'[n] = 0,
           n \in withdrawn \ unread' =>
              /\ taskRow'[n] = "canceled"
              /\ tries'[n] = 0
              /\ node'[n] = "running" => step'[n] \in {"pause", "cancel"}
    PROVE  Inv'
<1> USE DEF Inv, FailuresGo
<1>1. NotYetOK' /\ RunRowOK' /\ UnreadOK'
  BY DEF NotYetOK, RunRowOK
<1>2. RowsOK'
  BY DEF RowsOK
<1>3. BodiesOK'
  BY DEF BodiesOK
<1>4. WithdrawnOK'
  BY DEF WithdrawnOK, Types
<1>5. SucceededMeansDone'
  BY DEF SucceededMeansDone, RunRowOK
<1> QED
  BY <1>1, <1>2, <1>3, <1>4, <1>5

\* What a task's function finds: the run has its row, so that events of the
\* task reach the projection, unless they are dropped.
LEMMA InTheWalk ==
    ASSUME Inv, NEW n \in Tasks, NEW place, At(n, place)
    PROVE  /\ exec = "walking" /\ node[n] = "running" /\ step[n] = place
           /\ ~dropped => runRow # "absent"
           /\ node \in [Tasks -> {"waiting", "running", "returned", "sent", "skipped"}]
           /\ taskRow \in [Tasks -> Statuses]
           /\ step \in [Tasks -> Places]
           /\ tries \in [Tasks -> Nat]
           /\ place \notin {"attempt", "retry"} => tries[n] = 0
           /\ n \in withdrawn \ unread =>
                 /\ taskRow[n] = "canceled" /\ tries[n] = 0
                 /\ place \in {"pause", "cancel"}
<1>1. exec = "walking" /\ node[n] = "running" /\ step[n] = place
  BY DEF At
<1>2. ~dropped => runRow # "absent"
  BY <1>1 DEF Inv, RunRowOK
<1>3. place \notin {"attempt", "retry"} => tries[n] = 0
  BY <1>1 DEF Inv, BodiesOK
<1>4. n \in withdrawn \ unread => /\ taskRow[n] = "canceled" /\ tries[n] = 0
                                  /\ place \in {"pause", "cancel"}
  BY <1>1 DEF Inv, WithdrawnOK
<1> QED
  BY <1>1, <1>2, <1>3, <1>4, WalkTypes DEF Inv, Types

\* A function that goes on to another place, its row kept or changed.
LEMMA GoToKeeps ==
    ASSUME Inv, NEW n \in Tasks, NEW place \in Places,
           exec = "walking", node[n] = "running", GoTo(n, place),
           UNCHANGED <<exec, runRow, withdrawn>>, FailuresGo,
           \/ UNCHANGED taskRow
           \/ \E s \in Statuses : taskRow' = [taskRow EXCEPT ![n] = s],
           \/ UNCHANGED tries /\ (place \in {"attempt", "retry"} \/ tries[n] = 0)
           \/ place = "attempt" /\ tries' = [tries EXCEPT ![n] = @ + 1],
           n \in withdrawn \ unread' =>
              /\ UNCHANGED <<taskRow, tries>>
              /\ place \in {"pause", "cancel"}
    PROVE  Inv'
<1>1. step' = [step EXCEPT ![n] = place] /\ UNCHANGED walk
  BY DEF GoTo
<1>2. WalkOK'
  BY <1>1, WalkKept DEF Inv
<1>3. /\ taskRow \in [Tasks -> Statuses]
      /\ step \in [Tasks -> Places]
      /\ tries \in [Tasks -> Nat]
  BY DEF Inv, Types
<1>4. taskRow' \in [Tasks -> Statuses] /\ \A m \in Tasks \ {n} : taskRow'[m] = taskRow[m]
  BY <1>3
<1>5. tries' \in [Tasks -> Nat] /\ \A m \in Tasks \ {n} : tries'[m] = tries[m]
  BY <1>3
<1>6. Types'
  BY <1>1, <1>3, <1>4, <1>5 DEF Inv, Types, FailuresGo
<1>7. \A m \in Tasks \ {n} :
         /\ node'[m] = node[m] /\ step'[m] = step[m]
         /\ m \in failed' <=> m \in failed
  BY <1>1, <1>3 DEF walk
<1>8. node'[n] = "running" /\ step'[n] = place
  BY <1>1, <1>3 DEF walk
<1>9. place \notin {"attempt", "retry"} => tries'[n] = 0
  OBVIOUS
<1>10. n \in withdrawn \ unread' => taskRow'[n] = "canceled" /\ tries'[n] = 0
  BY DEF Inv, WithdrawnOK, FailuresGo
<1> QED
  BY <1>2, <1>4, <1>5, <1>6, <1>7, <1>8, <1>9, <1>10, BodyKeeps

\* A function that returns: the row of a success is one of GotThrough.
LEMMA ReturnKeeps ==
    ASSUME Inv, NEW n \in Tasks, NEW ok \in BOOLEAN,
           exec = "walking", Walk!Return(n, ok),
           UNCHANGED <<exec, runRow, withdrawn, step, tries>>, FailuresGo,
           \/ UNCHANGED taskRow
           \/ \E s \in Statuses : taskRow' = [taskRow EXCEPT ![n] = s],
           ok /\ ~dropped' => taskRow'[n] \in GotThrough,
           n \in withdrawn \ unread' => UNCHANGED taskRow
    PROVE  Inv'
<1>1. /\ node[n] = "running" /\ node' = [node EXCEPT ![n] = "returned"]
      /\ failed' = IF ok THEN failed ELSE failed \union {n}
  BY DEF Walk!Return
<1>2. WalkOK'
  BY WalkKept DEF Inv
<1>3. /\ taskRow \in [Tasks -> Statuses]
      /\ node \in [Tasks -> {"waiting", "running", "returned", "sent", "skipped"}]
  BY WalkTypes DEF Inv, Types
<1>4. taskRow' \in [Tasks -> Statuses] /\ \A m \in Tasks \ {n} : taskRow'[m] = taskRow[m]
  BY <1>3
<1>5. Types'
  BY <1>4 DEF Inv, Types, FailuresGo
<1>6. \A m \in Tasks \ {n} : node'[m] = node[m] /\ (m \in failed' <=> m \in failed)
  BY <1>1, <1>3
<1>7. node'[n] = "returned"
  BY <1>1, <1>3
<1>8. n \notin failed' /\ ~dropped' => taskRow'[n] \in GotThrough
  BY <1>1
<1>9. n \in withdrawn \ unread' => taskRow'[n] = "canceled" /\ tries'[n] = 0
  BY DEF Inv, WithdrawnOK, FailuresGo
<1> QED
  BY <1>1, <1>2, <1>4, <1>5, <1>6, <1>7, <1>8, <1>9, BodyKeeps

\* Every step of a task's function.
LEMMA BodyStep == ASSUME Inv, NEW n \in Tasks, Body(n) PROVE Inv'
<1> USE DEF Places
<1>1. CASE PauseGate(n)
  <2>1. /\ At(n, "pause") /\ GoTo(n, "cancel")
        /\ UNCHANGED <<projection, exec, tries, withdrawn>>
    BY <1>1 DEF PauseGate
  <2>2. FailuresGo
    BY <1>1, NothingFails, FailureCounts DEF PauseGate
  <2> QED
    BY <2>1, <2>2, InTheWalk, GoToKeeps DEF projection
<1>2. CASE CancelGate(n)
  <2>1. At(n, "cancel") /\ UNCHANGED <<projection, exec, tries, withdrawn>>
    BY <1>2 DEF CancelGate
  <2>2. CASE /\ taskRow[n] = "canceled" /\ Walk!Return(n, TRUE)
             /\ UNCHANGED <<step, failures>>
    BY <2>1, <2>2, InTheWalk, NothingFails, ReturnKeeps DEF projection, GotThrough
  <2>3. CASE taskRow[n] # "canceled" /\ GoTo(n, "skip") /\ UNCHANGED failures
    <3>1. n \notin withdrawn \ unread /\ UNCHANGED unread
      BY <2>1, <2>3, InTheWalk DEF failures
    <3> QED
      BY <2>1, <2>3, <3>1, InTheWalk, NothingFails, GoToKeeps DEF projection
  <2>4. CASE /\ StoreFails /\ unread' = unread \union {n}
             /\ GoTo(n, "skip") /\ UNCHANGED dropped
    <3>1. FailuresGo
      BY <2>4, UnreadCounts
    <3>2. n \notin withdrawn \ unread'
      BY <2>4
    <3> QED
      BY <2>1, <2>4, <3>1, <3>2, InTheWalk, GoToKeeps DEF projection
  <2> QED
    BY <1>2, <2>2, <2>3, <2>4 DEF CancelGate, IsTaskCanceledInRun
<1>3. CASE SkipGate(n)
  <2>1. At(n, "skip") /\ UNCHANGED <<exec, tries, withdrawn>>
    BY <1>3 DEF SkipGate
  <2>2. /\ n \notin withdrawn \ unread /\ taskRow \in [Tasks -> Statuses]
        /\ ~dropped => runRow # "absent"
    BY <2>1, InTheWalk
  <2>3. CASE /\ Walk!Return(n, TRUE) /\ UNCHANGED step
             /\ applyTaskSkipped(n) /\ UNCHANGED failures
    <3>1. /\ UNCHANGED runRow
          /\ taskRow' = taskRow \/ taskRow' = [taskRow EXCEPT ![n] = "skipped"]
          /\ ~dropped => taskRow'[n] = "skipped"
      BY <2>2, <2>3 DEF applyTaskSkipped, SetTask
    <3>2. FailuresGo /\ UNCHANGED <<unread, dropped>>
      BY <2>3, NothingFails DEF failures
    <3>3. /\ "skipped" \in Statuses
          /\ ~dropped' => taskRow'[n] \in GotThrough
          /\ n \notin withdrawn \ unread'
      BY <2>2, <3>1, <3>2 DEF Statuses, GotThrough
    <3> QED
      BY <2>1, <2>3, <3>1, <3>2, <3>3, InTheWalk, ReturnKeeps
  <2>4. CASE /\ Walk!Return(n, TRUE) /\ UNCHANGED step
             /\ StoreFails /\ dropped' = TRUE /\ UNCHANGED <<projection, unread>>
    <3>1. FailuresGo /\ n \notin withdrawn \ unread'
      BY <2>2, <2>4, FailureCounts
    <3> QED
      BY <2>1, <2>4, <3>1, InTheWalk, ReturnKeeps DEF projection
  <2>5. CASE GoTo(n, "execute") /\ UNCHANGED <<projection, failures>>
    <3>1. FailuresGo /\ n \notin withdrawn \ unread'
      BY <2>2, <2>5, NothingFails DEF failures
    <3> QED
      BY <2>1, <2>5, <3>1, InTheWalk, GoToKeeps DEF projection
  <2>6. CASE StoreFails /\ GoTo(n, "execute") /\ UNCHANGED <<projection, unread, dropped>>
    <3>1. FailuresGo /\ n \notin withdrawn \ unread'
      BY <2>2, <2>6, FailureCounts
    <3> QED
      BY <2>1, <2>6, <3>1, InTheWalk, GoToKeeps DEF projection
  <2> QED
    BY <1>3, <2>3, <2>4, <2>5, <2>6 DEF SkipGate, Logged
<1>4. CASE Unprepared(n)
  <2>1. /\ At(n, "execute") /\ Walk!Return(n, FALSE)
        /\ UNCHANGED <<projection, exec, bodies, withdrawn, failures>>
    BY <1>4 DEF Unprepared
  <2> QED
    BY <2>1, InTheWalk, NothingFails, ReturnKeeps DEF projection, bodies
<1>5. CASE StartAttempt(n)
  <2>1. /\ At(n, "execute") \/ At(n, "retry")
        /\ Logged(applyTaskStart(n))
        /\ tries' = [tries EXCEPT ![n] = @ + 1]
        /\ GoTo(n, "attempt")
        /\ UNCHANGED <<exec, withdrawn>>
    BY <1>5 DEF StartAttempt
  <2>2. n \notin withdrawn \ unread /\ exec = "walking" /\ node[n] = "running"
    BY <2>1, InTheWalk
  <2>3. FailuresGo /\ UNCHANGED <<unread, runRow>>
    BY <2>1, NothingFails, FailureCounts
       DEF Logged, failures, projection, applyTaskStart, SetTask
  <2>4. /\ taskRow' = taskRow \/ taskRow' = [taskRow EXCEPT ![n] = "running"]
        /\ "running" \in Statuses
    BY <2>1 DEF Logged, projection, applyTaskStart, SetTask, Statuses
  <2> QED
    BY <2>1, <2>2, <2>3, <2>4, GoToKeeps
<1>6. ASSUME NEW ok \in BOOLEAN, At(n, "attempt"), AfterAttempt(n, ok),
             UNCHANGED <<exec, tries, withdrawn, runRow, unread>>, FailuresGo,
             \/ UNCHANGED taskRow
             \/ \E s \in Statuses : taskRow' = [taskRow EXCEPT ![n] = s],
             ok /\ ~dropped' => taskRow'[n] \in GotThrough
      PROVE  Inv'
  <2>1. n \notin withdrawn \ unread' /\ exec = "walking" /\ node[n] = "running"
    BY <1>6, InTheWalk
  <2>2. CASE ~ok /\ TriesLeft(n)
    <3>1. GoTo(n, "retry")
      BY <1>6, <2>2 DEF AfterAttempt
    <3> QED
      BY <1>6, <2>1, <3>1, GoToKeeps
  <2>3. CASE ~(~ok /\ TriesLeft(n))
    <3>1. Walk!Return(n, ok) /\ UNCHANGED step
      BY <1>6, <2>3 DEF AfterAttempt
    <3> QED
      BY <1>6, <2>1, <3>1, ReturnKeeps
  <2> QED
    BY <2>2, <2>3
<1>7. CASE \E ok \in BOOLEAN : EndAttempt(n, ok)
  <2>1. PICK ok \in BOOLEAN : EndAttempt(n, ok)
    BY <1>7
  <2>2. /\ At(n, "attempt") /\ AfterAttempt(n, ok)
        /\ UNCHANGED <<exec, tries, withdrawn>>
        /\ Logged(applyTaskTerminal(n, ok))
    BY <2>1 DEF EndAttempt
  <2>3. CASE applyTaskTerminal(n, ok) /\ UNCHANGED failures
    <3>1. (~dropped => runRow # "absent") /\ taskRow \in [Tasks -> Statuses]
      BY <2>2, InTheWalk
    <3> DEFINE s == IF taskRow[n] = "canceled" THEN "canceled" ELSE Outcome(ok)
    <3>2. /\ taskRow' = taskRow \/ taskRow' = [taskRow EXCEPT ![n] = s]
          /\ ~dropped => taskRow' = [taskRow EXCEPT ![n] = s]
          /\ UNCHANGED runRow
      BY <2>3, <3>1 DEF applyTaskTerminal, SetTask
    <3>3. s \in Statuses /\ (ok => s \in GotThrough)
      BY DEF Statuses, Final, Outcome, GotThrough
    <3>4. ~dropped => taskRow'[n] = s
      BY <3>1, <3>2
    <3>5. FailuresGo /\ UNCHANGED <<unread, dropped>>
      BY <2>3, NothingFails DEF failures
    <3> HIDE DEF s
    <3> QED
      BY <1>6, <2>2, <3>2, <3>3, <3>4, <3>5
  <2>4. CASE StoreFails /\ dropped' = TRUE /\ UNCHANGED <<projection, unread>>
    BY <1>6, <2>2, <2>4, FailureCounts DEF projection
  <2> QED
    BY <2>2, <2>3, <2>4 DEF Logged
<1>8. CASE AgentSetupFails(n)
  <2>1. /\ At(n, "attempt") /\ AfterAttempt(n, FALSE)
        /\ UNCHANGED <<projection, exec, tries, withdrawn, failures>>
    BY <1>8 DEF AgentSetupFails
  <2> QED
    BY <1>6, <2>1, NothingFails DEF projection, failures
<1> QED
  BY <1>1, <1>2, <1>3, <1>4, <1>5, <1>7, <1>8 DEF Body

\* Claim, schedule_start, the walk itself, schedule_complete and the ack.
LEMMA RunStep == ASSUME Inv, Run PROVE Inv'
<1> USE DEF Inv, failures, bodies, projection
<1>0. /\ node \in [Tasks -> {"waiting", "running", "returned", "sent", "skipped"}]
      /\ failed \subseteq Tasks
  BY WalkTypes
<1>1. CASE Claim
  <2>1. /\ exec = "waiting" /\ exec' = "claimed"
        /\ UNCHANGED <<projection, walk, bodies, withdrawn, failures>>
    BY <1>1 DEF Claim
  <2>2. Types'
    BY <2>1 DEF Types
  <2>3. WalkOK'
    BY <2>1, WalkKept
  <2>4. NotYetOK' /\ RunRowOK' /\ RowsOK' /\ BodiesOK' /\ WithdrawnOK' /\ UnreadOK'
    BY <2>1 DEF NotYetOK, RunRowOK, RowsOK, BodiesOK, WithdrawnOK, UnreadOK, walk
  <2>5. SucceededMeansDone'
    BY <2>1 DEF SucceededMeansDone
  <2> QED
    BY <2>2, <2>3, <2>4, <2>5
<1>2. CASE ScheduleStart
  <2>1. /\ exec = "claimed" /\ exec' = "walking"
        /\ Logged(applyScheduleStart)
        /\ UNCHANGED <<walk, bodies, withdrawn>>
    BY <1>2 DEF ScheduleStart
  <2>2. FailuresGo /\ UNCHANGED unread
    BY <2>1, NothingFails, FailureCounts DEF Logged
  <2>3. /\ taskRow' \in [Tasks -> Statuses]
        /\ \A n \in Tasks : taskRow[n] # "absent" => taskRow'[n] = taskRow[n]
        /\ runRow' \in {runRow, "running"}
        /\ ~dropped' => runRow' = "running"
    BY <2>1 DEF Logged, applyScheduleStart, Types, Statuses
  <2>4. Types' /\ UnreadOK'
    BY <2>1, <2>2, <2>3 DEF Types, Statuses, FailuresGo
  <2>5. WalkOK'
    BY <2>1, WalkKept
  <2>6. NotYetOK' /\ RunRowOK' /\ SucceededMeansDone'
    BY <2>1, <2>3 DEF NotYetOK, RunRowOK, SucceededMeansDone
  <2>7. RowsOK' /\ BodiesOK'
    BY <2>1 DEF NotYetOK, RowsOK, BodiesOK, walk
  <2>8. WithdrawnOK'
    BY <2>1, <2>2, <2>3 DEF WithdrawnOK, Types, walk
  <2> QED
    BY <2>4, <2>5, <2>6, <2>7, <2>8
<1>3. CASE WalkStep
  <2>1. /\ exec = "walking" /\ Walk!Step
        /\ UNCHANGED <<projection, exec, bodies, withdrawn, failures>>
    BY <1>3 DEF WalkStep
  <2>2. Types'
    BY <2>1 DEF Types
  <2>3. WalkOK'
    BY <2>1, WalkKept
  <2>4. \A n \in Tasks :
           /\ \/ node'[n] = node[n]
              \/ node[n] = "waiting" /\ node'[n] \in {"running", "skipped"}
              \/ node[n] = "returned" /\ node'[n] = "sent"
           /\ n \in failed => n \in failed'
    BY <2>1, SameWalk, WalkConstants, Proved!StepMoves DEF WalkOK
  <2>5. NotYetOK' /\ RunRowOK' /\ UnreadOK' /\ SucceededMeansDone'
    BY <2>1 DEF NotYetOK, RunRowOK, UnreadOK, SucceededMeansDone
  <2>6. RowsOK'
    BY <2>1, <2>4 DEF RowsOK
  <2>7. BodiesOK'
    BY <2>1, <2>4 DEF BodiesOK
  <2>8. WithdrawnOK'
    BY <2>1, <2>4 DEF WithdrawnOK, BodiesOK, Types
  <2> QED
    BY <2>2, <2>3, <2>5, <2>6, <2>7, <2>8
<1>4. CASE ScheduleComplete
  <2>1. /\ exec = "walking" /\ loop = "ended" /\ exec' = "complete"
        /\ Logged(applyScheduleComplete(Walk!Verdict = "ok"))
        /\ UNCHANGED <<walk, bodies, withdrawn>>
    BY <1>4 DEF ScheduleComplete
  <2>2. FailuresGo /\ UNCHANGED unread
    BY <2>1, NothingFails, FailureCounts DEF Logged
  <2>3. /\ runRow' \in {runRow, "succeeded", "failed"}
        /\ UNCHANGED taskRow
        /\ ~dropped' /\ runRow' = "succeeded" /\ runRow # "succeeded" =>
             Walk!Verdict = "ok"
    BY <2>1 DEF Logged, applyScheduleComplete, Outcome
  <2>4. Types' /\ UnreadOK'
    BY <2>1, <2>2, <2>3 DEF Types, Statuses, Final, FailuresGo
  <2>5. WalkOK'
    BY <2>1, WalkKept
  <2>6. NotYetOK' /\ RunRowOK' /\ RowsOK' /\ BodiesOK' /\ WithdrawnOK'
    BY <2>1, <2>2, <2>3
       DEF NotYetOK, RunRowOK, RowsOK, BodiesOK, WithdrawnOK, FailuresGo, walk
  <2>7. SucceededMeansDone'
    <3> SUFFICES ASSUME ~dropped', runRow' = "succeeded"
                 PROVE  \A n \in Tasks : taskRow[n] \in GotThrough
      BY <2>3 DEF SucceededMeansDone, GotThrough
    <3>1. ~dropped /\ runRow # "succeeded"
      BY <2>1, <2>2 DEF FailuresGo, RunRowOK
    <3>2. \A n \in Tasks : node[n] = "sent" /\ n \notin failed
      BY <2>1, <2>3, <3>1, OkMeansReturned
    <3> QED
      BY <3>1, <3>2 DEF RowsOK
  <2> QED
    BY <2>4, <2>5, <2>6, <2>7
<1>5. CASE Ack
  <2>1. /\ exec = "complete" /\ exec' = "over"
        /\ UNCHANGED <<projection, walk, bodies, withdrawn, failures>>
    BY <1>5 DEF Ack
  <2>2. Types'
    BY <2>1 DEF Types
  <2>3. WalkOK'
    BY <2>1, WalkKept
  <2>4. NotYetOK' /\ RunRowOK' /\ RowsOK' /\ BodiesOK' /\ WithdrawnOK' /\ UnreadOK'
    BY <2>1 DEF NotYetOK, RunRowOK, RowsOK, BodiesOK, WithdrawnOK, UnreadOK, walk
  <2>5. SucceededMeansDone'
    BY <2>1 DEF SucceededMeansDone
  <2> QED
    BY <2>2, <2>3, <2>4, <2>5
<1> QED
  BY <1>1, <1>2, <1>3, <1>4, <1>5 DEF Run

\* A verb that turns rows to canceled, and counts the tasks before their gate.
LEMMA CancelKeeps ==
    ASSUME Inv, UNCHANGED <<walk, exec, bodies, failures>>,
           withdrawn' = withdrawn \union Withdrawn,
           runRow' = runRow \/ (runRow \notin Final /\ runRow' = "canceled"),
           taskRow' \in [Tasks -> Statuses],
           \A n \in Tasks : taskRow'[n] = taskRow[n] \/ taskRow'[n] = "canceled"
    PROVE  Inv'
<1> USE DEF Inv, bodies, failures
<1>1. Types'
  BY DEF Types, Statuses, Final, Withdrawn
<1>2. WalkOK'
  BY WalkKept
<1>3. NotYetOK' /\ RunRowOK' /\ BodiesOK' /\ UnreadOK'
  BY DEF NotYetOK, RunRowOK, BodiesOK, UnreadOK, walk
<1>4. RowsOK'
  BY DEF RowsOK, GotThrough, walk
<1>5. WithdrawnOK'
  <2>1. ASSUME NEW n \in Withdrawn
        PROVE  /\ taskRow'[n] = "canceled" /\ tries[n] = 0
               /\ node[n] = "running" => step[n] \in {"pause", "cancel"}
    BY <2>1 DEF Withdrawn, BeforeGate, BodiesOK
  <2>2. \A n \in withdrawn \ unread : taskRow'[n] = "canceled"
    BY DEF WithdrawnOK, Types
  <2> QED
    BY <2>1, <2>2 DEF WithdrawnOK, walk
<1>6. SucceededMeansDone'
  BY DEF SucceededMeansDone, Final
<1> QED
  BY <1>1, <1>2, <1>3, <1>4, <1>5, <1>6

\* The operator's verbs.
LEMMA OperatorStep == ASSUME Inv, Operator PROVE Inv'
<1>1. CASE Cancel
  <2>1. /\ CancelRows /\ withdrawn' = withdrawn \union Withdrawn
        /\ UNCHANGED <<walk, exec, bodies, failures>>
    BY <1>1 DEF Cancel
  <2>2. runRow' = runRow \/ (runRow \notin Final /\ runRow' = "canceled")
    BY <2>1 DEF CancelRows
  <2>3. /\ taskRow' \in [Tasks -> Statuses]
        /\ \A n \in Tasks : taskRow'[n] = taskRow[n] \/ taskRow'[n] = "canceled"
    BY <2>1 DEF CancelRows, Inv, Types, Statuses, Final
  <2> QED
    BY <2>1, <2>2, <2>3, CancelKeeps
<1>2. CASE \E n \in Tasks : CancelTask(n)
  <2>1. PICK t \in Tasks : CancelTask(t)
    BY <1>2
  <2>2. PICK cascade : CancelTaskRows(t, cascade)
    BY <2>1 DEF CancelTask
  <2>3. /\ withdrawn' = withdrawn \union Withdrawn
        /\ UNCHANGED <<walk, exec, bodies, failures>>
    BY <2>1 DEF CancelTask
  <2>4. /\ taskRow' \in [Tasks -> Statuses] /\ UNCHANGED runRow
        /\ \A n \in Tasks : taskRow'[n] = taskRow[n] \/ taskRow'[n] = "canceled"
    BY <2>2 DEF CancelTaskRows, Inv, Types, Statuses, Final
  <2> QED
    BY <2>3, <2>4, CancelKeeps
<1>3. CASE UNCHANGED <<projection, walk, exec, bodies, withdrawn, failures>>
  <2> USE <1>3 DEF Inv, projection, bodies, failures
  <2>1. Types'
    BY DEF Types
  <2>2. WalkOK'
    BY WalkKept
  <2>3. NotYetOK' /\ RunRowOK' /\ RowsOK' /\ BodiesOK' /\ WithdrawnOK' /\ UnreadOK'
    BY DEF NotYetOK, RunRowOK, RowsOK, BodiesOK, WithdrawnOK, UnreadOK, walk
  <2>4. SucceededMeansDone'
    BY DEF SucceededMeansDone
  <2> QED
    BY <2>1, <2>2, <2>3, <2>4
<1> QED
  BY <1>1, <1>2, <1>3 DEF Operator, SetBlocked, ToggleSkip

\* A crash starts the walk over and leaves the rows.
LEMMA CrashStep == ASSUME Inv, Crash PROVE Inv'
<1> USE DEF Inv, projection, failures, Places
<1>1. /\ ResetWalk /\ UNCHANGED <<projection, withdrawn, failures>>
      /\ exec' \in {"waiting", "dead"}
  BY DEF Crash
<1>2. /\ node' = [n \in Tasks |-> "waiting"]
      /\ step' = [n \in Tasks |-> "pause"]
      /\ tries' = [n \in Tasks |-> 0]
  BY <1>1 DEF ResetWalk
<1>3. WalkOK'
  BY <1>1, NextWalk
<1>4. Types'
  BY <1>1, <1>2 DEF Types
<1>5. NotYetOK' /\ RunRowOK' /\ RowsOK' /\ BodiesOK' /\ UnreadOK'
  BY <1>1, <1>2 DEF NotYetOK, RunRowOK, RowsOK, BodiesOK, UnreadOK
<1>6. WithdrawnOK'
  BY <1>1, <1>2 DEF WithdrawnOK, Types
<1>7. SucceededMeansDone'
  BY <1>1 DEF SucceededMeansDone
<1> QED
  BY <1>3, <1>4, <1>5, <1>6, <1>7

-----------------------------------------------------------------------------

\* The invariant holds in every state of every run, for every graph and any
\* number of crashes and failures of the store.
THEOREM RunInvariance == Spec => []Inv
<1>1. Init => Inv
  <2> SUFFICES ASSUME Init PROVE Inv
    OBVIOUS
  <2>1. Walk!Init
    BY DEF Init
  <2>2. WalkOK
    BY <2>1, SameWalk, NewWalk
  <2>3. node = [n \in Tasks |-> "waiting"]
    BY <2>1 DEF Walk!Init
  <2>4. Types
    BY DEF Init, ProjectionInit, Types, Statuses, Places
  <2>5. NotYetOK /\ RunRowOK /\ RowsOK /\ BodiesOK /\ WithdrawnOK /\ UnreadOK
    BY <2>3, FS_EmptySet
       DEF Init, NotYetOK, RunRowOK, RowsOK, BodiesOK, WithdrawnOK, UnreadOK
  <2>6. SucceededMeansDone
    BY DEF Init, ProjectionInit, SucceededMeansDone
  <2> QED
    BY <2>2, <2>4, <2>5, <2>6 DEF Inv
<1>2. Inv /\ [Next]_vars => Inv'
  <2> SUFFICES ASSUME Inv, [Next]_vars PROVE Inv'
    OBVIOUS
  <2>1. CASE UNCHANGED vars
    <3> USE <2>1 DEF Inv, vars, projection, bodies, failures
    <3>1. Types'
      BY DEF Types
    <3>2. WalkOK'
      BY WalkKept
    <3>3. NotYetOK' /\ RunRowOK' /\ RowsOK' /\ BodiesOK' /\ WithdrawnOK' /\ UnreadOK'
      BY DEF NotYetOK, RunRowOK, RowsOK, BodiesOK, WithdrawnOK, UnreadOK, walk
    <3>4. SucceededMeansDone'
      BY DEF SucceededMeansDone
    <3> QED
      BY <3>1, <3>2, <3>3, <3>4
  <2> QED
    BY <2>1, RunStep, BodyStep, OperatorStep, CrashStep DEF Next
<1> QED
  BY <1>1, <1>2, PTL DEF Spec

\* A run shows as succeeded only if every task succeeded, was skipped or was
\* canceled by an operator, or an event was dropped (walkDAG, task_skip.go,
\* Task.Execute and the store's Apply together, on every graph).
THEOREM SuccessIsEarned == Spec => []SucceededMeansDone
<1>1. Inv => SucceededMeansDone
  BY DEF Inv
<1> QED
  BY <1>1, RunInvariance, PTL

\* A task whose row was canceled before its gate never starts, in this walk or
\* in one after a crash, unless the gate failed to read that row; and so many
\* tasks at most get through as reads failed (taskCanceledInRun).
THEOREM WithdrawalIsFinal == Spec => []WithdrawnNeverStarts
<1>1. Inv => WithdrawnNeverStarts
  BY DEF Inv, WithdrawnOK, UnreadOK, WithdrawnNeverStarts
<1> QED
  BY <1>1, RunInvariance, PTL

\* In the whole run too, with its gates, withdrawn and crashes between, no task
\* starts before its dependencies are settled, or below a failed one that it
\* may not ignore, and none is skipped without cause (walkDAG under
\* Schedule.ExecuteTasks).
THEOREM RunKeepsTheOrder == Spec => [](Walk!DependenciesFirst /\ Walk!CascadeIsExact)
<1>1. Inv => Walk!DependenciesFirst /\ Walk!CascadeIsExact
  <2> SUFFICES ASSUME Inv PROVE Walk!DependenciesFirst /\ Walk!CascadeIsExact
    OBVIOUS
  <2>1. Proved!DependenciesFirst /\ Proved!CascadeIsExact
    BY DEF Inv, WalkOK, Proved!Inv
  <2> QED
    BY <2>1 DEF Walk!DependenciesFirst, Proved!DependenciesFirst,
                Walk!CascadeIsExact, Proved!CascadeIsExact, Walk!Settled,
                Proved!Settled, Walk!FailedDeps, Proved!FailedDeps
<1> QED
  BY <1>1, RunInvariance, PTL

=============================================================================
