---------------------------- MODULE DagWalkProofs ----------------------------
(***************************************************************************)
(* Proofs about DagWalk, for every finite set of tasks, every deps map on  *)
(* it, cycles and unknown names included, and every interleaving of the    *)
(* goroutines with the loop.                                               *)
(***************************************************************************)
EXTENDS DagWalk, FiniteSetTheorems, TLAPS

InChannel == {done[i] : i \in 1..Len(done)}

\* The tasks whose completion the loop has taken note of.
Received == Settled \ InChannel

\* The tasks that the loop still has to hear from.
InFlight == {n \in Tasks : node[n] \in {"running", "returned"}} \union InChannel

\* The types of the variables.
Types ==
    /\ deps \in [Tasks -> SUBSET (Tasks \union {Unknown})]
    /\ continueOnFailure \subseteq Tasks
    /\ inDegree \in [Tasks -> Nat]
    /\ node \in [Tasks -> {"waiting", "running", "returned", "sent", "skipped"}]
    /\ failed \subseteq Tasks
    /\ firstErr \in BOOLEAN
    /\ done \in Seq(Tasks)
    /\ running \in Nat
    /\ loop \in {"begin", "receive", "visit", "ended"}
    /\ todo \subseteq Tasks

\* Each settled task is in the channel once, or has been received.
ChannelOK ==
    /\ InChannel \subseteq Settled
    /\ \A i, j \in 1..Len(done) : done[i] = done[j] => i = j

\* The dependencies of n that the loop has not heard of.
Left(n) == Cardinality(deps[n] \ Received)

\* The counters: of the dependencies of n, those not received, and the one
\* that was received last if the loop has yet to visit n.  A task is launched
\* or skipped when its counter gets to 0.
CountersOK ==
    /\ loop # "visit" => todo = {}
    /\ \A n \in Tasks :
          /\ inDegree[n] = IF n \in todo THEN Left(n) + 1 ELSE Left(n)
          /\ loop = "begin" => node[n] = "waiting"
          /\ loop # "begin" => (node[n] = "waiting" <=> inDegree[n] > 0)

\* The loop's own counter.
RunningOK == running = Cardinality(InFlight)

\* Only a task that has run or was skipped is on the failed map.
FailedOK ==
    /\ \A n \in failed : node[n] \in {"returned", "sent", "skipped"}
    /\ failed # {} => firstErr

\* What was launched or skipped is neither on a cycle nor behind one.
ReachedOK == \A n \in Tasks : node[n] # "waiting" => ~Unreachable(n)

\* The inductive invariant.
Inv ==
    /\ Types
    /\ ChannelOK
    /\ CountersOK
    /\ RunningOK
    /\ FailedOK
    /\ ReachedOK
    /\ DependenciesFirst
    /\ CascadeIsExact

-----------------------------------------------------------------------------

\* Sets of tasks are finite.
LEMMA TasksFinite ==
    ASSUME NEW S \in SUBSET (Tasks \union {Unknown})
    PROVE  IsFiniteSet(S) /\ Cardinality(S) \in Nat
<1>1. IsFiniteSet(Tasks \union {Unknown})
  BY WalkAssumption, FS_AddElement
<1> QED
  BY <1>1, FS_Subset, FS_CardinalityType

\* What Send and Skip do to the channel.
LEMMA AppendToChannel ==
    ASSUME Types, ChannelOK, NEW n \in Tasks, n \notin Settled,
           done' = Append(done, n)
    PROVE  /\ done' \in Seq(Tasks)
           /\ InChannel' = InChannel \union {n}
           /\ \A i, j \in 1..Len(done') : done'[i] = done'[j] => i = j
<1>1. done \in Seq(Tasks) /\ Len(done) \in Nat
  BY DEF Types
<1>2. /\ done' \in Seq(Tasks) /\ Len(done') = Len(done) + 1
      /\ done'[Len(done) + 1] = n
      /\ \A i \in 1..Len(done) : done'[i] = done[i]
  BY <1>1
<1>3. InChannel' = InChannel \union {n}
  BY <1>1, <1>2 DEF InChannel
<1>4. \A i \in 1..Len(done) : done[i] # n
  BY DEF ChannelOK, InChannel
<1>5. ASSUME NEW i \in 1..Len(done'), NEW j \in 1..Len(done'), done'[i] = done'[j]
      PROVE  i = j
  <2>1. CASE i = Len(done) + 1
    BY <1>1, <1>2, <1>4, <1>5, <2>1
  <2>2. CASE j = Len(done) + 1
    BY <1>1, <1>2, <1>4, <1>5, <2>2
  <2>3. CASE i # Len(done) + 1 /\ j # Len(done) + 1
    <3>1. i \in 1..Len(done) /\ j \in 1..Len(done)
      BY <1>1, <1>2, <2>3
    <3> QED
      BY <1>2, <1>5, <3>1 DEF ChannelOK
  <2> QED
    BY <2>1, <2>2, <2>3
<1> QED
  BY <1>2, <1>3, <1>5

\* What Receive does to the channel.
LEMMA TakeFromChannel ==
    ASSUME Types, ChannelOK, done # << >>, done' = Tail(done)
    PROVE  /\ done' \in Seq(Tasks)
           /\ Head(done) \in InChannel
           /\ InChannel' = InChannel \ {Head(done)}
           /\ \A i, j \in 1..Len(done') : done'[i] = done'[j] => i = j
<1>1. done \in Seq(Tasks) /\ Len(done) \in Nat /\ Len(done) > 0
  BY DEF Types
<1>2. /\ done' \in Seq(Tasks) /\ Len(done') = Len(done) - 1
      /\ Head(done) = done[1]
      /\ \A i \in 1..Len(done') : done'[i] = done[i + 1]
  BY <1>1
<1>3. Head(done) \in InChannel
  BY <1>1, <1>2 DEF InChannel
<1>4. \A i \in 1..Len(done') : i + 1 \in 1..Len(done) /\ i + 1 # 1
  BY <1>1, <1>2
<1>5. InChannel' \subseteq InChannel \ {Head(done)}
  <2> SUFFICES ASSUME NEW i \in 1..Len(done')
               PROVE  done'[i] \in InChannel /\ done'[i] # done[1]
    BY <1>2 DEF InChannel
  <2>1. done'[i] = done[i + 1] /\ i + 1 \in 1..Len(done) /\ i + 1 # 1
    BY <1>2, <1>4
  <2>2. 1 \in 1..Len(done)
    BY <1>1
  <2> QED
    BY <2>1, <2>2 DEF ChannelOK, InChannel
<1>6. InChannel \ {Head(done)} \subseteq InChannel'
  <2> SUFFICES ASSUME NEW i \in 1..Len(done), done[i] # done[1]
               PROVE  done[i] \in InChannel'
    BY <1>2 DEF InChannel
  <2>1. i - 1 \in 1..Len(done') /\ (i - 1) + 1 = i
    BY <1>1, <1>2
  <2>2. done'[i - 1] = done[i]
    BY <1>2, <2>1
  <2> QED
    BY <2>1, <2>2 DEF InChannel
<1>7. ASSUME NEW i \in 1..Len(done'), NEW j \in 1..Len(done'), done'[i] = done'[j]
      PROVE  i = j
  <2>1. i + 1 = j + 1
    BY <1>2, <1>4, <1>7 DEF ChannelOK
  <2> QED
    BY <1>1, <1>2, <2>1
<1> QED
  BY <1>2, <1>3, <1>5, <1>6, <1>7

\* A task whose dependencies are settled is on no cycle and behind none.
LEMMA SettledBelow ==
    ASSUME Types, ReachedOK, NEW n \in Tasks, deps[n] \subseteq Settled
    PROVE  ~Unreachable(n)
<1> SUFFICES ASSUME NEW S \in SUBSET Tasks, n \in S,
                    \A m \in S : Unknown \in deps[m] \/ deps[m] \intersect S # {}
             PROVE  FALSE
  BY DEF Unreachable
<1>1. Unknown \notin deps[n]
  BY WalkAssumption DEF Settled
<1>2. PICK m \in S : m \in deps[n]
  BY <1>1
<1>3. m \in Settled /\ node[m] # "waiting"
  BY <1>2 DEF Settled
<1>4. ~Unreachable(m)
  BY <1>2, <1>3 DEF ReachedOK
<1> QED
  BY <1>2, <1>4 DEF Unreachable

\* Order and cascade.  A step starts or skips only tasks whose dependencies are
\* settled, by what is on the failed map, and puts no settled task on it.
LEMMA OrderStep ==
    ASSUME Inv, UNCHANGED input, Settled \subseteq Settled',
           failed \subseteq failed', (failed' \ failed) \intersect Settled = {},
           \A m \in Tasks :
              IF node[m] = "waiting"
              THEN \/ node'[m] = "waiting"
                   \/ /\ deps[m] \subseteq Settled
                      /\ \/ node'[m] = "running" /\ FailedDeps(m) = {}
                         \/ node'[m] = "skipped" /\ FailedDeps(m) # {}
              ELSE /\ node'[m] # "waiting"
                   /\ node'[m] = "skipped" <=> node[m] = "skipped"
    PROVE  ReachedOK' /\ DependenciesFirst' /\ CascadeIsExact'
<1>1. deps' = deps /\ continueOnFailure' = continueOnFailure
  BY DEF input
<1>2. ASSUME NEW m \in Tasks, node'[m] # "waiting" PROVE deps[m] \subseteq Settled
  BY <1>2 DEF Inv, DependenciesFirst
<1>3. DependenciesFirst'
  BY <1>1, <1>2 DEF DependenciesFirst
<1>4. ASSUME NEW m \in Tasks PROVE Unreachable(m)' <=> Unreachable(m)
  BY <1>1 DEF Unreachable
<1>5. ReachedOK'
  BY <1>2, <1>4, SettledBelow DEF ReachedOK, Inv
<1>6. ASSUME NEW m \in Tasks, node'[m] # "waiting"
      PROVE  /\ deps[m] \intersect failed' = deps[m] \intersect failed
             /\ FailedDeps(m)' = FailedDeps(m)
  BY <1>1, <1>2, <1>6 DEF FailedDeps
<1>7. ASSUME NEW m \in Tasks, node'[m] # "waiting"
      PROVE  /\ node'[m] # "skipped" => FailedDeps(m)' = {}
             /\ node'[m] = "skipped" =>
                  /\ m \notin continueOnFailure'
                  /\ deps'[m] \intersect failed' # {}
  <2>1. CASE node[m] = "waiting"
    BY <1>1, <1>6, <1>7, <2>1 DEF FailedDeps
  <2>2. CASE node[m] # "waiting"
    <3>1. node[m] \in {"running", "returned", "sent", "skipped"}
      BY <2>2 DEF Inv, Types
    <3> QED
      BY <1>1, <1>6, <1>7, <2>2, <3>1 DEF Inv, CascadeIsExact
  <2> QED
    BY <2>1, <2>2
<1>8. CascadeIsExact'
  BY <1>7 DEF CascadeIsExact
<1> QED
  BY <1>3, <1>5, <1>8

-----------------------------------------------------------------------------
(***************************************************************************)
(* One lemma for each action.                                              *)
(***************************************************************************)

\* The roots are launched.
LEMMA BeginStep == ASSUME Inv, Begin PROVE Inv'
<1> DEFINE R == {n \in Tasks : inDegree[n] = 0}
<1>1. /\ loop = "begin" /\ loop' = "receive"
      /\ node' = [n \in Tasks |-> IF n \in R THEN "running" ELSE node[n]]
      /\ running' = Cardinality(R)
      /\ UNCHANGED <<input, inDegree, failed, firstErr, done, todo>>
  BY DEF Begin
<1>2. /\ \A n \in Tasks : node[n] = "waiting"
      /\ todo = {}
  BY <1>1 DEF Inv, CountersOK
<1>3. Settled = {} /\ Settled' = {} /\ InChannel = {} /\ InChannel' = {}
  <2>1. Settled = {} /\ Settled' = {}
    BY <1>1, <1>2 DEF Settled
  <2>2. InChannel' = InChannel
    BY <1>1 DEF InChannel
  <2> QED
    BY <2>1, <2>2 DEF Inv, ChannelOK
<1>4. Received = {} /\ Received' = {}
  BY <1>3 DEF Received
<1>5. failed = {}
  BY <1>2 DEF Inv, FailedOK, Types
<1>6. ASSUME NEW n \in R PROVE deps[n] = {}
  <2>1. Cardinality(deps[n]) = 0
    <3>1. deps[n] \ Received = deps[n]
      BY <1>4
    <3>2. inDegree[n] = Left(n)
      BY <1>2 DEF Inv, CountersOK
    <3> QED
      BY <3>1, <3>2 DEF Left
  <2>2. IsFiniteSet(deps[n])
    BY TasksFinite DEF Inv, Types
  <2> QED
    BY <2>1, <2>2, FS_EmptySet
<1>7. R \subseteq Tasks
  OBVIOUS
<1>8. Types'
  BY <1>1, <1>7, TasksFinite DEF Inv, Types, input
<1>9. InFlight' = R
  BY <1>1, <1>2, <1>3 DEF InFlight
<1>10. RunningOK'
  BY <1>1, <1>9 DEF RunningOK
<1>11. ChannelOK'
  BY <1>1, <1>3 DEF Inv, ChannelOK
<1>12. CountersOK'
  <2> SUFFICES ASSUME NEW n \in Tasks
               PROVE  /\ inDegree[n] = Left(n)'
                      /\ node'[n] = "waiting" <=> inDegree[n] > 0
    BY <1>1, <1>2 DEF CountersOK
  <2>1. inDegree[n] = Left(n)' /\ inDegree[n] \in Nat
    BY <1>1, <1>2, <1>4 DEF Inv, CountersOK, Types, Left, input
  <2>2. node'[n] = "waiting" <=> inDegree[n] > 0
    BY <1>1, <1>2, <2>1
  <2> QED
    BY <2>1, <2>2
<1>13. FailedOK'
  BY <1>1, <1>5 DEF FailedOK
<1>14. ReachedOK' /\ DependenciesFirst' /\ CascadeIsExact'
  <2>1. \A m \in Tasks : \/ node'[m] = "waiting"
                         \/ /\ deps[m] \subseteq Settled
                            /\ node'[m] = "running" /\ FailedDeps(m) = {}
    BY <1>1, <1>2, <1>6 DEF FailedDeps
  <2> QED
    BY <1>1, <1>2, <1>3, <2>1, OrderStep
<1> QED
  BY <1>8, <1>10, <1>11, <1>12, <1>13, <1>14 DEF Inv

\* A task function returns.
LEMMA ReturnStep ==
    ASSUME Inv, NEW n \in Tasks, NEW ok \in BOOLEAN, Return(n, ok)
    PROVE  Inv'
<1>1. /\ node[n] = "running" /\ node' = [node EXCEPT ![n] = "returned"]
      /\ failed' = IF ok THEN failed ELSE failed \union {n}
      /\ firstErr' = (firstErr \/ ~ok)
      /\ UNCHANGED <<input, inDegree, done, running, loop, todo>>
  BY DEF Return
<1>2. /\ n \notin Settled /\ Settled' = Settled /\ InChannel' = InChannel
      /\ Received' = Received
  BY <1>1 DEF Inv, Types, Settled, InChannel, Received
<1>3. InFlight' = InFlight
  BY <1>1, <1>2 DEF Inv, Types, InFlight
<1>4. \A m \in Tasks : m # n => node'[m] = node[m]
  BY <1>1 DEF Inv, Types
<1>5. node'[n] = "returned"
  BY <1>1 DEF Inv, Types
<1>6. Types'
  BY <1>1 DEF Inv, Types, input
<1>7. ChannelOK'
  BY <1>1, <1>2 DEF Inv, ChannelOK
<1>8. CountersOK'
  <2>1. \A m \in Tasks : node'[m] = "waiting" <=> node[m] = "waiting"
    BY <1>1, <1>4, <1>5
  <2> QED
    BY <1>1, <1>2, <2>1 DEF Inv, CountersOK, Left, input
<1>9. RunningOK'
  BY <1>1, <1>3 DEF Inv, RunningOK
<1>10. FailedOK'
  BY <1>1, <1>4, <1>5 DEF Inv, Types, FailedOK
<1>11. ReachedOK' /\ DependenciesFirst' /\ CascadeIsExact'
  <2>1. failed \subseteq failed' /\ failed' \ failed \subseteq {n}
    BY <1>1
  <2> QED
    BY <1>1, <1>2, <1>4, <1>5, <2>1, OrderStep
<1> QED
  BY <1>6, <1>7, <1>8, <1>9, <1>10, <1>11 DEF Inv

\* A goroutine sends its name.
LEMMA SendStep == ASSUME Inv, NEW n \in Tasks, Send(n) PROVE Inv'
<1>1. /\ node[n] = "returned" /\ node' = [node EXCEPT ![n] = "sent"]
      /\ done' = Append(done, n)
      /\ UNCHANGED <<input, inDegree, failed, firstErr, running, loop, todo>>
  BY DEF Send
<1>2. n \notin Settled /\ Settled' = Settled \union {n}
  BY <1>1 DEF Inv, Types, Settled
<1>3. /\ done' \in Seq(Tasks) /\ InChannel' = InChannel \union {n}
      /\ \A i, j \in 1..Len(done') : done'[i] = done'[j] => i = j
  BY <1>1, <1>2, AppendToChannel DEF Inv
<1>4. Received' = Received
  BY <1>2, <1>3 DEF Received
<1>5. InFlight' = InFlight
  BY <1>1, <1>3 DEF Inv, Types, InFlight
<1>6. (\A m \in Tasks : m # n => node'[m] = node[m]) /\ node'[n] = "sent"
  BY <1>1 DEF Inv, Types
<1>7. Types'
  BY <1>1, <1>3 DEF Inv, Types, input
<1>8. ChannelOK'
  BY <1>2, <1>3 DEF Inv, ChannelOK
<1>9. CountersOK'
  <2>1. \A m \in Tasks : node'[m] = "waiting" <=> node[m] = "waiting"
    BY <1>1, <1>6
  <2> QED
    BY <1>1, <1>4, <2>1 DEF Inv, CountersOK, Left, input
<1>10. RunningOK'
  BY <1>1, <1>5 DEF Inv, RunningOK
<1>11. FailedOK'
  BY <1>1, <1>6 DEF Inv, Types, FailedOK
<1>12. ReachedOK' /\ DependenciesFirst' /\ CascadeIsExact'
  BY <1>1, <1>2, <1>6, OrderStep
<1> QED
  BY <1>7, <1>8, <1>9, <1>10, <1>11, <1>12 DEF Inv

\* The loop takes a name: the counters of its dependents are to go down.
LEMMA ReceiveStep == ASSUME Inv, Receive PROVE Inv'
<1> DEFINE h == Head(done)
<1>1. /\ loop = "receive" /\ running > 0 /\ done # << >> /\ done' = Tail(done)
      /\ running' = running - 1 /\ todo' = Dependents(h)
      /\ loop' = IF todo' = {} THEN "receive" ELSE "visit"
      /\ UNCHANGED <<input, inDegree, node, failed, firstErr>>
  BY DEF Receive
<1>2. /\ done' \in Seq(Tasks) /\ h \in InChannel /\ InChannel' = InChannel \ {h}
      /\ \A i, j \in 1..Len(done') : done'[i] = done'[j] => i = j
  BY <1>1, TakeFromChannel DEF Inv
<1> HIDE DEF h
<1>3. h \in Settled /\ Settled' = Settled /\ h \in Tasks
  BY <1>1, <1>2 DEF Inv, ChannelOK, Settled
<1>4. h \notin Received /\ Received' = Received \union {h}
  BY <1>2, <1>3 DEF Received
<1>5. Types'
  BY <1>1, <1>2 DEF Inv, Types, Dependents, input
<1>6. ChannelOK'
  BY <1>2, <1>3 DEF Inv, ChannelOK
<1>7. CountersOK'
  <2>1. todo = {} /\ (loop' # "visit" => todo' = {}) /\ loop' # "begin"
    BY <1>1 DEF Inv, CountersOK
  <2>2. ASSUME NEW m \in Tasks
        PROVE  inDegree[m] = IF m \in todo' THEN Left(m)' + 1 ELSE Left(m)'
    <3>1. inDegree[m] = Left(m)
      BY <2>1 DEF Inv, CountersOK
    <3>2. IsFiniteSet(deps[m] \ Received) /\ Left(m) \in Nat
      BY TasksFinite DEF Inv, Types, Left
    <3>3. m \in todo' <=> h \in deps[m]
      BY <1>1 DEF Dependents
    <3>4. (deps[m] \ Received)' = (deps[m] \ Received) \ {h}
      BY <1>1, <1>4 DEF input
    <3>5. CASE h \in deps[m]
      <4>1. h \in deps[m] \ Received
        BY <1>4, <3>5
      <4>2. Left(m)' = Left(m) - 1
        BY <3>2, <3>4, <4>1, FS_RemoveElement DEF Left
      <4> QED
        BY <3>1, <3>2, <3>3, <3>5, <4>2
    <3>6. CASE h \notin deps[m]
      <4>1. (deps[m] \ Received)' = deps[m] \ Received
        BY <3>4, <3>6
      <4> QED
        BY <3>1, <3>3, <3>6, <4>1 DEF Left
    <3> QED
      BY <3>5, <3>6
  <2> QED
    BY <1>1, <2>1, <2>2 DEF Inv, CountersOK
<1>8. RunningOK'
  <2>1. InFlight' = InFlight \ {h} /\ h \in InFlight
    BY <1>1, <1>2, <1>3 DEF InFlight, Settled
  <2>2. IsFiniteSet(InFlight)
    <3>1. InFlight \subseteq Tasks
      BY DEF Inv, InFlight, ChannelOK, Settled
    <3> QED
      BY <3>1, TasksFinite
  <2>3. Cardinality(InFlight') = Cardinality(InFlight) - 1
    BY <2>1, <2>2, FS_RemoveElement
  <2> QED
    BY <1>1, <2>3 DEF Inv, RunningOK
<1>9. FailedOK'
  BY <1>1 DEF Inv, FailedOK
<1>10. ReachedOK' /\ DependenciesFirst' /\ CascadeIsExact'
  BY <1>1, <1>3, OrderStep
<1> QED
  BY <1>5, <1>6, <1>7, <1>8, <1>9, <1>10 DEF Inv

\* What a visit finds: a task that waits, with one dependency more than it has
\* left.
LEMMA VisitFinds ==
    ASSUME Inv, NEW n \in Tasks, Visit(n)
    PROVE  /\ loop = "visit" /\ n \in todo /\ node[n] = "waiting"
           /\ Left(n) \in Nat /\ inDegree[n] = Left(n) + 1
           /\ inDegree' = [inDegree EXCEPT ![n] = Left(n)]
           /\ todo' = todo \ {n}
           /\ loop' = IF todo' = {} THEN "receive" ELSE "visit"
           /\ UNCHANGED <<input, firstErr>>
           /\ Left(n) = 0 => deps[n] \subseteq Received
<1>1. /\ loop = "visit" /\ n \in todo /\ todo' = todo \ {n}
      /\ inDegree' = [inDegree EXCEPT ![n] = inDegree[n] - 1]
      /\ loop' = IF todo' = {} THEN "receive" ELSE "visit"
      /\ UNCHANGED <<input, firstErr>>
  BY DEF Visit
<1>2. IsFiniteSet(deps[n] \ Received) /\ Left(n) \in Nat
  BY TasksFinite DEF Inv, Types, Left
<1>3. inDegree[n] = Left(n) + 1
  BY <1>1 DEF Inv, CountersOK
<1>4. node[n] = "waiting"
  BY <1>1, <1>2, <1>3 DEF Inv, CountersOK
<1>5. Left(n) = 0 => deps[n] \ Received = {}
  BY <1>2, FS_EmptySet DEF Left
<1>6. inDegree[n] - 1 = Left(n)
  BY <1>2, <1>3
<1> QED
  BY <1>1, <1>2, <1>3, <1>4, <1>5, <1>6

\* The counters after a visit, which receives nothing.
LEMMA VisitCounts ==
    ASSUME Inv, NEW n \in Tasks, Visit(n), Received' = Received,
           \A m \in Tasks : m # n => node'[m] = node[m],
           node'[n] = "waiting" <=> Left(n) > 0
    PROVE  CountersOK'
<1>1. /\ loop = "visit" /\ Left(n) \in Nat
      /\ inDegree' = [inDegree EXCEPT ![n] = Left(n)]
      /\ todo' = todo \ {n} /\ loop' = IF todo' = {} THEN "receive" ELSE "visit"
      /\ UNCHANGED input
  BY VisitFinds
<1>2. \A m \in Tasks : Left(m)' = Left(m)
  BY <1>1 DEF Left, input
<1>3. /\ \A m \in Tasks : m # n => inDegree'[m] = inDegree[m]
      /\ inDegree'[n] = Left(n)
  BY <1>1 DEF Inv, Types
<1>4. ASSUME NEW m \in Tasks
      PROVE  /\ inDegree'[m] = IF m \in todo' THEN Left(m)' + 1 ELSE Left(m)'
             /\ node'[m] = "waiting" <=> inDegree'[m] > 0
  <2>1. CASE m = n
    BY <1>1, <1>2, <1>3, <2>1
  <2>2. CASE m # n
    BY <1>1, <1>2, <1>3, <2>2 DEF Inv, CountersOK
  <2> QED
    BY <2>1, <2>2
<1> QED
  BY <1>1, <1>4 DEF CountersOK

\* A task that is not in flight adds one to the loop's counter.
LEMMA OneMore ==
    ASSUME Inv, NEW n \in Tasks, node[n] = "waiting",
           InFlight' = InFlight \union {n}, running' = running + 1
    PROVE  RunningOK'
<1>1. n \notin InFlight /\ InFlight \subseteq Tasks
  BY DEF Inv, InFlight, ChannelOK, Settled
<1>2. IsFiniteSet(InFlight)
  BY <1>1, TasksFinite
<1>3. Cardinality(InFlight') = Cardinality(InFlight) + 1
  BY <1>1, <1>2, FS_AddElement
<1> QED
  BY <1>3 DEF Inv, RunningOK

\* The loop visits a dependent of the task it took.
LEMMA VisitStep == ASSUME Inv, NEW n \in Tasks, Visit(n) PROVE Inv'
<1>1. /\ loop = "visit" /\ n \in todo /\ node[n] = "waiting"
      /\ Left(n) \in Nat /\ inDegree[n] = Left(n) + 1
      /\ inDegree' = [inDegree EXCEPT ![n] = Left(n)]
      /\ todo' = todo \ {n}
      /\ loop' = IF todo' = {} THEN "receive" ELSE "visit"
      /\ UNCHANGED <<input, firstErr>>
      /\ Left(n) = 0 => deps[n] \subseteq Received
  BY VisitFinds
<1>2. Ready(n) <=> Left(n) = 0
  BY <1>1 DEF Ready
<1>3. n \notin Settled /\ Received \subseteq Settled
  BY <1>1 DEF Settled, Received
<1>4. CASE ~Ready(n) /\ UNCHANGED <<node, failed, running, done>>
  <2>1. /\ Settled' = Settled /\ InChannel' = InChannel /\ Received' = Received
        /\ InFlight' = InFlight
    BY <1>4 DEF Settled, InChannel, Received, InFlight
  <2>2. Types'
    BY <1>1, <1>4 DEF Inv, Types, input
  <2>3. ChannelOK' /\ RunningOK' /\ FailedOK'
    BY <1>1, <1>4, <2>1 DEF Inv, ChannelOK, RunningOK, FailedOK
  <2>4. CountersOK'
    BY <1>1, <1>2, <1>4, <2>1, VisitCounts
  <2>5. ReachedOK' /\ DependenciesFirst' /\ CascadeIsExact'
    BY <1>1, <1>4, <2>1, OrderStep
  <2> QED
    BY <2>2, <2>3, <2>4, <2>5 DEF Inv
<1>5. CASE Ready(n) /\ FailedDeps(n) = {} /\ Launch(n)
  <2>1. /\ node' = [node EXCEPT ![n] = "running"] /\ running' = running + 1
        /\ failed' = failed /\ done' = done
    BY <1>5 DEF Launch
  <2>2. (\A m \in Tasks : m # n => node'[m] = node[m]) /\ node'[n] = "running"
    BY <2>1 DEF Inv, Types
  <2>3. Settled' = Settled /\ InChannel' = InChannel
    BY <1>3, <2>1, <2>2 DEF Settled, InChannel
  <2>4. Received' = Received
    BY <2>3 DEF Received
  <2>5. InFlight' = InFlight \union {n}
    BY <2>2, <2>3 DEF InFlight
  <2>6. Types'
    BY <1>1, <2>1 DEF Inv, Types, input
  <2>7. ChannelOK'
    BY <2>1, <2>3 DEF Inv, ChannelOK
  <2>8. RunningOK'
    BY <1>1, <2>1, <2>5, OneMore
  <2>9. FailedOK'
    BY <1>1, <2>1, <2>2 DEF Inv, Types, FailedOK
  <2>10. CountersOK'
    BY <1>1, <1>2, <1>5, <2>2, <2>4, VisitCounts
  <2>11. ReachedOK' /\ DependenciesFirst' /\ CascadeIsExact'
    <3>1. deps[n] \subseteq Settled
      BY <1>1, <1>2, <1>3, <1>5
    <3> QED
      BY <1>1, <1>5, <2>1, <2>2, <2>3, <3>1, OrderStep
  <2> QED
    BY <2>6, <2>7, <2>8, <2>9, <2>10, <2>11 DEF Inv
<1>6. CASE Ready(n) /\ FailedDeps(n) # {} /\ Skip(n)
  <2>1. /\ node' = [node EXCEPT ![n] = "skipped"] /\ running' = running + 1
        /\ failed' = failed \union {n} /\ done' = Append(done, n)
    BY <1>6 DEF Skip
  <2>2. (\A m \in Tasks : m # n => node'[m] = node[m]) /\ node'[n] = "skipped"
    BY <2>1 DEF Inv, Types
  <2>3. Settled' = Settled \union {n}
    BY <2>2 DEF Settled
  <2>4. /\ done' \in Seq(Tasks) /\ InChannel' = InChannel \union {n}
        /\ \A i, j \in 1..Len(done') : done'[i] = done'[j] => i = j
    BY <1>3, <2>1, AppendToChannel DEF Inv
  <2>5. Received' = Received
    BY <1>3, <2>3, <2>4 DEF Received
  <2>6. InFlight' = InFlight \union {n}
    BY <1>1, <2>2, <2>4 DEF InFlight
  <2>7. Types'
    BY <1>1, <2>1, <2>4 DEF Inv, Types, input
  <2>8. ChannelOK'
    BY <2>3, <2>4 DEF Inv, ChannelOK
  <2>9. RunningOK'
    BY <1>1, <2>1, <2>6, OneMore
  <2>10. FailedOK'
    <3>1. failed # {}
      BY <1>6 DEF FailedDeps
    <3> QED
      BY <1>1, <2>1, <2>2, <3>1 DEF Inv, Types, FailedOK
  <2>11. CountersOK'
    BY <1>1, <1>2, <1>6, <2>2, <2>5, VisitCounts
  <2>12. ReachedOK' /\ DependenciesFirst' /\ CascadeIsExact'
    <3>1. deps[n] \subseteq Settled
      BY <1>1, <1>2, <1>3, <1>6
    <3> QED
      BY <1>1, <1>3, <1>6, <2>1, <2>2, <2>3, <3>1, OrderStep
  <2> QED
    BY <2>7, <2>8, <2>9, <2>10, <2>11, <2>12 DEF Inv
<1> QED
  BY <1>4, <1>5, <1>6 DEF Visit

\* The loop ends.
LEMMA EndStep == ASSUME Inv, End PROVE Inv'
<1>1. /\ loop = "receive" /\ loop' = "ended"
      /\ UNCHANGED <<input, inDegree, node, failed, firstErr, done, running, todo>>
  BY DEF End
<1>2. /\ Settled' = Settled /\ InChannel' = InChannel /\ Received' = Received
      /\ InFlight' = InFlight /\ \A n \in Tasks : Left(n)' = Left(n)
  BY <1>1 DEF Settled, InChannel, Received, InFlight, Left, input
<1>3. Types'
  BY <1>1 DEF Inv, Types, input
<1>4. ChannelOK' /\ RunningOK' /\ FailedOK'
  BY <1>1, <1>2 DEF Inv, ChannelOK, RunningOK, FailedOK
<1>5. CountersOK'
  BY <1>1, <1>2 DEF Inv, CountersOK
<1>6. ReachedOK' /\ DependenciesFirst' /\ CascadeIsExact'
  BY <1>1, <1>2, OrderStep
<1> QED
  BY <1>3, <1>4, <1>5, <1>6 DEF Inv

\* Nothing has been launched.
LEMMA InitInv == Init => Inv
<1> SUFFICES ASSUME Init PROVE Inv
  OBVIOUS
<1>1. /\ deps \in [Tasks -> SUBSET (Tasks \union {Unknown})]
      /\ continueOnFailure \subseteq Tasks
      /\ inDegree = [n \in Tasks |-> Cardinality(deps[n])]
      /\ node = [n \in Tasks |-> "waiting"]
      /\ failed = {} /\ firstErr = FALSE /\ done = << >> /\ running = 0
      /\ loop = "begin" /\ todo = {}
  BY WalkAssumption DEF Init
<1>2. Settled = {} /\ InChannel = {} /\ Received = {} /\ InFlight = {}
  <2>1. Settled = {}
    BY <1>1 DEF Settled
  <2>2. InChannel = {}
    BY <1>1 DEF InChannel
  <2> QED
    BY <1>1, <2>1, <2>2 DEF Received, InFlight
<1>3. \A n \in Tasks : Cardinality(deps[n]) \in Nat
  BY <1>1, TasksFinite
<1>4. Types
  <2>1. inDegree \in [Tasks -> Nat]
    BY <1>1, <1>3
  <2>2. node \in [Tasks -> {"waiting", "running", "returned", "sent", "skipped"}]
    BY <1>1
  <2>3. done \in Seq(Tasks)
    BY <1>1
  <2> QED
    BY <1>1, <2>1, <2>2, <2>3 DEF Types
<1>5. ChannelOK
  BY <1>1, <1>2 DEF ChannelOK
<1>6. CountersOK
  <2>1. ASSUME NEW n \in Tasks PROVE Left(n) = Cardinality(deps[n])
    <3>1. deps[n] \ Received = deps[n]
      BY <1>2
    <3> QED
      BY <3>1 DEF Left
  <2> QED
    BY <1>1, <2>1 DEF CountersOK
<1>7. RunningOK
  BY <1>1, <1>2, FS_EmptySet DEF RunningOK
<1>8. FailedOK /\ ReachedOK /\ DependenciesFirst /\ CascadeIsExact
  BY <1>1 DEF FailedOK, ReachedOK, DependenciesFirst, CascadeIsExact
<1> QED
  BY <1>4, <1>5, <1>6, <1>7, <1>8 DEF Inv

\* Every step of the walk keeps the invariant.
LEMMA WalkKeepsInv == Inv /\ [Next]_walk => Inv'
<1> SUFFICES ASSUME Inv, [Next]_walk PROVE Inv'
  OBVIOUS
<1>1. CASE UNCHANGED walk
  <2>1. UNCHANGED <<input, inDegree, node, failed, firstErr, done, running,
                    loop, todo>>
    BY <1>1 DEF walk
  <2>2. /\ Settled' = Settled /\ InChannel' = InChannel /\ Received' = Received
        /\ InFlight' = InFlight /\ \A n \in Tasks : Left(n)' = Left(n)
    BY <2>1 DEF Settled, InChannel, Received, InFlight, Left, input
  <2>3. Types'
    BY <2>1 DEF Inv, Types, input
  <2>4. ChannelOK' /\ RunningOK' /\ FailedOK' /\ CountersOK'
    BY <2>1, <2>2 DEF Inv, ChannelOK, RunningOK, FailedOK, CountersOK
  <2>5. ReachedOK' /\ DependenciesFirst' /\ CascadeIsExact'
    BY <2>1, <2>2, OrderStep
  <2> QED
    BY <2>3, <2>4, <2>5 DEF Inv
<1> QED
  BY <1>1, BeginStep, ReceiveStep, EndStep, SendStep, VisitStep, ReturnStep
     DEF Next, Step

\* The invariant holds throughout every walk.
THEOREM WalkInvariance == Spec => []Inv
  BY WalkKeepsInv, InitInv, PTL DEF Spec

\* No task starts or is skipped before its dependencies are settled (walkDAG's
\* in-degree counters).
THEOREM OrderOfTheDag == Spec => []DependenciesFirst
<1>1. Inv => DependenciesFirst
  BY DEF Inv
<1> QED
  BY <1>1, WalkInvariance, PTL

\* A failure reaches exactly the tasks it has to (walkDAG's failed map).
THEOREM ExactCascade == Spec => []CascadeIsExact
<1>1. Inv => CascadeIsExact
  BY DEF Inv
<1> QED
  BY <1>1, WalkInvariance, PTL

\* When the walk is over, nothing is in flight: a task waits, for good, or was
\* settled and received.
LEMMA AtTheEnd ==
    ASSUME Inv, running = 0, loop # "begin", loop # "visit"
    PROVE  /\ done = << >>
           /\ \A n \in Tasks : node[n] = "waiting" <=> n \notin Settled
           /\ \A n \in Tasks : node[n] = "waiting" <=> Unreachable(n)
<1>1. InFlight = {}
  <2>1. InFlight \subseteq Tasks
    BY DEF Inv, InFlight, ChannelOK, Settled
  <2>2. IsFiniteSet(InFlight) /\ Cardinality(InFlight) = 0
    BY <2>1, TasksFinite DEF Inv, RunningOK
  <2> QED
    BY <2>2, FS_EmptySet
<1>2. done = << >>
  <2>1. done \in Seq(Tasks) /\ Len(done) \in Nat
    BY DEF Inv, Types
  <2>2. 1 \notin 1..Len(done)
    BY <1>1 DEF InFlight, InChannel
  <2> QED
    BY <2>1, <2>2
<1>3. \A n \in Tasks : node[n] = "waiting" <=> n \notin Settled
  BY <1>1 DEF InFlight, Settled, Inv, Types
<1>4. Received = Settled
  BY <1>1 DEF InFlight, Received
<1> DEFINE W == {n \in Tasks : node[n] = "waiting"}
<1>5. ASSUME NEW n \in W PROVE Unknown \in deps[n] \/ deps[n] \intersect W # {}
  <2>1. todo = {}
    BY DEF Inv, CountersOK
  <2>2. inDegree[n] = Left(n) /\ inDegree[n] > 0
    BY <2>1 DEF Inv, CountersOK
  <2>3. deps[n] \ Received # {}
    BY <2>2, FS_EmptySet DEF Left
  <2>4. PICK m \in deps[n] : m \notin Settled
    BY <1>4, <2>3
  <2>5. m \in Tasks \union {Unknown}
    BY <2>4 DEF Inv, Types
  <2> QED
    BY <1>3, <2>4, <2>5
<1>6. \A n \in Tasks : node[n] = "waiting" => Unreachable(n)
  BY <1>5 DEF Unreachable
<1> QED
  BY <1>2, <1>3, <1>6 DEF Inv, ReachedOK

\* The loop has ended with its counter at 0.
EmptyAtEnd == loop = "ended" => running = 0

\* Every step of the walk keeps it so.
LEMMA WalkKeepsEmptyAtEnd == EmptyAtEnd /\ [Next]_walk => EmptyAtEnd'
<1> SUFFICES ASSUME EmptyAtEnd, [Next]_walk PROVE EmptyAtEnd'
  OBVIOUS
<1> USE DEF EmptyAtEnd
<1>1. CASE Begin \/ Receive \/ End \/ UNCHANGED walk
  BY <1>1 DEF Begin, Receive, End, walk
<1>2. ASSUME NEW n \in Tasks, Send(n) \/ Visit(n) PROVE EmptyAtEnd'
  BY <1>2 DEF Send, Visit
<1>3. ASSUME NEW n \in Tasks, NEW ok \in BOOLEAN, Return(n, ok) PROVE EmptyAtEnd'
  BY <1>3 DEF Return
<1> QED
  BY <1>1, <1>2, <1>3 DEF Next, Step

\* The walk ends with its counter at 0.
THEOREM EndsEmpty == Spec => []EmptyAtEnd
<1>1. Init => EmptyAtEnd
  BY DEF Init, EmptyAtEnd
<1> QED
  BY <1>1, WalkKeepsEmptyAtEnd, PTL DEF Spec

\* When the walk ends, nothing is running or in the channel, and exactly the
\* tasks that can be reached were settled (walkDAG's loop and its counter).
THEOREM NothingIsLeft == Spec => []NothingLeftBehind
<1>1. Inv /\ EmptyAtEnd => NothingLeftBehind
  <2> SUFFICES ASSUME Inv, loop = "ended", running = 0
               PROVE  /\ done = << >>
                      /\ Settled = {n \in Tasks : ~Unreachable(n)}
                      /\ \A n \in Tasks \ Settled : node[n] = "waiting"
    BY DEF NothingLeftBehind, EmptyAtEnd
  <2>1. /\ done = << >>
        /\ \A n \in Tasks : node[n] = "waiting" <=> n \notin Settled
        /\ \A n \in Tasks : node[n] = "waiting" <=> Unreachable(n)
    BY AtTheEnd
  <2>2. Settled \subseteq Tasks
    BY DEF Settled
  <2> QED
    BY <2>1, <2>2
<1> QED
  BY <1>1, WalkInvariance, EndsEmpty, PTL

\* What the loop knows at its end makes the verdict right.
LEMMA VerdictAtEnd == Inv /\ EmptyAtEnd => VerdictIsRight
<1> SUFFICES ASSUME Inv, loop = "ended", running = 0
             PROVE  /\ Verdict = "cycle" <=> \E n \in Tasks : Unreachable(n)
                    /\ Verdict = "ok" => failed = {} /\ Settled = Tasks
  BY DEF VerdictIsRight, EmptyAtEnd
<1>1. /\ \A n \in Tasks : node[n] = "waiting" <=> n \notin Settled
      /\ \A n \in Tasks : node[n] = "waiting" <=> Unreachable(n)
      /\ Settled \subseteq Tasks
  BY AtTheEnd DEF Settled
<1>2. \A n \in Tasks : /\ inDegree[n] \in Nat
                       /\ node[n] = "waiting" <=> inDegree[n] > 0
  BY DEF Inv, CountersOK, Types
<1>3. Verdict = "cycle" <=> \E n \in Tasks : inDegree[n] > 0
  BY DEF Verdict
<1>4. Verdict = "ok" => ~firstErr /\ \A n \in Tasks : ~(inDegree[n] > 0)
  BY <1>2 DEF Verdict
<1>5. failed # {} => firstErr
  BY DEF Inv, FailedOK
<1> QED
  BY <1>1, <1>2, <1>3, <1>4, <1>5

\* The verdict is right: a cycle is reported exactly for graphs that have one or
\* name an unknown task, and success only when every task was settled and none
\* failed or was skipped (the end of walkDAG).
THEOREM TheVerdict == Spec => []VerdictIsRight
  BY VerdictAtEnd, WalkInvariance, EndsEmpty, PTL

\* A step of the walk that is no task's return moves tasks only forward: from
\* waiting to running or skipped, and from returned to sent; and it fails only
\* the task it skips.
LEMMA StepMoves ==
    ASSUME Inv, Step, NEW n \in Tasks
    PROVE  /\ \/ node'[n] = node[n]
              \/ node[n] = "waiting" /\ node'[n] \in {"running", "skipped"}
              \/ node[n] = "returned" /\ node'[n] = "sent"
           /\ n \in failed => n \in failed'
           /\ n \in failed' => n \in failed \/ node'[n] = "skipped"
<1>0. node \in [Tasks -> {"waiting", "running", "returned", "sent", "skipped"}]
  BY DEF Inv, Types
<1>1. CASE Begin
  BY <1>0, <1>1 DEF Begin, Inv, CountersOK
<1>2. CASE Receive \/ End
  BY <1>2 DEF Receive, End
<1>3. ASSUME NEW m \in Tasks, Send(m)
      PROVE  /\ failed' = failed /\ node[m] = "returned"
             /\ node' = [node EXCEPT ![m] = "sent"]
  BY <1>3 DEF Send
<1>4. ASSUME NEW m \in Tasks, Visit(m)
      PROVE  /\ node[m] = "waiting"
             /\ \/ node' = node /\ failed' = failed
                \/ node' = [node EXCEPT ![m] = "running"] /\ failed' = failed
                \/ node' = [node EXCEPT ![m] = "skipped"] /\ failed' = failed \union {m}
  BY <1>4, VisitFinds DEF Visit, Launch, Skip
<1> QED
  BY <1>0, <1>1, <1>2, <1>3, <1>4 DEF Step

-----------------------------------------------------------------------------
(***************************************************************************)
(* That the walk ends, but for the fairness: it can always go on until it  *)
(* has ended, and every step of it leaves less to do.                      *)
(***************************************************************************)

\* What is left to do: returns, sends, receives, and the steps of the loop.
\* What is left to visit are the counters.
ToReturn == {n \in Tasks : node[n] \in {"waiting", "running"}}

ToSend == Tasks \ Settled

ToReceive == Tasks \ Received

LoopLeft == CASE loop = "begin" -> {"begin", "end"}
              [] loop = "ended" -> {}
              [] OTHER          -> {"end"}

\* Nothing is added to it by a step, and something is taken off it.
WorkShrinks ==
    /\ ToReturn' \subseteq ToReturn
    /\ ToSend' \subseteq ToSend
    /\ ToReceive' \subseteq ToReceive
    /\ LoopLeft' \subseteq LoopLeft
    /\ \A n \in Tasks : inDegree'[n] <= inDegree[n]
    /\ \/ ToReturn' # ToReturn
       \/ ToSend' # ToSend
       \/ ToReceive' # ToReceive
       \/ LoopLeft' # LoopLeft
       \/ \E n \in Tasks : inDegree'[n] < inDegree[n]

\* Whoever has yet to send finds room in the channel, the loop included, when
\* it skips a task and nobody else is there to receive.
SendsNeverBlock ==
    \A n \in Tasks :
        node[n] \in {"waiting", "running", "returned"} => Len(done) < Capacity

\* The loop never waits for something that nobody will send, and never visits
\* nothing.
NeverStuck ==
    /\ loop = "visit" => todo # {}
    /\ loop = "receive" /\ running > 0 =>
         \/ done # << >>
         \/ \E n \in Tasks : node[n] \in {"running", "returned"}

\* A step that leaves the channel and who is settled alone leaves the receives.
LEMMA SameReceives ==
    ASSUME UNCHANGED done, Settled' = Settled
    PROVE  ToSend' = ToSend /\ ToReceive' = ToReceive
  BY DEF ToSend, ToReceive, Received, InChannel

\* Every step of the walk is progress.
LEMMA StepShrinks == ASSUME Inv, Next PROVE WorkShrinks
<1>0. /\ node \in [Tasks -> {"waiting", "running", "returned", "sent", "skipped"}]
      /\ inDegree \in [Tasks -> Nat]
      /\ Types /\ ChannelOK
  BY DEF Inv, Types
<1>1. CASE Begin
  <2>1. /\ loop = "begin" /\ loop' = "receive" /\ UNCHANGED <<done, inDegree>>
        /\ \A n \in Tasks : node[n] = "waiting" /\ node'[n] \in {"waiting", "running"}
    BY <1>1 DEF Begin, Inv, CountersOK
  <2>2. Settled' = Settled /\ ToReturn' = ToReturn
    BY <2>1 DEF Settled, ToReturn
  <2>3. LoopLeft = {"begin", "end"} /\ LoopLeft' = {"end"}
    BY <2>1 DEF LoopLeft
  <2>4. LoopLeft' # LoopLeft /\ LoopLeft' \subseteq LoopLeft
    BY <2>3
  <2> QED
    BY <1>0, <2>1, <2>2, <2>4, SameReceives DEF WorkShrinks
<1>2. ASSUME NEW n \in Tasks, NEW ok \in BOOLEAN, Return(n, ok) PROVE WorkShrinks
  <2>1. /\ node[n] = "running" /\ node' = [node EXCEPT ![n] = "returned"]
        /\ UNCHANGED <<done, inDegree, loop>>
    BY <1>2 DEF Return
  <2>2. Settled' = Settled
    BY <1>0, <2>1 DEF Settled
  <2>3. ToReturn' = ToReturn \ {n} /\ n \in ToReturn
    BY <1>0, <2>1 DEF ToReturn
  <2>4. LoopLeft' = LoopLeft
    BY <2>1 DEF LoopLeft
  <2> QED
    BY <1>0, <2>1, <2>2, <2>3, <2>4, SameReceives DEF WorkShrinks
<1>3. ASSUME NEW n \in Tasks, Send(n) PROVE WorkShrinks
  <2>1. /\ node[n] = "returned" /\ node' = [node EXCEPT ![n] = "sent"]
        /\ done' = Append(done, n) /\ UNCHANGED <<inDegree, loop>>
    BY <1>3 DEF Send
  <2>2. Settled' = Settled \union {n} /\ n \notin Settled
    BY <1>0, <2>1 DEF Settled
  <2>3. InChannel' = InChannel \union {n}
    BY <1>0, <2>1, <2>2, AppendToChannel
  <2>4. ToReceive' = ToReceive
    BY <2>2, <2>3 DEF ToReceive, Received
  <2>5. ToSend' = ToSend \ {n} /\ n \in ToSend
    BY <2>2 DEF ToSend
  <2>6. ToReturn' = ToReturn /\ LoopLeft' = LoopLeft
    BY <1>0, <2>1 DEF ToReturn, LoopLeft
  <2> QED
    BY <1>0, <2>1, <2>4, <2>5, <2>6 DEF WorkShrinks
<1>4. CASE Receive
  <2> DEFINE h == Head(done)
  <2>1. /\ loop = "receive" /\ loop' \in {"receive", "visit"} /\ done # << >>
        /\ done' = Tail(done) /\ UNCHANGED <<node, inDegree>>
    BY <1>4 DEF Receive
  <2>2. InChannel' = InChannel \ {h} /\ h \in InChannel
    BY <1>0, <2>1, TakeFromChannel
  <2>3. Settled' = Settled /\ h \in Settled /\ Settled \subseteq Tasks
    BY <1>0, <2>1, <2>2 DEF Settled, ChannelOK
  <2>4. ToReceive' = ToReceive \ {h} /\ h \in ToReceive
    BY <2>2, <2>3 DEF ToReceive, Received
  <2>5. ToSend' = ToSend /\ ToReturn' = ToReturn
    BY <2>1, <2>3 DEF ToSend, ToReturn
  <2>6. LoopLeft' = LoopLeft
    BY <2>1 DEF LoopLeft
  <2> QED
    BY <1>0, <2>1, <2>4, <2>5, <2>6 DEF WorkShrinks
<1>5. ASSUME NEW n \in Tasks, Visit(n) PROVE WorkShrinks
  <2>1. /\ loop = "visit" /\ loop' \in {"receive", "visit"} /\ node[n] = "waiting"
        /\ Left(n) \in Nat /\ inDegree[n] = Left(n) + 1
        /\ inDegree' = [inDegree EXCEPT ![n] = Left(n)]
    BY <1>5, VisitFinds DEF Visit
  <2>2. /\ inDegree'[n] < inDegree[n]
        /\ \A m \in Tasks : inDegree'[m] <= inDegree[m]
    BY <1>0, <2>1
  <2>3. LoopLeft' = LoopLeft
    BY <2>1 DEF LoopLeft
  <2>4. \/ UNCHANGED <<node, done>>
        \/ node' = [node EXCEPT ![n] = "running"] /\ UNCHANGED done
        \/ node' = [node EXCEPT ![n] = "skipped"] /\ done' = Append(done, n)
    BY <1>5 DEF Visit, Launch, Skip
  <2>5. CASE node' = node \/ node' = [node EXCEPT ![n] = "running"]
    <3>1. Settled' = Settled /\ ToReturn' = ToReturn
      BY <1>0, <2>1, <2>5 DEF Settled, ToReturn
    <3>2. UNCHANGED done
      BY <1>0, <2>1, <2>4, <2>5
    <3> QED
      BY <2>2, <2>3, <3>1, <3>2, SameReceives DEF WorkShrinks
  <2>6. CASE node' = [node EXCEPT ![n] = "skipped"]
    <3>1. done' = Append(done, n)
      BY <1>0, <2>1, <2>4, <2>6
    <3>2. Settled' = Settled \union {n} /\ n \notin Settled
      BY <1>0, <2>1, <2>6 DEF Settled
    <3>3. InChannel' = InChannel \union {n}
      BY <1>0, <3>1, <3>2, AppendToChannel
    <3>4. ToReceive' = ToReceive
      BY <3>2, <3>3 DEF ToReceive, Received
    <3>5. ToSend' \subseteq ToSend /\ ToReturn' \subseteq ToReturn
      BY <1>0, <2>6, <3>2 DEF ToSend, ToReturn
    <3> QED
      BY <2>2, <2>3, <3>4, <3>5 DEF WorkShrinks
  <2> QED
    BY <2>4, <2>5, <2>6
<1>6. CASE End
  <2>1. loop = "receive" /\ loop' = "ended" /\ UNCHANGED <<node, done, inDegree>>
    BY <1>6 DEF End
  <2>2. Settled' = Settled /\ ToReturn' = ToReturn
    BY <2>1 DEF Settled, ToReturn
  <2>3. LoopLeft = {"end"} /\ LoopLeft' = {}
    BY <2>1 DEF LoopLeft
  <2>4. LoopLeft' # LoopLeft /\ LoopLeft' \subseteq LoopLeft
    BY <2>3
  <2> QED
    BY <1>0, <2>1, <2>2, <2>4, SameReceives DEF WorkShrinks
<1> QED
  BY <1>1, <1>2, <1>3, <1>4, <1>5, <1>6 DEF Next, Step

\* The channel holds each task at most once.
LEMMA ChannelCount ==
    ASSUME Inv
    PROVE  Len(done) = Cardinality(InChannel) /\ IsFiniteSet(InChannel)
<1> DEFINE f == [i \in 1..Len(done) |-> done[i]]
<1>1. Len(done) \in Nat
  BY DEF Inv, Types
<1>2. f \in Bijection(1..Len(done), InChannel)
  <2>1. f \in [1..Len(done) -> InChannel]
    BY DEF InChannel
  <2>2. IsInjective(f)
    BY DEF IsInjective, Inv, ChannelOK
  <2>3. ASSUME NEW n \in InChannel PROVE \E i \in 1..Len(done) : f[i] = n
    BY DEF InChannel
  <2> QED
    BY <2>1, <2>2, <2>3 DEF Bijection, Injection, Surjection
<1>3. ExistsBijection(1..Len(done), InChannel)
  BY <1>2 DEF ExistsBijection
<1>4. IsFiniteSet(1..Len(done)) /\ Cardinality(1..Len(done)) = Len(done)
  <2> DEFINE k == Len(done)
  <2>1. k \in Nat /\ 1 \in Int /\ k \in Int
    BY <1>1
  <2> HIDE DEF k
  <2>2. IsFiniteSet(1..k) /\ Cardinality(1..k) = IF 1 > k THEN 0 ELSE k - 1 + 1
    BY <2>1, FS_Interval
  <2>3. Cardinality(1..k) = k
    BY <2>1, <2>2
  <2> QED
    BY <2>2, <2>3 DEF k
<1> QED
  BY <1>3, <1>4, FS_Bijection

\* The buffer of the channel is large enough (make(chan string, len(deps))):
\* no goroutine leaks in its send, and the loop does not block on itself.
THEOREM RoomInTheChannel == Spec => []SendsNeverBlock
<1>1. Inv => SendsNeverBlock
  <2> SUFFICES ASSUME Inv, NEW n \in Tasks, node[n] \in {"waiting", "running", "returned"}
               PROVE  Len(done) < Capacity
    BY DEF SendsNeverBlock
  <2>1. InChannel \subseteq Tasks \ {n}
    BY DEF Inv, ChannelOK, Settled
  <2>2. IsFiniteSet(Tasks) /\ Cardinality(Tasks) \in Nat
    BY WalkAssumption, FS_CardinalityType
  <2>3. Cardinality(Tasks \ {n}) = Cardinality(Tasks) - 1 /\ IsFiniteSet(Tasks \ {n})
    BY <2>2, FS_RemoveElement
  <2>4. Cardinality(InChannel) <= Cardinality(Tasks \ {n})
    BY <2>1, <2>3, FS_Subset
  <2>5. Cardinality(InChannel) \in Nat
    BY ChannelCount, FS_CardinalityType
  <2> QED
    BY <2>2, <2>3, <2>4, <2>5, ChannelCount DEF Capacity
<1> QED
  BY <1>1, WalkInvariance, PTL

\* Until it has ended the walk can go on: the loop's counter is never above 0
\* with nobody left to send (the counter that walkDAG keeps for skipped tasks
\* as well as for goroutines).
THEOREM LoopIsNeverStuck == Spec => []NeverStuck
<1> DEFINE Visiting == loop = "visit" => todo # {}
<1>1. Spec => []Visiting
  <2>1. Init => Visiting
    BY DEF Init
  <2>2. Visiting /\ [Next]_walk => Visiting'
    BY DEF Next, Step, Begin, Receive, End, Send, Visit, Return, walk
  <2> QED
    BY <2>1, <2>2, PTL DEF Spec
<1>2. Inv /\ Visiting => NeverStuck
  <2> SUFFICES ASSUME Inv, running > 0, done = << >>
               PROVE  \E n \in Tasks : node[n] \in {"running", "returned"}
    BY DEF NeverStuck
  <2>1. InChannel = {}
    BY DEF InChannel
  <2>2. InFlight # {}
    BY FS_EmptySet DEF Inv, RunningOK
  <2> QED
    BY <2>1, <2>2 DEF InFlight
<1> QED
  BY <1>1, <1>2, WalkInvariance, PTL

\* The walk takes no step that is not progress, on any graph: finitely many
\* steps lead to its end.  With LoopIsNeverStuck this is WalkEnds up to the
\* fairness of goroutines.
THEOREM EveryStepIsProgress == Spec => [][WorkShrinks]_walk
<1>1. Inv /\ [Next]_walk => [WorkShrinks]_walk
  BY StepShrinks
<1> QED
  BY <1>1, WalkInvariance, PTL DEF Spec

=============================================================================
