--------------------------- MODULE DispatchProofs ---------------------------
(***************************************************************************)
(* Proofs about Dispatch, for any ticks, handlers and workers, any size of *)
(* the channel, and any number of runs, restarts, failed store calls and   *)
(* stalls.                                                                 *)
(***************************************************************************)
EXTENDS Dispatch, FiniteSetTheorems, TLAPS

\* The types of what the properties look at.
Types ==
    /\ paused \in BOOLEAN
    /\ drained \in BOOLEAN
    /\ job \in [Runs -> {"none", "pending", "claimed", "done", "canceled"}]
    /\ claimedBy \in [Runs -> Workers \union {Nobody}]
    /\ lapsed \subseteq {r \in Runs : job[r] = "claimed"}
    /\ minted \in Nat
    /\ minted <= MaxRuns
    /\ source \in [Runs -> {"none", "cron", "http", "retry"}]
    /\ late \in BOOLEAN
    /\ handler \in [Handlers -> {"idle", "locking", "sending"}]
    /\ queue \in Seq(Runs)
    /\ closed \in BOOLEAN
    /\ hand \in 0..MaxRuns
    /\ poll \in [Workers -> {"idle", "polling", "last", "empty", "waiting",
                             "claimed", "busy"}]
    /\ claim \in [Workers -> 0..MaxRuns]
    /\ errors \in Nat
    /\ stalls \in Nat

\* What was not minted yet is nowhere.
Fresh ==
    /\ \A r \in Runs : r > minted => job[r] = "none"
    /\ \A i \in 1..Len(queue) : queue[i] <= minted
    /\ hand <= minted

\* The runs in the channel differ from each other, from the one in the
\* adapter's hand and from those in the table.
Apart ==
    /\ \A i, j \in 1..Len(queue) : queue[i] = queue[j] => i = j
    /\ \A i \in 1..Len(queue) : queue[i] # hand /\ job[queue[i]] = "none"
    /\ hand # 0 => job[hand] = "none"

\* Who has a run is at it.  As long as no worker stalled, its row is the
\* worker's, with a claim that did not lapse, or canceled; and nobody else has it.
Claims ==
    /\ \A w \in Workers : claim[w] # 0 <=> poll[w] \in {"claimed", "busy"}
    /\ stalls = 0 =>
         \A w \in Workers :
            claim[w] # 0 =>
               /\ Owns(w, claim[w]) \/ job[claim[w]] = "canceled"
               /\ claim[w] \notin lapsed
               /\ \A v \in Workers \ {w} : claim[v] # claim[w]

\* The handler that sends holds the mutex, and found the gates open; they stay
\* so until it unlocks.
Locked ==
    /\ \A h \in Handlers : handler[h] = "sending" <=> triggerMu = h
    /\ triggerMu # Nobody /\ errors = 0 => ~paused /\ ~drained

\* From the end of the listener on, a handler under way is a late one.
Closing ==
    /\ closed => phase \in {"waiting", "off"}
    /\ phase \in {"unheard", "waiting", "off"} =>
         late \/ \A h \in Handlers : handler[h] = "idle"

\* The inductive invariant.
Inv ==
    /\ Types
    /\ Fresh
    /\ Apart
    /\ Claims
    /\ Locked
    /\ Closing

-----------------------------------------------------------------------------

\* What Append does to a channel.
LEMMA AppendFacts ==
    ASSUME NEW S, NEW q \in Seq(S), NEW x \in S
    PROVE  /\ Append(q, x) \in Seq(S)
           /\ Len(Append(q, x)) = Len(q) + 1
           /\ \A i \in 1..Len(q) : Append(q, x)[i] = q[i]
           /\ Append(q, x)[Len(q) + 1] = x
  OBVIOUS

\* What a receive does to a channel.
LEMMA TailFacts ==
    ASSUME NEW S, NEW q \in Seq(S), q # << >>
    PROVE  /\ Tail(q) \in Seq(S)
           /\ Len(q) \in Nat \ {0}
           /\ Len(Tail(q)) = Len(q) - 1
           /\ \A i \in 1..Len(Tail(q)) : Tail(q)[i] = q[i + 1]
           /\ Head(q) = q[1]
           /\ Head(q) \in S
  OBVIOUS

\* A new run has the next number, and its cause.
LEMMA MintFacts ==
    ASSUME Types, NEW cause \in {"cron", "http", "retry"}, Mint(cause)
    PROVE  /\ minted' = minted + 1
           /\ minted' \in Runs
           /\ source' \in [Runs -> {"none", "cron", "http", "retry"}]
           /\ \A r \in Runs : source'[r] = source[r] \/ source'[r] = cause
  BY DispatchAssumption DEF Types, Mint, Runs

\* A send of a new run on the channel keeps the runs apart.
LEMMA SendKeepsApart ==
    ASSUME Types, Fresh, Apart,
           NEW cause \in {"cron", "http", "retry"}, Mint(cause),
           queue' = Append(queue, minted'),
           UNCHANGED <<job, hand>>
    PROVE  /\ queue' \in Seq(Runs)
           /\ Fresh'
           /\ Apart'
<1>1. /\ minted' = minted + 1
      /\ minted' \in Runs
  BY MintFacts
<1>2. minted \in Nat /\ Runs \subseteq Nat /\ hand \in Nat
  BY DispatchAssumption DEF Types, Runs
<1>3. /\ queue' \in Seq(Runs)
      /\ Len(queue) \in Nat
      /\ Len(queue') = Len(queue) + 1
      /\ \A i \in 1..Len(queue) : queue'[i] = queue[i] /\ queue[i] \in Runs
      /\ queue'[Len(queue) + 1] = minted'
  BY <1>1, AppendFacts DEF Types
<1>4. Fresh'
  <2>1. \A r \in Runs : r > minted' => job'[r] = "none"
    BY <1>1, <1>2 DEF Fresh
  <2>2. \A i \in 1..Len(queue') : queue'[i] <= minted'
    <3> SUFFICES ASSUME NEW i \in 1..Len(queue') PROVE queue'[i] <= minted'
      OBVIOUS
    <3>1. CASE i \in 1..Len(queue)
      <4>1. queue'[i] = queue[i] /\ queue[i] \in Nat /\ queue[i] <= minted
        BY <1>2, <1>3, <3>1 DEF Fresh
      <4> QED
        BY <1>1, <1>2, <4>1
    <3>2. CASE i = Len(queue) + 1
      BY <1>1, <1>2, <1>3, <3>2
    <3> QED
      BY <1>3, <3>1, <3>2
  <2>3. hand' <= minted'
    BY <1>1, <1>2 DEF Fresh
  <2> QED
    BY <2>1, <2>2, <2>3 DEF Fresh
<1>5. Apart'
  <2>1. \A i \in 1..Len(queue) : queue[i] # minted'
    BY <1>1, <1>2, <1>3 DEF Fresh
  <2>2. \A i, j \in 1..Len(queue') : queue'[i] = queue'[j] => i = j
    BY <1>3, <2>1 DEF Apart
  <2>3. minted' # hand /\ job[minted'] = "none"
    BY <1>1, <1>2 DEF Fresh
  <2>4. \A i \in 1..Len(queue') : queue'[i] # hand' /\ job'[queue'[i]] = "none"
    BY <1>3, <2>3 DEF Apart
  <2> QED
    BY <2>2, <2>4 DEF Apart
<1> QED
  BY <1>3, <1>4, <1>5

\* A step that leaves the runs alone keeps them where they are.
LEMMA RunsKept ==
    ASSUME Fresh, Apart, UNCHANGED <<job, minted, queue, hand>>
    PROVE  Fresh' /\ Apart'
  BY DEF Fresh, Apart

LEMMA ClaimsKept ==
    ASSUME Claims, UNCHANGED <<jobs, claim, poll, stalls>>
    PROVE  Claims'
  BY DEF Claims, Owns, jobs

LEMMA LockedKept ==
    ASSUME Locked, UNCHANGED <<handler, triggerMu, paused, drained, errors>>
    PROVE  Locked'
  BY DEF Locked

LEMMA ClosingKept ==
    ASSUME Closing, UNCHANGED <<closed, phase, late, handler>>
    PROVE  Closing'
  BY DEF Closing

\* The claims stand when their rows do.
LEMMA ClaimsStand ==
    ASSUME Claims, UNCHANGED <<claim, stalls>>, lapsed' \subseteq lapsed,
           \A w \in Workers :
              poll'[w] \in {"claimed", "busy"} <=> poll[w] \in {"claimed", "busy"},
           stalls = 0 =>
              \A w \in Workers :
                 claim[w] # 0 => \/ job'[claim[w]] = "canceled"
                                 \/ /\ job'[claim[w]] = job[claim[w]]
                                    /\ claimedBy'[claim[w]] = claimedBy[claim[w]]
    PROVE  Claims'
<1>1. \A w \in Workers : claim'[w] # 0 <=> poll'[w] \in {"claimed", "busy"}
  BY DEF Claims
<1>2. ASSUME stalls = 0, NEW w \in Workers, claim[w] # 0
      PROVE  /\ Owns(w, claim[w])' \/ job'[claim[w]] = "canceled"
             /\ claim[w] \notin lapsed'
             /\ \A v \in Workers \ {w} : claim[v] # claim[w]
  BY <1>2 DEF Claims, Owns
<1> QED
  BY <1>1, <1>2 DEF Claims

\* signalWaiters moves no worker that has a run, and makes none have one.
LEMMA SignalKeepsClaims ==
    ASSUME Types, Claims, signalWaiters(poll), UNCHANGED <<claim, stalls>>,
           lapsed' \subseteq lapsed,
           stalls = 0 =>
              \A w \in Workers :
                 claim[w] # 0 => /\ job'[claim[w]] = job[claim[w]]
                                 /\ claimedBy'[claim[w]] = claimedBy[claim[w]]
    PROVE  /\ Claims'
           /\ poll' \in [Workers -> {"idle", "polling", "last", "empty",
                                     "waiting", "claimed", "busy"}]
<1>1. \A w \in Workers : poll'[w] = IF poll[w] = "waiting" THEN "polling" ELSE poll[w]
  BY DEF signalWaiters
<1>2. poll' \in [Workers -> {"idle", "polling", "last", "empty",
                             "waiting", "claimed", "busy"}]
  BY DEF signalWaiters, Types
<1>3. \A w \in Workers :
         poll'[w] \in {"claimed", "busy"} <=> poll[w] \in {"claimed", "busy"}
  BY <1>1
<1> QED
  BY <1>2, <1>3, ClaimsStand

\* A gate reads the errors, and counts them.
LEMMA GateFacts ==
    ASSUME Types, NEW flag \in BOOLEAN, NEW open \in BOOLEAN, Gate(flag, open)
    PROVE  /\ errors' \in Nat
           /\ errors' = 0 => errors = 0
           /\ errors' = 0 /\ open => ~flag
  BY DEF Types, Gate

-----------------------------------------------------------------------------

\* The steps of a tick.
LEMMA TickStep ==
    ASSUME Inv, NEW t \in Ticks,
           ProduceSchedule(t) \/ ProducePauseCheck(t) \/ ProduceSend(t)
    PROVE  Inv'
<1> USE DEF Inv, store, gates, jobs, runs, process, causes, chan, polls, faults
<1>1. ASSUME NEW flag \in BOOLEAN, NEW open \in BOOLEAN, Gate(flag, open),
             UNCHANGED <<store, runs, process, handler, triggerMu, chan, polls,
                         restarts, stalls>>
      PROVE  Inv'
  <2>1. errors' \in Nat /\ (errors' = 0 => errors = 0)
    BY <1>1, GateFacts
  <2>2. Types'
    BY <1>1, <2>1 DEF Types
  <2>3. Fresh' /\ Apart' /\ Claims' /\ Closing'
    BY <1>1, RunsKept, ClaimsKept, ClosingKept
  <2>4. Locked'
    BY <1>1, <2>1 DEF Locked
  <2> QED
    BY <2>2, <2>3, <2>4
<1>2. CASE ProduceSchedule(t)
  <2>1. PICK open \in BOOLEAN : Gate(drained, open)
    BY <1>2 DEF ProduceSchedule
  <2>2. drained \in BOOLEAN
    BY DEF Types
  <2> QED
    BY <1>1, <1>2, <2>1, <2>2 DEF ProduceSchedule
<1>3. CASE ProducePauseCheck(t)
  <2>1. PICK open \in BOOLEAN : Gate(paused, open)
    BY <1>3 DEF ProducePauseCheck
  <2>2. paused \in BOOLEAN
    BY DEF Types
  <2> QED
    BY <1>1, <1>3, <2>1, <2>2 DEF ProducePauseCheck
<1>4. CASE ProduceSend(t)
  <2>1. /\ Mint("cron")
        /\ queue' = Append(queue, minted')
        /\ UNCHANGED <<store, process, handler, triggerMu, closed, hand, polls, faults>>
    BY <1>4 DEF ProduceSend
  <2>2. queue' \in Seq(Runs) /\ Fresh' /\ Apart'
    BY <2>1, SendKeepsApart
  <2>3. Types'
    BY <2>1, <2>2, MintFacts, DispatchAssumption DEF Types, Runs
  <2>4. Claims' /\ Locked' /\ Closing'
    BY <2>1, ClaimsKept, LockedKept, ClosingKept
  <2> QED
    BY <2>2, <2>3, <2>4
<1> QED
  BY <1>2, <1>3, <1>4

\* A handler that answers gives the mutex back.
LEMMA AnswerKeeps ==
    ASSUME Inv, NEW h \in Handlers, handler[h] = "sending", Answer(h),
           UNCHANGED <<paused, drained, errors, closed, phase, late>>
    PROVE  /\ handler' \in [Handlers -> {"idle", "locking", "sending"}]
           /\ Locked'
           /\ Closing'
<1> USE DEF Inv
<1>1. handler' = [handler EXCEPT ![h] = "idle"] /\ triggerMu' = Nobody
  BY DEF Answer
<1>2. handler \in [Handlers -> {"idle", "locking", "sending"}]
  BY DEF Types
<1>3. handler' \in [Handlers -> {"idle", "locking", "sending"}]
  BY <1>1, <1>2
<1>4. triggerMu = h
  BY DEF Locked
<1>5. \A g \in Handlers : handler'[g] # "sending" /\ g # Nobody
  BY <1>1, <1>2, <1>4, DispatchAssumption DEF Locked
<1>6. Locked'
  BY <1>1, <1>5 DEF Locked
<1>7. Closing'
  BY <1>1, <1>2 DEF Closing
<1> QED
  BY <1>3, <1>6, <1>7

\* The steps of a trigger handler.
LEMMA HandlerStep ==
    ASSUME Inv, NEW h \in Handlers,
           \/ handleScheduleRoute(h)
           \/ TriggerCheck(h)
           \/ TriggerSend(h)
           \/ TriggerFails(h)
    PROVE  Inv'
<1> USE DEF Inv, store, gates, jobs, runs, process, causes, chan, polls, faults
<1>0. handler \in [Handlers -> {"idle", "locking", "sending"}]
  BY DEF Types
<1>1. CASE handleScheduleRoute(h)
  <2> USE <1>1 DEF handleScheduleRoute
  <2>1. Types'
    BY DEF Types
  <2>2. Fresh' /\ Apart' /\ Claims'
    BY RunsKept, ClaimsKept
  <2>3. Locked'
    BY <1>0 DEF Locked
  <2>4. Closing'
    BY DEF Closing
  <2> QED
    BY <2>1, <2>2, <2>3, <2>4
<1>2. CASE TriggerCheck(h)
  <2>1. PICK open \in BOOLEAN :
          /\ Gate(drained \/ paused, open)
          /\ handler' = [handler EXCEPT ![h] = IF open THEN "sending" ELSE "idle"]
          /\ triggerMu' = IF open THEN h ELSE Nobody
    BY <1>2 DEF TriggerCheck
  <2>2. /\ handler[h] = "locking"
        /\ triggerMu = Nobody
        /\ UNCHANGED <<store, runs, process, tick, chan, polls, restarts, stalls>>
    BY <1>2 DEF TriggerCheck
  <2>3. (drained \/ paused) \in BOOLEAN
    BY DEF Types
  <2>4. /\ errors' \in Nat
        /\ errors' = 0 /\ open => ~drained /\ ~paused
    BY <2>1, <2>3, GateFacts
  <2>5. Types'
    BY <1>0, <2>1, <2>2, <2>4 DEF Types
  <2>6. Fresh' /\ Apart' /\ Claims'
    BY <2>2, RunsKept, ClaimsKept
  <2>7. Locked'
    <3>1. \A g \in Handlers : handler[g] # "sending" /\ g # Nobody
      BY <2>2, DispatchAssumption DEF Locked
    <3>2. \A g \in Handlers : handler'[g] = "sending" <=> triggerMu' = g
      BY <1>0, <2>1, <3>1
    <3>3. triggerMu' # Nobody /\ errors' = 0 => ~paused' /\ ~drained'
      BY <2>1, <2>2, <2>4
    <3> QED
      BY <3>2, <3>3 DEF Locked
  <2>8. Closing'
    BY <1>0, <2>1, <2>2 DEF Closing
  <2> QED
    BY <2>5, <2>6, <2>7, <2>8
<1>3. CASE TriggerSend(h)
  <2>1. /\ handler[h] = "sending"
        /\ Mint("http")
        /\ queue' = Append(queue, minted')
        /\ Answer(h)
        /\ UNCHANGED <<store, process, tick, closed, hand, polls, faults>>
    BY <1>3 DEF TriggerSend
  <2>2. queue' \in Seq(Runs) /\ Fresh' /\ Apart'
    BY <2>1, SendKeepsApart
  <2>3. /\ handler' \in [Handlers -> {"idle", "locking", "sending"}]
        /\ Locked' /\ Closing'
    BY <2>1, AnswerKeeps
  <2>4. Types'
    BY <2>1, <2>2, <2>3, MintFacts, DispatchAssumption DEF Types, Runs
  <2>5. Claims'
    BY <2>1, ClaimsKept
  <2> QED
    BY <2>2, <2>3, <2>4, <2>5
<1>4. CASE TriggerFails(h)
  <2>1. /\ handler[h] = "sending"
        /\ Answer(h)
        /\ UNCHANGED <<store, runs, process, tick, chan, polls, faults>>
    BY <1>4 DEF TriggerFails
  <2>2. /\ handler' \in [Handlers -> {"idle", "locking", "sending"}]
        /\ Locked' /\ Closing'
    BY <2>1, AnswerKeeps
  <2>3. Types'
    BY <2>1, <2>2 DEF Types
  <2>4. Fresh' /\ Apart' /\ Claims'
    BY <2>1, RunsKept, ClaimsKept
  <2> QED
    BY <2>2, <2>3, <2>4
<1> QED
  BY <1>1, <1>2, <1>3, <1>4

\* The verbs that set and clear the flags.
LEMMA FlagStep ==
    ASSUME Inv, Pause \/ Resume \/ Drain \/ Undrain
    PROVE  Inv'
<1> USE DEF Inv, store, gates, jobs, runs, process, causes, chan, polls, faults
<1>1. /\ paused' \in BOOLEAN /\ drained' \in BOOLEAN
      /\ triggerMu # Nobody => (paused' => paused) /\ (drained' => drained)
      /\ UNCHANGED <<jobs, runs, process, causes, chan, polls, faults>>
  <2>0. paused \in BOOLEAN /\ drained \in BOOLEAN
    BY DEF Types
  <2>1. CASE Pause \/ Drain
    BY <2>0, <2>1 DEF Pause, Drain, SetFlags
  <2>2. CASE Resume
    BY <2>0, <2>2 DEF Resume, ClearFlags
  <2>3. CASE Undrain
    BY <2>0, <2>3 DEF Undrain, ClearFlags
  <2> QED
    BY <2>1, <2>2, <2>3
<1>2. Types'
  BY <1>1 DEF Types
<1>3. Fresh' /\ Apart' /\ Claims' /\ Closing'
  BY <1>1, RunsKept, ClaimsKept, ClosingKept
<1>4. Locked'
  BY <1>1 DEF Locked
<1> QED
  BY <1>2, <1>3, <1>4

-----------------------------------------------------------------------------

\* The steps of enqueueAdapter, and a retry's insert.
LEMMA InsertStep ==
    ASSUME Inv,
           \/ AdapterReceive
           \/ AdapterEnqueue
           \/ AdapterFails
           \/ \E r \in Runs : RetryRun(r)
    PROVE  Inv'
<1> USE DEF Inv, store, gates, jobs, runs, process, causes, chan, polls, faults
<1>0. /\ minted \in Nat /\ Runs \subseteq Nat \ {0} /\ hand \in Nat
      /\ hand # 0 => hand \in Runs
      /\ queue \in Seq(Runs) /\ Len(queue) \in Nat
      /\ \A i \in 1..Len(queue) : queue[i] \in Runs
      /\ job \in [Runs -> {"none", "pending", "claimed", "done", "canceled"}]
  BY DispatchAssumption DEF Types, Runs
<1>1. CASE AdapterReceive
  <2>1. /\ hand = 0 /\ queue # << >>
        /\ hand' = Head(queue) /\ queue' = Tail(queue)
        /\ UNCHANGED <<store, runs, process, causes, closed, polls, faults>>
    BY <1>1 DEF AdapterReceive
  <2>2. /\ queue' \in Seq(Runs)
        /\ Len(queue) \in Nat \ {0}
        /\ Len(queue') = Len(queue) - 1
        /\ \A i \in 1..Len(queue') : queue'[i] = queue[i + 1]
        /\ hand' = queue[1]
        /\ hand' \in Runs
    BY <1>0, <2>1, TailFacts
  <2>3. \A i \in 1..Len(queue') : i + 1 \in 1..Len(queue) /\ i + 1 # 1
    BY <2>2
  <2>4. 1 \in 1..Len(queue)
    BY <2>2
  <2>5. Types'
    BY <2>1, <2>2, DispatchAssumption DEF Types, Runs
  <2>6. Fresh'
    BY <2>1, <2>2, <2>3, <2>4 DEF Fresh
  <2>7. Apart'
    <3>1. \A i, j \in 1..Len(queue') : queue'[i] = queue'[j] => i = j
      <4> SUFFICES ASSUME NEW i \in 1..Len(queue'), NEW j \in 1..Len(queue'),
                          queue'[i] = queue'[j]
                   PROVE  i = j
        OBVIOUS
      <4>1. queue[i + 1] = queue[j + 1]
        BY <2>2
      <4>2. i + 1 = j + 1
        BY <2>3, <4>1 DEF Apart
      <4> QED
        BY <2>2, <4>2
    <3>2. \A i \in 1..Len(queue') : queue'[i] # hand' /\ job'[queue'[i]] = "none"
      BY <2>1, <2>2, <2>3, <2>4 DEF Apart
    <3>3. job'[hand'] = "none"
      BY <2>1, <2>2, <2>4 DEF Apart
    <3> QED
      BY <3>1, <3>2, <3>3 DEF Apart
  <2>8. Claims' /\ Locked' /\ Closing'
    BY <2>1, ClaimsKept, LockedKept, ClosingKept
  <2> QED
    BY <2>5, <2>6, <2>7, <2>8
<1>2. CASE AdapterEnqueue
  <2>1. /\ hand # 0 /\ hand' = 0
        /\ job' = [job EXCEPT ![hand] = "pending"]
        /\ signalWaiters(poll)
        /\ UNCHANGED <<gates, claimedBy, lapsed, runs, process, causes, queue, closed,
                       claim, faults>>
    BY <1>2 DEF AdapterEnqueue
  <2>2. /\ job' \in [Runs -> {"none", "pending", "claimed", "done", "canceled"}]
        /\ hand \in Runs
        /\ \A r \in Runs : r # hand => job'[r] = job[r]
        /\ job[hand] = "none"
    BY <1>0, <2>1 DEF Apart
  <2>3. stalls = 0 =>
          \A w \in Workers :
             claim[w] # 0 => /\ job'[claim[w]] = job[claim[w]]
                             /\ claimedBy'[claim[w]] = claimedBy[claim[w]]
    BY <2>2, <2>1, <1>0 DEF Claims, Owns, Types, Runs
  <2>4. /\ Claims'
        /\ poll' \in [Workers -> {"idle", "polling", "last", "empty",
                                  "waiting", "claimed", "busy"}]
    BY <2>1, <2>3, SignalKeepsClaims
  <2>5. Types'
    BY <1>0, <2>1, <2>2, <2>4, DispatchAssumption DEF Types
  <2>6. Fresh'
    BY <1>0, <2>1, <2>2 DEF Fresh
  <2>7. Apart'
    BY <1>0, <2>1, <2>2 DEF Apart
  <2>8. Locked' /\ Closing'
    BY <2>1, LockedKept, ClosingKept
  <2> QED
    BY <2>4, <2>5, <2>6, <2>7, <2>8
<1>3. CASE AdapterFails
  <2>1. /\ hand' = 0
        /\ errors' = errors + 1
        /\ UNCHANGED <<store, runs, process, causes, queue, closed, polls, restarts,
                       stalls>>
    BY <1>3 DEF AdapterFails
  <2>2. Types'
    BY <2>1, DispatchAssumption DEF Types
  <2>3. Fresh' /\ Apart'
    BY <1>0, <2>1 DEF Fresh, Apart
  <2>4. Claims' /\ Closing'
    BY <2>1, ClaimsKept, ClosingKept
  <2>5. Locked'
    BY <2>1 DEF Locked, Types
  <2> QED
    BY <2>2, <2>3, <2>4, <2>5
<1>4. CASE \E r \in Runs : RetryRun(r)
  <2>1. /\ Mint("retry")
        /\ job' = [job EXCEPT ![minted'] = "pending"]
        /\ signalWaiters(poll)
        /\ UNCHANGED <<gates, claimedBy, lapsed, process, causes, chan, claim, faults>>
    BY <1>4 DEF RetryRun
  <2>2. /\ minted' = minted + 1
        /\ minted' \in Runs
        /\ source' \in [Runs -> {"none", "cron", "http", "retry"}]
    BY <2>1, MintFacts
  <2>3. /\ job' \in [Runs -> {"none", "pending", "claimed", "done", "canceled"}]
        /\ \A r \in Runs : r # minted' => job'[r] = job[r]
        /\ job[minted'] = "none"
    BY <1>0, <2>1, <2>2 DEF Fresh
  <2>4. stalls = 0 =>
          \A w \in Workers :
             claim[w] # 0 => /\ job'[claim[w]] = job[claim[w]]
                             /\ claimedBy'[claim[w]] = claimedBy[claim[w]]
    BY <2>1, <2>3, <1>0 DEF Claims, Owns, Types, Runs
  <2>5. /\ Claims'
        /\ poll' \in [Workers -> {"idle", "polling", "last", "empty",
                                  "waiting", "claimed", "busy"}]
    BY <2>1, <2>4, SignalKeepsClaims
  <2>6. Types'
    BY <1>0, <2>1, <2>2, <2>3, <2>5, DispatchAssumption DEF Types, Runs
  <2>7. \A i \in 1..Len(queue) :
           queue[i] \in Runs /\ queue[i] # minted' /\ queue[i] <= minted'
    <3> SUFFICES ASSUME NEW i \in 1..Len(queue)
                 PROVE  queue[i] \in Runs /\ queue[i] # minted' /\ queue[i] <= minted'
      OBVIOUS
    <3>1. queue[i] \in Runs /\ queue[i] \in Nat /\ queue[i] <= minted
      BY <1>0 DEF Fresh
    <3> QED
      BY <1>0, <2>2, <3>1
  <2>8. hand # minted' /\ hand <= minted'
    BY <1>0, <2>2 DEF Fresh
  <2>9. Fresh'
    BY <1>0, <2>1, <2>2, <2>3, <2>7, <2>8 DEF Fresh
  <2>10. Apart'
    BY <1>0, <2>1, <2>3, <2>7, <2>8 DEF Apart
  <2>11. Locked' /\ Closing'
    BY <2>1, LockedKept, ClosingKept
  <2> QED
    BY <2>5, <2>6, <2>9, <2>10, <2>11
<1> QED
  BY <1>1, <1>2, <1>3, <1>4

-----------------------------------------------------------------------------

\* The steps of a worker.
LEMMA WorkerStep ==
    ASSUME Inv, NEW w \in Workers,
           \/ Ask(w)
           \/ \E r \in Runs : ClaimJob(w, r)
           \/ NoJobs(w)
           \/ WaitForJob(w)
           \/ PollTimeout(w)
           \/ Launch(w)
           \/ AckJob(w)
           \/ Heartbeat(w)
    PROVE  Inv'
<1> USE DEF Inv, store, gates, jobs, runs, process, causes, chan, polls, faults
<1>0. /\ poll \in [Workers -> {"idle", "polling", "last", "empty", "waiting",
                               "claimed", "busy"}]
      /\ claim \in [Workers -> 0..MaxRuns]
      /\ job \in [Runs -> {"none", "pending", "claimed", "done", "canceled"}]
      /\ Runs = 1..MaxRuns /\ MaxRuns \in Nat
  BY DispatchAssumption DEF Types, Runs
\* A step of the long poll that leaves the claims alone.
<1>1. ASSUME NEW p \in {"idle", "polling", "last", "empty", "waiting", "claimed", "busy"},
             poll' = [poll EXCEPT ![w] = p],
             p \in {"claimed", "busy"} <=> poll[w] \in {"claimed", "busy"},
             errors' \in Nat, errors' = 0 => errors = 0,
             UNCHANGED <<store, runs, process, causes, chan, claim, restarts, stalls>>
      PROVE  Inv'
  <2>1. Types'
    BY <1>0, <1>1 DEF Types
  <2>2. Fresh' /\ Apart' /\ Closing'
    BY <1>1, RunsKept, ClosingKept
  <2>3. Locked'
    BY <1>1 DEF Locked
  <2>4. \A v \in Workers :
           poll'[v] \in {"claimed", "busy"} <=> poll[v] \in {"claimed", "busy"}
    BY <1>0, <1>1
  <2>5. Claims'
    BY <1>1, <2>4, ClaimsStand
  <2> QED
    BY <2>1, <2>2, <2>3, <2>5
<1>2. CASE Ask(w)
  BY <1>1, <1>2 DEF Ask, Types
<1>3. CASE \E r \in Runs : ClaimJob(w, r)
  <2>1. PICK r \in Runs : ClaimJob(w, r)
    BY <1>3
  <2>2. /\ poll[w] \in {"polling", "last"}
        /\ job[r] = "pending"
        /\ job' = [job EXCEPT ![r] = "claimed"]
        /\ claimedBy' = [claimedBy EXCEPT ![r] = w]
        /\ claim' = [claim EXCEPT ![w] = r]
        /\ poll' = [poll EXCEPT ![w] = "claimed"]
        /\ UNCHANGED <<gates, lapsed, runs, process, causes, chan, faults>>
    BY <2>1 DEF ClaimJob, Pending
  <2>3. Types'
    BY <1>0, <2>2 DEF Types
  <2>4. \A q \in Runs : job[q] = "none" => job'[q] = "none"
    BY <1>0, <2>2
  <2>5. Fresh' /\ Apart'
    BY <1>0, <2>2, <2>4 DEF Fresh, Apart, Types
  <2>6. Claims'
    <3>1. \A v \in Workers \ {w} : claim'[v] = claim[v] /\ poll'[v] = poll[v]
      BY <1>0, <2>2
    <3>2. /\ claim'[w] = r /\ r # 0 /\ poll'[w] = "claimed"
          /\ job'[r] = "claimed" /\ claimedBy'[r] = w /\ r \notin lapsed'
      BY <1>0, <2>2 DEF Types
    <3>3. ASSUME stalls = 0, NEW v \in Workers \ {w}, claim[v] # 0
          PROVE  /\ claim[v] # r
                 /\ \/ job'[claim[v]] = "claimed" /\ claimedBy'[claim[v]] = v
                    \/ job'[claim[v]] = "canceled"
                 /\ claim[v] \notin lapsed'
                 /\ \A u \in Workers \ {v, w} : claim[u] # claim[v]
      <4>1. claim[v] # r
        BY <2>2, <3>3 DEF Claims, Owns
      <4>2. job'[claim[v]] = job[claim[v]] /\ claimedBy'[claim[v]] = claimedBy[claim[v]]
        BY <1>0, <2>2, <4>1 DEF Types
      <4> QED
        BY <2>2, <3>3, <4>1, <4>2 DEF Claims, Owns
    <3>4. \A v \in Workers : claim'[v] # 0 <=> poll'[v] \in {"claimed", "busy"}
      BY <3>1, <3>2 DEF Claims
    <3>5. ASSUME stalls = 0, NEW v \in Workers, claim'[v] # 0
          PROVE  /\ \/ job'[claim'[v]] = "claimed" /\ claimedBy'[claim'[v]] = v
                    \/ job'[claim'[v]] = "canceled"
                 /\ claim'[v] \notin lapsed'
                 /\ \A u \in Workers \ {v} : claim'[u] # claim'[v]
      <4>1. CASE v = w
        <5>1. \A u \in Workers \ {w} : claim'[u] # r
          BY <1>0, <3>1, <3>3, <3>5
        <5> QED
          BY <3>2, <4>1, <5>1
      <4>2. CASE v # w
        <5>1. claim'[v] = claim[v] /\ claim[v] # 0
          BY <3>1, <3>5, <4>2
        <5>2. \A u \in Workers \ {v} : claim'[u] # claim[v]
          BY <3>1, <3>2, <3>3, <3>5, <4>2, <5>1
        <5> QED
          BY <3>3, <3>5, <4>2, <5>1, <5>2
      <4> QED
        BY <4>1, <4>2
    <3> QED
      BY <2>2, <3>4, <3>5 DEF Claims, Owns
  <2>7. Locked' /\ Closing'
    BY <2>2, LockedKept, ClosingKept
  <2> QED
    BY <2>3, <2>5, <2>6, <2>7
<1>4. CASE NoJobs(w)
  BY <1>1, <1>4 DEF NoJobs, Types
<1>5. CASE WaitForJob(w)
  BY <1>1, <1>5 DEF WaitForJob, Types
<1>6. CASE PollTimeout(w)
  BY <1>1, <1>6 DEF PollTimeout, Types
<1>7. CASE Launch(w)
  <2>1. Gate(drained, TRUE) /\ drained \in BOOLEAN
    BY <1>7 DEF Launch, Types
  <2>2. errors' \in Nat /\ (errors' = 0 => errors = 0)
    BY <2>1, GateFacts
  <2> QED
    BY <1>1, <1>7, <2>2 DEF Launch
<1>8. CASE AckJob(w)
  <2>1. /\ poll[w] = "busy"
        /\ claim' = [claim EXCEPT ![w] = 0]
        /\ poll' = [poll EXCEPT ![w] = "idle"]
        /\ UNCHANGED <<gates, claimedBy, runs, process, causes, chan, faults>>
    BY <1>8 DEF AckJob
  <2>2. claim[w] # 0 /\ claim[w] \in Runs
    BY <1>0, <2>1 DEF Claims
  <2>3. /\ job' \in [Runs -> {"none", "pending", "claimed", "done", "canceled"}]
        /\ \A q \in Runs : q # claim[w] => job'[q] = job[q]
        /\ \A q \in Runs : job[q] = "none" => job'[q] = "none"
        /\ lapsed' \subseteq lapsed
        /\ lapsed' \subseteq {q \in Runs : job'[q] = "claimed"}
    <3>1. CASE Owns(w, claim[w])
      <4>1. /\ job' = [job EXCEPT ![claim[w]] = "done"]
            /\ lapsed' = lapsed \ {claim[w]}
        BY <1>8, <3>1 DEF AckJob
      <4> QED
        BY <1>0, <2>2, <3>1, <4>1 DEF Owns, Types
    <3>2. CASE ~Owns(w, claim[w])
      <4>1. UNCHANGED <<job, lapsed>>
        BY <1>8, <3>2 DEF AckJob
      <4> QED
        BY <1>0, <4>1 DEF Types
    <3> QED
      BY <3>1, <3>2
  <2>4. Types'
    BY <1>0, <2>1, <2>3 DEF Types
  <2>5. Fresh' /\ Apart'
    BY <1>0, <2>1, <2>3 DEF Fresh, Apart, Types
  <2>6. Claims'
    <3>1. \A v \in Workers \ {w} : claim'[v] = claim[v] /\ poll'[v] = poll[v]
      BY <1>0, <2>1
    <3>2. claim'[w] = 0 /\ poll'[w] = "idle"
      BY <1>0, <2>1
    <3>3. \A v \in Workers : claim'[v] # 0 <=> poll'[v] \in {"claimed", "busy"}
      BY <3>1, <3>2 DEF Claims
    <3>4. ASSUME stalls = 0, NEW v \in Workers, claim'[v] # 0
          PROVE  /\ \/ job'[claim'[v]] = "claimed" /\ claimedBy'[claim'[v]] = v
                    \/ job'[claim'[v]] = "canceled"
                 /\ claim'[v] \notin lapsed'
                 /\ \A u \in Workers \ {v} : claim'[u] # claim'[v]
      <4>1. v # w /\ claim'[v] = claim[v] /\ claim[v] # 0
        BY <3>1, <3>2, <3>4
      <4>2. claim[w] # claim[v] /\ claim[v] \in Runs
        BY <1>0, <3>4, <4>1 DEF Claims
      <4>3. job'[claim[v]] = job[claim[v]]
        BY <2>3, <4>2
      <4>4. /\ Owns(v, claim[v]) \/ job[claim[v]] = "canceled"
            /\ claim[v] \notin lapsed
            /\ \A u \in Workers \ {v} : claim[u] # claim[v]
        BY <3>4, <4>1 DEF Claims
      <4>5. \A u \in Workers \ {v} : claim'[u] # claim[v]
        BY <3>1, <3>2, <4>1, <4>4
      <4>6. \/ job'[claim[v]] = "claimed" /\ claimedBy'[claim[v]] = v
            \/ job'[claim[v]] = "canceled"
        BY <2>1, <4>1, <4>3, <4>4 DEF Owns
      <4> QED
        BY <2>3, <4>1, <4>4, <4>5, <4>6
    <3> QED
      BY <2>1, <3>3, <3>4 DEF Claims, Owns
  <2>7. Locked' /\ Closing'
    BY <2>1, LockedKept, ClosingKept
  <2> QED
    BY <2>4, <2>5, <2>6, <2>7
<1>9. CASE Heartbeat(w)
  <2>1. /\ lapsed' = lapsed \ {claim[w]}
        /\ UNCHANGED <<gates, job, claimedBy, runs, process, causes, chan, polls,
                       faults>>
    BY <1>9 DEF Heartbeat
  <2>2. Types'
    BY <2>1 DEF Types
  <2>3. Fresh' /\ Apart' /\ Locked' /\ Closing'
    BY <2>1, RunsKept, LockedKept, ClosingKept
  <2>4. Claims'
    BY <2>1, ClaimsStand
  <2> QED
    BY <2>2, <2>3, <2>4
<1> QED
  BY <1>2, <1>3, <1>4, <1>5, <1>6, <1>7, <1>8, <1>9

\* The reaper gives back the claims that lapsed; without a stall, no worker has
\* one of them.
LEMMA ReapStep ==
    ASSUME Inv, Reap
    PROVE  Inv'
<1> USE DEF Inv, store, gates, jobs, runs, process, causes, chan, polls, faults
<1>1. /\ job' = [r \in Runs |-> IF r \in lapsed THEN "pending" ELSE job[r]]
      /\ claimedBy' = [r \in Runs |-> IF r \in lapsed THEN Nobody ELSE claimedBy[r]]
      /\ lapsed' = {}
      /\ signalWaiters(poll)
      /\ UNCHANGED <<gates, runs, process, causes, chan, claim, faults>>
  BY DEF Reap, GiveBack
<1>2. /\ job' \in [Runs -> {"none", "pending", "claimed", "done", "canceled"}]
      /\ claimedBy' \in [Runs -> Workers \union {Nobody}]
      /\ \A r \in Runs : job[r] = "none" => job'[r] = "none"
  BY <1>1 DEF Types
<1>3. ASSUME stalls = 0, NEW w \in Workers, claim[w] # 0
      PROVE  /\ job'[claim[w]] = job[claim[w]]
             /\ claimedBy'[claim[w]] = claimedBy[claim[w]]
  <2>1. claim[w] \in Runs
    BY <1>3, DispatchAssumption DEF Types, Runs
  <2>2. claim[w] \notin lapsed
    BY <1>3 DEF Claims
  <2> QED
    BY <1>1, <2>1, <2>2
<1>4. /\ Claims'
      /\ poll' \in [Workers -> {"idle", "polling", "last", "empty",
                                "waiting", "claimed", "busy"}]
  BY <1>1, <1>3, SignalKeepsClaims
<1>5. Types'
  BY <1>1, <1>2, <1>4 DEF Types
<1>6. /\ \A i \in 1..Len(queue) : queue[i] \in Runs
      /\ hand # 0 => hand \in Runs
  BY DispatchAssumption DEF Types, Runs
<1>7. Fresh' /\ Apart'
  BY <1>1, <1>2, <1>6 DEF Fresh, Apart
<1>8. Locked' /\ Closing'
  BY <1>1, LockedKept, ClosingKept
<1> QED
  BY <1>4, <1>5, <1>7, <1>8

\* A claim lapses, or its run is canceled.
LEMMA RowStep ==
    ASSUME Inv, NEW r \in Runs, Lapse(r) \/ Cancel(r)
    PROVE  Inv'
<1> USE DEF Inv, store, gates, jobs, runs, process, causes, chan, polls, faults
<1>0. /\ job \in [Runs -> {"none", "pending", "claimed", "done", "canceled"}]
      /\ \A i \in 1..Len(queue) : queue[i] \in Runs
      /\ hand # 0 => hand \in Runs
  BY DispatchAssumption DEF Types, Runs
<1>1. CASE Lapse(r)
  <2>1. /\ job[r] = "claimed"
        /\ lapsed' = lapsed \union {r}
        /\ UNCHANGED <<gates, job, claimedBy, runs, process, causes, chan, polls,
                       restarts, errors>>
    BY <1>1 DEF Lapse
  <2>2. stalls' \in Nat /\ (stalls' = 0 => stalls = 0 /\ claim[claimedBy[r]] # r)
    BY <1>1 DEF Lapse, Types
  <2>3. Types'
    BY <2>1, <2>2 DEF Types
  <2>4. Fresh' /\ Apart' /\ Locked' /\ Closing'
    BY <2>1, RunsKept, LockedKept, ClosingKept
  <2>5. ASSUME stalls' = 0, NEW w \in Workers, claim[w] # 0
        PROVE  claim[w] # r
    BY <2>1, <2>2, <2>5 DEF Claims, Owns
  <2>6. Claims'
    BY <2>1, <2>2, <2>5 DEF Claims, Owns
  <2> QED
    BY <2>3, <2>4, <2>6
<1>2. CASE Cancel(r)
  <2>1. /\ job[r] \in {"pending", "claimed"}
        /\ job' = [job EXCEPT ![r] = "canceled"]
        /\ lapsed' = lapsed \ {r}
        /\ UNCHANGED <<gates, claimedBy, runs, process, causes, chan, polls, faults>>
    BY <1>2 DEF Cancel
  <2>2. /\ job' \in [Runs -> {"none", "pending", "claimed", "done", "canceled"}]
        /\ \A q \in Runs : job[q] = "none" => job'[q] = "none"
        /\ \A q \in Runs : job'[q] = IF q = r THEN "canceled" ELSE job[q]
    BY <1>0, <2>1
  <2>3. Types'
    BY <2>1, <2>2 DEF Types
  <2>4. Fresh' /\ Apart'
    BY <1>0, <2>1, <2>2 DEF Fresh, Apart
  <2>5. \A w \in Workers : claim[w] # 0 => claim[w] \in Runs
    BY DispatchAssumption DEF Types, Runs
  <2>6. Claims'
    BY <2>1, <2>2, <2>5, ClaimsStand
  <2>7. Locked' /\ Closing'
    BY <2>1, LockedKept, ClosingKept
  <2> QED
    BY <2>3, <2>4, <2>6, <2>7
<1> QED
  BY <1>1, <1>2

\* The shutdown sequence, and the next start.
LEMMA ShutdownStep ==
    ASSUME Inv, Shutdown \/ ListenerDone \/ CloseQueue \/ Exit \/ Restart
    PROVE  Inv'
<1> USE DEF Inv, store, gates, jobs, runs, process, causes, chan, polls, faults
<1>1. CASE Shutdown \/ ListenerDone \/ CloseQueue \/ Restart
  <2>1. /\ UNCHANGED <<store, runs, causes, queue, hand, polls, errors, stalls>>
        /\ late' \in BOOLEAN /\ closed' \in BOOLEAN
    BY <1>1 DEF Shutdown, ListenerDone, CloseQueue, Restart, Types
  <2>2. Types'
    BY <2>1 DEF Types
  <2>3. Fresh' /\ Apart' /\ Claims' /\ Locked'
    BY <2>1, RunsKept, ClaimsKept, LockedKept
  <2>4. Closing'
    <3>1. CASE Shutdown
      BY <3>1 DEF Closing, Shutdown
    <3>2. CASE ListenerDone
      <4>1. closed' = closed /\ ~closed
        BY <3>2 DEF ListenerDone, Closing
      <4>2. late' \/ \A h \in Handlers : handler'[h] = "idle"
        BY <3>2 DEF ListenerDone
      <4> QED
        BY <4>1, <4>2 DEF Closing
    <3>3. CASE CloseQueue
      BY <3>3 DEF Closing, CloseQueue
    <3>4. CASE Restart
      BY <3>4 DEF Closing, Restart
    <3> QED
      BY <1>1, <3>1, <3>2, <3>3, <3>4
  <2> QED
    BY <2>2, <2>3, <2>4
<1>2. CASE Exit
  <2> USE <1>2 DEF Exit
  <2>1. Types'
    BY DispatchAssumption DEF Types
  <2>2. Fresh' /\ Apart'
    BY DEF Fresh, Apart, Types
  <2>3. Claims'
    BY DEF Claims
  <2>4. Locked'
    BY DispatchAssumption DEF Locked
  <2>5. Closing'
    BY DEF Closing
  <2> QED
    BY <2>1, <2>2, <2>3, <2>4, <2>5
<1> QED
  BY <1>1, <1>2

-----------------------------------------------------------------------------

\* Inv holds in every state that the producer and its workers reach.
THEOREM InvHolds == Spec => []Inv
<1>1. Init => Inv
  <2> SUFFICES ASSUME Init PROVE Inv
    OBVIOUS
  <2> USE DispatchAssumption DEF Init
  <2>1. Types
    <3>1. minted \in Nat /\ minted <= MaxRuns /\ hand \in 0..MaxRuns /\ errors \in Nat
          /\ stalls \in Nat
      OBVIOUS
    <3>2. claim \in [Workers -> 0..MaxRuns] /\ queue \in Seq(Runs)
      OBVIOUS
    <3> QED
      BY <3>1, <3>2 DEF Types
  <2>2. Fresh /\ Apart
    BY DEF Fresh, Apart
  <2>3. Claims /\ Locked /\ Closing
    BY DEF Claims, Locked, Closing
  <2> QED
    BY <2>1, <2>2, <2>3 DEF Inv
<1>2. Inv /\ [Next]_vars => Inv'
  <2> SUFFICES ASSUME Inv, [Next]_vars PROVE Inv'
    OBVIOUS
  <2>1. CASE Next
    BY <2>1, TickStep, HandlerStep, FlagStep, InsertStep, WorkerStep, ReapStep,
       RowStep, ShutdownStep DEF Next
  <2>2. CASE UNCHANGED vars
    <3> USE <2>2 DEF Inv, vars, store, gates, jobs, runs, process, causes, chan, polls,
                     faults
    <3>1. Types'
      BY DEF Types
    <3> QED
      BY <3>1, RunsKept, ClaimsKept, LockedKept, ClosingKept
  <2> QED
    BY <2>1, <2>2
<1> QED
  BY <1>1, <1>2, PTL DEF Spec

\* As long as no worker stalls, no two workers have the same run.
OneWorkerPerRun ==
    stalls = 0 =>
        \A w \in Workers : claim[w] # 0 =>
            \A v \in Workers \ {w} : claim[v] # claim[w]

\* Every run is in the channel, in the hand of enqueueAdapter or in the jobs
\* table and never in two of them.  As long as no worker stalls, no two have the
\* same run, and its row names the one that has it or is canceled, although the
\* reaper looks at nothing but the expiry (ReapExpired): for any interleaving
\* of ticks, triggers, retries, lapses, reaps, cancels and restarts.
THEOREM RunsInOnePlace == Spec => [](EachRunInOnePlace /\ OneWorkerPerRun)
<1>1. Inv => EachRunInOnePlace /\ OneWorkerPerRun
  <2> SUFFICES ASSUME Inv PROVE EachRunInOnePlace /\ OneWorkerPerRun
    OBVIOUS
  <2> USE DEF Inv
  <2>1. queue \in Seq(Runs) /\ DOMAIN queue = 1..Len(queue)
    BY DEF Types
  <2>2. IsInjective(queue)
    BY <2>1 DEF Apart, IsInjective
  <2>3. ASSUME NEW r \in Runs
        PROVE  Cardinality({p \in {"channel", "hand", "table"} :
                              \/ p = "channel" /\ r \in ToSet(queue)
                              \/ p = "hand" /\ r = hand
                              \/ p = "table" /\ job[r] # "none"}) <= 1
    <3> DEFINE Places == {p \in {"channel", "hand", "table"} :
                            \/ p = "channel" /\ r \in ToSet(queue)
                            \/ p = "hand" /\ r = hand
                            \/ p = "table" /\ job[r] # "none"}
    <3>1. r \in ToSet(queue) => r # hand /\ job[r] = "none"
      BY <2>1 DEF ToSet, Apart
    <3>2. r = hand => job[r] = "none"
      BY DispatchAssumption DEF Apart, Runs
    <3>3. PICK p \in {"channel", "hand", "table"} : Places \subseteq {p}
      <4>1. CASE r \in ToSet(queue)
        <5>1. Places \subseteq {"channel"}
          BY <3>1, <4>1
        <5> QED
          BY <5>1
      <4>2. CASE r \notin ToSet(queue) /\ r = hand
        <5>1. Places \subseteq {"hand"}
          BY <3>2, <4>2
        <5> QED
          BY <5>1
      <4>3. CASE r \notin ToSet(queue) /\ r # hand
        <5>1. Places \subseteq {"table"}
          BY <4>3
        <5> QED
          BY <5>1
      <4> QED
        BY <4>1, <4>2, <4>3
    <3> HIDE DEF Places
    <3>4. IsFiniteSet({p}) /\ Cardinality({p}) = 1
      BY FS_Singleton
    <3>5. Cardinality(Places) <= 1
      BY <3>3, <3>4, FS_Subset
    <3> QED
      BY <3>5 DEF Places
  <2>4. stalls = 0 =>
          \A w \in Workers :
             claim[w] # 0 =>
                /\ Owns(w, claim[w]) \/ job[claim[w]] = "canceled"
                /\ \A v \in Workers \ {w} : claim[v] # claim[w]
    BY DEF Claims
  <2> QED
    BY <2>2, <2>3, <2>4 DEF EachRunInOnePlace, OneWorkerPerRun
<1> QED
  BY <1>1, InvHolds, PTL

\* The queue is closed under no handler but one that the listener's deadline
\* left behind.
THEOREM HandlersFindTheQueueOpen == Spec => []QueueOutlivesHandlers
<1>1. Inv => QueueOutlivesHandlers
  BY DEF Inv, Closing, QueueOutlivesHandlers
<1> QED
  BY <1>1, InvHolds, PTL

\* No trigger is accepted while its schedule is paused or the runner drained:
\* what the handler read under triggerMu is still so when it sends.
THEOREM GatesHoldAtTheSend == Spec => TriggersRespectTheGates
<1>1. Inv /\ [Next]_vars =>
        [\A r \in Runs :
           /\ source[r] # "http" /\ source'[r] = "http"
           /\ errors = 0
           => ~paused /\ ~drained]_vars
  <2> SUFFICES ASSUME Inv, Next,
                      NEW r \in Runs, source[r] # "http", source'[r] = "http",
                      errors = 0
               PROVE  ~paused /\ ~drained
    OBVIOUS
  <2>1. \E h \in Handlers : TriggerSend(h)
    <3>1. CASE \E t \in Ticks : ProduceSend(t)
      BY <3>1, MintFacts DEF ProduceSend, Inv
    <3>2. CASE \E q \in Runs : RetryRun(q)
      BY <3>2, MintFacts DEF RetryRun, Inv
    <3>3. CASE source' = source
      BY <3>3
    <3>4. \/ \E h \in Handlers : TriggerSend(h)
          \/ \E t \in Ticks : ProduceSend(t)
          \/ \E q \in Runs : RetryRun(q)
          \/ source' = source
      BY DEF Next, ProduceSchedule, ProducePauseCheck, handleScheduleRoute,
             TriggerCheck, TriggerFails, Pause, Resume, Drain, Undrain, SetFlags,
             ClearFlags, AdapterReceive, AdapterEnqueue, AdapterFails, Ask, ClaimJob,
             NoJobs, WaitForJob, PollTimeout, Launch, AckJob, Heartbeat, Lapse,
             Cancel, Reap, GiveBack, Shutdown, ListenerDone, CloseQueue, Exit, Restart,
             runs
    <3> QED
      BY <3>1, <3>2, <3>3, <3>4
  <2>2. PICK h \in Handlers : handler[h] = "sending"
    BY <2>1 DEF TriggerSend
  <2>3. triggerMu # Nobody
    BY <2>2, DispatchAssumption DEF Inv, Locked
  <2> QED
    BY <2>3 DEF Inv, Locked
<1> QED
  BY <1>1, InvHolds, PTL DEF Spec, TriggersRespectTheGates

-----------------------------------------------------------------------------
(***************************************************************************)
(* The way of a run through the producer: none is lost, none overtakes     *)
(* another, and none that is done is done again.                           *)
(***************************************************************************)

\* As long as the process lives and the store works, every run is in the
\* channel, in the hand of enqueueAdapter or in the table.
NoRunLost ==
    restarts = 0 /\ errors = 0 =>
        \A r \in Runs : r <= minted =>
            \/ \E i \in 1..Len(queue) : queue[i] = r
            \/ hand = r
            \/ job[r] # "none"

\* As long as the process lives and the store works, no cron tick or trigger
\* gets into the table before an earlier one; retries may.
FirstInFirstOut ==
    restarts = 0 /\ errors = 0 =>
        \A r, s \in Runs :
            /\ r < s
            /\ source[r] \in {"cron", "http"}
            /\ source[s] \in {"cron", "http"}
            /\ job[s] # "none"
            => job[r] # "none"

\* A row of the table is not deleted, and stays done, or canceled, once it is.
RowsMoveForward ==
    \A r \in Runs :
        /\ job[r] # "none" => job'[r] # "none"
        /\ job[r] \in Closed => job'[r] = job[r]

\* The runs of the channel are in the order of their numbers, behind the one
\* in the hand, behind those that went through both.
ChannelOrder ==
    /\ \A i, j \in 1..Len(queue) : i < j => queue[i] < queue[j]
    /\ \A i \in 1..Len(queue) : hand < queue[i]
    /\ \A s \in Runs : job[s] # "none" /\ source[s] # "retry" =>
          /\ \A i \in 1..Len(queue) : s < queue[i]
          /\ hand # 0 => s < hand

\* A process that is on its way down counts as a restart; a run that was not
\* minted has no source.
Counted ==
    /\ restarts \in Nat
    /\ phase # "up" => restarts > 0
    /\ \A r \in Runs : r > minted => source[r] = "none"

\* The part of the invariant that this section adds.
Way == Counted /\ ChannelOrder /\ NoRunLost

\* The six kinds of steps, by what they do to the runs.
Sent ==
    /\ \E cause \in {"cron", "http"} : Mint(cause)
    /\ queue' = Append(queue, minted')
    /\ UNCHANGED <<job, hand, phase, restarts, errors>>

Received ==
    /\ hand = 0 /\ queue # << >>
    /\ hand' = Head(queue) /\ queue' = Tail(queue)
    /\ UNCHANGED <<job, minted, source, phase, restarts, errors>>

Inserted ==
    /\ hand # 0
    /\ job' = [job EXCEPT ![hand] = "pending"] /\ hand' = 0
    /\ UNCHANGED <<queue, minted, source, phase, restarts, errors>>

Retried ==
    /\ Mint("retry")
    /\ job' = [job EXCEPT ![minted'] = "pending"]
    /\ UNCHANGED <<queue, hand, phase, restarts, errors>>

Dropped ==
    /\ hand' = 0
    /\ queue' \in {queue, << >>}
    /\ (errors' = errors + 1 /\ phase' = phase) \/ phase = "waiting"
    /\ UNCHANGED <<job, minted, source, restarts>>

Elsewhere ==
    /\ \A r \in Runs :
          /\ job'[r] = "none" <=> job[r] = "none"
          /\ job[r] \in Closed => job'[r] = job[r]
    /\ errors' = errors \/ errors' = errors + 1
    /\ \/ UNCHANGED <<phase, restarts>>
       \/ restarts' = restarts + 1
       \/ phase # "up" /\ UNCHANGED restarts
    /\ UNCHANGED <<queue, hand, minted, source>>

\* There are no others.
LEMMA StepKinds ==
    ASSUME Inv, [Next]_vars
    PROVE  Sent \/ Received \/ Inserted \/ Retried \/ Dropped \/ Elsewhere
<1> USE DEF Inv, store, gates, jobs, runs, process, causes, chan, polls, faults
<1>1. ASSUME NEW t \in Ticks,
             ProduceSchedule(t) \/ ProducePauseCheck(t) \/ ProduceSend(t)
      PROVE  Sent \/ Elsewhere
  BY <1>1 DEF ProduceSchedule, ProducePauseCheck, ProduceSend, Gate, Sent, Elsewhere
<1>2. ASSUME NEW h \in Handlers,
             \/ handleScheduleRoute(h) \/ TriggerCheck(h) \/ TriggerSend(h)
             \/ TriggerFails(h)
      PROVE  Sent \/ Elsewhere
  BY <1>2 DEF handleScheduleRoute, TriggerCheck, TriggerSend, TriggerFails, Gate, Sent,
          Elsewhere
<1>3. CASE Pause \/ Resume \/ Drain \/ Undrain
  BY <1>3 DEF Pause, Resume, Drain, Undrain, SetFlags, ClearFlags, Elsewhere
<1>4. CASE AdapterReceive \/ AdapterEnqueue \/ AdapterFails
  BY <1>4 DEF AdapterReceive, AdapterEnqueue, AdapterFails, Received, Inserted, Dropped
<1>5. ASSUME NEW r \in Runs, RetryRun(r) PROVE Retried
  BY <1>5 DEF RetryRun, Retried
<1>6. ASSUME NEW w \in Workers,
             \/ Ask(w) \/ NoJobs(w) \/ WaitForJob(w) \/ PollTimeout(w) \/ Launch(w)
      PROVE  Elsewhere
  BY <1>6 DEF Ask, NoJobs, WaitForJob, PollTimeout, Launch, Gate, Elsewhere
<1>7. ASSUME NEW w \in Workers, NEW r \in Runs, ClaimJob(w, r) PROVE Elsewhere
  BY <1>7 DEF ClaimJob, Pending, Types, Closed, Elsewhere
<1>8. ASSUME NEW w \in Workers, AckJob(w) PROVE Elsewhere
  <2>1. CASE Owns(w, claim[w])
    <3>1. job[claim[w]] = "claimed" /\ job' = [job EXCEPT ![claim[w]] = "done"]
      BY <1>8, <2>1 DEF AckJob, Owns
    <3>2. \A r \in Runs : /\ job'[r] = "none" <=> job[r] = "none"
                          /\ job[r] \in Closed => job'[r] = job[r]
      BY <3>1 DEF Types, Closed
    <3> QED
      BY <1>8, <3>2 DEF AckJob, Elsewhere
  <2>2. CASE ~Owns(w, claim[w])
    BY <1>8, <2>2 DEF AckJob, Elsewhere
  <2> QED
    BY <2>1, <2>2
<1>9. CASE Reap
  <2>1. \A r \in Runs : r \in lapsed => job[r] = "claimed"
    BY DEF Types
  <2> QED
    BY <1>9, <2>1 DEF Reap, GiveBack, Closed, Elsewhere
<1>12. ASSUME NEW w \in Workers, Heartbeat(w) PROVE Elsewhere
  BY <1>12 DEF Heartbeat, Elsewhere
<1>13. ASSUME NEW r \in Runs, Lapse(r) PROVE Elsewhere
  BY <1>13 DEF Lapse, Elsewhere
<1>14. ASSUME NEW r \in Runs, Cancel(r) PROVE Elsewhere
  BY <1>14 DEF Cancel, Types, Closed, Elsewhere
<1>10. CASE Shutdown \/ ListenerDone \/ CloseQueue \/ Restart \/ UNCHANGED vars
  BY <1>10 DEF Shutdown, ListenerDone, CloseQueue, Restart, vars, Elsewhere
<1>11. CASE Exit
  BY <1>11 DEF Exit, Dropped
<1> QED
  BY <1>1, <1>2, <1>3, <1>4, <1>5, <1>6, <1>7, <1>8, <1>9, <1>10, <1>11, <1>12,
     <1>13, <1>14 DEF Next

\* The types that the steps below need.
LEMMA WayTypes ==
    ASSUME Inv
    PROVE  /\ Runs \subseteq Nat \ {0} /\ minted \in Nat /\ hand \in Nat
           /\ hand # 0 => hand \in Runs
           /\ queue \in Seq(Runs) /\ Len(queue) \in Nat
           /\ \A i \in 1..Len(queue) : queue[i] \in Runs
           /\ job \in [Runs -> {"none", "pending", "claimed", "done", "canceled"}]
           /\ errors \in Nat
  BY DispatchAssumption DEF Inv, Types, Runs

\* A send puts the newest run behind all others.
LEMMA SentStep == ASSUME Inv, Way, Sent PROVE Way'
<1> USE WayTypes
<1>1. /\ minted' = minted + 1 /\ minted' \in Runs
      /\ \A r \in Runs : r # minted' => source'[r] = source[r]
  BY MintFacts DEF Sent, Mint, Inv, Types
<1>2. /\ Len(queue') = Len(queue) + 1
      /\ \A i \in 1..Len(queue) : queue'[i] = queue[i]
      /\ queue'[Len(queue) + 1] = minted'
  BY <1>1, AppendFacts DEF Sent
<1>3. \A i \in 1..Len(queue) : queue[i] < minted'
  BY <1>1 DEF Inv, Fresh
<1>4. job[minted'] = "none" /\ hand < minted'
  BY <1>1 DEF Inv, Fresh
<1>5. ASSUME NEW i \in 1..Len(queue')
      PROVE  i \in 1..Len(queue) \/ (i = Len(queue) + 1 /\ queue'[i] = minted')
  BY <1>2
<1>6. Counted'
  BY <1>1 DEF Sent, Way, Counted
<1>7. ChannelOrder'
  <2>1. ASSUME NEW i \in 1..Len(queue'), NEW j \in 1..Len(queue'), i < j
        PROVE  queue'[i] < queue'[j]
    <3>1. i \in 1..Len(queue)
      BY <1>2, <2>1
    <3>2. CASE j \in 1..Len(queue)
      BY <1>2, <2>1, <3>1, <3>2 DEF Way, ChannelOrder
    <3>3. CASE queue'[j] = minted'
      BY <1>2, <1>3, <3>1, <3>3
    <3> QED
      BY <1>5, <3>2, <3>3
  <2>2. ASSUME NEW i \in 1..Len(queue') PROVE hand' < queue'[i]
    BY <1>2, <1>4, <1>5 DEF Sent, Way, ChannelOrder
  <2>3. ASSUME NEW r \in Runs, job'[r] # "none", source'[r] # "retry"
        PROVE  /\ \A i \in 1..Len(queue') : r < queue'[i]
               /\ hand' # 0 => r < hand'
    <3>1. job[r] # "none" /\ r # minted' /\ source[r] # "retry" /\ r < minted'
      BY <1>1, <1>4, <2>3 DEF Sent, Inv, Fresh
    <3> QED
      BY <1>2, <1>5, <3>1 DEF Sent, Way, ChannelOrder
  <2> QED
    BY <2>1, <2>2, <2>3 DEF ChannelOrder
<1>8. NoRunLost'
  <2> SUFFICES ASSUME restarts = 0, errors = 0, NEW r \in Runs, r <= minted'
               PROVE  \/ \E i \in 1..Len(queue') : queue'[i] = r
                      \/ hand = r \/ job[r] # "none"
    BY DEF Sent, NoRunLost
  <2>1. CASE r = minted'
    <3>1. Len(queue) + 1 \in 1..Len(queue')
      BY <1>2
    <3> QED
      BY <1>2, <2>1, <3>1
  <2>2. CASE r # minted'
    <3>1. \/ \E i \in 1..Len(queue) : queue[i] = r
          \/ hand = r \/ job[r] # "none"
      BY <1>1, <2>2 DEF Way, NoRunLost
    <3>2. \A i \in 1..Len(queue) : i \in 1..Len(queue')
      BY <1>2
    <3> QED
      BY <1>2, <3>1, <3>2
  <2> QED
    BY <2>1, <2>2
<1> QED
  BY <1>6, <1>7, <1>8 DEF Way

\* A receive takes the oldest run of the channel.
LEMMA ReceivedStep == ASSUME Inv, Way, Received PROVE Way'
<1> USE WayTypes
<1>1. /\ Len(queue) \in Nat \ {0} /\ Len(queue') = Len(queue) - 1
      /\ \A i \in 1..Len(queue') : queue'[i] = queue[i + 1]
      /\ hand' = queue[1]
  BY TailFacts DEF Received
<1>2. \A i \in 1..Len(queue') : i + 1 \in 1..Len(queue) /\ 1 < i + 1
  BY <1>1
<1>3. 1 \in 1..Len(queue)
  BY <1>1
<1>4. Counted'
  BY DEF Received, Way, Counted
<1>5. ChannelOrder'
  <2>1. ASSUME NEW i \in 1..Len(queue'), NEW j \in 1..Len(queue'), i < j
        PROVE  queue'[i] < queue'[j]
    <3>1. i + 1 < j + 1
      BY <2>1
    <3> QED
      BY <1>1, <1>2, <3>1 DEF Way, ChannelOrder
  <2>2. ASSUME NEW i \in 1..Len(queue') PROVE hand' < queue'[i]
    BY <1>1, <1>2, <1>3 DEF Way, ChannelOrder
  <2>3. ASSUME NEW r \in Runs, job'[r] # "none", source'[r] # "retry"
        PROVE  /\ \A i \in 1..Len(queue') : r < queue'[i]
               /\ hand' # 0 => r < hand'
    BY <1>1, <1>2, <1>3, <2>3 DEF Received, Way, ChannelOrder
  <2> QED
    BY <2>1, <2>2, <2>3 DEF ChannelOrder
<1>6. NoRunLost'
  <2> SUFFICES ASSUME restarts = 0, errors = 0, NEW r \in Runs, r <= minted
               PROVE  \/ \E i \in 1..Len(queue') : queue'[i] = r
                      \/ hand' = r \/ job[r] # "none"
    BY DEF Received, NoRunLost
  <2>1. hand # r
    BY DEF Received
  <2>2. ASSUME NEW i \in 1..Len(queue), queue[i] = r, i # 1
        PROVE  \E j \in 1..Len(queue') : queue'[j] = r
    <3>1. i - 1 \in 1..Len(queue') /\ (i - 1) + 1 = i
      BY <1>1, <2>2
    <3> QED
      BY <1>1, <2>2, <3>1
  <2> QED
    BY <1>1, <2>1, <2>2 DEF Way, NoRunLost
<1> QED
  BY <1>4, <1>5, <1>6 DEF Way

\* The insert of the run in the hand, which is older than the channel's.
LEMMA InsertedStep == ASSUME Inv, Way, Inserted PROVE Way'
<1> USE WayTypes
<1>1. Counted'
  BY DEF Inserted, Way, Counted
<1>2. \A r \in Runs : job'[r] = IF r = hand THEN "pending" ELSE job[r]
  BY DEF Inserted
<1>3. ChannelOrder'
  BY <1>2 DEF Inserted, Way, ChannelOrder
<1>4. NoRunLost'
  BY <1>2 DEF Inserted, Way, NoRunLost
<1> QED
  BY <1>1, <1>3, <1>4 DEF Way

\* A retry goes to the table at once.
LEMMA RetriedStep == ASSUME Inv, Way, Retried PROVE Way'
<1> USE WayTypes
<1>1. /\ minted' = minted + 1 /\ minted' \in Runs
      /\ \A r \in Runs : source'[r] = IF r = minted' THEN "retry" ELSE source[r]
  BY MintFacts DEF Retried, Mint, Inv, Types
<1>2. \A r \in Runs : job'[r] = IF r = minted' THEN "pending" ELSE job[r]
  BY DEF Retried
<1>3. Counted'
  BY <1>1 DEF Retried, Way, Counted
<1>4. ChannelOrder'
  BY <1>1, <1>2 DEF Retried, Way, ChannelOrder
<1>5. NoRunLost'
  BY <1>1, <1>2 DEF Retried, Way, NoRunLost
<1> QED
  BY <1>3, <1>4, <1>5 DEF Way

\* What a failed insert or the end of the process drops is counted.
LEMMA DroppedStep == ASSUME Inv, Way, Dropped PROVE Way'
<1> USE WayTypes
<1>1. Counted'
  BY DEF Dropped, Way, Counted
<1>2. ChannelOrder'
  <2>1. CASE queue' = queue
    BY <2>1 DEF Dropped, Way, ChannelOrder
  <2>2. CASE queue' = << >>
    BY <2>2 DEF Dropped, ChannelOrder
  <2> QED
    BY <2>1, <2>2 DEF Dropped
<1>3. errors' > 0 \/ restarts' > 0
  BY DEF Dropped, Way, Counted
<1>4. NoRunLost'
  BY <1>3 DEF NoRunLost
<1> QED
  BY <1>1, <1>2, <1>4 DEF Way

\* Other steps move no run.
LEMMA ElsewhereStep == ASSUME Inv, Way, Elsewhere PROVE Way'
<1> USE WayTypes
<1>1. Counted'
  BY DEF Elsewhere, Way, Counted
<1>2. ChannelOrder'
  BY DEF Elsewhere, Way, ChannelOrder
<1>3. errors' = 0 /\ restarts' = 0 => errors = 0 /\ restarts = 0
  BY DEF Elsewhere, Way, Counted
<1>4. NoRunLost'
  BY <1>3 DEF Elsewhere, Way, NoRunLost
<1> QED
  BY <1>1, <1>2, <1>4 DEF Way

\* The way of every run, in every state.
LEMMA WayHolds == Spec => []Way
<1>1. Init => Way
  BY DispatchAssumption DEF Init, Way, Counted, ChannelOrder, NoRunLost, Runs
<1>2. Inv /\ Way /\ [Next]_vars => Way'
  BY StepKinds, SentStep, ReceivedStep, InsertedStep, RetriedStep, DroppedStep,
     ElsewhereStep
<1> QED
  BY <1>1, <1>2, InvHolds, PTL DEF Spec

\* No trigger or tick that got through is lost between the send and the table,
\* while the process lives and the store works (enqueueAdapter): what remains
\* of AcceptedIsServed is that workers go on asking.
THEOREM RunsAreNotLost == Spec => []NoRunLost
<1>1. Way => NoRunLost
  BY DEF Way
<1> QED
  BY <1>1, WayHolds, PTL

\* The channel and its adapter keep the order of ticks and triggers.
THEOREM RunsStayInOrder == Spec => []FirstInFirstOut
<1>1. Inv /\ Way => FirstInFirstOut
  <2> SUFFICES ASSUME Inv, Way, restarts = 0, errors = 0,
                      NEW r \in Runs, NEW s \in Runs, r < s,
                      source[r] \in {"cron", "http"}, source[s] \in {"cron", "http"},
                      job[s] # "none", job[r] = "none"
               PROVE  FALSE
    BY DEF FirstInFirstOut
  <2> USE WayTypes
  <2>1. r <= minted
    BY DEF Way, Counted
  <2>2. (\E i \in 1..Len(queue) : queue[i] = r) \/ hand = r
    BY <2>1 DEF Way, NoRunLost
  <2>3. (\A i \in 1..Len(queue) : s < queue[i]) /\ (hand # 0 => s < hand)
    BY DEF Way, ChannelOrder
  <2>4. r \in Nat /\ s \in Nat /\ r # 0 /\ ~(s < r)
    OBVIOUS
  <2>5. CASE \E i \in 1..Len(queue) : queue[i] = r
    BY <2>3, <2>4, <2>5
  <2>6. CASE hand = r
    BY <2>3, <2>4, <2>6
  <2> QED
    BY <2>2, <2>5, <2>6
<1> QED
  BY <1>1, InvHolds, WayHolds, PTL

\* No row is deleted, and no run that is done or canceled is given to a worker
\* again, through every reap, late ack, retry and restart (Claim, Ack, reaperLoop).
THEOREM DoneStaysDone == Spec => [][RowsMoveForward]_vars
<1>1. Inv /\ [Next]_vars => [RowsMoveForward]_vars
  <2> SUFFICES ASSUME Inv, [Next]_vars PROVE RowsMoveForward
    OBVIOUS
  <2> USE WayTypes DEF RowsMoveForward
  <2>1. CASE Sent \/ Received \/ Dropped \/ Elsewhere
    BY <2>1 DEF Sent, Received, Dropped, Elsewhere
  <2>2. CASE Inserted
    <3>1. job[hand] = "none" /\ hand \in Runs
      BY <2>2 DEF Inserted, Inv, Apart
    <3> QED
      BY <2>2, <3>1 DEF Inserted, Closed
  <2>3. CASE Retried
    <3>1. job[minted'] = "none" /\ minted' \in Runs
      BY <2>3, MintFacts DEF Retried, Inv, Fresh
    <3> QED
      BY <2>3, <3>1 DEF Retried, Closed
  <2> QED
    BY <2>1, <2>2, <2>3, StepKinds
<1> QED
  BY <1>1, InvHolds, PTL DEF Spec

=============================================================================
