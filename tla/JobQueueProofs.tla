--------------------------- MODULE JobQueueProofs ---------------------------
(***************************************************************************)
(* Proofs about JobQueue, for any number of runs, workers and faults and   *)
(* for every visibility longer than the heartbeat interval.                *)
(***************************************************************************)
EXTENDS JobQueue, TLAPS

-----------------------------------------------------------------------------
(***************************************************************************)
(* The inductive invariant.  None of the safety properties is inductive    *)
(* alone: whether a claim survives depends on the time left on it, and how *)
(* often a run was claimed on who holds it.                                *)
(***************************************************************************)

Executing == {"granted", "running", "acking"}

\* A worker has a run in hand exactly while it executes one.  That run has a
\* row and is the one in the workers table; it has been executed to the end
\* by the time it is acked.
Holding ==
    \A w \in Workers :
        IF pc[w] \in Executing
        THEN /\ held[w] \in Runs
             /\ status[held[w]] # "absent"
             /\ currentRun[w] = held[w]
             /\ pc[w] = "acking" => held[w] \in ran
        ELSE held[w] = NoRun

\* Cancel messages and canceled contexts are about canceled rows.
CancelIsReal ==
    \A w \in Workers :
        /\ \A r \in control[w] : status[r] = "canceled"
        /\ runCanceled[w] => /\ pc[w] \in {"running", "acking"}
                             /\ status[held[w]] = "canceled"

\* The time left on the claim of a worker with good heartbeats, unless its
\* run was canceled: it reaches beyond the next heartbeat by what visibility
\* exceeds the heartbeat interval.
LeaseCovers ==
    \A w \in Workers :
        Healthy(w) /\ status[held[w]] # "canceled" =>
            /\ Owns(w, held[w])
            /\ pc[w] = "granted" => lease[held[w]] = Visibility
            /\ pc[w] # "granted" =>
                 lease[held[w]] + HeartbeatEvery >= Visibility + nextBeat[w]

\* The worker that has the claim on r executes r and has good heartbeats.
HeldInHealth(r) == LET w == claimedBy[r] IN Healthy(w) /\ held[w] = r

\* How often a row can have been claimed: the claim that counts now was not
\* caused by a fault if its holder is healthy; every other one was.
Attempts ==
    \A r \in Runs :
        /\ attempt[r] <= 1 + faults
        /\ status[r] = "absent" => attempt[r] = 0
        /\ status[r] = "pending" => attempt[r] <= faults
        /\ status[r] = "claimed" =>
             /\ claimedBy[r] \in Workers
             /\ HeldInHealth(r) \/ attempt[r] <= faults
        /\ status[r] \in {"claimed", "done", "failed"} => attempt[r] > 0

\* latest is the latest second on record.
Seconds == \A r \in Runs : enqueuedAt[r] <= latest

\* The inductive invariant.
Inv ==
    /\ TypeOK
    /\ Holding
    /\ CancelIsReal
    /\ LeaseCovers
    /\ ExclusiveExecution
    /\ Attempts
    /\ Seconds
    /\ NoOvertaking

-----------------------------------------------------------------------------
(***************************************************************************)
(* Every step keeps the invariant, part by part.                           *)
(***************************************************************************)

\* Every step keeps the types; Finish needs that its worker has a run.
LEMMA TypeStep ==
    TypeOK /\ Holding /\ [Next]_vars
    => TypeOK'
<1> SUFFICES ASSUME TypeOK, Holding,
                    [Next]_vars
             PROVE  TypeOK'
  OBVIOUS
<1> USE QueueAssumption DEF TypeOK, Holding, Executing, InFlight, Terminal,
           rows, procs
<1>1. ASSUME NEW r \in Runs, Enqueue(r) PROVE TypeOK'
  BY <1>1 DEF Enqueue, Insert
<1>2. ASSUME NEW r \in Runs, NEW n \in Runs, Retry(r, n) PROVE TypeOK'
  BY <1>2 DEF Retry, Insert
<1>3. ASSUME NEW r \in Runs, Cancel(r) PROVE TypeOK'
  BY <1>3 DEF Cancel, CancelRow, PushControl
<1>4. ASSUME NEW w \in Workers, NEW r \in Runs, Claim(w, r) PROVE TypeOK'
  BY <1>4 DEF Claim, ClaimRow, OldestPending
<1>5. ASSUME NEW w \in Workers, Start(w) PROVE TypeOK'
  BY <1>5 DEF Start
<1>6. ASSUME NEW w \in Workers, Finish(w) PROVE TypeOK'
  BY <1>6 DEF Finish
<1>7. ASSUME NEW w \in Workers, Abandon(w) PROVE TypeOK'
  BY <1>7 DEF Abandon, Leave
<1>8. ASSUME NEW w \in Workers, NEW ok \in BOOLEAN, Ack(w, ok) PROVE TypeOK'
  <2>1. UNCHANGED <<claimedBy, attempt, enqueuedAt, latest, control, origin,
                    ran, faults>>
    BY <1>8 DEF Ack, AckRow
  <2>2. status' \in [Runs -> {"absent"} \union InFlight \union Terminal]
    BY <1>8 DEF Ack, AckRow
  <2>3. lease' \in [Runs -> 0..Visibility]
    BY <1>8 DEF Ack, AckRow
  <2>4. currentRun' \in [Workers -> Runs \union {NoRun}]
    BY <1>8 DEF Ack, AckRow
  <2>5. /\ pc' \in [Workers -> {"idle", "granted", "running", "acking", "down"}]
        /\ held' \in [Workers -> Runs \union {NoRun}]
        /\ beat' \in [Workers -> {"on", "late", "off"}]
        /\ nextBeat' \in [Workers -> 0..HeartbeatEvery]
        /\ runCanceled' \in [Workers -> BOOLEAN]
    BY <1>8 DEF Ack, Leave
  <2> QED
    BY <2>1, <2>2, <2>3, <2>4, <2>5
<1>9. ASSUME NEW w \in Workers, Heartbeat(w) PROVE TypeOK'
  <2>1. UNCHANGED <<status, claimedBy, attempt, enqueuedAt, latest, currentRun,
                    pc, held, runCanceled, control, origin, ran, faults>>
    BY <1>9 DEF Heartbeat
  <2>2. lease' \in [Runs -> 0..Visibility]
    BY <1>9 DEF Heartbeat, HeartbeatRow
  <2>3. beat' \in [Workers -> {"on", "late", "off"}]
    BY <1>9 DEF Heartbeat, HeartbeatRow
  <2>4. nextBeat' \in [Workers -> 0..HeartbeatEvery]
    BY <1>9 DEF Heartbeat, HeartbeatRow
  <2> QED
    BY <2>1, <2>2, <2>3, <2>4
<1>10. ASSUME NEW w \in Workers, NEW r \in Runs, HandleControl(w, r)
       PROVE  TypeOK'
  BY <1>10 DEF HandleControl
<1>11. ASSUME NEW w \in Workers, ClaimReplyLost(w) PROVE TypeOK'
  BY <1>11 DEF ClaimReplyLost, Leave, Fault
<1>12. ASSUME NEW w \in Workers, AckLost(w) PROVE TypeOK'
  BY <1>12 DEF AckLost, Leave, Fault
<1>13. ASSUME NEW w \in Workers, HeartbeatLost(w) PROVE TypeOK'
  BY <1>13 DEF HeartbeatLost, Beating, Fault
<1>14. ASSUME NEW w \in Workers, Stall(w) PROVE TypeOK'
  BY <1>14 DEF Stall, Beating, Fault
<1>15. ASSUME NEW w \in Workers, Crash(w) PROVE TypeOK'
  BY <1>15 DEF Crash, Leave, Fault
<1>16. ASSUME NEW w \in Workers, Restart(w) PROVE TypeOK'
  BY <1>16 DEF Restart, Leave
<1>17. CASE ReapExpired
  BY <1>17 DEF ReapExpired, Lapsed
<1>18. CASE Tick
  BY <1>18 DEF Tick, Urgent, Beating
<1>19. CASE UNCHANGED vars
  BY <1>19 DEF vars
<1> HIDE DEF TypeOK, Holding, Executing, InFlight, Terminal, rows, procs
<1> QED
  BY <1>1, <1>2, <1>3, <1>4, <1>5, <1>6, <1>7, <1>8, <1>9, <1>10, <1>11,
     <1>12, <1>13, <1>14, <1>15, <1>16, <1>17, <1>18, <1>19
  DEF Next, Client, Worker, Failure


\* Every step keeps Holding.
LEMMA HoldingStep ==
    TypeOK /\ Holding /\ [Next]_vars
    => Holding'
<1> SUFFICES ASSUME TypeOK, Holding,
                    [Next]_vars
             PROVE  Holding'
  OBVIOUS
<1> USE QueueAssumption DEF TypeOK, Holding, Executing, InFlight, Terminal,
           rows, procs
<1>1. ASSUME NEW r \in Runs, Enqueue(r) PROVE Holding'
  BY <1>1 DEF Enqueue, Insert
<1>2. ASSUME NEW r \in Runs, NEW n \in Runs, Retry(r, n) PROVE Holding'
  BY <1>2 DEF Retry, Insert
<1>3. ASSUME NEW r \in Runs, Cancel(r) PROVE Holding'
  BY <1>3 DEF Cancel, CancelRow, PushControl
<1>4. ASSUME NEW w \in Workers, NEW r \in Runs, Claim(w, r) PROVE Holding'
  BY <1>4 DEF Claim, ClaimRow, OldestPending
<1>5. ASSUME NEW w \in Workers, Start(w) PROVE Holding'
  BY <1>5 DEF Start
<1>6. ASSUME NEW w \in Workers, Finish(w) PROVE Holding'
  BY <1>6 DEF Finish
<1>7. ASSUME NEW w \in Workers, Abandon(w) PROVE Holding'
  BY <1>7 DEF Abandon, Leave
<1>8. ASSUME NEW w \in Workers, NEW ok \in BOOLEAN, Ack(w, ok) PROVE Holding'
  BY <1>8 DEF Ack, AckRow, Owns, Leave
<1>9. ASSUME NEW w \in Workers, Heartbeat(w) PROVE Holding'
  BY <1>9 DEF Heartbeat, HeartbeatRow, Beating, Owns
<1>10. ASSUME NEW w \in Workers, NEW r \in Runs, HandleControl(w, r)
       PROVE  Holding'
  BY <1>10 DEF HandleControl
<1>11. ASSUME NEW w \in Workers, ClaimReplyLost(w) PROVE Holding'
  BY <1>11 DEF ClaimReplyLost, Leave, Fault
<1>12. ASSUME NEW w \in Workers, AckLost(w) PROVE Holding'
  BY <1>12 DEF AckLost, Leave, Fault
<1>13. ASSUME NEW w \in Workers, HeartbeatLost(w) PROVE Holding'
  BY <1>13 DEF HeartbeatLost, Beating, Fault
<1>14. ASSUME NEW w \in Workers, Stall(w) PROVE Holding'
  BY <1>14 DEF Stall, Beating, Fault
<1>15. ASSUME NEW w \in Workers, Crash(w) PROVE Holding'
  BY <1>15 DEF Crash, Leave, Fault
<1>16. ASSUME NEW w \in Workers, Restart(w) PROVE Holding'
  BY <1>16 DEF Restart, Leave
<1>17. CASE ReapExpired
  BY <1>17 DEF ReapExpired, Lapsed
<1>18. CASE Tick
  BY <1>18 DEF Tick, Urgent, Beating
<1>19. CASE UNCHANGED vars
  BY <1>19 DEF vars
<1> HIDE DEF TypeOK, Holding, Executing, InFlight, Terminal, rows, procs
<1> QED
  BY <1>1, <1>2, <1>3, <1>4, <1>5, <1>6, <1>7, <1>8, <1>9, <1>10, <1>11,
     <1>12, <1>13, <1>14, <1>15, <1>16, <1>17, <1>18, <1>19
  DEF Next, Client, Worker, Failure


\* Every step keeps CancelIsReal: no step takes a row out of canceled, and a
\* worker drops the context with the run.
LEMMA CancelStep ==
    TypeOK /\ Holding /\ CancelIsReal /\ [Next]_vars
    => CancelIsReal'
<1> SUFFICES ASSUME TypeOK, Holding, CancelIsReal,
                    [Next]_vars
             PROVE  CancelIsReal'
  OBVIOUS
<1> USE QueueAssumption DEF TypeOK, Holding, Executing, CancelIsReal,
           InFlight, Terminal, rows, procs
<1>1. ASSUME NEW r \in Runs, Enqueue(r) PROVE CancelIsReal'
  BY <1>1 DEF Enqueue, Insert
<1>2. ASSUME NEW r \in Runs, NEW n \in Runs, Retry(r, n) PROVE CancelIsReal'
  BY <1>2 DEF Retry, Insert
<1>3. ASSUME NEW r \in Runs, Cancel(r) PROVE CancelIsReal'
  BY <1>3 DEF Cancel, CancelRow, PushControl
<1>4. ASSUME NEW w \in Workers, NEW r \in Runs, Claim(w, r)
      PROVE  CancelIsReal'
  BY <1>4 DEF Claim, ClaimRow, OldestPending
<1>5. ASSUME NEW w \in Workers, Start(w) PROVE CancelIsReal'
  BY <1>5 DEF Start
<1>6. ASSUME NEW w \in Workers, Finish(w) PROVE CancelIsReal'
  BY <1>6 DEF Finish
<1>7. ASSUME NEW w \in Workers, Abandon(w) PROVE CancelIsReal'
  BY <1>7 DEF Abandon, Leave
<1>8. ASSUME NEW w \in Workers, NEW ok \in BOOLEAN, Ack(w, ok)
      PROVE  CancelIsReal'
  BY <1>8 DEF Ack, AckRow, Owns, Leave
<1>9. ASSUME NEW w \in Workers, Heartbeat(w) PROVE CancelIsReal'
  BY <1>9 DEF Heartbeat, HeartbeatRow, Beating, Owns
<1>10. ASSUME NEW w \in Workers, NEW r \in Runs, HandleControl(w, r)
       PROVE  CancelIsReal'
  BY <1>10 DEF HandleControl
<1>11. ASSUME NEW w \in Workers, ClaimReplyLost(w) PROVE CancelIsReal'
  BY <1>11 DEF ClaimReplyLost, Leave, Fault
<1>12. ASSUME NEW w \in Workers, AckLost(w) PROVE CancelIsReal'
  BY <1>12 DEF AckLost, Leave, Fault
<1>13. ASSUME NEW w \in Workers, HeartbeatLost(w) PROVE CancelIsReal'
  BY <1>13 DEF HeartbeatLost, Beating, Fault
<1>14. ASSUME NEW w \in Workers, Stall(w) PROVE CancelIsReal'
  BY <1>14 DEF Stall, Beating, Fault
<1>15. ASSUME NEW w \in Workers, Crash(w) PROVE CancelIsReal'
  BY <1>15 DEF Crash, Leave, Fault
<1>16. ASSUME NEW w \in Workers, Restart(w) PROVE CancelIsReal'
  BY <1>16 DEF Restart, Leave
<1>17. CASE ReapExpired
  BY <1>17 DEF ReapExpired, Lapsed
<1>18. CASE Tick
  BY <1>18 DEF Tick, Urgent, Beating
<1>19. CASE UNCHANGED vars
  BY <1>19 DEF vars
<1> HIDE DEF TypeOK, Holding, Executing, CancelIsReal, InFlight,
             Terminal, rows, procs
<1> QED
  BY <1>1, <1>2, <1>3, <1>4, <1>5, <1>6, <1>7, <1>8, <1>9, <1>10, <1>11,
     <1>12, <1>13, <1>14, <1>15, <1>16, <1>17, <1>18, <1>19
  DEF Next, Client, Worker, Failure


\* Every step keeps LeaseCovers: time cannot pass a due heartbeat, so it never
\* takes the last tick of a healthy worker's claim.
LEMMA LeaseStep ==
    TypeOK /\ Holding /\ CancelIsReal /\ LeaseCovers /\ [Next]_vars
    => LeaseCovers'
<1> SUFFICES ASSUME TypeOK, Holding, CancelIsReal, LeaseCovers,
                    [Next]_vars
             PROVE  LeaseCovers'
  OBVIOUS
<1> USE QueueAssumption DEF TypeOK, Holding, Executing, CancelIsReal,
           LeaseCovers, Healthy, Owns, InFlight, Terminal, rows, procs
<1>1. ASSUME NEW r \in Runs, Enqueue(r) PROVE LeaseCovers'
  BY <1>1 DEF Enqueue, Insert
<1>2. ASSUME NEW r \in Runs, NEW n \in Runs, Retry(r, n) PROVE LeaseCovers'
  BY <1>2 DEF Retry, Insert
<1>3. ASSUME NEW r \in Runs, Cancel(r) PROVE LeaseCovers'
  BY <1>3 DEF Cancel, CancelRow, PushControl
<1>4. ASSUME NEW w \in Workers, NEW r \in Runs, Claim(w, r) PROVE LeaseCovers'
  BY <1>4 DEF Claim, ClaimRow, OldestPending
<1>5. ASSUME NEW w \in Workers, Start(w) PROVE LeaseCovers'
  BY <1>5 DEF Start
<1>6. ASSUME NEW w \in Workers, Finish(w) PROVE LeaseCovers'
  BY <1>6 DEF Finish
<1>7. ASSUME NEW w \in Workers, Abandon(w) PROVE LeaseCovers'
  BY <1>7 DEF Abandon, Leave
<1>8. ASSUME NEW w \in Workers, NEW ok \in BOOLEAN, Ack(w, ok)
      PROVE  LeaseCovers'
  BY <1>8 DEF Ack, AckRow, Owns, Leave
<1>9. ASSUME NEW w \in Workers, Heartbeat(w) PROVE LeaseCovers'
  BY <1>9 DEF Heartbeat, HeartbeatRow, Beating, Owns
<1>10. ASSUME NEW w \in Workers, NEW r \in Runs, HandleControl(w, r)
       PROVE  LeaseCovers'
  BY <1>10 DEF HandleControl
<1>11. ASSUME NEW w \in Workers, ClaimReplyLost(w) PROVE LeaseCovers'
  BY <1>11 DEF ClaimReplyLost, Leave, Fault
<1>12. ASSUME NEW w \in Workers, AckLost(w) PROVE LeaseCovers'
  BY <1>12 DEF AckLost, Leave, Fault
<1>13. ASSUME NEW w \in Workers, HeartbeatLost(w) PROVE LeaseCovers'
  BY <1>13 DEF HeartbeatLost, Beating, Fault
<1>14. ASSUME NEW w \in Workers, Stall(w) PROVE LeaseCovers'
  BY <1>14 DEF Stall, Beating, Fault
<1>15. ASSUME NEW w \in Workers, Crash(w) PROVE LeaseCovers'
  BY <1>15 DEF Crash, Leave, Fault
<1>16. ASSUME NEW w \in Workers, Restart(w) PROVE LeaseCovers'
  BY <1>16 DEF Restart, Leave
<1>17. CASE ReapExpired
  BY <1>17 DEF ReapExpired, Lapsed
<1>18. CASE Tick
  BY <1>18 DEF Tick, Urgent, Beating
<1>19. CASE UNCHANGED vars
  BY <1>19 DEF vars
<1> HIDE DEF TypeOK, Holding, Executing, CancelIsReal, LeaseCovers,
             Healthy, Owns, InFlight, Terminal, rows, procs
<1> QED
  BY <1>1, <1>2, <1>3, <1>4, <1>5, <1>6, <1>7, <1>8, <1>9, <1>10, <1>11,
     <1>12, <1>13, <1>14, <1>15, <1>16, <1>17, <1>18, <1>19
  DEF Next, Client, Worker, Failure


\* Every step keeps ExclusiveExecution: a run that a healthy worker holds is
\* neither pending nor claimed by another.
LEMMA ExclusiveStep ==
    TypeOK /\ Holding /\ LeaseCovers /\ ExclusiveExecution /\ [Next]_vars
    => ExclusiveExecution'
<1> SUFFICES ASSUME TypeOK, Holding, LeaseCovers, ExclusiveExecution,
                    [Next]_vars
             PROVE  ExclusiveExecution'
  OBVIOUS
<1> USE QueueAssumption DEF TypeOK, Holding, Executing, LeaseCovers,
           ExclusiveExecution, Healthy, Owns, InFlight, Terminal, rows, procs
<1>1. ASSUME NEW r \in Runs, Enqueue(r) PROVE ExclusiveExecution'
  BY <1>1 DEF Enqueue, Insert
<1>2. ASSUME NEW r \in Runs, NEW n \in Runs, Retry(r, n)
      PROVE  ExclusiveExecution'
  BY <1>2 DEF Retry, Insert
<1>3. ASSUME NEW r \in Runs, Cancel(r) PROVE ExclusiveExecution'
  BY <1>3 DEF Cancel, CancelRow, PushControl
<1>4. ASSUME NEW w \in Workers, NEW r \in Runs, Claim(w, r)
      PROVE  ExclusiveExecution'
  BY <1>4 DEF Claim, ClaimRow, OldestPending
<1>5. ASSUME NEW w \in Workers, Start(w) PROVE ExclusiveExecution'
  BY <1>5 DEF Start
<1>6. ASSUME NEW w \in Workers, Finish(w) PROVE ExclusiveExecution'
  BY <1>6 DEF Finish
<1>7. ASSUME NEW w \in Workers, Abandon(w) PROVE ExclusiveExecution'
  BY <1>7 DEF Abandon, Leave
<1>8. ASSUME NEW w \in Workers, NEW ok \in BOOLEAN, Ack(w, ok)
      PROVE  ExclusiveExecution'
  BY <1>8 DEF Ack, AckRow, Owns, Leave
<1>9. ASSUME NEW w \in Workers, Heartbeat(w) PROVE ExclusiveExecution'
  BY <1>9 DEF Heartbeat, HeartbeatRow, Beating, Owns
<1>10. ASSUME NEW w \in Workers, NEW r \in Runs, HandleControl(w, r)
       PROVE  ExclusiveExecution'
  BY <1>10 DEF HandleControl
<1>11. ASSUME NEW w \in Workers, ClaimReplyLost(w) PROVE ExclusiveExecution'
  BY <1>11 DEF ClaimReplyLost, Leave, Fault
<1>12. ASSUME NEW w \in Workers, AckLost(w) PROVE ExclusiveExecution'
  BY <1>12 DEF AckLost, Leave, Fault
<1>13. ASSUME NEW w \in Workers, HeartbeatLost(w) PROVE ExclusiveExecution'
  BY <1>13 DEF HeartbeatLost, Beating, Fault
<1>14. ASSUME NEW w \in Workers, Stall(w) PROVE ExclusiveExecution'
  BY <1>14 DEF Stall, Beating, Fault
<1>15. ASSUME NEW w \in Workers, Crash(w) PROVE ExclusiveExecution'
  BY <1>15 DEF Crash, Leave, Fault
<1>16. ASSUME NEW w \in Workers, Restart(w) PROVE ExclusiveExecution'
  BY <1>16 DEF Restart, Leave
<1>17. CASE ReapExpired
  BY <1>17 DEF ReapExpired, Lapsed
<1>18. CASE Tick
  BY <1>18 DEF Tick, Urgent, Beating
<1>19. CASE UNCHANGED vars
  BY <1>19 DEF vars
<1> HIDE DEF TypeOK, Holding, Executing, LeaseCovers, ExclusiveExecution,
             Healthy, Owns, InFlight, Terminal, rows, procs
<1> QED
  BY <1>1, <1>2, <1>3, <1>4, <1>5, <1>6, <1>7, <1>8, <1>9, <1>10, <1>11,
     <1>12, <1>13, <1>14, <1>15, <1>16, <1>17, <1>18, <1>19
  DEF Next, Client, Worker, Failure


\* Every step keeps Attempts: only the reaper makes a row pending again, and it
\* finds no claim of a healthy worker.
LEMMA AttemptsStep ==
    TypeOK /\ Holding /\ CancelIsReal /\ LeaseCovers /\ Attempts /\ [Next]_vars
    => Attempts'
<1> SUFFICES ASSUME TypeOK, Holding, CancelIsReal, LeaseCovers, Attempts,
                    [Next]_vars
             PROVE  Attempts'
  OBVIOUS
<1> USE QueueAssumption DEF TypeOK, Holding, Executing, CancelIsReal,
           LeaseCovers, Attempts, HeldInHealth, Healthy, Owns, InFlight,
           Terminal, rows, procs
<1>1. ASSUME NEW r \in Runs, Enqueue(r) PROVE Attempts'
  BY <1>1 DEF Enqueue, Insert
<1>2. ASSUME NEW r \in Runs, NEW n \in Runs, Retry(r, n) PROVE Attempts'
  BY <1>2 DEF Retry, Insert
<1>3. ASSUME NEW r \in Runs, Cancel(r) PROVE Attempts'
  BY <1>3 DEF Cancel, CancelRow, PushControl
<1>4. ASSUME NEW w \in Workers, NEW r \in Runs, Claim(w, r) PROVE Attempts'
  BY <1>4 DEF Claim, ClaimRow, OldestPending
<1>5. ASSUME NEW w \in Workers, Start(w) PROVE Attempts'
  BY <1>5 DEF Start
<1>6. ASSUME NEW w \in Workers, Finish(w) PROVE Attempts'
  BY <1>6 DEF Finish
<1>7. ASSUME NEW w \in Workers, Abandon(w) PROVE Attempts'
  BY <1>7 DEF Abandon, Leave
<1>8. ASSUME NEW w \in Workers, NEW ok \in BOOLEAN, Ack(w, ok) PROVE Attempts'
  BY <1>8 DEF Ack, AckRow, Owns, Leave
<1>9. ASSUME NEW w \in Workers, Heartbeat(w) PROVE Attempts'
  BY <1>9 DEF Heartbeat, HeartbeatRow, Beating, Owns
<1>10. ASSUME NEW w \in Workers, NEW r \in Runs, HandleControl(w, r)
       PROVE  Attempts'
  BY <1>10 DEF HandleControl
<1>11. ASSUME NEW w \in Workers, ClaimReplyLost(w) PROVE Attempts'
  BY <1>11 DEF ClaimReplyLost, Leave, Fault
<1>12. ASSUME NEW w \in Workers, AckLost(w) PROVE Attempts'
  BY <1>12 DEF AckLost, Leave, Fault
<1>13. ASSUME NEW w \in Workers, HeartbeatLost(w) PROVE Attempts'
  BY <1>13 DEF HeartbeatLost, Beating, Fault
<1>14. ASSUME NEW w \in Workers, Stall(w) PROVE Attempts'
  BY <1>14 DEF Stall, Beating, Fault
<1>15. ASSUME NEW w \in Workers, Crash(w) PROVE Attempts'
  BY <1>15 DEF Crash, Leave, Fault
<1>16. ASSUME NEW w \in Workers, Restart(w) PROVE Attempts'
  BY <1>16 DEF Restart, Leave
<1>17. CASE ReapExpired
  BY <1>17 DEF ReapExpired, Lapsed
<1>18. CASE Tick
  BY <1>18 DEF Tick, Urgent, Beating
<1>19. CASE UNCHANGED vars
  BY <1>19 DEF vars
<1> HIDE DEF TypeOK, Holding, Executing, CancelIsReal, LeaseCovers,
             Attempts, HeldInHealth, Healthy, Owns, InFlight, Terminal,
             rows, procs
<1> QED
  BY <1>1, <1>2, <1>3, <1>4, <1>5, <1>6, <1>7, <1>8, <1>9, <1>10, <1>11,
     <1>12, <1>13, <1>14, <1>15, <1>16, <1>17, <1>18, <1>19
  DEF Next, Client, Worker, Failure


\* Every step keeps the order of the queue.
LEMMA OrderStep ==
    TypeOK /\ Attempts /\ Seconds /\ NoOvertaking /\ [Next]_vars
    => (Seconds /\ NoOvertaking)'
<1> SUFFICES ASSUME TypeOK, Attempts, Seconds, NoOvertaking,
                    [Next]_vars
             PROVE  (Seconds /\ NoOvertaking)'
  OBVIOUS
<1> USE QueueAssumption DEF TypeOK, Attempts, Seconds, NoOvertaking,
           InFlight, Terminal, rows, procs
<1>1. ASSUME NEW r \in Runs, Enqueue(r) PROVE (Seconds /\ NoOvertaking)'
  BY <1>1 DEF Enqueue, Insert
<1>2. ASSUME NEW r \in Runs, NEW n \in Runs, Retry(r, n)
      PROVE  (Seconds /\ NoOvertaking)'
  BY <1>2 DEF Retry, Insert
<1>3. ASSUME NEW r \in Runs, Cancel(r) PROVE (Seconds /\ NoOvertaking)'
  BY <1>3 DEF Cancel, CancelRow, PushControl
<1>4. ASSUME NEW w \in Workers, NEW r \in Runs, Claim(w, r)
      PROVE  (Seconds /\ NoOvertaking)'
  BY <1>4 DEF Claim, ClaimRow, OldestPending
<1>5. ASSUME NEW w \in Workers, Start(w) PROVE (Seconds /\ NoOvertaking)'
  BY <1>5 DEF Start
<1>6. ASSUME NEW w \in Workers, Finish(w) PROVE (Seconds /\ NoOvertaking)'
  BY <1>6 DEF Finish
<1>7. ASSUME NEW w \in Workers, Abandon(w) PROVE (Seconds /\ NoOvertaking)'
  BY <1>7 DEF Abandon, Leave
<1>8. ASSUME NEW w \in Workers, NEW ok \in BOOLEAN, Ack(w, ok)
      PROVE  (Seconds /\ NoOvertaking)'
  BY <1>8 DEF Ack, AckRow, Owns, Leave
<1>9. ASSUME NEW w \in Workers, Heartbeat(w) PROVE (Seconds /\ NoOvertaking)'
  BY <1>9 DEF Heartbeat, HeartbeatRow, Beating, Owns
<1>10. ASSUME NEW w \in Workers, NEW r \in Runs, HandleControl(w, r)
       PROVE  (Seconds /\ NoOvertaking)'
  BY <1>10 DEF HandleControl
<1>11. ASSUME NEW w \in Workers, ClaimReplyLost(w)
       PROVE  (Seconds /\ NoOvertaking)'
  BY <1>11 DEF ClaimReplyLost, Leave, Fault
<1>12. ASSUME NEW w \in Workers, AckLost(w) PROVE (Seconds /\ NoOvertaking)'
  BY <1>12 DEF AckLost, Leave, Fault
<1>13. ASSUME NEW w \in Workers, HeartbeatLost(w)
       PROVE  (Seconds /\ NoOvertaking)'
  BY <1>13 DEF HeartbeatLost, Beating, Fault
<1>14. ASSUME NEW w \in Workers, Stall(w) PROVE (Seconds /\ NoOvertaking)'
  BY <1>14 DEF Stall, Beating, Fault
<1>15. ASSUME NEW w \in Workers, Crash(w) PROVE (Seconds /\ NoOvertaking)'
  BY <1>15 DEF Crash, Leave, Fault
<1>16. ASSUME NEW w \in Workers, Restart(w) PROVE (Seconds /\ NoOvertaking)'
  BY <1>16 DEF Restart, Leave
<1>17. CASE ReapExpired
  BY <1>17 DEF ReapExpired, Lapsed
<1>18. CASE Tick
  BY <1>18 DEF Tick, Urgent, Beating
<1>19. CASE UNCHANGED vars
  BY <1>19 DEF vars
<1> HIDE DEF TypeOK, Attempts, Seconds, NoOvertaking, InFlight, Terminal,
             rows, procs
<1> QED
  BY <1>1, <1>2, <1>3, <1>4, <1>5, <1>6, <1>7, <1>8, <1>9, <1>10, <1>11,
     <1>12, <1>13, <1>14, <1>15, <1>16, <1>17, <1>18, <1>19
  DEF Next, Client, Worker, Failure


-----------------------------------------------------------------------------
(***************************************************************************)
(* The theorems.                                                           *)
(***************************************************************************)

\* Inv holds in every reachable state, for every number of runs, workers and
\* faults and for every visibility longer than the heartbeat interval.
THEOREM Invariance == Spec => []Inv
<1>1. Init => Inv
  <2> SUFFICES ASSUME Init PROVE Inv
    OBVIOUS
  <2> USE QueueAssumption DEF Init
  <2>1. TypeOK
    BY DEF TypeOK
  <2>2. Holding /\ CancelIsReal
    BY DEF Holding, Executing, CancelIsReal
  <2>3. \A w \in Workers : ~Healthy(w)
    BY DEF Healthy
  <2>4. LeaseCovers /\ ExclusiveExecution
    BY <2>3 DEF LeaseCovers, ExclusiveExecution
  <2>5. Attempts /\ Seconds /\ NoOvertaking
    BY DEF Attempts, Seconds, NoOvertaking
  <2> QED
    BY <2>1, <2>2, <2>4, <2>5 DEF Inv
<1>2. Inv /\ [Next]_vars => Inv'
  BY TypeStep, HoldingStep, CancelStep, LeaseStep, ExclusiveStep,
     AttemptsStep, OrderStep DEF Inv
<1> QED
  BY <1>1, <1>2, PTL DEF Spec

\* The tables and the workers never leave the shape of TypeOK, whatever the
\* order of claims, acks, reaps, cancels and faults.
THEOREM TypeCorrect == Spec => []TypeOK
<1>1. Inv => TypeOK
  BY DEF Inv
<1> QED
  BY <1>1, Invariance, PTL

\* A worker whose heartbeats arrive in time never loses the claim on the run
\* it executes, except to an operator's cancel.
THEOREM ClaimIsKept == Spec => []HealthyWorkerKeepsClaim
<1>1. Inv => HealthyWorkerKeepsClaim
  BY DEF Inv, LeaseCovers, HealthyWorkerKeepsClaim
<1> QED
  BY <1>1, Invariance, PTL

\* Two workers whose heartbeats arrive in time never execute the same run.
THEOREM ExecutionIsExclusive == Spec => []ExclusiveExecution
<1>1. Inv => ExclusiveExecution
  BY DEF Inv
<1> QED
  BY <1>1, Invariance, PTL

\* The reaper and the queue never run a job twice by themselves: every claim
\* of a row beyond the first goes back to a fault.
THEOREM ReexecutionIsCaused == Spec => []ReexecutionNeedsFault
<1>1. Inv => ReexecutionNeedsFault
  BY DEF Inv, Attempts, ReexecutionNeedsFault
<1> QED
  BY <1>1, Invariance, PTL

\* The workers table names the run of every worker that executes one, also
\* after a reap or a cancel took the claim away.
THEOREM RegistryIsRight == Spec => []RegistryNamesTheRun
<1>1. Inv => RegistryNamesTheRun
  BY DEF Inv, Holding, Executing, RegistryNamesTheRun
<1> QED
  BY <1>1, Invariance, PTL

\* Claim hands rows out in the order of the seconds they were enqueued in,
\* across reaps, cancels and retries.
THEOREM OrderIsKept == Spec => []NoOvertaking
<1>1. Inv => NoOvertaking
  BY DEF Inv
<1> QED
  BY <1>1, Invariance, PTL

\* A worker gives a run up without an ack only if the producer canceled it.
THEOREM AbandonIsJustified == Spec => []AbandonedOnlyIfCanceled
<1>1. Inv => AbandonedOnlyIfCanceled
  BY DEF Inv, CancelIsReal, AbandonedOnlyIfCanceled
<1> QED
  BY <1>1, Invariance, PTL

\* No step changes a row that is done, failed or canceled: a late ack, a reap
\* and a cancel that crosses an ack all leave it alone.
THEOREM TerminalStays == Spec => TerminalIsFinal
<1> DEFINE Kept == \A r \in Runs : status[r] \in Terminal
                                     => status'[r] = status[r]
<1>1. TypeOK /\ [Next]_vars => [Kept]_vars
  <2> SUFFICES ASSUME TypeOK, Next PROVE Kept
    OBVIOUS
  <2> USE DEF TypeOK, InFlight, Terminal, rows, procs
  <2>1. ASSUME NEW r \in Runs, Enqueue(r) PROVE Kept
    BY <2>1 DEF Enqueue, Insert
  <2>2. ASSUME NEW r \in Runs, NEW n \in Runs, Retry(r, n) PROVE Kept
    BY <2>2 DEF Retry, Insert
  <2>3. ASSUME NEW r \in Runs, Cancel(r) PROVE Kept
    BY <2>3 DEF Cancel, CancelRow
  <2>4. ASSUME NEW w \in Workers, NEW r \in Runs, Claim(w, r) PROVE Kept
    BY <2>4 DEF Claim, ClaimRow, OldestPending
  <2>5. ASSUME NEW w \in Workers, NEW ok \in BOOLEAN, Ack(w, ok) PROVE Kept
    BY <2>5 DEF Ack, AckRow, Owns
  <2>6. CASE ReapExpired
    BY <2>6 DEF ReapExpired, Lapsed
  <2>7. CASE UNCHANGED status
    BY <2>7
  <2> QED
    BY <2>1, <2>2, <2>3, <2>4, <2>5, <2>6, <2>7
    DEF Next, Client, Worker, Failure, Start, Finish, Abandon, Heartbeat,
        HandleControl, ClaimReplyLost, AckLost, HeartbeatLost, Stall, Crash,
        Restart, Tick
<1> QED
  BY <1>1, TypeCorrect, PTL DEF Spec, TerminalIsFinal

\* A row becomes done or failed by the ack of the worker that has its claim
\* at that moment, and by nothing else.
THEOREM HolderCompletes == Spec => OnlyHolderCompletes
<1> DEFINE Rightly ==
      \A r \in Runs :
         status'[r] # status[r] /\ status'[r] \in {"done", "failed"}
         => \E w \in Workers :
              Owns(w, r) /\ pc[w] = "acking" /\ held[w] = r
<1>1. Inv /\ [Next]_vars => [Rightly]_vars
  <2> SUFFICES ASSUME Inv, Next PROVE Rightly
    OBVIOUS
  <2> USE DEF Inv, TypeOK, Holding, Executing, InFlight, Terminal, rows, procs
  <2>1. ASSUME NEW r \in Runs, Enqueue(r) PROVE Rightly
    BY <2>1 DEF Enqueue, Insert
  <2>2. ASSUME NEW r \in Runs, NEW n \in Runs, Retry(r, n) PROVE Rightly
    BY <2>2 DEF Retry, Insert
  <2>3. ASSUME NEW r \in Runs, Cancel(r) PROVE Rightly
    BY <2>3 DEF Cancel, CancelRow
  <2>4. ASSUME NEW w \in Workers, NEW r \in Runs, Claim(w, r) PROVE Rightly
    BY <2>4 DEF Claim, ClaimRow, OldestPending
  <2>5. ASSUME NEW w \in Workers, NEW ok \in BOOLEAN, Ack(w, ok)
        PROVE  Rightly
    BY <2>5 DEF Ack, AckRow
  <2>6. CASE ReapExpired
    BY <2>6 DEF ReapExpired, Lapsed
  <2>7. CASE UNCHANGED status
    BY <2>7
  <2> QED
    BY <2>1, <2>2, <2>3, <2>4, <2>5, <2>6, <2>7
    DEF Next, Client, Worker, Failure, Start, Finish, Abandon, Heartbeat,
        HandleControl, ClaimReplyLost, AckLost, HeartbeatLost, Stall, Crash,
        Restart, Tick
<1> QED
  BY <1>1, Invariance, PTL DEF Spec, OnlyHolderCompletes

\* The queue implements RunContract: to a client, claims, leases, heartbeats,
\* faults and re-executions never show.
THEOREM Refinement == Spec => ImplementsContract
<1>1. Init => Contract!Init
  BY DEF Init, Contract!Init, InFlight
<1>2. Inv /\ [Next]_vars => [Contract!Next]_(Contract!vars)
  <2> SUFFICES ASSUME Inv, [Next]_vars
               PROVE  Contract!Next \/ UNCHANGED Contract!vars
    OBVIOUS
  <2> USE DEF Inv, TypeOK, InFlight, Terminal, rows, procs
  <2>1. ASSUME NEW r \in Runs, Enqueue(r) PROVE Contract!Submit(r)
    BY <2>1 DEF Enqueue, Insert, Contract!Submit
  <2>2. ASSUME NEW r \in Runs, NEW n \in Runs, Retry(r, n)
        PROVE  Contract!Submit(n)
    BY <2>2 DEF Retry, Insert, Contract!Submit
  <2>3. ASSUME NEW r \in Runs, Cancel(r) PROVE Contract!Withdraw(r)
    BY <2>3 DEF Cancel, CancelRow, Contract!Withdraw
  <2>4. ASSUME NEW w \in Workers, NEW r \in Runs, Claim(w, r)
        PROVE  UNCHANGED Contract!vars
    BY <2>4 DEF Claim, ClaimRow, OldestPending, Contract!vars
  <2>5. ASSUME NEW w \in Workers, Finish(w)
        PROVE  held[w] \in Runs /\ Contract!Execute(held[w])
    BY <2>5 DEF Finish, Holding, Executing, Contract!Execute
  <2>6. ASSUME NEW w \in Workers, NEW ok \in BOOLEAN, Ack(w, ok)
        PROVE  Contract!Next \/ UNCHANGED Contract!vars
    <3>1. held[w] \in Runs /\ held[w] \in ran
      BY <2>6 DEF Ack, Holding, Executing
    <3>2. CASE Owns(w, held[w])
      <4>1. Contract!Close(held[w], IF ok THEN "done" ELSE "failed")
        BY <2>6, <3>1, <3>2 DEF Ack, AckRow, Owns, Contract!Close
      <4> QED
        BY <3>1, <4>1 DEF Contract!Next
    <3>3. CASE ~Owns(w, held[w])
      BY <2>6, <3>3 DEF Ack, AckRow, Contract!vars
    <3> QED
      BY <3>2, <3>3
  <2>7. CASE ReapExpired
    BY <2>7 DEF ReapExpired, Lapsed, Contract!vars
  <2>8. CASE UNCHANGED <<status, ran>>
    BY <2>8 DEF Contract!vars
  <2> QED
    BY <2>1, <2>2, <2>3, <2>4, <2>5, <2>6, <2>7, <2>8
    DEF Next, Client, Worker, Failure, Start, Abandon, Heartbeat,
        HandleControl, ClaimReplyLost, AckLost, HeartbeatLost, Stall, Crash,
        Restart, Tick, vars, Contract!Next
<1> QED
  BY <1>1, <1>2, Invariance, PTL DEF Spec, ImplementsContract, Contract!Spec

=============================================================================
