----------------------------- MODULE Projection -----------------------------
(***************************************************************************)
(* The rows that the store keeps of one run (internal/cronicle/state): its *)
(* runs row and its tasks rows, and what events and operator verbs do to   *)
(* them.  Each operator is one transaction under Store.mu.                 *)
(*                                                                         *)
(* A projected status is what GET /v1/runs/{id} shows, and what the cancel *)
(* gate of the DAG walker reads.                                           *)
(***************************************************************************)
CONSTANT Tasks

VARIABLES runRow,   \* runs.status, "absent" without a row
          taskRow   \* taskRow[n]: tasks.status, "absent" without a row

projection == <<runRow, taskRow>>

\* The statuses that Cancel and CancelTask leave alone; skipped is not one.
Final == {"succeeded", "failed", "canceled"}

Statuses == {"absent", "queued", "running", "skipped"} \union Final

Outcome(ok) == IF ok THEN "succeeded" ELSE "failed"

ProjectionInit ==
    /\ runRow = "absent"
    /\ taskRow = [n \in Tasks |-> "absent"]

\* The tasks row of n gets status s.  Without a runs row the foreign key
\* refuses the row, Apply rolls back and the event is lost.
SetTask(n, s) ==
    /\ taskRow' = IF runRow = "absent" THEN taskRow
                                       ELSE [taskRow EXCEPT ![n] = s]
    /\ UNCHANGED runRow

\* Seeded fault: the tasks rows of an earlier walk are set back to queued.
applyScheduleStartAfresh ==
    /\ runRow' = "running"
    /\ taskRow' = [n \in Tasks |-> "queued"]

\* The runs row is set to running whatever it was; tasks rows are only added.
applyScheduleStart ==
    /\ runRow' = "running"
    /\ taskRow' = [n \in Tasks |-> IF taskRow[n] = "absent" THEN "queued"
                                                            ELSE taskRow[n]]

\* Also from a terminal status, canceled included.
applyTaskStart(n) == SetTask(n, "running")

applyTaskSkipped(n) == SetTask(n, "skipped")

\* Sticky cancel.
applyTaskTerminal(n, ok) ==
    SetTask(n, IF taskRow[n] = "canceled" THEN "canceled" ELSE Outcome(ok))

\* Seeded fault: the success field is not looked at.
applyScheduleCompleteBlind(ok) ==
    /\ runRow' = IF runRow \in {"absent", "canceled"} THEN runRow
                                                      ELSE "succeeded"
    /\ UNCHANGED taskRow

\* Seeded fault: only a queued row is closed.
applyScheduleCompleteQueued(ok) ==
    /\ runRow' = IF runRow = "queued" THEN Outcome(ok) ELSE runRow
    /\ UNCHANGED taskRow

\* Sticky cancel; an UPDATE, so that a missing row stays missing.
applyScheduleComplete(ok) ==
    /\ runRow' = IF runRow \in {"absent", "canceled"} THEN runRow
                                                      ELSE Outcome(ok)
    /\ UNCHANGED taskRow

\* The runs and tasks rows in Store.Cancel.
CancelRows ==
    /\ runRow' = IF runRow \in Final \union {"absent"} THEN runRow
                                                       ELSE "canceled"
    /\ taskRow' = [n \in Tasks |->
                     IF taskRow[n] \in Final \union {"absent"} THEN taskRow[n]
                                                               ELSE "canceled"]

\* Store.CancelTask, with targets the task and its cascade.  Missing rows of
\* the cascade are inserted.
CancelTaskRows(t, cascade) ==
    /\ taskRow[t] \notin Final \union {"absent"}
    /\ taskRow' = [n \in Tasks |->
                     IF n \in {t} \union cascade /\ taskRow[n] \notin Final
                     THEN "canceled" ELSE taskRow[n]]
    /\ UNCHANGED runRow

\* The answer of a read that succeeds; its error is left to the caller.
IsTaskCanceledInRun(n) == taskRow[n] = "canceled"

=============================================================================
