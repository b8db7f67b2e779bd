---------------------------- MODULE MCEventShip -----------------------------
(* Instances of EventShip for TLC. *)
EXTENDS EventShip

Event(kind, n, ok) == [kind |-> kind, task |-> n, ok |-> ok]

\* A run of one task, which succeeds.
SomeTask == CHOOSE n \in Tasks : TRUE

MCScript == << Event("schedule_start", SomeTask, TRUE),
               Event("task_start", SomeTask, TRUE),
               Event("task_terminal", SomeTask, TRUE),
               Event("schedule_complete", SomeTask, TRUE) >>

=============================================================================
