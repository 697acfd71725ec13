---------------------------- MODULE MCScheduler ----------------------------
(* Small instances of Scheduler. *)
EXTENDS Scheduler

CONSTANTS a, b

NoTasks  == {}
TwoTasks == {a, b}

\* Priorities by task; with LowPrio one shares the idle task's.
HighPrio  == [t \in AllTasks |-> CASE t = a -> 2 [] t = Idle -> 0 [] OTHER -> 1]
LowPrio   == [t \in AllTasks |-> IF t = a THEN 1 ELSE 0]

\* Each task blocks, suspends and resumes itself and the other, one deletes and
\* the other creates, gives priorities and suspends the scheduler.
ControlOps == [t \in AllTasks |->
    CASE t = a -> {"delay", "wait", "suspend", "resume", "delete"}
      [] t = b -> {"hold", "signal", "suspend", "resume", "delay", "prioritySet", "create"}
      [] OTHER -> {}]

\* A periodic task, one that blocks in every way, and the idle task sleeping.
TimeOps == [t \in AllTasks |->
    CASE t = a -> {"delayUntil"}
      [] t = b -> {"delay", "wait", "hold", "yield"}
      [] OTHER -> {"sleep"}]
=============================================================================
