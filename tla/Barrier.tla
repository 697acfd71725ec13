------------------------------ MODULE Barrier ------------------------------
(***************************************************************************)
(* What a barrier promises: a thread that arrives waits until Count of     *)
(* them have arrived, all of these are let through together, and one of    *)
(* them is told that it is the serial thread.                              *)
(***************************************************************************)
EXTENDS FiniteSets, Integers

CONSTANTS Threads,
          Count         \* the threads of a round, at least one

VARIABLES waiting,      \* arrived, and not let through
          through,      \* let through, and not gone
          serial        \* of those, the serial threads

vars == <<waiting, through, serial>>

Init == waiting = {} /\ through = {} /\ serial = {}

Arrive(t) ==
    /\ t \notin waiting \cup through
    /\ Cardinality(waiting) + 1 < Count
    /\ waiting' = waiting \cup {t}
    /\ UNCHANGED <<through, serial>>

\* The last to arrive opens the barrier.
Open(t) ==
    /\ t \notin waiting \cup through
    /\ Cardinality(waiting) + 1 = Count
    /\ waiting' = {}
    /\ through' = through \cup waiting \cup {t}
    /\ \E s \in waiting \cup {t} : serial' = serial \cup {s}

Leave(t) ==
    /\ t \in through
    /\ through' = through \ {t}
    /\ serial' = serial \ {t}
    /\ UNCHANGED waiting

Next == \E t \in Threads : Arrive(t) \/ Open(t) \/ Leave(t)

Spec == Init /\ [][Next]_vars /\ \A t \in Threads : WF_vars(Leave(t))
=============================================================================
