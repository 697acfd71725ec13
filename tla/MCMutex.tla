------------------------------ MODULE MCMutex ------------------------------
(* Small instances of Mutex. *)
EXTENDS Mutex

CONSTANTS hi, mid, lo, m1, m2

MCTasks   == {hi, mid, lo}
MCMutexes == {m1, m2}
None      == {}
RecursiveOne == {m2}
OnlyLo    == {lo}
MCPrio    == [t \in AllTasks |-> CASE t = hi -> 3 [] t = mid -> 2 [] t = lo -> 1 [] OTHER -> 0]

\* All three share m1, which lo takes only when it is there; mid holds m2 as well,
\* before or after.
Shared      == [t \in Tasks |-> IF t = mid THEN {m1, m2} ELSE {m1}]
SharedByAll == [t \in Tasks |-> {m1, m2}]

MixedWaits == [t \in Tasks |-> CASE t = hi -> {"finite"}
                                 [] t = mid -> {"forever"}
                                 [] OTHER -> {"none"}]
TimedWaits  == [t \in Tasks |-> {"finite"}]
=============================================================================
