------------------------------ MODULE MCQueue ------------------------------
(* Small instances of Queue. *)
EXTENDS Queue

CONSTANTS hi, mid, lo, x, y

MCTasks  == {hi, mid, lo}
TwoTasks == {hi, lo}
MCItems  == {x, y}
OneItem  == {x}
MCPrio   == [t \in Tasks |-> CASE t = hi -> 3 [] t = mid -> 2 [] OTHER -> 1]

\* A counting semaphore that every task gives and takes; a queue two tasks use
\* in every way; a mailbox that can be overwritten.
CountingOps == [t \in Tasks |-> {"back", "receive"}]
QueueOps    == [t \in Tasks |-> {"back", "front", "receive", "peek", "reset"}]
MailboxOps  == [t \in Tasks |-> CASE t = hi -> {"receive", "peek"}
                                 [] t = mid -> {"receive"}
                                 [] OTHER -> {"overwrite", "front", "reset"}]

SomeWaits == [t \in Tasks |-> IF t = lo THEN {"none", "finite"} ELSE {"finite", "forever"}]
FewWaits  == [t \in Tasks |-> {"none", "finite"}]
=============================================================================
