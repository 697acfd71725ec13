---------------------------- MODULE BoundedFifo ----------------------------
(***************************************************************************)
(* What a kernel queue promises its clients (queue.h): a sequence of at    *)
(* most Capacity items, changed by one call at a time, where a receiver    *)
(* gets the item at the front.                                             *)
(***************************************************************************)
EXTENDS Integers, Sequences

CONSTANTS Items, NoItem, Capacity

VARIABLES buf,   \* the items, front first
          last   \* the last operation that succeeded, and its item

Init == buf = << >> /\ last = <<"reset", NoItem>>

PushBack(x)  == Len(buf) < Capacity /\ buf' = Append(buf, x) /\ last' = <<"back", x>>
PushFront(x) == Len(buf) < Capacity /\ buf' = <<x>> \o buf /\ last' = <<"front", x>>
Overwrite(x) == Capacity = 1 /\ buf' = <<x>> /\ last' = <<"overwrite", x>>

Pop   == buf # << >> /\ buf' = Tail(buf) /\ last' = <<"receive", Head(buf)>>
Peek  == buf # << >> /\ buf' = buf /\ last' = <<"peek", Head(buf)>>
Clear == buf' = << >> /\ last' = <<"reset", NoItem>>

Next == \/ \E x \in Items : PushBack(x) \/ PushFront(x) \/ Overwrite(x)
        \/ Pop \/ Peek \/ Clear

Spec == Init /\ [][Next]_<<buf, last>>
=============================================================================
