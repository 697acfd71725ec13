---------------------------- MODULE KernelLists ----------------------------
(***************************************************************************)
(* The kernel's doubly linked lists (list.c), as operators on sequences.   *)
(*                                                                         *)
(* A sorted list (event lists, delayed lists) is the sequence of its items *)
(* from listGET_HEAD_ENTRY on; the value of an item is looked up in a      *)
(* function, because the kernel changes the value of an item while the     *)
(* item stays where it is.  A ready list also has pxIndex, the item that   *)
(* listGET_OWNER_OF_NEXT_ENTRY returned last: it is the record             *)
(* [items, idx], where idx is a position in items, 0 being the end marker. *)
(***************************************************************************)
EXTENDS Integers, Sequences, FiniteSets, SequencesExt

\* No item is in the list twice.
NoDuplicates(s) == \A i, j \in DOMAIN s : s[i] = s[j] => i = j

\* The items at the front of s whose value does not exceed w: the items the
\* loop of vListInsert walks past.
LeadingNotAbove(s, w, value) ==
    {i \in DOMAIN s : \A j \in 1..i : value[s[j]] <= w}

\* Insert x in a list sorted by ascending value, after the items of its value.
vListInsert(s, x, value) ==
    InsertAt(s, Cardinality(LeadingNotAbove(s, value[x], value)) + 1, x)

\* Take x out of a sorted list that holds it.
uxListRemove(s, x) ==
    LET k == CHOOSE i \in DOMAIN s : s[i] = x
    IN  SubSeq(s, 1, k - 1) \o SubSeq(s, k + 1, Len(s))

-----------------------------------------------------------------------------
EmptyReadyList == [items |-> << >>, idx |-> 0]

\* Insert x just before pxIndex: the last place listGET_OWNER_OF_NEXT_ENTRY
\* reaches.
vListInsertEnd(l, x) ==
    IF l.idx = 0
    THEN [l EXCEPT !.items = Append(@, x)]
    ELSE [items |-> InsertAt(l.items, l.idx, x), idx |-> l.idx + 1]

\* Take x out of a ready list; pxIndex moves to the previous item when it
\* pointed at x.
uxReadyListRemove(l, x) ==
    LET k == CHOOSE i \in DOMAIN l.items : l.items[i] = x
    IN  [items |-> uxListRemove(l.items, x),
         idx   |-> IF k <= l.idx THEN l.idx - 1 ELSE l.idx]

\* Advance pxIndex, skipping the end marker; l is not empty.
listGET_OWNER_OF_NEXT_ENTRY(l) == [l EXCEPT !.idx = IF @ = Len(l.items) THEN 1 ELSE @ + 1]

-----------------------------------------------------------------------------
(* The ready tasks: a list for each priority, and in uxTopReadyPriority a  *)
(* bit for each, here the set of the priorities whose bit is set.          *)

prvAddTaskToReadyList(R, t, p) ==
    [lists |-> [R.lists EXCEPT ![p] = vListInsertEnd(@, t)], top |-> R.top \cup {p}]

\* uxListRemove from the list of p, then taskRESET_READY_PRIORITY of cleared.
RemoveAndClear(R, t, p, cleared) ==
    LET L == [R.lists EXCEPT ![p] = uxReadyListRemove(@, t)]
    IN  [lists |-> L,
         top   |-> IF L[cleared].items = << >> THEN R.top \ {cleared} ELSE R.top]

\* Mutant: the bit of an empty list stays set.
RemoveAndKeepBit(R, t, p) == [R EXCEPT !.lists[p] = uxReadyListRemove(@, t)]

RemoveFromReadyList(R, t, p) == RemoveAndClear(R, t, p, p)
=============================================================================
