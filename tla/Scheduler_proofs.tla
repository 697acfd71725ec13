------------------------- MODULE Scheduler_proofs -------------------------
(***************************************************************************)
(* Proofs about Scheduler, for every set of tasks, assignment of           *)
(* priorities and operations, modulus of the tick count and set of delays. *)
(***************************************************************************)
EXTENDS Scheduler, KernelLists_proofs

\* The ready lists R are sound for the priorities prio: each holds tasks of its
\* own priority, once each, pxIndex is inside it and its bit is exact.
ListType == ListTypeOf(AllTasks)

ReadyType == ReadyTypeOf(AllTasks, Priorities)

ReadyOK(R, prio) == ReadySound(R, prio, AllTasks, Priorities) /\ BitsExact(R, Priorities)

PrioType == [AllTasks -> Priorities]

\* The tasks in the ready lists.
Ready == {t \in AllTasks : InReadyList(t)}

D == ToSet(pxDelayedTaskList)
O == ToSet(pxOverflowDelayedTaskList)

TypesInv ==
    /\ xItemValue \in [AllTasks -> 0 .. portMAX_DELAY]
    /\ uxPriority \in PrioType
    /\ xTickCount \in Int /\ xNextTaskUnblockTime \in Int /\ xExpectedIdleTime \in Int
    /\ xPreviousWakeTime \in [Periodic -> Int]
    /\ \A t \in AllTasks : pc[t] = "delayUntil" => t \in Periodic
    /\ uxSchedulerSuspended \in Nat
    /\ xYieldPending \in BOOLEAN /\ pendSV \in BOOLEAN /\ xSwitchRequired \in BOOLEAN
    /\ pxCurrentTCB \in AllTasks
    /\ masked \in {"no", "tick", "resumeAll", "pendedTick"}
    /\ pc \in [AllTasks -> PCs]

\* Every task is in one list, and the idle task is ready.
BlockInv ==
    /\ pxDelayedTaskList \in Seq(AllTasks) /\ pxOverflowDelayedTaskList \in Seq(AllTasks)
    /\ NoDuplicates(pxDelayedTaskList) /\ NoDuplicates(pxOverflowDelayedTaskList)
    /\ xSuspendedTaskList \subseteq AllTasks /\ xTasksWaitingTermination \subseteq Tasks
    /\ Ready \cap (D \cup O \cup xSuspendedTaskList \cup xTasksWaitingTermination) = {}
    /\ D \cap O = {} /\ (D \cup O) \cap xSuspendedTaskList = {}
    /\ (D \cup O \cup xSuspendedTaskList) \cap xTasksWaitingTermination = {}
    /\ Idle \in Ready

EventInv ==
    /\ xEventList \in Seq(AllTasks) /\ xPendingReadyList \in Seq(AllTasks)
    /\ EventItemsAreOfBlockedTasks

ListsInv == ReadyOK(ready, uxPriority) /\ BlockInv /\ EventInv

\* The places of a task that has suspended the scheduler.
Holding == {"hold", "delay", "delayUntil", "wait", "resumeAll",
            "idleSample", "idleSleep", "idleResume"}

IdlePCs == {"run", "idleYield", "idleTest", "idleSuspend", "idleSample", "idleSleep", "idleResume"}

\* Only the running task has the scheduler suspended; it has left the ready lists
\* only on the way to a yield.
ControlInv ==
    /\ pc[Idle] \in IdlePCs
    /\ \A t \in AllTasks : pc[t] \in Holding =>
          t = pxCurrentTCB /\ (uxSchedulerSuspended > 0 \/ masked \in {"resumeAll", "pendedTick"})
    /\ masked \in {"resumeAll", "pendedTick"} =>
          pc[pxCurrentTCB] \in {"hold", "resumeAll", "idleResume"} /\ uxSchedulerSuspended = 0
    /\ masked = "tick" => uxSchedulerSuspended = 0
    /\ pxCurrentTCB \in Ready \/ pendSV \/ pc[pxCurrentTCB] \in {"resumeAll", "yield", "resetSelf"}
    /\ uxSchedulerSuspended > 0 \/ masked \in {"resumeAll", "pendedTick"} =>
          pxCurrentTCB \in Ready \/ pc[pxCurrentTCB] = "resumeAll"
    /\ \A t \in xTasksWaitingTermination : pc[t] \notin {"resetSelf", "reset"}

\* While a task of higher priority than the running one is ready, someone still
\* has to ask for the switch.
SwitchIsDue ==
    \/ pendSV \/ pc[pxCurrentTCB] \in {"yield", "resetSelf"}
    \/ masked \in {"tick", "pendedTick"} /\ xSwitchRequired
    \/ /\ uxSchedulerSuspended > 0 \/ masked # "no"
       /\ xYieldPending \/ pc[pxCurrentTCB] = "resumeAll"

Highest(t) == \A u \in Ready : uxPriority[u] <= uxPriority[t]

HighestInv == Highest(pxCurrentTCB) \/ SwitchIsDue

Resetting == \E t \in AllTasks : pc[t] \in {"resetSelf", "reset"}

UnblockInv ==
    masked \in {"no", "resumeAll"} /\ ~Resetting
    => xNextTaskUnblockTime = UnblockTime(pxDelayedTaskList)

\* The inductive invariant.
IInv == TypesInv /\ ListsInv /\ ControlInv /\ HighestInv /\ UnblockInv
-----------------------------------------------------------------------------
(* The ready lists. *)

LEMMA PrioritiesAreNats == MaxPriority \in Nat /\ Priorities \subseteq Nat
  BY SchedulerAssumption DEF Priorities

\* A task that becomes ready, with its priority set at the same time or not.
LEMMA AddReadyKeeps ==
    ASSUME NEW R, NEW prio \in PrioType, NEW prio2 \in PrioType, NEW u \in AllTasks,
           NEW p, p = prio2[u], ReadyOK(R, prio), ~In(R, prio, u),
           \A t \in AllTasks \ {u} : prio2[t] = prio[t]
    PROVE  LET R2 == prvAddTaskToReadyList(R, u, p) IN
           /\ ReadyOK(R2, prio2)
           /\ \A t \in AllTasks : In(R2, prio2, t) <=> t = u \/ In(R, prio, t)
<1> DEFINE R2 == prvAddTaskToReadyList(R, u, p)
<1>1. /\ prio \in [AllTasks -> Priorities] /\ prio2 \in [AllTasks -> Priorities]
      /\ ReadySound(R, prio, AllTasks, Priorities) /\ BitsExact(R, Priorities)
  BY DEF PrioType, ReadyOK
<1>2. R2 = prvAddTaskToReadyList(R, u, p)
  OBVIOUS
<1> HIDE DEF R2
<1>3. /\ ReadySound(R2, prio2, AllTasks, Priorities)
      /\ BitsSet(R, Priorities) => BitsSet(R2, Priorities)
      /\ BitsExact(R, Priorities) => BitsExact(R2, Priorities)
      /\ \A t \in AllTasks : In(R2, prio2, t) <=> t = u \/ In(R, prio, t)
  BY <1>1, <1>2, AddReady
<1> QED BY <1>1, <1>3 DEF ReadyOK, R2

LEMMA AddReadyIn ==
    ASSUME NEW R, NEW prio \in PrioType, NEW prio2 \in PrioType, NEW u \in AllTasks,
           NEW p, p = prio2[u], ReadyOK(R, prio), ~In(R, prio, u),
           \A t \in AllTasks \ {u} : prio2[t] = prio[t]
    PROVE  \A t \in AllTasks : In(prvAddTaskToReadyList(R, u, p), prio2, t) <=> t = u \/ In(R, prio, t)
  BY AddReadyKeeps

\* A task that leaves the ready lists.
LEMMA RemoveReadyKeeps ==
    ASSUME NEW R, NEW prio \in PrioType, NEW u \in AllTasks, ReadyOK(R, prio), In(R, prio, u)
    PROVE  LET R2 == RemoveFromReadyList(R, u, prio[u]) IN
           /\ ReadyOK(R2, prio)
           /\ \A t \in AllTasks : In(R2, prio, t) <=> t # u /\ In(R, prio, t)
<1> DEFINE R2 == RemoveFromReadyList(R, u, prio[u])
           c  == prio[u]
<1>1. /\ prio \in [AllTasks -> Priorities] /\ c \in Priorities
      /\ ReadySound(R, prio, AllTasks, Priorities) /\ BitsExact(R, Priorities)
  BY DEF PrioType, ReadyOK
<1>2. R2 = RemoveAndClear(R, u, prio[u], c) /\ c = prio[u]
  BY DEF RemoveFromReadyList
<1> HIDE DEF R2, c
<1>3. /\ ReadySound(R2, prio, AllTasks, Priorities)
      /\ BitsSet(R, Priorities) => BitsSet(R2, Priorities)
      /\ BitsExact(R, Priorities) /\ c = prio[u] => BitsExact(R2, Priorities)
      /\ \A t \in AllTasks : In(R2, prio, t) <=> t # u /\ In(R, prio, t)
  BY <1>1, <1>2, RemoveReady
<1> QED BY <1>1, <1>2, <1>3 DEF ReadyOK, R2

\* The priority of a task that is not ready.
LEMMA ReprioritiseKeeps ==
    ASSUME NEW R, NEW prio \in PrioType, NEW prio2 \in PrioType, NEW u \in AllTasks,
           ReadyOK(R, prio), ~In(R, prio, u),
           \A t \in AllTasks \ {u} : prio2[t] = prio[t]
    PROVE  ReadyOK(R, prio2) /\ \A t \in AllTasks : In(R, prio2, t) <=> In(R, prio, t)
<1>1. /\ prio \in [AllTasks -> Priorities] /\ prio2 \in [AllTasks -> Priorities]
      /\ ReadySound(R, prio, AllTasks, Priorities) /\ BitsExact(R, Priorities)
  BY DEF PrioType, ReadyOK
<1>2. ReadySound(R, prio2, AllTasks, Priorities) /\ \A t \in AllTasks : In(R, prio2, t) <=> In(R, prio, t)
  BY <1>1, Reprioritise
<1> QED BY <1>1, <1>2 DEF ReadyOK

\* The task that vTaskSwitchContext takes.
LEMMA SwitchKeeps ==
    ASSUME NEW R, NEW prio \in PrioType, ReadyOK(R, prio), NEW i \in AllTasks, In(R, prio, i)
    PROVE  LET p  == Max(R.top)
               l  == listGET_OWNER_OF_NEXT_ENTRY(R.lists[p])
               R2 == [R EXCEPT !.lists[p] = l]
               t  == l.items[l.idx]
           IN  /\ ReadyOK(R2, prio)
               /\ \A u \in AllTasks : In(R2, prio, u) <=> In(R, prio, u)
               /\ t \in AllTasks /\ In(R, prio, t)
               /\ \A u \in AllTasks : In(R, prio, u) => prio[u] <= prio[t]
<1> DEFINE p  == Max(R.top)
           l  == listGET_OWNER_OF_NEXT_ENTRY(R.lists[p])
           R2 == [R EXCEPT !.lists[p] = l]
           t  == l.items[l.idx]
<1>1. \A u \in AllTasks : prio[u] \in Priorities /\ (In(R, prio, u) => prio[u] \in R.top)
  BY EmptyToSet DEF In, PrioType, ReadyOK, BitsExact
<1>2. /\ prio \in [AllTasks -> Priorities]
      /\ ReadySound(R, prio, AllTasks, Priorities)
      /\ BitsExact(R, Priorities) /\ BitsSet(R, Priorities)
  BY DEF PrioType, ReadyOK, BitsExact, BitsSet
<1>3. R.top # {} /\ R.top \subseteq Priorities
  BY <1>1, <1>2 DEF ReadySound, ReadyTypeOf
<1>4. p \in R.top /\ \A q \in R.top : q <= p
  <2>1. MaxPriority \in Nat /\ R.top \in SUBSET (0 .. MaxPriority)
    BY <1>3, PrioritiesAreNats DEF Priorities
  <2> QED BY <1>3, <2>1, MaxOfBounded
<1>5. R.lists[p].items # << >>
  BY <1>2, <1>3, <1>4 DEF BitsExact
<1>6. /\ l = listGET_OWNER_OF_NEXT_ENTRY(R.lists[p])
      /\ R2 = [R EXCEPT !.lists[p] = l] /\ t = l.items[l.idx]
  OBVIOUS
<1> HIDE DEF p, l, R2, t
<1>7. /\ ReadySound(R2, prio, AllTasks, Priorities)
      /\ BitsSet(R, Priorities) => BitsSet(R2, Priorities)
      /\ BitsExact(R, Priorities) => BitsExact(R2, Priorities)
      /\ \A u \in AllTasks : In(R2, prio, u) <=> In(R, prio, u)
      /\ t \in AllTasks /\ In(R, prio, t)
      /\ BitsSet(R, Priorities) => \A u \in AllTasks : In(R, prio, u) => prio[u] <= prio[t]
  BY <1>2, <1>4, <1>5, <1>6, SwitchReady
<1> QED BY <1>2, <1>7 DEF ReadyOK, R2, t, l, p
-----------------------------------------------------------------------------
(* The lists of the scheduler. *)

Blocked == Delayed \cup xSuspendedTaskList

LEMMA WithoutProperties ==
    ASSUME NEW S, NEW s \in Seq(S), NEW t, NoDuplicates(s)
    PROVE  /\ Without(s, t) \in Seq(S) /\ NoDuplicates(Without(s, t))
           /\ ToSet(Without(s, t)) = ToSet(s) \ {t}
<1>1. CASE t \in ToSet(s)
  BY <1>1, uxListRemoveProperties DEF Without
<1>2. CASE t \notin ToSet(s)
  BY <1>2 DEF Without
<1> QED BY <1>1, <1>2

LEMMA ReadyIs ==
    /\ \A t \in AllTasks : t \in Ready <=> In(ready, uxPriority, t)
    /\ \A t \in AllTasks : t \in Ready' <=> In(ready', uxPriority', t)
    /\ Ready \subseteq AllTasks /\ Ready' \subseteq AllTasks
  BY DEF Ready, InReadyList, In

\* What becomes of the tasks, when the lists of blocked tasks and the ready lists
\* are changed together.
Moved(readySet, blockedSet) ==
    /\ ReadyOK(ready', uxPriority') /\ BlockInv'
    /\ Ready' = readySet /\ Blocked' = blockedSet

LEMMA UnblockMoves ==
    ASSUME TypesInv, ListsInv, NEW t \in Blocked, Unblock(t),
           UNCHANGED <<uxPriority, xTasksWaitingTermination>>
    PROVE  Moved(Ready \cup {t}, Blocked \ {t}) /\ D' = D \ {t}
<1>1. t \in AllTasks /\ uxPriority \in PrioType
  BY LenProperties DEF TypesInv, ListsInv, BlockInv, Blocked, Delayed, D, O, ToSet
<1>2. ~In(ready, uxPriority, t)
  BY <1>1, ReadyIs DEF ListsInv, BlockInv, Blocked, Delayed, D, O
<1>3. ready' = prvAddTaskToReadyList(ready, t, uxPriority[t]) /\ uxPriority' = uxPriority
  BY DEF Unblock
<1>4. ReadyOK(ready', uxPriority') /\ \A u \in AllTasks : In(ready', uxPriority', u) <=> u = t \/ In(ready, uxPriority, u)
  BY <1>1, <1>2, <1>3, AddReadyKeeps DEF ListsInv
<1>5. Ready' = Ready \cup {t}
  BY <1>1, <1>4, ReadyIs
<1>6. /\ pxDelayedTaskList' \in Seq(AllTasks) /\ NoDuplicates(pxDelayedTaskList') /\ D' = D \ {t}
      /\ pxOverflowDelayedTaskList' \in Seq(AllTasks) /\ NoDuplicates(pxOverflowDelayedTaskList')
      /\ O' = O \ {t}
      /\ xSuspendedTaskList' = xSuspendedTaskList \ {t} /\ xTasksWaitingTermination' = xTasksWaitingTermination
  BY WithoutProperties DEF Unblock, OutOfBlockLists, ListsInv, BlockInv, D, O
<1>7. Blocked' = Blocked \ {t}
  BY <1>6 DEF Blocked, Delayed, D, O
<1>8. t \notin xTasksWaitingTermination
  BY DEF ListsInv, BlockInv, Blocked, Delayed, D, O
<1>9. BlockInv'
  BY <1>1, <1>5, <1>6, <1>8 DEF ListsInv, BlockInv
<1> QED BY <1>4, <1>5, <1>6, <1>7, <1>9 DEF Moved

LEMMA BlockMoves ==
    ASSUME TypesInv, ListsInv, pxCurrentTCB \in Ready \ {Idle},
           NEW ticks, NEW c, prvAddCurrentTaskToDelayedList(ticks, c),
           UNCHANGED <<uxPriority, xTasksWaitingTermination>>
    PROVE  Moved(Ready \ {pxCurrentTCB}, Blocked \cup {pxCurrentTCB})
<1> DEFINE t  == pxCurrentTCB
           at == (xTickCount + ticks) % TickModulus
<1>1. t \in AllTasks /\ uxPriority \in PrioType /\ In(ready, uxPriority, t)
  BY ReadyIs DEF TypesInv
<1>2. ready' = RemoveFromReadyList(ready, t, uxPriority[t]) /\ uxPriority' = uxPriority
  BY DEF prvAddCurrentTaskToDelayedList
<1>3. ReadyOK(ready', uxPriority') /\ \A u \in AllTasks : In(ready', uxPriority', u) <=> u # t /\ In(ready, uxPriority, u)
  BY <1>1, <1>2, RemoveReadyKeeps DEF ListsInv
<1>4. Ready' = Ready \ {t}
  BY <1>3, ReadyIs
<1>5. t \notin D /\ t \notin O /\ t \notin xSuspendedTaskList /\ t \notin xTasksWaitingTermination
  BY DEF ListsInv, BlockInv
<1>6. /\ pxDelayedTaskList' \in Seq(AllTasks) /\ NoDuplicates(pxDelayedTaskList')
      /\ pxOverflowDelayedTaskList' \in Seq(AllTasks) /\ NoDuplicates(pxOverflowDelayedTaskList')
      /\ \/ D' = D /\ O' = O /\ xSuspendedTaskList' = xSuspendedTaskList \cup {t}
         \/ D' = D \cup {t} /\ O' = O /\ xSuspendedTaskList' = xSuspendedTaskList
         \/ D' = D /\ O' = O \cup {t} /\ xSuspendedTaskList' = xSuspendedTaskList
  <2>1. /\ pxDelayedTaskList \in Seq(AllTasks) /\ NoDuplicates(pxDelayedTaskList)
        /\ pxOverflowDelayedTaskList \in Seq(AllTasks) /\ NoDuplicates(pxOverflowDelayedTaskList)
    BY DEF ListsInv, BlockInv
  <2>2. CASE /\ xSuspendedTaskList' = xSuspendedTaskList \cup {t}
             /\ UNCHANGED <<pxDelayedTaskList, pxOverflowDelayedTaskList>>
    BY <2>1, <2>2 DEF D, O
  <2>3. CASE InsertOverflow(t) /\ UNCHANGED xSuspendedTaskList
    BY <1>1, <1>5, <2>1, <2>3, vListInsertProperties DEF InsertOverflow, D, O
  <2>4. CASE InsertDelayed(t, at) /\ UNCHANGED xSuspendedTaskList
    BY <1>1, <1>5, <2>1, <2>4, vListInsertProperties DEF InsertDelayed, D, O
  <2> QED BY <2>2, <2>3, <2>4 DEF prvAddCurrentTaskToDelayedList
<1>7. Blocked' = Blocked \cup {t}
  BY <1>6 DEF Blocked, Delayed, D, O
<1>8. BlockInv'
  BY <1>1, <1>4, <1>5, <1>6 DEF ListsInv, BlockInv
<1> QED BY <1>3, <1>4, <1>7, <1>8 DEF Moved

\* A task out of every list, as vTaskSuspend and vTaskDelete begin.
LEMMA LeavesMove ==
    ASSUME TypesInv, ListsInv, NEW u \in AllTasks \ {Idle}, u \in Ready \cup Blocked, OutOfBlockLists(u),
           ready' = IF InReadyList(u) THEN RemoveFromReadyList(ready, u, uxPriority[u]) ELSE ready,
           uxPriority' = uxPriority
    PROVE  /\ ReadyOK(ready', uxPriority') /\ Ready' = Ready \ {u}
           /\ pxDelayedTaskList' \in Seq(AllTasks) /\ NoDuplicates(pxDelayedTaskList') /\ D' = D \ {u}
           /\ pxOverflowDelayedTaskList' \in Seq(AllTasks) /\ NoDuplicates(pxOverflowDelayedTaskList')
           /\ O' = O \ {u}
           /\ u \notin xTasksWaitingTermination
<1>1. uxPriority \in PrioType /\ (InReadyList(u) <=> In(ready, uxPriority, u))
  BY DEF TypesInv, In, InReadyList
<1>2. ReadyOK(ready', uxPriority') /\ \A v \in AllTasks : In(ready', uxPriority', v) <=> v # u /\ In(ready, uxPriority, v)
  <2>1. CASE InReadyList(u)
    BY <1>1, <2>1, RemoveReadyKeeps DEF ListsInv
  <2>2. CASE ~InReadyList(u)
    BY <1>1, <2>2 DEF ListsInv
  <2> QED BY <2>1, <2>2
<1>3. Ready' = Ready \ {u}
  BY <1>2, ReadyIs
<1>4. /\ pxDelayedTaskList' \in Seq(AllTasks) /\ NoDuplicates(pxDelayedTaskList') /\ D' = D \ {u}
      /\ pxOverflowDelayedTaskList' \in Seq(AllTasks) /\ NoDuplicates(pxOverflowDelayedTaskList')
      /\ O' = O \ {u}
  BY WithoutProperties DEF OutOfBlockLists, ListsInv, BlockInv, D, O
<1>5. u \notin xTasksWaitingTermination
  BY DEF ListsInv, BlockInv, Blocked, Delayed, D, O
<1> QED BY <1>2, <1>3, <1>4, <1>5

\* The event lists.
EventLists ==
    /\ xEventList \in Seq(AllTasks) /\ xPendingReadyList \in Seq(AllTasks)
    /\ NoDuplicates(xEventList) /\ NoDuplicates(xPendingReadyList)
    /\ ToSet(xEventList) \cap ToSet(xPendingReadyList) = {}

PendingOnly == xPendingReadyList # << >> => uxSchedulerSuspended > 0 \/ masked = "resumeAll"

LEMMA EventParts ==
    /\ EventInv <=> EventLists /\ PendingOnly /\ ToSet(xEventList) \cup ToSet(xPendingReadyList) \subseteq Blocked
    /\ EventInv' <=> EventLists' /\ PendingOnly' /\ (ToSet(xEventList) \cup ToSet(xPendingReadyList) \subseteq Blocked)'
  BY DEF EventInv, EventItemsAreOfBlockedTasks, EventLists, PendingOnly, Blocked

LEMMA OutOfEventListMoves ==
    ASSUME EventLists, NEW t, OutOfEventList(t)
    PROVE  /\ EventLists' /\ ToSet(xEventList') = ToSet(xEventList) \ {t}
           /\ ToSet(xPendingReadyList') = ToSet(xPendingReadyList) \ {t}
           /\ xPendingReadyList' # << >> => xPendingReadyList # << >>
<1>1. /\ xEventList' \in Seq(AllTasks) /\ NoDuplicates(xEventList')
      /\ ToSet(xEventList') = ToSet(xEventList) \ {t}
      /\ xPendingReadyList' \in Seq(AllTasks) /\ NoDuplicates(xPendingReadyList')
      /\ ToSet(xPendingReadyList') = ToSet(xPendingReadyList) \ {t}
  BY WithoutProperties DEF EventLists, OutOfEventList
<1>2. xPendingReadyList = << >> => xPendingReadyList' = << >>
  BY EmptyToSet DEF OutOfEventList, Without
<1> QED BY <1>1, <1>2 DEF EventLists
-----------------------------------------------------------------------------
(* What each operation does to the lists. *)

\* The lists of blocked tasks stay, or the delayed lists change places.
LEMMA SameMoves ==
    ASSUME TypesInv, ListsInv, UNCHANGED <<xSuspendedTaskList, xTasksWaitingTermination>>,
           \/ UNCHANGED <<pxDelayedTaskList, pxOverflowDelayedTaskList>>
           \/ pxDelayedTaskList' = pxOverflowDelayedTaskList /\ pxOverflowDelayedTaskList' = pxDelayedTaskList,
           Ready' = Ready, ReadyOK(ready', uxPriority')
    PROVE  Moved(Ready, Blocked)
<1>1. (D' = D /\ O' = O) \/ (D' = O /\ O' = D)
  BY DEF D, O
<1>2. Blocked' = Blocked
  BY <1>1 DEF Blocked, Delayed, D, O
<1>3. BlockInv'
  BY <1>1 DEF ListsInv, BlockInv
<1> QED BY <1>2, <1>3 DEF Moved

\* The event lists stay; the tasks in them stay blocked.
LEMMA EventsStay ==
    ASSUME ListsInv, UNCHANGED eventLists, NEW R, NEW B, Moved(R, B),
           ToSet(xEventList) \cup ToSet(xPendingReadyList) \subseteq B, PendingOnly'
    PROVE  ListsInv'
<1>1. EventInv' <=> EventLists' /\ PendingOnly' /\ ToSet(xEventList') \cup ToSet(xPendingReadyList') \subseteq Blocked'
  BY EventParts
<1>2. EventLists' /\ ToSet(xEventList') = ToSet(xEventList) /\ ToSet(xPendingReadyList') = ToSet(xPendingReadyList)
  BY EventParts DEF ListsInv, EventLists, eventLists
<1> QED BY <1>1, <1>2 DEF Moved, ListsInv

LEMMA EventsBlocked ==
    ASSUME ListsInv
    PROVE  /\ EventLists /\ PendingOnly
           /\ ToSet(xEventList) \subseteq Blocked /\ ToSet(xPendingReadyList) \subseteq Blocked
           /\ Ready \cap Blocked = {} /\ Idle \in Ready /\ xTasksWaitingTermination \cap Ready = {}
           /\ Ready \subseteq AllTasks /\ Blocked \subseteq AllTasks /\ xTasksWaitingTermination \subseteq Tasks
           /\ Idle \in AllTasks /\ Idle \notin Tasks
<1>1. EventInv /\ BlockInv
  BY DEF ListsInv
<1>2. EventLists /\ PendingOnly /\ ToSet(xEventList) \cup ToSet(xPendingReadyList) \subseteq Blocked
  BY <1>1, EventParts
<1>3. Blocked = D \cup O \cup xSuspendedTaskList
  BY DEF Blocked, Delayed, D, O
<1>4. D \subseteq AllTasks /\ O \subseteq AllTasks
  BY <1>1, LenProperties DEF BlockInv, D, O, ToSet
<1> QED BY <1>1, <1>2, <1>3, <1>4, ReadyIs, SchedulerAssumption DEF BlockInv, AllTasks

LEMMA TickLists ==
    ASSUME TypesInv, ListsInv, Tick \/ PendedTick
    PROVE  ListsInv' /\ Ready' = Ready
<1>1. /\ UNCHANGED <<ready, uxPriority, xSuspendedTaskList, xTasksWaitingTermination, eventLists>>
      /\ \/ UNCHANGED <<pxDelayedTaskList, pxOverflowDelayedTaskList>>
         \/ pxDelayedTaskList' = pxOverflowDelayedTaskList /\ pxOverflowDelayedTaskList' = pxDelayedTaskList
  BY DEF Tick, PendedTick, IncrementTick, taskSWITCH_DELAYED_LISTS, priorities, eventLists
<1>2. Ready' = Ready /\ ReadyOK(ready', uxPriority')
  BY <1>1, ReadyIs DEF ListsInv
<1>3. PendingOnly'
  BY <1>1, EventsBlocked DEF PendingOnly, Tick, PendedTick, eventLists
<1>4. Moved(Ready, Blocked)
  BY <1>1, <1>2, SameMoves
<1> QED BY <1>1, <1>2, <1>3, <1>4, EventsStay, EventsBlocked

LEMMA WakeLists ==
    ASSUME TypesInv, ListsInv, WakeDelayed
    PROVE  /\ ListsInv' /\ Ready' = Ready \cup {Head(pxDelayedTaskList)}
           /\ Head(pxDelayedTaskList) \in D
<1> DEFINE t == Head(pxDelayedTaskList)
<1>1. t \in D /\ t \in Blocked
  BY HeadProperties DEF WakeDelayed, HeadIsDue, D, Blocked, Delayed, ListsInv, BlockInv
<1>2. Unblock(t) /\ OutOfEventList(t) /\ UNCHANGED <<uxPriority, xTasksWaitingTermination, masked, uxSchedulerSuspended>>
  BY DEF WakeDelayed, priorities
<1> HIDE DEF t
<1>3. Moved(Ready \cup {t}, Blocked \ {t})
  BY <1>1, <1>2, UnblockMoves
<1>4. /\ EventLists' /\ ToSet(xEventList') = ToSet(xEventList) \ {t}
      /\ ToSet(xPendingReadyList') = ToSet(xPendingReadyList) \ {t}
      /\ xPendingReadyList' # << >> => xPendingReadyList # << >>
  BY <1>2, EventsBlocked, OutOfEventListMoves
<1>5. EventInv'
  BY <1>2, <1>3, <1>4, EventsBlocked, EventParts DEF PendingOnly, Moved
<1> QED BY <1>1, <1>3, <1>5 DEF Moved, ListsInv, t

LEMMA DrainLists ==
    ASSUME TypesInv, ListsInv, DrainPending
    PROVE  /\ ListsInv' /\ Ready' = Ready \cup {Head(xPendingReadyList)}
           /\ Head(xPendingReadyList) \in Blocked
<1> DEFINE t == Head(xPendingReadyList)
<1>1. /\ t \in Blocked /\ Tail(xPendingReadyList) \in Seq(AllTasks) /\ NoDuplicates(Tail(xPendingReadyList))
      /\ t \in ToSet(xPendingReadyList) /\ ToSet(Tail(xPendingReadyList)) = ToSet(xPendingReadyList) \ {t}
  BY HeadProperties, EventsBlocked DEF DrainPending, EventLists
<1>2. /\ Unblock(t) /\ xPendingReadyList' = Tail(xPendingReadyList) /\ masked = "resumeAll"
      /\ UNCHANGED <<xEventList, uxPriority, xTasksWaitingTermination, masked, uxSchedulerSuspended>>
  BY DEF DrainPending, priorities, interrupts
<1> HIDE DEF t
<1>3. Moved(Ready \cup {t}, Blocked \ {t})
  BY <1>1, <1>2, UnblockMoves
<1>4. EventLists' /\ PendingOnly' /\ ToSet(xEventList') \cup ToSet(xPendingReadyList') \subseteq Blocked \ {t}
  BY <1>1, <1>2, EventsBlocked DEF EventLists, PendingOnly
<1>5. EventInv'
  BY <1>3, <1>4, EventParts DEF Moved
<1> QED BY <1>1, <1>3, <1>5 DEF Moved, ListsInv, t

LEMMA DelayLists ==
    ASSUME TypesInv, ListsInv, pxCurrentTCB \in Ready \ {Idle}, NEW t, DelayTicks(t) \/ DelayUntilTicks(t)
    PROVE  ListsInv' /\ Ready' \in {Ready, Ready \ {pxCurrentTCB}}
<1>1. UNCHANGED <<eventLists, uxPriority, xTasksWaitingTermination, masked, uxSchedulerSuspended>>
  BY DEF DelayTicks, DelayUntilTicks, priorities, interrupts
<1>2. PendingOnly'
  BY <1>1, EventsBlocked DEF PendingOnly, eventLists
<1>3. CASE \E ticks : prvAddCurrentTaskToDelayedList(ticks, FALSE)
  <2>1. Moved(Ready \ {pxCurrentTCB}, Blocked \cup {pxCurrentTCB})
    BY <1>1, <1>3, BlockMoves
  <2>2. ToSet(xEventList) \cup ToSet(xPendingReadyList) \subseteq Blocked \cup {pxCurrentTCB}
    BY EventsBlocked
  <2>3. ListsInv'
    BY <1>1, <1>2, <2>1, <2>2, EventsStay
  <2> QED BY <2>1, <2>3 DEF Moved
<1>4. CASE UNCHANGED <<ready, blockLists>>
  <2>1. Ready' = Ready /\ ReadyOK(ready', uxPriority')
    BY <1>1, <1>4, ReadyIs DEF ListsInv
  <2>2. Moved(Ready, Blocked)
    BY <1>1, <1>4, <2>1, SameMoves DEF blockLists
  <2> QED BY <1>1, <1>2, <2>1, <2>2, EventsStay, EventsBlocked
<1>5. DelayTicks(t) => \E ticks : prvAddCurrentTaskToDelayedList(ticks, FALSE)
  BY DEF DelayTicks
<1>6. DelayUntilTicks(t) => (\E ticks : prvAddCurrentTaskToDelayedList(ticks, FALSE)) \/ UNCHANGED <<ready, blockLists>>
  BY DEF DelayUntilTicks
<1> QED BY <1>3, <1>4, <1>5, <1>6

LEMMA WaitLists ==
    ASSUME TypesInv, ListsInv, pxCurrentTCB \in Ready \ {Idle}, NEW t, vTaskPlaceOnEventList(t)
    PROVE  ListsInv' /\ Ready' = Ready \ {pxCurrentTCB}
<1>1. /\ t = pxCurrentTCB /\ xEventList' = vListInsert(xEventList, t, xEventValue)
      /\ UNCHANGED <<xPendingReadyList, uxPriority, xTasksWaitingTermination, masked, uxSchedulerSuspended>>
  BY DEF vTaskPlaceOnEventList, Executes, priorities, interrupts
<1>2. PICK ticks : prvAddCurrentTaskToDelayedList(ticks, TRUE)
  BY DEF vTaskPlaceOnEventList
<1>3. Moved(Ready \ {pxCurrentTCB}, Blocked \cup {pxCurrentTCB})
  BY <1>1, <1>2, BlockMoves
<1>4. t \in AllTasks /\ t \notin ToSet(xEventList) /\ t \notin ToSet(xPendingReadyList)
  BY <1>1, EventsBlocked
<1>5. /\ xEventList' \in Seq(AllTasks) /\ NoDuplicates(xEventList')
      /\ ToSet(xEventList') = ToSet(xEventList) \cup {t}
  BY <1>1, <1>4, EventsBlocked, vListInsertProperties DEF EventLists
<1>6. EventLists' /\ PendingOnly' /\ ToSet(xEventList') \cup ToSet(xPendingReadyList') \subseteq Blocked \cup {t}
  BY <1>1, <1>4, <1>5, EventsBlocked DEF EventLists, PendingOnly
<1>7. EventInv'
  BY <1>1, <1>3, <1>6, EventParts DEF Moved
<1> QED BY <1>3, <1>7 DEF Moved, ListsInv

LEMMA PendSVLists ==
    ASSUME TypesInv, ListsInv, PendSV
    PROVE  /\ ListsInv' /\ Ready' = Ready
           /\ \/ uxSchedulerSuspended > 0 /\ pxCurrentTCB' = pxCurrentTCB
              \/ ~(uxSchedulerSuspended > 0) /\ pxCurrentTCB' \in Ready /\ Highest(pxCurrentTCB')
<1>1. UNCHANGED <<blockLists, xTasksWaitingTermination, eventLists, uxPriority, uxSchedulerSuspended, masked>>
  BY DEF PendSV, priorities, interrupts
<1>2. PendingOnly'
  BY <1>1, EventsBlocked DEF PendingOnly, eventLists
<1>3. ReadyOK(ready, uxPriority) /\ uxPriority \in PrioType /\ Idle \in AllTasks /\ In(ready, uxPriority, Idle)
  BY ReadyIs, EventsBlocked DEF ListsInv, TypesInv
<1>4. Ready' = Ready /\ ReadyOK(ready', uxPriority')
      /\ \/ uxSchedulerSuspended > 0 /\ pxCurrentTCB' = pxCurrentTCB
         \/ ~(uxSchedulerSuspended > 0) /\ pxCurrentTCB' \in Ready /\ Highest(pxCurrentTCB')
  <2>1. CASE uxSchedulerSuspended > 0
    BY <1>1, <1>3, <2>1, ReadyIs DEF PendSV
  <2>2. CASE ~(uxSchedulerSuspended > 0)
    <3> DEFINE p  == Max(ready.top)
               l  == listGET_OWNER_OF_NEXT_ENTRY(ready.lists[p])
    <3>1. ready' = [ready EXCEPT !.lists[p] = l] /\ pxCurrentTCB' = l.items[l.idx]
      BY <2>2 DEF PendSV
    <3>2. /\ ReadyOK(ready', uxPriority)
          /\ \A u \in AllTasks : In(ready', uxPriority, u) <=> In(ready, uxPriority, u)
          /\ pxCurrentTCB' \in AllTasks /\ In(ready, uxPriority, pxCurrentTCB')
          /\ \A u \in AllTasks : In(ready, uxPriority, u) => uxPriority[u] <= uxPriority[pxCurrentTCB']
      BY <1>3, <3>1, SwitchKeeps
    <3>3. Ready' = Ready /\ pxCurrentTCB' \in Ready
      BY <1>1, <3>2, ReadyIs
    <3>4. Highest(pxCurrentTCB')
      BY <3>2, ReadyIs DEF Highest
    <3> QED BY <1>1, <2>2, <3>2, <3>3, <3>4
  <2> QED BY <2>1, <2>2
<1>5. Moved(Ready, Blocked)
  BY <1>1, <1>4, SameMoves DEF blockLists
<1>6. ListsInv'
  BY <1>1, <1>2, <1>5, EventsStay, EventsBlocked
<1> QED BY <1>4, <1>6

LEMMA AppendKeeps ==
    ASSUME NEW S, NEW s \in Seq(S), NEW x \in S, NoDuplicates(s), x \notin ToSet(s)
    PROVE  /\ Append(s, x) \in Seq(S) /\ ToSet(Append(s, x)) = ToSet(s) \cup {x}
           /\ NoDuplicates(Append(s, x))
<1> DEFINE r == Append(s, x)
<1>1. Len(s) \in Nat /\ DOMAIN s = 1 .. Len(s)
  BY LenProperties
<1>2. /\ r \in Seq(S) /\ Len(r) = Len(s) + 1 /\ r[Len(s) + 1] = x
      /\ \A i \in 1 .. Len(s) : r[i] = s[i]
  BY AppendProperties
<1>3. DOMAIN r = 1 .. Len(s) + 1
  BY <1>2, LenProperties
<1> HIDE DEF r
<1>4. \A i \in 1 .. Len(s) + 1 : i = Len(s) + 1 \/ i \in 1 .. Len(s)
  BY <1>1
<1>5. ToSet(r) = {r[i] : i \in 1 .. Len(s) + 1} /\ ToSet(s) = {s[i] : i \in 1 .. Len(s)}
  BY <1>1, <1>3 DEF ToSet
<1>6. \A i \in 1 .. Len(s) : i \in 1 .. Len(s) + 1 /\ s[i] # x
  BY <1>1, <1>5
<1>7. Len(s) + 1 \in 1 .. Len(s) + 1
  BY <1>1
<1>8. ToSet(r) = ToSet(s) \cup {x}
  BY <1>2, <1>4, <1>5, <1>6, <1>7
<1>9. NoDuplicates(r)
  <2>1. \A i, j \in 1 .. Len(s) : s[i] = s[j] => i = j
    BY <1>1 DEF NoDuplicates
  <2>2. \A i, j \in 1 .. Len(s) + 1 : r[i] = r[j] => i = j
    BY <1>2, <1>4, <1>6, <2>1
  <2> QED BY <1>3, <2>2 DEF NoDuplicates
<1> QED BY <1>2, <1>8, <1>9 DEF r

LEMMA SignalLists ==
    ASSUME TypesInv, ListsInv, xTaskRemoveFromEventList
    PROVE  /\ ListsInv' /\ Head(xEventList) \in Blocked
           /\ Ready' = IF uxSchedulerSuspended = 0 THEN Ready \cup {Head(xEventList)} ELSE Ready
<1> DEFINE t == Head(xEventList)
<1>1. /\ t \in Blocked /\ Tail(xEventList) \in Seq(AllTasks) /\ NoDuplicates(Tail(xEventList))
      /\ t \in ToSet(xEventList) /\ ToSet(Tail(xEventList)) = ToSet(xEventList) \ {t}
      /\ t \notin ToSet(xPendingReadyList) /\ t \in AllTasks
  BY HeadProperties, EventsBlocked DEF xTaskRemoveFromEventList, EventLists
<1>2. /\ xEventList' = Tail(xEventList)
      /\ UNCHANGED <<uxPriority, xTasksWaitingTermination, masked, uxSchedulerSuspended>>
  BY DEF xTaskRemoveFromEventList, priorities, interrupts
<1>3. CASE uxSchedulerSuspended = 0
  <2>1. Unblock(t) /\ UNCHANGED xPendingReadyList
    BY <1>3 DEF xTaskRemoveFromEventList
  <2> HIDE DEF t
  <2>2. Moved(Ready \cup {t}, Blocked \ {t})
    BY <1>1, <1>2, <2>1, UnblockMoves
  <2>3. EventLists' /\ PendingOnly' /\ ToSet(xEventList') \cup ToSet(xPendingReadyList') \subseteq Blocked \ {t}
    BY <1>1, <1>2, <2>1, EventsBlocked DEF EventLists, PendingOnly
  <2>4. EventInv'
    BY <2>2, <2>3, EventParts DEF Moved
  <2> QED BY <1>1, <1>3, <2>2, <2>4 DEF Moved, ListsInv, t
<1>4. CASE uxSchedulerSuspended # 0
  <2>1. xPendingReadyList' = Append(xPendingReadyList, t) /\ UNCHANGED <<ready, blockLists>>
    BY <1>4 DEF xTaskRemoveFromEventList
  <2> HIDE DEF t
  <2>2. Ready' = Ready /\ ReadyOK(ready', uxPriority')
    BY <1>2, <2>1, ReadyIs DEF ListsInv
  <2>3. Moved(Ready, Blocked)
    BY <1>2, <2>1, <2>2, SameMoves DEF blockLists
  <2>4. /\ xPendingReadyList' \in Seq(AllTasks) /\ NoDuplicates(xPendingReadyList')
        /\ ToSet(xPendingReadyList') = ToSet(xPendingReadyList) \cup {t}
    BY <1>1, <2>1, EventsBlocked, AppendKeeps DEF EventLists
  <2>5. uxSchedulerSuspended' > 0
    BY <1>2, <1>4 DEF TypesInv
  <2>6. EventLists' /\ PendingOnly' /\ ToSet(xEventList') \cup ToSet(xPendingReadyList') \subseteq Blocked
    BY <1>1, <1>2, <2>4, <2>5, EventsBlocked DEF EventLists, PendingOnly
  <2>7. EventInv'
    BY <2>3, <2>6, EventParts DEF Moved
  <2> QED BY <1>1, <1>4, <2>3, <2>7 DEF Moved, ListsInv, t
<1> QED BY <1>3, <1>4

LEMMA VictimsAreTasks == Victims \subseteq Tasks /\ Victims \subseteq AllTasks \ {Idle}
  BY SchedulerAssumption DEF AllTasks

LEMMA ExistsIs == \A u \in AllTasks : Exists(u) <=> u \in Ready \cup Blocked
  BY DEF Exists, Ready, Blocked

LEMMA SuspendLists ==
    ASSUME TypesInv, ListsInv, NEW t, NEW u, vTaskSuspend(t, u)
    PROVE  ListsInv' /\ Ready' = Ready \ {u}
<1>1. /\ u \in AllTasks \ {Idle} /\ u \in Ready \cup Blocked /\ OutOfBlockLists(u) /\ OutOfEventList(u)
      /\ ready' = IF InReadyList(u) THEN RemoveFromReadyList(ready, u, uxPriority[u]) ELSE ready
      /\ xSuspendedTaskList' = xSuspendedTaskList \cup {u}
      /\ UNCHANGED <<uxPriority, xTasksWaitingTermination, masked, uxSchedulerSuspended>>
  BY VictimsAreTasks, ExistsIs DEF vTaskSuspend, priorities, interrupts
<1>2. /\ ReadyOK(ready', uxPriority') /\ Ready' = Ready \ {u}
      /\ pxDelayedTaskList' \in Seq(AllTasks) /\ NoDuplicates(pxDelayedTaskList') /\ D' = D \ {u}
      /\ pxOverflowDelayedTaskList' \in Seq(AllTasks) /\ NoDuplicates(pxOverflowDelayedTaskList')
      /\ O' = O \ {u}
      /\ u \notin xTasksWaitingTermination
  BY <1>1, LeavesMove
<1>3. BlockInv'
  BY <1>1, <1>2 DEF ListsInv, BlockInv
<1>4. Blocked' = Blocked \cup {u}
  BY <1>1, <1>2 DEF Blocked, Delayed, D, O
<1>5. /\ EventLists' /\ ToSet(xEventList') = ToSet(xEventList) \ {u}
      /\ ToSet(xPendingReadyList') = ToSet(xPendingReadyList) \ {u}
      /\ xPendingReadyList' # << >> => xPendingReadyList # << >>
  BY <1>1, EventsBlocked, OutOfEventListMoves
<1>6. EventInv'
  BY <1>1, <1>4, <1>5, EventsBlocked, EventParts DEF PendingOnly
<1> QED BY <1>2, <1>3, <1>6 DEF ListsInv

LEMMA DeleteLists ==
    ASSUME TypesInv, ListsInv, NEW t, NEW u, vTaskDelete(t, u)
    PROVE  ListsInv' /\ Ready' = Ready \ {u}
<1>1. /\ u \in AllTasks \ {Idle} /\ u \in Ready \cup Blocked /\ OutOfBlockLists(u) /\ OutOfEventList(u)
      /\ ready' = IF InReadyList(u) THEN RemoveFromReadyList(ready, u, uxPriority[u]) ELSE ready
      /\ xSuspendedTaskList' = xSuspendedTaskList \ {u}
      /\ xTasksWaitingTermination' \in {xTasksWaitingTermination, xTasksWaitingTermination \cup {u}}
      /\ UNCHANGED <<uxPriority, masked, uxSchedulerSuspended>>
  BY VictimsAreTasks, ExistsIs DEF vTaskDelete, priorities, interrupts
<1>2. /\ ReadyOK(ready', uxPriority') /\ Ready' = Ready \ {u}
      /\ pxDelayedTaskList' \in Seq(AllTasks) /\ NoDuplicates(pxDelayedTaskList') /\ D' = D \ {u}
      /\ pxOverflowDelayedTaskList' \in Seq(AllTasks) /\ NoDuplicates(pxOverflowDelayedTaskList')
      /\ O' = O \ {u}
      /\ u \notin xTasksWaitingTermination
  BY <1>1, LeavesMove
<1>3. u \in Tasks
  BY <1>1 DEF AllTasks
<1>4. BlockInv'
  BY <1>1, <1>2, <1>3 DEF ListsInv, BlockInv
<1>5. Blocked' = Blocked \ {u}
  BY <1>1, <1>2 DEF Blocked, Delayed, D, O
<1>6. /\ EventLists' /\ ToSet(xEventList') = ToSet(xEventList) \ {u}
      /\ ToSet(xPendingReadyList') = ToSet(xPendingReadyList) \ {u}
      /\ xPendingReadyList' # << >> => xPendingReadyList # << >>
  BY <1>1, EventsBlocked, OutOfEventListMoves
<1>7. EventInv'
  BY <1>1, <1>5, <1>6, EventsBlocked, EventParts DEF PendingOnly
<1> QED BY <1>2, <1>4, <1>7 DEF ListsInv

\* A suspended task is made ready by a task or, the scheduler running, an interrupt.
LEMMA ResumedMoves ==
    ASSUME TypesInv, ListsInv, NEW u \in Victims, prvTaskIsTaskSuspended(u), MakeResumedReady(u),
           UNCHANGED <<pxDelayedTaskList, pxOverflowDelayedTaskList, xTasksWaitingTermination,
                       eventLists, uxPriority, masked, uxSchedulerSuspended>>
    PROVE  ListsInv' /\ Ready' = Ready \cup {u}
<1>1. /\ u \in AllTasks /\ u \in xSuspendedTaskList /\ u \notin ToSet(xEventList) /\ u \notin ToSet(xPendingReadyList)
      /\ ready' = prvAddTaskToReadyList(ready, u, uxPriority[u]) /\ xSuspendedTaskList' = xSuspendedTaskList \ {u}
  BY VictimsAreTasks DEF prvTaskIsTaskSuspended, MakeResumedReady
<1>2. ~In(ready, uxPriority, u) /\ uxPriority \in PrioType
  BY <1>1, ReadyIs DEF ListsInv, BlockInv, TypesInv
<1>3. ReadyOK(ready', uxPriority') /\ \A v \in AllTasks : In(ready', uxPriority', v) <=> v = u \/ In(ready, uxPriority, v)
  BY <1>1, <1>2, AddReadyKeeps DEF ListsInv
<1>4. Ready' = Ready \cup {u}
  BY <1>1, <1>3, ReadyIs
<1>5. D' = D /\ O' = O /\ u \notin D /\ u \notin O /\ u \notin xTasksWaitingTermination
  BY <1>1 DEF D, O, ListsInv, BlockInv
<1>6. Blocked' = Blocked \ {u}
  BY <1>1, <1>5 DEF Blocked, Delayed, D, O
<1>7. BlockInv'
  BY <1>1, <1>4, <1>5 DEF ListsInv, BlockInv
<1>8. Moved(Ready \cup {u}, Blocked \ {u})
  BY <1>3, <1>4, <1>6, <1>7 DEF Moved
<1>9. PendingOnly'
  BY EventsBlocked DEF PendingOnly, eventLists
<1> QED BY <1>1, <1>4, <1>8, <1>9, EventsStay, EventsBlocked

LEMMA ResumeLists ==
    ASSUME TypesInv, ListsInv, NEW t, NEW u, vTaskResume(t, u)
    PROVE  ListsInv' /\ Ready' = Ready \cup {u} /\ u \in Blocked
<1>1. /\ u \in Victims /\ prvTaskIsTaskSuspended(u) /\ MakeResumedReady(u)
      /\ UNCHANGED <<pxDelayedTaskList, pxOverflowDelayedTaskList, xTasksWaitingTermination,
                     eventLists, uxPriority, masked, uxSchedulerSuspended>>
  BY DEF vTaskResume, priorities, interrupts
<1> QED BY <1>1, ResumedMoves DEF prvTaskIsTaskSuspended, Blocked

LEMMA ResumeFromISRLists ==
    ASSUME TypesInv, ListsInv, NEW u, xTaskResumeFromISR(u)
    PROVE  /\ ListsInv' /\ u \in Blocked
           /\ Ready' = IF uxSchedulerSuspended = 0 THEN Ready \cup {u} ELSE Ready
<1>1. /\ u \in Victims /\ u \in AllTasks /\ prvTaskIsTaskSuspended(u) /\ u \in Blocked
      /\ UNCHANGED <<pxDelayedTaskList, pxOverflowDelayedTaskList, xTasksWaitingTermination,
                     xEventList, uxPriority, masked, uxSchedulerSuspended>>
  BY VictimsAreTasks DEF xTaskResumeFromISR, prvTaskIsTaskSuspended, Blocked, priorities, interrupts
<1>2. CASE uxSchedulerSuspended = 0
  BY <1>1, <1>2, ResumedMoves DEF xTaskResumeFromISR, eventLists
<1>3. CASE uxSchedulerSuspended # 0
  <2>1. xPendingReadyList' = Append(xPendingReadyList, u) /\ UNCHANGED <<ready, xSuspendedTaskList>>
    BY <1>3 DEF xTaskResumeFromISR
  <2>2. Ready' = Ready /\ ReadyOK(ready', uxPriority')
    BY <1>1, <2>1, ReadyIs DEF ListsInv
  <2>3. Moved(Ready, Blocked)
    BY <1>1, <2>1, <2>2, SameMoves
  <2>4. u \notin ToSet(xPendingReadyList) /\ u \notin ToSet(xEventList)
    BY <1>1 DEF prvTaskIsTaskSuspended
  <2>5. /\ xPendingReadyList' \in Seq(AllTasks) /\ NoDuplicates(xPendingReadyList')
        /\ ToSet(xPendingReadyList') = ToSet(xPendingReadyList) \cup {u}
    BY <1>1, <2>1, <2>4, EventsBlocked, AppendKeeps DEF EventLists
  <2>6. uxSchedulerSuspended' > 0
    BY <1>1, <1>3 DEF TypesInv
  <2>7. EventLists' /\ PendingOnly' /\ ToSet(xEventList') \cup ToSet(xPendingReadyList') \subseteq Blocked
    BY <1>1, <2>4, <2>5, <2>6, EventsBlocked DEF EventLists, PendingOnly
  <2>8. EventInv'
    BY <2>3, <2>7, EventParts DEF Moved
  <2> QED BY <1>1, <1>3, <2>3, <2>8 DEF Moved, ListsInv
<1> QED BY <1>2, <1>3

LEMMA PrioritySetLists ==
    ASSUME TypesInv, ListsInv, NEW t, NEW u, NEW p, vTaskPrioritySet(t, u, p)
    PROVE  /\ ListsInv' /\ Ready' = Ready /\ u \in AllTasks \ {Idle}
           /\ uxPriority' \in PrioType /\ uxPriority' = [uxPriority EXCEPT ![u] = p] /\ p \in Priorities
<1>1. /\ u \in AllTasks \ {Idle} /\ p \in Priorities /\ uxPriority' = [uxPriority EXCEPT ![u] = p]
      /\ UNCHANGED <<blockLists, xTasksWaitingTermination, eventLists, masked, uxSchedulerSuspended>>
      /\ ready' = IF InReadyList(u)
                  THEN prvAddTaskToReadyList(RemoveFromReadyList(ready, u, uxPriority[u]), u, p)
                  ELSE ready
  BY VictimsAreTasks, SchedulerAssumption DEF vTaskPrioritySet, interrupts
<1>2. /\ uxPriority \in PrioType /\ uxPriority' \in PrioType /\ uxPriority'[u] = p
      /\ \A v \in AllTasks \ {u} : uxPriority'[v] = uxPriority[v]
  BY <1>1 DEF TypesInv, PrioType
<1>3. ReadyOK(ready', uxPriority') /\ \A v \in AllTasks : In(ready', uxPriority', v) <=> In(ready, uxPriority, v)
  <2>1. CASE InReadyList(u)
    <3>1. In(ready, uxPriority, u)
      BY <2>1 DEF In, InReadyList
    <3> DEFINE R1 == RemoveFromReadyList(ready, u, uxPriority[u])
    <3>2. ReadyOK(R1, uxPriority) /\ \A v \in AllTasks : In(R1, uxPriority, v) <=> v # u /\ In(ready, uxPriority, v)
      BY <1>1, <1>2, <3>1, RemoveReadyKeeps DEF ListsInv
    <3>3. ready' = prvAddTaskToReadyList(R1, u, p)
      BY <1>1, <2>1
    <3> HIDE DEF R1
    <3>5. ~In(R1, uxPriority, u) /\ p = uxPriority'[u]
      BY <1>1, <1>2, <3>2
    <3>6. ReadyOK(prvAddTaskToReadyList(R1, u, p), uxPriority')
      BY <1>1, <1>2, <3>2, <3>5, AddReadyKeeps
    <3>7. \A v \in AllTasks : In(prvAddTaskToReadyList(R1, u, p), uxPriority', v) <=> v = u \/ In(R1, uxPriority, v)
      <4>1. /\ u \in AllTasks /\ uxPriority \in PrioType /\ uxPriority' \in PrioType
            /\ ReadyOK(R1, uxPriority) /\ \A v \in AllTasks \ {u} : uxPriority'[v] = uxPriority[v]
        BY <1>1, <1>2, <3>2
      <4> QED BY <4>1, <3>5, AddReadyIn
    <3>4. ReadyOK(ready', uxPriority') /\ \A v \in AllTasks : In(ready', uxPriority', v) <=> v = u \/ In(R1, uxPriority, v)
      BY <3>3, <3>6, <3>7
    <3> QED BY <3>1, <3>2, <3>4
  <2>2. CASE ~InReadyList(u)
    <3>1. ~In(ready, uxPriority, u) /\ ready' = ready
      BY <1>1, <2>2 DEF In, InReadyList
    <3>2. ReadyOK(ready, uxPriority)
      BY DEF ListsInv
    <3>3. ReadyOK(ready, uxPriority') /\ \A v \in AllTasks : In(ready, uxPriority', v) <=> In(ready, uxPriority, v)
      BY <1>1, <1>2, <3>1, <3>2, ReprioritiseKeeps
    <3> QED BY <3>1, <3>3
  <2> QED BY <2>1, <2>2
<1>4. Ready' = Ready
  BY <1>3, ReadyIs
<1>5. Moved(Ready, Blocked)
  BY <1>1, <1>3, <1>4, SameMoves DEF blockLists
<1>6. PendingOnly'
  BY <1>1, EventsBlocked DEF PendingOnly, eventLists
<1>7. ListsInv'
  BY <1>1, <1>5, <1>6, EventsStay, EventsBlocked
<1> QED BY <1>1, <1>2, <1>4, <1>7

LEMMA CreateLists ==
    ASSUME TypesInv, ListsInv, NEW t, NEW u, xTaskCreate(t, u)
    PROVE  /\ ListsInv' /\ Ready' = Ready \cup {u} /\ u \notin Ready /\ u \in AllTasks \ {Idle}
           /\ uxPriority' \in PrioType /\ uxPriority' = [uxPriority EXCEPT ![u] = InitPrio[u]]
<1>1. /\ u \in AllTasks \ {Idle} /\ InitPrio[u] \in Priorities
      /\ uxPriority' = [uxPriority EXCEPT ![u] = InitPrio[u]]
      /\ u \notin xTasksWaitingTermination /\ u \notin Ready \cup Blocked
      /\ UNCHANGED <<blockLists, xTasksWaitingTermination, eventLists, masked, uxSchedulerSuspended>>
      /\ ready' = prvAddTaskToReadyList(ready, u, InitPrio[u])
  BY VictimsAreTasks, SchedulerAssumption, ExistsIs DEF xTaskCreate, interrupts
<1>2. /\ uxPriority \in PrioType /\ uxPriority' \in PrioType /\ uxPriority'[u] = InitPrio[u]
      /\ \A v \in AllTasks \ {u} : uxPriority'[v] = uxPriority[v]
  BY <1>1 DEF TypesInv, PrioType
<1>3. ReadyOK(ready', uxPriority') /\ \A v \in AllTasks : In(ready', uxPriority', v) <=> v = u \/ In(ready, uxPriority, v)
  BY <1>1, <1>2, ReadyIs, AddReadyKeeps DEF ListsInv
<1>4. Ready' = Ready \cup {u}
  BY <1>1, <1>3, ReadyIs
<1>5. D' = D /\ O' = O /\ xSuspendedTaskList' = xSuspendedTaskList /\ u \notin D \cup O \cup xSuspendedTaskList
  BY <1>1 DEF blockLists, D, O, Blocked, Delayed
<1>6. BlockInv'
  BY <1>1, <1>4, <1>5 DEF ListsInv, BlockInv, blockLists
<1>7. Moved(Ready \cup {u}, Blocked)
  BY <1>1, <1>3, <1>4, <1>5, <1>6 DEF Moved, Blocked, Delayed, D, O
<1>8. PendingOnly'
  BY <1>1, EventsBlocked DEF PendingOnly, eventLists
<1>9. ListsInv'
  BY <1>1, <1>7, <1>8, EventsStay, EventsBlocked
<1> QED BY <1>1, <1>2, <1>4, <1>9

LEMMA ReclaimLists ==
    ASSUME TypesInv, ListsInv, NEW u, Reclaim(u)
    PROVE  ListsInv' /\ Ready' = Ready
<1>1. /\ UNCHANGED <<ready, uxPriority, blockLists, eventLists, masked, uxSchedulerSuspended>>
      /\ xTasksWaitingTermination' = xTasksWaitingTermination \ {u}
  BY DEF Reclaim, priorities, interrupts
<1>2. Ready' = Ready /\ ReadyOK(ready', uxPriority') /\ D' = D /\ O' = O
  BY <1>1, ReadyIs DEF ListsInv, blockLists, D, O
<1>3. BlockInv' /\ Blocked' = Blocked
  BY <1>1, <1>2 DEF ListsInv, BlockInv, blockLists, Blocked, Delayed, D, O
<1>4. PendingOnly'
  BY <1>1, EventsBlocked DEF PendingOnly, eventLists
<1> QED BY <1>1, <1>2, <1>3, <1>4, EventsStay, EventsBlocked DEF Moved

\* The operations that change no list.
LEMMA ListsStay ==
    ASSUME TypesInv, ListsInv, UNCHANGED <<ready, uxPriority, blockLists, xTasksWaitingTermination, eventLists>>,
           PendingOnly'
    PROVE  ListsInv' /\ Ready' = Ready
<1>1. Ready' = Ready /\ ReadyOK(ready', uxPriority')
  BY ReadyIs DEF ListsInv
<1>2. Moved(Ready, Blocked)
  BY <1>1, SameMoves DEF blockLists
<1> QED BY <1>1, <1>2, EventsStay, EventsBlocked
-----------------------------------------------------------------------------
(* Who runs, and who asks for the next switch. *)

ControlTypes ==
    /\ uxPriority \in PrioType /\ uxSchedulerSuspended \in Nat
    /\ xYieldPending \in BOOLEAN /\ pendSV \in BOOLEAN /\ xSwitchRequired \in BOOLEAN
    /\ pxCurrentTCB \in AllTasks
    /\ masked \in {"no", "tick", "resumeAll", "pendedTick"}
    /\ pc \in [AllTasks -> PCs]

TimeTypes ==
    /\ xItemValue \in [AllTasks -> 0 .. portMAX_DELAY]
    /\ xTickCount \in Int /\ xNextTaskUnblockTime \in Int /\ xExpectedIdleTime \in Int
    /\ xPreviousWakeTime \in [Periodic -> Int]
    /\ \A t \in AllTasks : pc[t] = "delayUntil" => t \in Periodic

LEMMA TypeParts ==
    (TypesInv <=> ControlTypes /\ TimeTypes) /\ (TypesInv' <=> ControlTypes' /\ TimeTypes')
  BY DEF TypesInv, ControlTypes, TimeTypes

\* Everything but the times.
SwitchInv == ControlTypes /\ ListsInv /\ ControlInv /\ HighestInv

LEMMA PrioNats == ASSUME uxPriority \in PrioType PROVE \A t \in AllTasks : uxPriority[t] \in Nat
  BY PrioritiesAreNats DEF PrioType

LEMMA ControlFacts ==
    ASSUME IInv
    PROVE  /\ TypesInv /\ ListsInv /\ ControlTypes /\ ControlInv /\ HighestInv /\ PendingOnly
           /\ Idle \in AllTasks /\ Idle \in Ready /\ Ready \subseteq AllTasks
           /\ xTasksWaitingTermination \subseteq Tasks /\ Tasks \subseteq AllTasks /\ Idle \notin Tasks
           /\ xTasksWaitingTermination \cap Ready = {}
           /\ \A t \in AllTasks : uxPriority[t] \in Nat
  BY EventsBlocked, TypeParts, PrioNats DEF IInv, ControlTypes, AllTasks

\* A task that runs application code, or begins a call, is ready.
LEMMA RunsReady ==
    ASSUME IInv, NEW t, Executes(t), pc[t] \notin {"resumeAll", "yield", "resetSelf"}
    PROVE  t = pxCurrentTCB /\ t \in Ready /\ masked = "no" /\ ~pendSV
  BY ControlFacts DEF Executes, ControlInv

LEMMA TickSwitch ==
    ASSUME IInv, Tick
    PROVE  SwitchInv'
<1>1. ListsInv' /\ Ready' = Ready
  BY TickLists DEF IInv
<1>2. /\ masked = "no" /\ uxSchedulerSuspended = 0 /\ masked' \in {"no", "tick"}
      /\ pendSV' = (pendSV \/ (masked' = "no" /\ xYieldPending)) /\ xSwitchRequired' = FALSE
      /\ UNCHANGED <<uxPriority, uxSchedulerSuspended, xYieldPending, pxCurrentTCB, pc, xTasksWaitingTermination>>
  BY DEF Tick, IncrementTick, YieldIf, priorities
<1>3. ControlTypes'
  BY <1>2, ControlFacts DEF ControlTypes
<1>4. ControlInv'
  BY <1>1, <1>2, ControlFacts DEF ControlTypes, ControlInv
<1>5. HighestInv'
  BY <1>1, <1>2, ControlFacts DEF ControlTypes, HighestInv, Highest, SwitchIsDue
<1> QED BY <1>1, <1>3, <1>4, <1>5 DEF SwitchInv

LEMMA TickSuspendedSwitch ==
    ASSUME IInv, TickSuspended
    PROVE  SwitchInv'
<1>1. /\ masked = "no" /\ uxSchedulerSuspended > 0 /\ pendSV' = (pendSV \/ xYieldPending)
      /\ UNCHANGED <<ready, blockLists, xTasksWaitingTermination, eventLists, uxPriority, uxSchedulerSuspended,
                     xYieldPending, pxCurrentTCB, masked, xSwitchRequired, pc>>
  BY DEF TickSuspended, YieldIf, priorities, interrupts
<1>2. ListsInv' /\ Ready' = Ready
  BY <1>1, ListsStay, ControlFacts DEF PendingOnly
<1>3. ControlTypes'
  BY <1>1, ControlFacts DEF ControlTypes
<1>4. ControlInv'
  BY <1>1, <1>2, ControlFacts DEF ControlTypes, ControlInv
<1>5. HighestInv'
  BY <1>1, <1>2, ControlFacts DEF ControlTypes, HighestInv, Highest, SwitchIsDue
<1> QED BY <1>2, <1>3, <1>4, <1>5 DEF SwitchInv

LEMMA WakeSwitch ==
    ASSUME IInv, WakeDelayed
    PROVE  SwitchInv'
<1> DEFINE w == Head(pxDelayedTaskList)
<1>1. ListsInv' /\ Ready' = Ready \cup {w} /\ w \in Blocked
  BY WakeLists DEF IInv, Blocked, Delayed, D
<1>2. /\ masked \in {"tick", "pendedTick"}
      /\ xSwitchRequired' = (xSwitchRequired \/ uxPriority[w] >= uxPriority[pxCurrentTCB])
      /\ UNCHANGED <<uxPriority, uxSchedulerSuspended, xYieldPending, pxCurrentTCB, pendSV, masked, pc,
                     xTasksWaitingTermination>>
  BY DEF WakeDelayed, priorities, switching
<1>3. w \in AllTasks
  BY <1>1, EventsBlocked, ControlFacts
<1> HIDE DEF w
<1>4. ControlTypes'
  BY <1>2, ControlFacts DEF ControlTypes
<1>5. ControlInv'
  BY <1>1, <1>2, ControlFacts DEF ControlTypes, ControlInv
<1>6. HighestInv'
  <2>1. xSwitchRequired => xSwitchRequired'
    BY <1>2
  <2>2. SwitchIsDue => SwitchIsDue'
    BY <1>2, <2>1, ControlFacts DEF SwitchIsDue, ControlTypes
  <2>3. CASE uxPriority[w] >= uxPriority[pxCurrentTCB]
    <3>1. xSwitchRequired'
      BY <1>2, <2>3
    <3> QED BY <1>2, <3>1 DEF HighestInv, SwitchIsDue
  <2>4. CASE ~(uxPriority[w] >= uxPriority[pxCurrentTCB])
    <3>1. uxPriority[w] <= uxPriority[pxCurrentTCB]
      BY <1>3, <2>4, ControlFacts DEF ControlTypes
    <3>2. Highest(pxCurrentTCB) => Highest(pxCurrentTCB)'
      BY <1>1, <1>2, <3>1 DEF Highest
    <3> QED BY <2>2, <3>2, ControlFacts DEF HighestInv
  <2> QED BY <2>3, <2>4
<1> QED BY <1>1, <1>4, <1>5, <1>6 DEF SwitchInv

LEMMA WakeEndsSwitch ==
    ASSUME IInv, WakeLoopEnds
    PROVE  SwitchInv'
<1>1. /\ UNCHANGED <<ready, blockLists, xTasksWaitingTermination, eventLists, uxPriority, uxSchedulerSuspended,
                     pxCurrentTCB, pc>>
      /\ xSwitchRequired' = FALSE
      /\ \/ /\ masked = "tick" /\ masked' = "no"
            /\ pendSV' = (pendSV \/ xSwitchRequired \/ xYieldPending) /\ xYieldPending' = xYieldPending
         \/ /\ masked = "pendedTick" /\ masked' = "resumeAll"
            /\ pendSV' = pendSV /\ xYieldPending' = (xYieldPending \/ xSwitchRequired)
  BY DEF WakeLoopEnds, YieldIf, priorities
<1>2. ListsInv' /\ Ready' = Ready
  BY <1>1, ListsStay, ControlFacts DEF PendingOnly, eventLists
<1>3. ControlTypes'
  BY <1>1, ControlFacts DEF ControlTypes
<1>4. ControlInv'
  BY <1>1, <1>2, ControlFacts DEF ControlTypes, ControlInv
<1>5. HighestInv'
  <2>1. Highest(pxCurrentTCB) => Highest(pxCurrentTCB)'
    BY <1>1, <1>2 DEF Highest
  <2>2. CASE masked = "tick"
    <3>1. uxSchedulerSuspended = 0 /\ pc[pxCurrentTCB] # "resumeAll"
      BY <2>2, ControlFacts DEF ControlInv, Holding, ControlTypes
    <3>2. pendSV \/ xSwitchRequired \/ xYieldPending => pendSV'
      BY <1>1, <2>2
    <3> QED BY <1>1, <2>1, <2>2, <3>1, <3>2, ControlFacts DEF HighestInv, SwitchIsDue
  <2>3. CASE masked = "pendedTick"
    <3>1. xSwitchRequired \/ xYieldPending => xYieldPending'
      BY <1>1, <2>3
    <3> QED BY <1>1, <2>1, <2>3, <3>1, ControlFacts DEF HighestInv, SwitchIsDue
  <2> QED BY <1>1, <2>2, <2>3
<1> QED BY <1>2, <1>3, <1>4, <1>5 DEF SwitchInv

\* The calls that suspend the scheduler.
LEMMA SuspendAllSwitch ==
    ASSUME IInv, NEW t, NEW next, Executes(t), vTaskSuspendAll(t, next),
           \/ t # Idle /\ pc[t] \in {"run", "hold"} /\ next \in {"delay", "delayUntil", "wait", "hold"}
           \/ t = Idle /\ pc[t] = "idleSuspend" /\ next = "idleSample"
    PROVE  SwitchInv'
<1>1. t = pxCurrentTCB /\ t \in Ready /\ masked = "no" /\ ~pendSV /\ t \in AllTasks
  BY RunsReady, ControlFacts
<1>2. /\ uxSchedulerSuspended' = uxSchedulerSuspended + 1 /\ pc' = [pc EXCEPT ![t] = next]
      /\ UNCHANGED <<ready, blockLists, xTasksWaitingTermination, eventLists, uxPriority, xYieldPending,
                     pxCurrentTCB, pendSV, masked, xSwitchRequired>>
  BY DEF vTaskSuspendAll, Goto, priorities, switching, interrupts
<1>3. uxSchedulerSuspended' \in Nat /\ uxSchedulerSuspended' > 0 /\ uxSchedulerSuspended \in Nat
  BY <1>2, ControlFacts DEF ControlTypes
<1>4. ListsInv' /\ Ready' = Ready
  BY <1>2, <1>3, ListsStay, ControlFacts DEF PendingOnly
<1>5. pc' \in [AllTasks -> PCs] /\ pc'[t] = next /\ \A u \in AllTasks \ {t} : pc'[u] = pc[u]
  BY <1>1, <1>2, ControlFacts DEF ControlTypes, PCs
<1>6. ControlTypes'
  BY <1>2, <1>3, <1>5, ControlFacts DEF ControlTypes
<1>7. ControlInv'
  BY <1>1, <1>2, <1>3, <1>4, <1>5, ControlFacts DEF ControlInv, IdlePCs
<1>8. HighestInv'
  BY <1>1, <1>2, <1>3, <1>4, <1>5, ControlFacts DEF HighestInv, Highest, SwitchIsDue
<1> QED BY <1>4, <1>6, <1>7, <1>8 DEF SwitchInv

LEMMA ResumeSwitch ==
    ASSUME IInv, NEW t, ResumeNested(t) \/ ResumeAll(t)
    PROVE  SwitchInv'
<1>1. /\ t = pxCurrentTCB /\ ~pendSV /\ masked = "no" /\ uxSchedulerSuspended > 0 /\ uxSchedulerSuspended \in Nat
      /\ pc[t] \in {"hold", "resumeAll", "idleResume"}
      /\ UNCHANGED <<ready, blockLists, xTasksWaitingTermination, eventLists, uxPriority, xYieldPending,
                     pxCurrentTCB, pendSV, xSwitchRequired, pc>>
  BY ControlFacts DEF ResumeNested, ResumeAll, Resumes, Executes, priorities, switching, interrupts, ControlTypes
<1>2. \/ uxSchedulerSuspended' \in Nat /\ uxSchedulerSuspended' > 0 /\ masked' = "no"
      \/ uxSchedulerSuspended' = 0 /\ masked' = "resumeAll"
  BY <1>1 DEF ResumeNested, ResumeAll, interrupts
<1>3. ListsInv' /\ Ready' = Ready
  BY <1>1, <1>2, ListsStay, ControlFacts DEF PendingOnly
<1>4. ControlTypes'
  BY <1>1, <1>2, ControlFacts DEF ControlTypes
<1>5. ControlInv'
  BY <1>1, <1>2, <1>3, ControlFacts DEF ControlInv
<1>6. HighestInv'
  BY <1>1, <1>2, <1>3, ControlFacts DEF HighestInv, Highest, SwitchIsDue
<1> QED BY <1>3, <1>4, <1>5, <1>6 DEF SwitchInv

LEMMA DrainSwitch ==
    ASSUME IInv, DrainPending
    PROVE  SwitchInv'
<1> DEFINE w == Head(xPendingReadyList)
<1>1. ListsInv' /\ Ready' = Ready \cup {w} /\ w \in Blocked
  BY DrainLists DEF IInv
<1>2. /\ masked = "resumeAll"
      /\ xYieldPending' = (xYieldPending \/ uxPriority[w] >= uxPriority[pxCurrentTCB])
      /\ UNCHANGED <<uxPriority, uxSchedulerSuspended, xSwitchRequired, pxCurrentTCB, pendSV, masked, pc,
                     xTasksWaitingTermination>>
  BY DEF DrainPending, priorities, switching, interrupts
<1>3. w \in AllTasks
  BY <1>1, EventsBlocked, ControlFacts
<1> HIDE DEF w
<1>4. ControlTypes'
  BY <1>2, ControlFacts DEF ControlTypes
<1>5. ControlInv'
  BY <1>1, <1>2, ControlFacts DEF ControlTypes, ControlInv
<1>6. HighestInv'
  <2>1. xYieldPending => xYieldPending'
    BY <1>2
  <2>2. SwitchIsDue => SwitchIsDue'
    BY <1>2, <2>1, ControlFacts DEF SwitchIsDue, ControlTypes
  <2>3. CASE uxPriority[w] >= uxPriority[pxCurrentTCB]
    <3>1. xYieldPending'
      BY <1>2, <2>3
    <3> QED BY <1>2, <3>1 DEF HighestInv, SwitchIsDue
  <2>4. CASE ~(uxPriority[w] >= uxPriority[pxCurrentTCB])
    <3>1. uxPriority[w] <= uxPriority[pxCurrentTCB]
      BY <1>3, <2>4, ControlFacts DEF ControlTypes
    <3>2. Highest(pxCurrentTCB) => Highest(pxCurrentTCB)'
      BY <1>1, <1>2, <3>1 DEF Highest
    <3> QED BY <2>2, <3>2, ControlFacts DEF HighestInv
  <2> QED BY <2>3, <2>4
<1> QED BY <1>1, <1>4, <1>5, <1>6 DEF SwitchInv

LEMMA PendedTickSwitch ==
    ASSUME IInv, PendedTick
    PROVE  SwitchInv'
<1>1. ListsInv' /\ Ready' = Ready
  BY TickLists DEF IInv
<1>2. /\ masked = "resumeAll" /\ masked' \in {"resumeAll", "pendedTick"} /\ xSwitchRequired' = FALSE
      /\ UNCHANGED <<uxPriority, uxSchedulerSuspended, xYieldPending, pxCurrentTCB, pendSV, pc,
                     xTasksWaitingTermination>>
  BY DEF PendedTick, IncrementTick, priorities, switching
<1>3. ControlTypes'
  BY <1>2, ControlFacts DEF ControlTypes
<1>4. ControlInv'
  BY <1>1, <1>2, ControlFacts DEF ControlTypes, ControlInv
<1>5. HighestInv'
  BY <1>1, <1>2, ControlFacts DEF ControlTypes, HighestInv, Highest, SwitchIsDue
<1> QED BY <1>1, <1>3, <1>4, <1>5 DEF SwitchInv

LEMMA ResumeEndsSwitch ==
    ASSUME IInv, ResumeAllEnds
    PROVE  SwitchInv'
<1> DEFINE t == pxCurrentTCB
<1>1. /\ masked = "resumeAll" /\ xPendingReadyList = << >> /\ masked' = "no"
      /\ pendSV' = (pendSV \/ xYieldPending) /\ pc' = [pc EXCEPT ![t] = ReturnsTo(pc[t], xYieldPending)]
      /\ UNCHANGED <<ready, blockLists, xTasksWaitingTermination, eventLists, uxPriority, uxSchedulerSuspended,
                     xYieldPending, pxCurrentTCB, xSwitchRequired>>
  BY DEF ResumeAllEnds, YieldIf, Goto, priorities
<1>2. t \in AllTasks /\ pc[t] \in {"hold", "resumeAll", "idleResume"} /\ uxSchedulerSuspended = 0
  BY <1>1, ControlFacts DEF ControlInv, ControlTypes
<1>3. /\ pc' \in [AllTasks -> PCs] /\ \A u \in AllTasks \ {t} : pc'[u] = pc[u]
      /\ pc'[t] \in {"run", "yield"} /\ (pc'[t] = "yield" <=> pc[t] = "resumeAll" /\ ~xYieldPending)
  BY <1>1, <1>2, ControlFacts DEF ControlTypes, PCs, ReturnsTo
<1> HIDE DEF t
<1>4. ListsInv' /\ Ready' = Ready
  BY <1>1, ListsStay, ControlFacts DEF PendingOnly, eventLists
<1>5. ControlTypes'
  BY <1>1, <1>3, ControlFacts DEF ControlTypes
<1>6. ControlInv'
  BY <1>1, <1>2, <1>3, <1>4, ControlFacts DEF ControlTypes, ControlInv, t, Holding, IdlePCs
<1>7. HighestInv'
  BY <1>1, <1>2, <1>3, <1>4, ControlFacts DEF ControlTypes, ControlInv, HighestInv, Highest, SwitchIsDue, t
<1> QED BY <1>4, <1>5, <1>6, <1>7 DEF SwitchInv

\* The calls that take the running task out of the ready lists.
LEMMA BlockSwitch ==
    ASSUME IInv, NEW t, DelayTicks(t) \/ DelayUntilTicks(t) \/ vTaskPlaceOnEventList(t)
    PROVE  SwitchInv'
<1>1. /\ Executes(t) /\ pc[t] \in {"delay", "delayUntil", "wait"} /\ pc' = [pc EXCEPT ![t] = "resumeAll"]
      /\ UNCHANGED <<xTasksWaitingTermination, uxPriority, uxSchedulerSuspended, xYieldPending,
                     pxCurrentTCB, pendSV, masked, xSwitchRequired>>
  BY DEF DelayTicks, DelayUntilTicks, vTaskPlaceOnEventList, Goto, priorities, switching, interrupts
<1>2. t = pxCurrentTCB /\ t \in Ready /\ masked = "no" /\ ~pendSV /\ t \in AllTasks
  BY <1>1, RunsReady, ControlFacts
<1>3. t # Idle
  BY <1>1, ControlFacts DEF ControlInv, IdlePCs
<1>4. uxSchedulerSuspended > 0
  BY <1>1, <1>2, ControlFacts DEF ControlInv, Holding
<1>5. ListsInv' /\ Ready' \in {Ready, Ready \ {t}}
  BY <1>2, <1>3, DelayLists, WaitLists, ControlFacts
<1>6. pc' \in [AllTasks -> PCs] /\ pc'[t] = "resumeAll" /\ \A u \in AllTasks \ {t} : pc'[u] = pc[u]
  BY <1>1, <1>2, ControlFacts DEF ControlTypes, PCs
<1>7. ControlTypes'
  BY <1>1, <1>6, ControlFacts DEF ControlTypes
<1>8. ControlInv'
  BY <1>1, <1>2, <1>3, <1>4, <1>5, <1>6, ControlFacts DEF ControlInv
<1>9. HighestInv'
  BY <1>1, <1>2, <1>4, <1>6, ControlFacts DEF HighestInv, SwitchIsDue
<1> QED BY <1>5, <1>7, <1>8, <1>9 DEF SwitchInv

LEMMA ReadSwitch ==
    ASSUME IInv, NEW t, ReadTickCount(t)
    PROVE  SwitchInv'
<1>1. UNCHANGED <<ready, blockLists, xTasksWaitingTermination, eventLists, uxPriority, uxSchedulerSuspended,
                  xYieldPending, pxCurrentTCB, pendSV, masked, xSwitchRequired, pc>>
  BY DEF ReadTickCount, priorities, switching, interrupts
<1>2. ListsInv' /\ Ready' = Ready
  BY <1>1, ListsStay, ControlFacts DEF PendingOnly, eventLists
<1>3. ControlTypes'
  BY <1>1, ControlFacts DEF ControlTypes
<1>4. ControlInv'
  BY <1>1, <1>2, ControlFacts DEF ControlInv
<1>5. HighestInv'
  BY <1>1, <1>2, ControlFacts DEF HighestInv, Highest, SwitchIsDue
<1> QED BY <1>2, <1>3, <1>4, <1>5 DEF SwitchInv

LEMMA YieldSwitch ==
    ASSUME IInv, NEW t, Yield(t)
    PROVE  SwitchInv'
<1>1. /\ Executes(t) /\ pc[t] \in {"yield", "run"} /\ pendSV' = TRUE
      /\ pc' = [pc EXCEPT ![t] = IF uxSchedulerSuspended > 0 THEN "hold" ELSE "run"]
      /\ pc[t] = "run" => t # Idle
      /\ UNCHANGED <<ready, blockLists, xTasksWaitingTermination, eventLists, uxPriority, uxSchedulerSuspended,
                     xYieldPending, pxCurrentTCB, masked, xSwitchRequired>>
  BY DEF Yield, Calls, InApplication, YieldIf, Goto, priorities, interrupts
<1>2. t = pxCurrentTCB /\ t \in AllTasks /\ t # Idle /\ masked = "no"
  BY <1>1, ControlFacts DEF Executes, ControlTypes, ControlInv, IdlePCs
<1>3. /\ pc' \in [AllTasks -> PCs] /\ \A u \in AllTasks \ {t} : pc'[u] = pc[u]
      /\ pc'[t] \in {"hold", "run"} /\ (pc'[t] = "hold" => uxSchedulerSuspended > 0)
  BY <1>1, <1>2, ControlFacts DEF ControlTypes, PCs
<1>4. ListsInv' /\ Ready' = Ready
  BY <1>1, ListsStay, ControlFacts DEF PendingOnly, eventLists
<1>5. ControlTypes'
  BY <1>1, <1>3, ControlFacts DEF ControlTypes
<1>6. ControlInv'
  BY <1>1, <1>2, <1>3, <1>4, ControlFacts DEF ControlInv, Holding
<1>7. HighestInv'
  BY <1>1 DEF HighestInv, SwitchIsDue
<1> QED BY <1>4, <1>5, <1>6, <1>7 DEF SwitchInv

LEMMA PendSVSwitch ==
    ASSUME IInv, PendSV
    PROVE  SwitchInv'
<1>1. /\ ListsInv' /\ Ready' = Ready
      /\ \/ uxSchedulerSuspended > 0 /\ pxCurrentTCB' = pxCurrentTCB
         \/ ~(uxSchedulerSuspended > 0) /\ pxCurrentTCB' \in Ready /\ Highest(pxCurrentTCB')
  BY PendSVLists, ControlFacts
<1>2. /\ masked = "no" /\ pendSV' = FALSE
      /\ UNCHANGED <<xTasksWaitingTermination, uxPriority, uxSchedulerSuspended, masked, xSwitchRequired, pc>>
  BY DEF PendSV, priorities, interrupts
<1>6. xYieldPending' \in BOOLEAN /\ (uxSchedulerSuspended > 0 => xYieldPending' = TRUE)
  <2>1. CASE uxSchedulerSuspended > 0
    BY <2>1 DEF PendSV
  <2>2. CASE ~(uxSchedulerSuspended > 0)
    BY <2>2 DEF PendSV
  <2> QED BY <2>1, <2>2
<1>3. ControlTypes'
  BY <1>1, <1>2, <1>6, ControlFacts DEF ControlTypes
<1>4. ControlInv'
  BY <1>1, <1>2, ControlFacts DEF ControlInv
<1>5. HighestInv'
  <2>1. CASE uxSchedulerSuspended > 0
    BY <1>2, <1>6, <2>1 DEF HighestInv, SwitchIsDue
  <2>2. CASE ~(uxSchedulerSuspended > 0)
    BY <1>1, <1>2, <2>2 DEF HighestInv, Highest
  <2> QED BY <2>1, <2>2
<1> QED BY <1>1, <1>3, <1>4, <1>5 DEF SwitchInv

\* The operations that make other tasks ready: u becomes ready, and a switch is asked
\* for if it has a higher priority than the running task.
LEMMA ReadiesSwitch ==
    ASSUME IInv, ListsInv', NEW w \in AllTasks, Ready' \in {Ready, Ready \cup {w}},
           masked = "no", pendSV => pendSV', pendSV' \in BOOLEAN,
           xYieldPending => xYieldPending', xYieldPending' \in BOOLEAN,
           w \in Ready' \ Ready /\ uxPriority[w] > uxPriority[pxCurrentTCB] => pendSV',
           UNCHANGED <<xTasksWaitingTermination, uxPriority, uxSchedulerSuspended, pxCurrentTCB, masked,
                       xSwitchRequired, pc>>
    PROVE  SwitchInv'
<1>1. ControlTypes'
  BY ControlFacts DEF ControlTypes
<1>2. ControlInv'
  BY ControlFacts DEF ControlInv
<1>3. HighestInv'
  <2>1. SwitchIsDue => SwitchIsDue'
    BY ControlFacts DEF SwitchIsDue, ControlTypes
  <2>2. CASE w \in Ready' \ Ready /\ uxPriority[w] > uxPriority[pxCurrentTCB]
    BY <2>2 DEF HighestInv, SwitchIsDue
  <2>3. CASE w \in Ready' \ Ready /\ ~(uxPriority[w] > uxPriority[pxCurrentTCB])
    <3>1. uxPriority[w] <= uxPriority[pxCurrentTCB]
      BY <2>3, ControlFacts DEF ControlTypes
    <3>2. Highest(pxCurrentTCB) => Highest(pxCurrentTCB)'
      BY <2>3, <3>1 DEF Highest
    <3> QED BY <2>1, <3>2, ControlFacts DEF HighestInv
  <2>4. CASE w \notin Ready' \ Ready
    <3>1. Ready' = Ready
      BY <2>4
    <3>2. Highest(pxCurrentTCB) => Highest(pxCurrentTCB)'
      BY <3>1 DEF Highest
    <3> QED BY <2>1, <3>2, ControlFacts DEF HighestInv
  <2> QED BY <2>2, <2>3, <2>4
<1> QED BY <1>1, <1>2, <1>3 DEF SwitchInv

LEMMA SignalSwitch ==
    ASSUME IInv, SignalFromISR \/ \E t \in Tasks : Signal(t)
    PROVE  SwitchInv'
<1> DEFINE w == Head(xEventList)
<1>1. xTaskRemoveFromEventList /\ masked = "no"
  BY DEF SignalFromISR, Signal, Calls, InApplication, Executes
<1>2. ListsInv' /\ w \in Blocked /\ Ready' \in {Ready, Ready \cup {w}}
  BY <1>1, SignalLists, ControlFacts
<1>3. /\ pendSV' = (pendSV \/ uxPriority[w] > uxPriority[pxCurrentTCB])
      /\ xYieldPending' = (xYieldPending \/ uxPriority[w] > uxPriority[pxCurrentTCB])
      /\ UNCHANGED <<xTasksWaitingTermination, uxPriority, uxSchedulerSuspended, pxCurrentTCB, masked,
                     xSwitchRequired, pc>>
  BY <1>1 DEF xTaskRemoveFromEventList, YieldIf, priorities, interrupts
<1>4. w \in AllTasks
  BY <1>2, EventsBlocked, ControlFacts
<1> HIDE DEF w
<1>5. pendSV' \in BOOLEAN /\ xYieldPending' \in BOOLEAN /\ (pendSV => pendSV') /\ (xYieldPending => xYieldPending')
  BY <1>3
<1>6. uxPriority[w] > uxPriority[pxCurrentTCB] => pendSV'
  BY <1>3
<1> QED BY <1>1, <1>2, <1>3, <1>4, <1>5, <1>6, ReadiesSwitch

LEMMA ResumeTaskSwitch ==
    ASSUME IInv, NEW u, xTaskResumeFromISR(u) \/ \E t \in Tasks : vTaskResume(t, u)
    PROVE  SwitchInv'
<1>1. ListsInv' /\ u \in Blocked /\ Ready' \in {Ready, Ready \cup {u}}
  BY ResumeLists, ResumeFromISRLists, ControlFacts
<1>2. u \in AllTasks /\ pxCurrentTCB \in AllTasks
  BY <1>1, EventsBlocked, ControlFacts DEF ControlTypes
<1>3. /\ masked = "no"
      /\ UNCHANGED <<xTasksWaitingTermination, uxPriority, uxSchedulerSuspended, xYieldPending, pxCurrentTCB,
                     masked, xSwitchRequired, pc>>
  BY DEF xTaskResumeFromISR, vTaskResume, Calls, InApplication, Executes, priorities, interrupts
<1>4. xYieldPending' \in BOOLEAN
  BY <1>3, ControlFacts DEF ControlTypes
<1>5. CASE Ready' = Ready
  <2>1. \/ pendSV' = (pendSV \/ uxPriority[u] >= uxPriority[pxCurrentTCB])
        \/ pendSV' = pendSV
    BY DEF xTaskResumeFromISR, vTaskResume, Calls, InApplication, Executes, YieldIf
  <2>2. pendSV' \in BOOLEAN /\ (pendSV => pendSV')
    <3>1. pendSV \in BOOLEAN
      BY ControlFacts DEF ControlTypes
    <3>2. CASE pendSV' = (pendSV \/ uxPriority[u] >= uxPriority[pxCurrentTCB])
      BY <3>2
    <3>3. CASE pendSV' = pendSV
      BY <3>1, <3>3
    <3> QED BY <2>1, <3>2, <3>3
  <2> QED BY <1>1, <1>2, <1>3, <1>4, <1>5, <2>2, ReadiesSwitch
<1>6. CASE Ready' # Ready
  <2>1. pendSV' = (pendSV \/ uxPriority[u] >= uxPriority[pxCurrentTCB])
    <3>1. CASE xTaskResumeFromISR(u)
      <4>1. uxSchedulerSuspended = 0
        BY <1>6, <3>1, ResumeFromISRLists, ControlFacts
      <4> QED BY <3>1, <4>1 DEF xTaskResumeFromISR, YieldIf
    <3>2. CASE \E t \in Tasks : vTaskResume(t, u)
      BY <3>2 DEF vTaskResume, Calls, InApplication, Executes, YieldIf
    <3> QED BY <3>1, <3>2
  <2>2. pendSV' \in BOOLEAN /\ (pendSV => pendSV')
    BY <2>1
  <2>3. uxPriority[u] > uxPriority[pxCurrentTCB] => uxPriority[u] >= uxPriority[pxCurrentTCB]
    BY <1>2, ControlFacts
  <2>4. uxPriority[u] > uxPriority[pxCurrentTCB] => pendSV'
    BY <2>1, <2>3
  <2> QED BY <1>1, <1>2, <1>3, <1>4, <2>2, <2>4, ReadiesSwitch
<1> QED BY <1>5, <1>6

LEMMA SuspendTaskSwitch ==
    ASSUME IInv, NEW t, NEW u, vTaskSuspend(t, u)
    PROVE  SwitchInv'
<1>1. /\ Executes(t) /\ t # Idle /\ pc[t] \in {"run", "hold"} /\ (u = t => uxSchedulerSuspended = 0)
      /\ pc' = [pc EXCEPT ![t] = IF u = t THEN "resetSelf" ELSE "reset"]
      /\ UNCHANGED <<xTasksWaitingTermination, uxPriority, uxSchedulerSuspended, xYieldPending,
                     pxCurrentTCB, pendSV, masked, xSwitchRequired>>
  BY DEF vTaskSuspend, Calls, InApplication, Goto, priorities, switching, interrupts
<1>2. t = pxCurrentTCB /\ t \in Ready /\ masked = "no" /\ ~pendSV /\ t \in AllTasks
  BY <1>1, RunsReady, ControlFacts
<1>3. ListsInv' /\ Ready' = Ready \ {u}
  BY SuspendLists, ControlFacts
<1>4. /\ pc' \in [AllTasks -> PCs] /\ \A v \in AllTasks \ {t} : pc'[v] = pc[v]
      /\ pc'[t] = IF u = t THEN "resetSelf" ELSE "reset"
  BY <1>1, <1>2, ControlFacts DEF ControlTypes, PCs
<1>5. ControlTypes'
  BY <1>1, <1>4, ControlFacts DEF ControlTypes
<1>6. ControlInv'
  BY <1>1, <1>2, <1>3, <1>4, ControlFacts DEF ControlInv, Holding, ControlTypes
<1>7. HighestInv'
  <2>1. Highest(pxCurrentTCB) => Highest(pxCurrentTCB)'
    BY <1>1, <1>3 DEF Highest
  <2>2. SwitchIsDue => SwitchIsDue'
    BY <1>1, <1>2, <1>4 DEF SwitchIsDue
  <2> QED BY <2>1, <2>2, ControlFacts DEF HighestInv
<1> QED BY <1>3, <1>5, <1>6, <1>7 DEF SwitchInv

LEMMA ResetSwitch ==
    ASSUME IInv, NEW t, ResetUnblockTime(t)
    PROVE  SwitchInv'
<1>1. /\ Executes(t) /\ pc[t] \in {"resetSelf", "reset"}
      /\ pc' = [pc EXCEPT ![t] = IF pc[t] = "resetSelf" THEN "yield"
                                 ELSE IF uxSchedulerSuspended > 0 THEN "hold" ELSE "run"]
      /\ UNCHANGED <<ready, blockLists, xTasksWaitingTermination, eventLists, uxPriority, uxSchedulerSuspended,
                     xYieldPending, pxCurrentTCB, pendSV, masked, xSwitchRequired>>
  BY DEF ResetUnblockTime, Goto, priorities, switching, interrupts
<1>2. t = pxCurrentTCB /\ t \in AllTasks /\ t # Idle /\ masked = "no" /\ ~pendSV
  BY <1>1, ControlFacts DEF Executes, ControlTypes, ControlInv, IdlePCs
<1>3. /\ pc' \in [AllTasks -> PCs] /\ \A u \in AllTasks \ {t} : pc'[u] = pc[u]
      /\ pc[t] = "resetSelf" => pc'[t] = "yield"
      /\ pc[t] = "reset" => pc'[t] \in {"hold", "run"}
      /\ pc'[t] = "hold" => uxSchedulerSuspended > 0
  BY <1>1, <1>2, ControlFacts DEF ControlTypes, PCs
<1>4. ListsInv' /\ Ready' = Ready
  BY <1>1, ListsStay, ControlFacts DEF PendingOnly, eventLists
<1>5. ControlTypes'
  BY <1>1, <1>3, ControlFacts DEF ControlTypes
<1>6. ControlInv'
  BY <1>1, <1>2, <1>3, <1>4, ControlFacts DEF ControlInv, Holding
<1>7. HighestInv'
  BY <1>1, <1>2, <1>3, <1>4, ControlFacts DEF HighestInv, Highest, SwitchIsDue
<1> QED BY <1>4, <1>5, <1>6, <1>7 DEF SwitchInv

LEMMA PrioritySwitch ==
    ASSUME IInv, NEW t, NEW u, NEW p, vTaskPrioritySet(t, u, p)
    PROVE  SwitchInv'
<1>1. /\ Executes(t) /\ t # Idle /\ pc[t] \in {"run", "hold"} /\ p # uxPriority[u]
      /\ pendSV' = (pendSV \/ YieldRequired(t, u, p))
      /\ UNCHANGED <<xTasksWaitingTermination, uxSchedulerSuspended, xYieldPending, pxCurrentTCB,
                     masked, xSwitchRequired, pc>>
  BY DEF vTaskPrioritySet, Calls, InApplication, YieldIf, interrupts
<1>2. t = pxCurrentTCB /\ t \in Ready /\ masked = "no" /\ ~pendSV /\ t \in AllTasks
  BY <1>1, RunsReady, ControlFacts
<1>3. /\ ListsInv' /\ Ready' = Ready /\ u \in AllTasks
      /\ uxPriority' \in PrioType /\ uxPriority' = [uxPriority EXCEPT ![u] = p] /\ p \in Priorities
  BY PrioritySetLists, ControlFacts
<1>4. /\ uxPriority'[u] = p /\ \A v \in AllTasks \ {u} : uxPriority'[v] = uxPriority[v]
      /\ p \in Nat
  BY <1>3, PrioritiesAreNats, ControlFacts DEF ControlTypes, PrioType
<1>5. pendSV' \in BOOLEAN
  BY <1>1
<1>6. ControlTypes'
  BY <1>1, <1>3, <1>5, ControlFacts DEF ControlTypes
<1>7. ControlInv'
  BY <1>1, <1>2, <1>3, ControlFacts DEF ControlInv
<1>8. HighestInv'
  <2>1. CASE YieldRequired(t, u, p)
    <3>1. pendSV'
      BY <1>1, <2>1
    <3> QED BY <3>1 DEF HighestInv, SwitchIsDue
  <2>2. CASE ~YieldRequired(t, u, p)
    <3>1. Highest(pxCurrentTCB) => Highest(pxCurrentTCB)'
      <4>1. CASE u = t
        <5>1. p > uxPriority[u]
          BY <2>2, <4>1 DEF YieldRequired
        <5> QED BY <1>1, <1>2, <1>3, <1>4, <4>1, <5>1, ControlFacts DEF Highest
      <4>2. CASE u # t
        <5>1. ~(p > uxPriority[u]) \/ ~(p >= uxPriority[t])
          BY <2>2, <4>2 DEF YieldRequired
        <5>2. uxPriority[u] \in Nat /\ uxPriority[t] \in Nat
          BY <1>2, <1>3, ControlFacts
        <5>3. p <= uxPriority[u] \/ p <= uxPriority[t]
          BY <1>4, <5>1, <5>2
        <5> QED BY <1>1, <1>2, <1>3, <1>4, <4>2, <5>2, <5>3, ControlFacts DEF Highest
      <4> QED BY <4>1, <4>2
    <3>2. SwitchIsDue => SwitchIsDue'
      BY <1>1, <1>2 DEF SwitchIsDue
    <3> QED BY <3>1, <3>2, ControlFacts DEF HighestInv
  <2> QED BY <2>1, <2>2
<1> QED BY <1>3, <1>6, <1>7, <1>8 DEF SwitchInv

LEMMA DeleteSwitch ==
    ASSUME IInv, NEW t, NEW u, vTaskDelete(t, u)
    PROVE  SwitchInv'
<1>1. /\ Executes(t) /\ t # Idle /\ pc[t] \in {"run", "hold"} /\ (u = t => uxSchedulerSuspended = 0)
      /\ pc' = [pc EXCEPT ![u] = IF u = t THEN "yield" ELSE "run"]
      /\ xTasksWaitingTermination' = IF u = t THEN xTasksWaitingTermination \cup {t}
                                              ELSE xTasksWaitingTermination
      /\ UNCHANGED <<uxPriority, uxSchedulerSuspended, xYieldPending, pxCurrentTCB, pendSV, masked,
                     xSwitchRequired>>
  BY DEF vTaskDelete, Calls, InApplication, Goto, priorities, switching, interrupts
<1>2. t = pxCurrentTCB /\ t \in Ready /\ masked = "no" /\ ~pendSV /\ t \in AllTasks
  BY <1>1, RunsReady, ControlFacts
<1>3. ListsInv' /\ Ready' = Ready \ {u} /\ u \in AllTasks \ {Idle}
  BY DeleteLists, VictimsAreTasks, ControlFacts DEF vTaskDelete
<1>4. /\ pc' \in [AllTasks -> PCs] /\ \A v \in AllTasks \ {u} : pc'[v] = pc[v]
      /\ pc'[u] = IF u = t THEN "yield" ELSE "run"
  BY <1>1, <1>3, ControlFacts DEF ControlTypes, PCs
<1>5. ControlTypes'
  BY <1>1, <1>4, ControlFacts DEF ControlTypes
<1>6. ControlInv'
  <2>1. CASE u = t
    BY <1>1, <1>2, <1>3, <1>4, <2>1, ControlFacts DEF ControlInv, Holding, ControlTypes
  <2>2. CASE u # t
    BY <1>1, <1>2, <1>3, <1>4, <2>2, ControlFacts DEF ControlInv, Holding, ControlTypes
  <2> QED BY <2>1, <2>2
<1>7. HighestInv'
  <2>1. Highest(pxCurrentTCB) => Highest(pxCurrentTCB)'
    BY <1>1, <1>3 DEF Highest
  <2>2. SwitchIsDue => SwitchIsDue'
    BY <1>1, <1>2, <1>4 DEF SwitchIsDue
  <2> QED BY <2>1, <2>2, ControlFacts DEF HighestInv
<1> QED BY <1>3, <1>5, <1>6, <1>7 DEF SwitchInv

LEMMA CreateSwitch ==
    ASSUME IInv, NEW t, NEW u, xTaskCreate(t, u)
    PROVE  SwitchInv'
<1>1. /\ Executes(t) /\ t # Idle /\ pc[t] \in {"run", "hold"}
      /\ pc' = [pc EXCEPT ![t] = IF uxPriority[t] < InitPrio[u] THEN "yield" ELSE pc[t]]
      /\ UNCHANGED <<xTasksWaitingTermination, uxSchedulerSuspended, xYieldPending, pxCurrentTCB, pendSV,
                     masked, xSwitchRequired>>
  BY DEF xTaskCreate, Calls, InApplication, Goto, switching, interrupts
<1>2. t = pxCurrentTCB /\ t \in Ready /\ masked = "no" /\ ~pendSV /\ t \in AllTasks
  BY <1>1, RunsReady, ControlFacts
<1>3. /\ ListsInv' /\ Ready' = Ready \cup {u} /\ u \notin Ready /\ u \in AllTasks
      /\ uxPriority' \in PrioType /\ uxPriority' = [uxPriority EXCEPT ![u] = InitPrio[u]]
  BY CreateLists, ControlFacts
<1>4. /\ pc' \in [AllTasks -> PCs] /\ \A v \in AllTasks \ {t} : pc'[v] = pc[v]
      /\ pc'[t] = IF uxPriority[t] < InitPrio[u] THEN "yield" ELSE pc[t]
  BY <1>1, <1>2, ControlFacts DEF ControlTypes, PCs
<1>5. /\ uxPriority'[u] = InitPrio[u] /\ \A v \in AllTasks \ {u} : uxPriority'[v] = uxPriority[v]
      /\ InitPrio[u] \in Nat /\ u # t
  BY <1>2, <1>3, PrioritiesAreNats, SchedulerAssumption, ControlFacts DEF ControlTypes, PrioType
<1>6. ControlTypes'
  BY <1>1, <1>3, <1>4, ControlFacts DEF ControlTypes
<1>7. ControlInv'
  BY <1>1, <1>2, <1>3, <1>4, ControlFacts DEF ControlInv, Holding, ControlTypes
<1>8. HighestInv'
  <2>1. CASE uxPriority[t] < InitPrio[u]
    BY <1>1, <1>2, <1>4, <2>1 DEF HighestInv, SwitchIsDue
  <2>2. CASE ~(uxPriority[t] < InitPrio[u])
    <3>1. InitPrio[u] <= uxPriority[t]
      BY <1>2, <1>5, <2>2, ControlFacts
    <3>2. Highest(pxCurrentTCB) => Highest(pxCurrentTCB)'
      BY <1>1, <1>2, <1>3, <1>5, <3>1, ControlFacts DEF Highest
    <3>3. SwitchIsDue => SwitchIsDue'
      BY <1>1, <1>2, <1>4, <2>2 DEF SwitchIsDue
    <3> QED BY <3>2, <3>3, ControlFacts DEF HighestInv
  <2> QED BY <2>1, <2>2
<1> QED BY <1>3, <1>6, <1>7, <1>8 DEF SwitchInv

\* The idle task goes on, with the lists as they are.
LEMMA IdleMoves ==
    ASSUME IInv, NEW from \in IdlePCs, NEW to \in IdlePCs, IdleAt(from), pc' = [pc EXCEPT ![Idle] = to],
           to \in Holding => from \in Holding, pendSV' \in BOOLEAN,
           UNCHANGED <<ready, blockLists, xTasksWaitingTermination, eventLists, uxPriority, uxSchedulerSuspended,
                       xYieldPending, pxCurrentTCB, masked, xSwitchRequired>>
    PROVE  SwitchInv'
<1>1. Idle = pxCurrentTCB /\ Idle \in Ready /\ masked = "no" /\ ~pendSV /\ pc[Idle] = from /\ Idle \in AllTasks
  BY ControlFacts DEF IdleAt, Executes
<1>2. /\ pc' \in [AllTasks -> PCs] /\ \A u \in AllTasks \ {Idle} : pc'[u] = pc[u]
      /\ pc'[Idle] = to
  BY <1>1, ControlFacts DEF ControlTypes, PCs, IdlePCs
<1>3. ListsInv' /\ Ready' = Ready
  BY ListsStay, ControlFacts DEF PendingOnly, eventLists
<1>4. ControlTypes'
  BY <1>2, ControlFacts DEF ControlTypes
<1>5. ControlInv'
  <2>1. to \in Holding => uxSchedulerSuspended > 0
    BY <1>1, ControlFacts DEF ControlInv
  <2>2. \A t \in AllTasks : pc'[t] \in Holding => t = Idle /\ uxSchedulerSuspended > 0
    BY <1>1, <1>2, <2>1, ControlFacts DEF ControlInv
  <2> QED BY <1>1, <1>2, <1>3, <2>2, ControlFacts DEF ControlInv
<1>6. HighestInv'
  BY <1>1, <1>2, <1>3, ControlFacts DEF HighestInv, Highest, SwitchIsDue, IdlePCs
<1> QED BY <1>3, <1>4, <1>5, <1>6 DEF SwitchInv

LEMMA ReclaimSwitch ==
    ASSUME IInv, NEW u, Reclaim(u)
    PROVE  SwitchInv'
<1>1. /\ pxCurrentTCB = Idle /\ u \in xTasksWaitingTermination /\ masked = "no" /\ ~pendSV
      /\ xTasksWaitingTermination' = xTasksWaitingTermination \ {u} /\ pc' = [pc EXCEPT ![u] = "run"]
      /\ UNCHANGED <<uxPriority, uxSchedulerSuspended, xYieldPending, pxCurrentTCB, pendSV, masked, xSwitchRequired>>
  BY DEF Reclaim, IdleAt, Executes, Goto, priorities, switching, interrupts
<1>2. u \in AllTasks /\ u # Idle
  BY <1>1, ControlFacts
<1>3. ListsInv' /\ Ready' = Ready
  BY ReclaimLists, ControlFacts
<1>4. pc' \in [AllTasks -> PCs] /\ pc'[u] = "run" /\ \A v \in AllTasks \ {u} : pc'[v] = pc[v]
  BY <1>1, <1>2, ControlFacts DEF ControlTypes, PCs
<1>5. ControlTypes'
  BY <1>1, <1>4, ControlFacts DEF ControlTypes
<1>6. ControlInv'
  BY <1>1, <1>2, <1>3, <1>4, ControlFacts DEF ControlInv, Holding
<1>7. HighestInv'
  BY <1>1, <1>2, <1>3, <1>4, ControlFacts DEF HighestInv, Highest, SwitchIsDue
<1> QED BY <1>3, <1>5, <1>6, <1>7 DEF SwitchInv

LEMMA IdleSwitch ==
    ASSUME IInv, IdleStep
    PROVE  SwitchInv'
<1> USE DEF IdlePCs, Holding
<1>1. pendSV \in BOOLEAN
  BY ControlFacts DEF ControlTypes
<1>2. CASE \E u \in Tasks : Reclaim(u)
  BY <1>2, ReclaimSwitch
<1>3. CASE IdleChecked
  <2>1. /\ IdleAt("run") /\ pc' = [pc EXCEPT ![Idle] = "idleYield"] /\ pendSV' = pendSV
        /\ UNCHANGED <<ready, blockLists, xTasksWaitingTermination, eventLists, uxPriority, uxSchedulerSuspended,
                       xYieldPending, pxCurrentTCB, masked, xSwitchRequired>>
    BY <1>3 DEF IdleChecked, IdleGoes, Goto, priorities, interrupts
  <2> QED BY <1>1, <2>1, IdleMoves
<1>4. CASE IdleYields
  <2>1. PICK to \in {"idleTest", "run"} :
           /\ IdleAt("idleYield") /\ pc' = [pc EXCEPT ![Idle] = to] /\ pendSV' \in BOOLEAN
           /\ UNCHANGED <<ready, blockLists, xTasksWaitingTermination, eventLists, uxPriority, uxSchedulerSuspended,
                          xYieldPending, pxCurrentTCB, masked, xSwitchRequired>>
    BY <1>4 DEF IdleYields, IdleGoes, Goto, YieldIf, priorities, interrupts
  <2> QED BY <2>1, IdleMoves
<1>5. CASE IdleTests
  <2>1. PICK to \in {"idleSuspend", "run"} :
           /\ IdleAt("idleTest") /\ pc' = [pc EXCEPT ![Idle] = to] /\ pendSV' = pendSV
           /\ UNCHANGED <<ready, blockLists, xTasksWaitingTermination, eventLists, uxPriority, uxSchedulerSuspended,
                          xYieldPending, pxCurrentTCB, masked, xSwitchRequired>>
    BY <1>5 DEF IdleTests, IdleGoes, Goto, priorities, interrupts
  <2> QED BY <1>1, <2>1, IdleMoves
<1>6. CASE IdleSuspends
  BY <1>6, SuspendAllSwitch DEF IdleSuspends, IdleAt
<1>7. CASE IdleSamples
  <2>1. PICK to \in {"idleSleep", "idleResume"} :
           /\ IdleAt("idleSample") /\ pc' = [pc EXCEPT ![Idle] = to] /\ pendSV' = pendSV
           /\ UNCHANGED <<ready, blockLists, xTasksWaitingTermination, eventLists, uxPriority, uxSchedulerSuspended,
                          xYieldPending, pxCurrentTCB, masked, xSwitchRequired>>
    BY <1>7 DEF IdleSamples, IdleGoes, Goto, priorities, interrupts
  <2> QED BY <1>1, <2>1, IdleMoves
<1>8. CASE AbortsSleep \/ SleepsThrough \/ IsWoken
  <2>1. /\ IdleAt("idleSleep") /\ pc' = [pc EXCEPT ![Idle] = "idleResume"] /\ pendSV' = pendSV
        /\ UNCHANGED <<ready, blockLists, xTasksWaitingTermination, eventLists, uxPriority, uxSchedulerSuspended,
                       xYieldPending, pxCurrentTCB, masked, xSwitchRequired>>
    BY <1>8 DEF AbortsSleep, SleepsThrough, IsWoken, Sleep, IdleGoes, Goto, priorities, switching, interrupts
  <2> QED BY <1>1, <2>1, IdleMoves
<1> QED BY <1>2, <1>3, <1>4, <1>5, <1>6, <1>7, <1>8 DEF IdleStep

\* Every step.
LEMMA NextSwitch ==
    ASSUME IInv, [Next]_vars
    PROVE  SwitchInv'
<1>1. ASSUME NEW t \in Tasks,
             Delay(t) \/ DelayUntil(t) \/ Wait(t) \/ Hold(t) \/ Signal(t) \/ Yield(t) \/ ReadTickCount(t)
      PROVE  SwitchInv'
  <2>1. CASE Delay(t) \/ DelayUntil(t) \/ Wait(t) \/ Hold(t)
    BY <2>1, SuspendAllSwitch DEF Delay, DelayUntil, Wait, Hold, Calls, InApplication
  <2> QED BY <1>1, <2>1, SignalSwitch, YieldSwitch, ReadSwitch
<1>2. ASSUME NEW t \in Tasks, NEW u \in Victims,
             \/ vTaskSuspend(t, u) \/ vTaskResume(t, u) \/ vTaskDelete(t, u) \/ xTaskCreate(t, u)
             \/ \E p \in NewPriorities : vTaskPrioritySet(t, u, p)
      PROVE  SwitchInv'
  BY <1>2, SuspendTaskSwitch, ResumeTaskSwitch, DeleteSwitch, CreateSwitch, PrioritySwitch
<1>3. ASSUME NEW t \in AllTasks, Continue(t)
      PROVE  SwitchInv'
  BY <1>3, BlockSwitch, ResumeSwitch, ResetSwitch, YieldSwitch DEF Continue
<1>4. CASE Tick \/ TickSuspended \/ PendSV \/ Loops
  BY <1>4, TickSwitch, TickSuspendedSwitch, PendSVSwitch, WakeSwitch, WakeEndsSwitch, DrainSwitch,
     PendedTickSwitch, ResumeEndsSwitch DEF Loops
<1>5. CASE SignalFromISR \/ \E u \in Victims : xTaskResumeFromISR(u)
  BY <1>5, SignalSwitch, ResumeTaskSwitch
<1>6. CASE UNCHANGED vars
  <2>1. UNCHANGED <<ready, blockLists, xTasksWaitingTermination, eventLists, uxPriority, uxSchedulerSuspended,
                    xYieldPending, pxCurrentTCB, pendSV, masked, xSwitchRequired, pc>>
    BY <1>6 DEF vars, priorities, switching, interrupts
  <2>2. ListsInv' /\ Ready' = Ready
    BY <2>1, ListsStay, ControlFacts DEF PendingOnly, eventLists
  <2>3. ControlTypes'
    BY <2>1, ControlFacts DEF ControlTypes
  <2>4. ControlInv'
    BY <2>1, <2>2, ControlFacts DEF ControlInv
  <2>5. HighestInv'
    BY <2>1, <2>2, ControlFacts DEF HighestInv, Highest, SwitchIsDue
  <2> QED BY <2>2, <2>3, <2>4, <2>5 DEF SwitchInv
<1> QED BY <1>1, <1>2, <1>3, <1>4, <1>5, <1>6, IdleSwitch DEF Next
-----------------------------------------------------------------------------
(* The times, and xNextTaskUnblockTime. *)

TimeInv == TimeTypes /\ UnblockInv

LEMMA ModType ==
    /\ portMAX_DELAY \in Nat /\ TickModulus \in Nat /\ Delays \subseteq 1 .. portMAX_DELAY
    /\ \A x \in Int : x % TickModulus \in 0 .. portMAX_DELAY
<1>1. TickModulus \in Nat /\ TickModulus > 0 /\ Delays \subseteq 1 .. TickModulus - 1
  BY SchedulerAssumption
<1>2. ASSUME NEW x \in Int PROVE x % TickModulus \in 0 .. TickModulus - 1
  BY <1>1
<1> QED BY <1>1, <1>2 DEF portMAX_DELAY

LEMMA TimeFacts ==
    ASSUME IInv
    PROVE  /\ TimeTypes /\ UnblockInv /\ pc \in [AllTasks -> PCs] /\ pxDelayedTaskList \in Seq(AllTasks)
           /\ pxOverflowDelayedTaskList \in Seq(AllTasks) /\ pxCurrentTCB \in AllTasks
  BY TypeParts DEF IInv, ControlTypes, ListsInv, BlockInv

\* The list of the head's wake times.
LEMMA UnblockTimeType ==
    ASSUME IInv, NEW l \in Seq(AllTasks)
    PROVE  UnblockTime(l) \in Int
<1>1. CASE l = << >>
  BY <1>1, ModType DEF UnblockTime
<1>2. CASE l # << >>
  <2>1. Head(l) \in AllTasks
    BY <1>2, HeadIn
  <2> QED BY <1>2, <2>1, ModType, TimeFacts DEF UnblockTime, TimeTypes
<1> QED BY <1>1, <1>2

\* Where the tasks are, in as far as the times depend on it.
PlacesStay ==
    /\ Resetting => Resetting'
    /\ \A t \in AllTasks : pc'[t] = "delayUntil" => t \in Periodic

LEMMA PcStays == ASSUME IInv, UNCHANGED pc PROVE PlacesStay
  BY TimeFacts DEF PlacesStay, Resetting, TimeTypes

LEMMA PcMoves ==
    ASSUME IInv, NEW t \in AllTasks, NEW x, Goto(t, x), pc[t] \notin {"resetSelf", "reset"},
           x = "delayUntil" => t \in Periodic
    PROVE  PlacesStay
<1>1. pc'[t] = x /\ \A u \in AllTasks \ {t} : pc'[u] = pc[u]
  BY TimeFacts DEF Goto
<1> QED BY <1>1, TimeFacts DEF PlacesStay, Resetting, TimeTypes

\* The delayed list and the time of its first wake are left as they are.
LEMMA TimeStays ==
    ASSUME IInv, PlacesStay, UNCHANGED <<pxDelayedTaskList, xItemValue, xNextTaskUnblockTime>>,
           xTickCount' \in Int, xExpectedIdleTime' \in Int, xPreviousWakeTime' \in [Periodic -> Int],
           masked' \in {"no", "resumeAll"} => masked \in {"no", "resumeAll"}
    PROVE  TimeInv'
<1>1. TimeTypes'
  BY TimeFacts DEF TimeTypes, PlacesStay
<1>2. UnblockTime(pxDelayedTaskList)' = UnblockTime(pxDelayedTaskList)
  BY DEF UnblockTime
<1>3. UnblockInv'
  BY <1>2, TimeFacts DEF UnblockInv, PlacesStay
<1> QED BY <1>1, <1>3 DEF TimeInv

\* The time of the first wake is read from the list.
LEMMA TimeRead ==
    ASSUME IInv, \A t \in AllTasks : pc'[t] = "delayUntil" => t \in Periodic,
           xItemValue' \in [AllTasks -> 0 .. portMAX_DELAY], pxDelayedTaskList' \in Seq(AllTasks),
           \A t \in ToSet(pxDelayedTaskList') : xItemValue'[t] = xItemValue[t],
           xNextTaskUnblockTime' = UnblockTime(pxDelayedTaskList'),
           xTickCount' \in Int, xExpectedIdleTime' \in Int, xPreviousWakeTime' \in [Periodic -> Int]
    PROVE  TimeInv'
<1>1. TimeTypes'
  BY UnblockTimeType DEF TimeTypes
<1>2. UnblockTime(pxDelayedTaskList)' = UnblockTime(pxDelayedTaskList')
  <2>1. CASE pxDelayedTaskList' = << >>
    BY <2>1 DEF UnblockTime
  <2>2. CASE pxDelayedTaskList' # << >>
    <3>1. Head(pxDelayedTaskList') \in ToSet(pxDelayedTaskList')
      BY <2>2, HeadIn
    <3> QED BY <2>2, <3>1 DEF UnblockTime
  <2> QED BY <2>1, <2>2
<1>3. UnblockInv'
  BY <1>2 DEF UnblockInv
<1> QED BY <1>1, <1>3 DEF TimeInv

LEMMA Forgotten ==
    ASSUME IInv, NEW u \in AllTasks, xItemValue' = [xItemValue EXCEPT ![u] = 0]
    PROVE  /\ xItemValue' \in [AllTasks -> 0 .. portMAX_DELAY]
           /\ \A t \in AllTasks \ {u} : xItemValue'[t] = xItemValue[t]
  BY TimeFacts, ModType DEF TimeTypes

LEMMA vListInsertHead ==
    ASSUME NEW S, NEW s \in Seq(S), NEW x \in S, NEW value
    PROVE  Head(vListInsert(s, x, value)) = IF s # << >> /\ value[s[1]] <= value[x] THEN s[1] ELSE x
<1> DEFINE L == LeadingNotAbove(s, value[x], value)
           n == Cardinality(L) + 1
           r == InsertAt(s, n, x)
<1>1. Len(s) \in Nat /\ DOMAIN s = 1 .. Len(s) /\ (s = << >> <=> Len(s) = 0)
  BY LenProperties, EmptySeq
<1>2. Cardinality(L) \in 0 .. Len(s)
  BY LeadingBound
<1>3. n \in 1 .. Len(s) + 1
  BY <1>1, <1>2
<1>4. vListInsert(s, x, value) = r
  BY DEF vListInsert
<1>5. IsFiniteSet(L)
  <2>1. L \subseteq 1 .. Len(s)
    BY <1>1 DEF LeadingNotAbove
  <2>2. IsFiniteSet(1 .. Len(s))
    BY <1>1, FS_Interval
  <2> QED BY <2>1, <2>2, FS_Subset
<1> HIDE DEF n
<1>6. /\ r \in Seq(S) /\ Len(r) = Len(s) + 1
      /\ \A i \in 1 .. n - 1 : r[i] = s[i]
      /\ r[n] = x
  BY <1>3, InsertAtProperties
<1> HIDE DEF r
<1>7. Head(r) = r[1]
  BY <1>1, <1>6, EmptySeq, HeadTailProperties
<1>8. CASE s # << >> /\ value[s[1]] <= value[x]
  <2>1. 1 \in L
    BY <1>1, <1>8 DEF LeadingNotAbove
  <2>2. Cardinality(L) # 0
    BY <1>5, <2>1, FS_EmptySet
  <2>3. 1 \in 1 .. n - 1
    BY <1>2, <2>2, <1>1 DEF n
  <2> QED BY <1>4, <1>6, <1>7, <1>8, <2>3
<1>9. CASE ~(s # << >> /\ value[s[1]] <= value[x])
  <2>1. L = {}
    <3> SUFFICES ASSUME NEW i \in L PROVE FALSE
      OBVIOUS
    <3>1. i \in 1 .. Len(s) /\ \A j \in 1 .. i : value[s[j]] <= value[x]
      BY <1>1 DEF LeadingNotAbove
    <3>2. 1 \in 1 .. i /\ s # << >>
      BY <1>1, <3>1
    <3> QED BY <1>9, <3>1, <3>2
  <2>2. n = 1
    BY <2>1, FS_EmptySet DEF n
  <2> QED BY <1>4, <1>6, <1>7, <1>9, <2>2
<1> QED BY <1>8, <1>9

LEMMA TickTime ==
    ASSUME IInv, Tick \/ PendedTick
    PROVE  TimeInv'
<1>1. /\ xTickCount' = NextTick /\ taskSWITCH_DELAYED_LISTS /\ masked \in {"no", "resumeAll"}
      /\ UNCHANGED <<xItemValue, pc, xExpectedIdleTime, xPreviousWakeTime>>
  BY DEF Tick, PendedTick, IncrementTick
<1>2. NextTick \in Int
  BY TimeFacts, ModType DEF TimeTypes, NextTick
<1>3. PlacesStay
  BY <1>1, PcStays
<1>4. CASE NextTick = 0
  BY <1>1, <1>2, <1>3, <1>4, TimeRead, TimeFacts DEF TimeTypes, PlacesStay, taskSWITCH_DELAYED_LISTS,
     prvResetNextTaskUnblockTime
<1>5. CASE NextTick # 0
  BY <1>1, <1>2, <1>3, <1>5, TimeStays, TimeFacts DEF TimeTypes, taskSWITCH_DELAYED_LISTS
<1> QED BY <1>4, <1>5

LEMMA WakeTime ==
    ASSUME IInv, WakeDelayed
    PROVE  TimeInv'
<1> DEFINE w == Head(pxDelayedTaskList)
<1>1. /\ xItemValue' = [xItemValue EXCEPT ![w] = 0] /\ masked' \in {"tick", "pendedTick"}
      /\ UNCHANGED <<xTickCount, xNextTaskUnblockTime, pc, xExpectedIdleTime, xPreviousWakeTime>>
  BY DEF WakeDelayed, Unblock, OutOfBlockLists, periods
<1>2. w \in AllTasks
  BY HeadIn, TimeFacts DEF WakeDelayed, HeadIsDue
<1> HIDE DEF w
<1>3. TimeTypes'
  BY <1>1, <1>2, Forgotten, TimeFacts DEF TimeTypes
<1>4. UnblockInv'
  BY <1>1 DEF UnblockInv
<1> QED BY <1>3, <1>4 DEF TimeInv

LEMMA WakeEndsTime ==
    ASSUME IInv, WakeLoopEnds
    PROVE  TimeInv'
<1>1. /\ xNextTaskUnblockTime' = UnblockTime(pxDelayedTaskList)
      /\ UNCHANGED <<pxDelayedTaskList, xItemValue, xTickCount, pc, xExpectedIdleTime, xPreviousWakeTime>>
  BY DEF WakeLoopEnds, blockLists, time, periods
<1>2. PlacesStay
  BY <1>1, PcStays
<1> QED BY <1>1, <1>2, TimeRead, TimeFacts DEF TimeTypes, PlacesStay

\* The steps that leave the wake times alone.
LEMMA SameTime ==
    ASSUME IInv, PlacesStay,
           UNCHANGED <<pxDelayedTaskList, xItemValue, xTickCount, xNextTaskUnblockTime, xExpectedIdleTime,
                       xPreviousWakeTime>>,
           masked' \in {"no", "resumeAll"} => masked \in {"no", "resumeAll"}
    PROVE  TimeInv'
  BY TimeStays, TimeFacts DEF TimeTypes

LEMMA TaskLeaves ==
    ASSUME IInv, NEW u \in AllTasks, OutOfBlockLists(u)
    PROVE  /\ pxDelayedTaskList' \in Seq(AllTasks)
           /\ xItemValue' \in [AllTasks -> 0 .. portMAX_DELAY]
           /\ \A t \in ToSet(pxDelayedTaskList') : xItemValue'[t] = xItemValue[t]
           /\ u \notin ToSet(pxDelayedTaskList) => pxDelayedTaskList' = pxDelayedTaskList
<1>1. pxDelayedTaskList' = Without(pxDelayedTaskList, u) /\ xItemValue' = [xItemValue EXCEPT ![u] = 0]
  BY DEF OutOfBlockLists
<1>2. pxDelayedTaskList \in Seq(AllTasks) /\ NoDuplicates(pxDelayedTaskList)
  BY DEF IInv, ListsInv, BlockInv
<1>3. pxDelayedTaskList' \in Seq(AllTasks) /\ ToSet(pxDelayedTaskList') = ToSet(pxDelayedTaskList) \ {u}
  BY <1>1, <1>2, WithoutProperties
<1>4. ToSet(pxDelayedTaskList) \subseteq AllTasks
  BY <1>2, LenProperties DEF ToSet
<1>5. u \notin ToSet(pxDelayedTaskList) => pxDelayedTaskList' = pxDelayedTaskList
  BY <1>1 DEF Without
<1> QED BY <1>1, <1>3, <1>4, <1>5, Forgotten

LEMMA EventHeads ==
    ASSUME IInv
    PROVE  /\ xPendingReadyList # << >> => Head(xPendingReadyList) \in AllTasks
           /\ xEventList # << >> => Head(xEventList) \in AllTasks
  BY HeadIn DEF IInv, ListsInv, EventInv

LEMMA DrainTime ==
    ASSUME IInv, DrainPending
    PROVE  TimeInv'
<1> DEFINE w == Head(xPendingReadyList)
<1>1. /\ xPendingReadyList # << >> /\ OutOfBlockLists(w)
      /\ xNextTaskUnblockTime' = UnblockTime(pxDelayedTaskList')
      /\ UNCHANGED <<xTickCount, pc, xExpectedIdleTime, xPreviousWakeTime>>
  BY DEF DrainPending, Unblock, prvResetNextTaskUnblockTime, periods
<1>2. w \in AllTasks
  BY <1>1, EventHeads
<1> HIDE DEF w
<1>3. PlacesStay
  BY <1>1, PcStays
<1> QED BY <1>1, <1>2, <1>3, TaskLeaves, TimeRead, TimeFacts DEF TimeTypes, PlacesStay

LEMMA SignalTime ==
    ASSUME IInv, xTaskRemoveFromEventList, masked = "no"
    PROVE  TimeInv'
<1> DEFINE w == Head(xEventList)
<1>1. /\ xEventList # << >> /\ UNCHANGED <<xTickCount, masked, pc, xExpectedIdleTime, xPreviousWakeTime>>
  BY DEF xTaskRemoveFromEventList, interrupts, periods
<1>2. w \in AllTasks
  BY <1>1, EventHeads
<1>3. PlacesStay
  BY <1>1, PcStays
<1>4. CASE uxSchedulerSuspended = 0
  <2>1. OutOfBlockLists(w) /\ xNextTaskUnblockTime' = UnblockTime(pxDelayedTaskList')
    BY <1>4 DEF xTaskRemoveFromEventList, Unblock, prvResetNextTaskUnblockTime
  <2> HIDE DEF w
  <2> QED BY <1>1, <1>2, <1>3, <2>1, TaskLeaves, TimeRead, TimeFacts DEF TimeTypes, PlacesStay
<1>5. CASE uxSchedulerSuspended # 0
  <2>1. UNCHANGED <<pxDelayedTaskList, xItemValue, xNextTaskUnblockTime>>
    BY <1>5 DEF xTaskRemoveFromEventList, blockLists
  <2> QED BY <1>1, <1>3, <2>1, TimeStays, TimeFacts DEF TimeTypes
<1> QED BY <1>4, <1>5

LEMMA SuspendTime ==
    ASSUME IInv, NEW t, NEW u, vTaskSuspend(t, u), t \in AllTasks, u \in AllTasks
    PROVE  TimeInv'
<1>1. /\ OutOfBlockLists(u) /\ Goto(t, IF u = t THEN "resetSelf" ELSE "reset")
      /\ pc[t] \in {"run", "hold"}
      /\ UNCHANGED <<xTickCount, xNextTaskUnblockTime, xExpectedIdleTime, xPreviousWakeTime>>
  BY DEF vTaskSuspend, Calls, InApplication, periods
<1>2. PlacesStay
  BY <1>1, PcMoves
<1>3. TimeTypes'
  BY <1>1, <1>2, TaskLeaves, TimeFacts DEF TimeTypes, PlacesStay
<1>4. pc'[t] \in {"resetSelf", "reset"}
  BY <1>1, TimeFacts DEF Goto
<1>5. UnblockInv'
  BY <1>4 DEF UnblockInv, Resetting
<1> QED BY <1>3, <1>5 DEF TimeInv

LEMMA ResetTime ==
    ASSUME IInv, NEW t \in AllTasks, ResetUnblockTime(t)
    PROVE  TimeInv'
<1>1. /\ xNextTaskUnblockTime' = UnblockTime(pxDelayedTaskList)
      /\ UNCHANGED <<pxDelayedTaskList, xItemValue, xTickCount, xExpectedIdleTime, xPreviousWakeTime>>
      /\ \E x \in {"yield", "hold", "run"} : Goto(t, x)
  BY DEF ResetUnblockTime, blockLists, time, periods
<1>2. \A u \in AllTasks : pc'[u] = "delayUntil" => u \in Periodic
  <2>1. PICK x \in {"yield", "hold", "run"} : Goto(t, x)
    BY <1>1
  <2>2. pc'[t] = x /\ \A u \in AllTasks \ {t} : pc'[u] = pc[u]
    BY <2>1, TimeFacts DEF Goto
  <2> QED BY <2>1, <2>2, TimeFacts DEF TimeTypes
<1> QED BY <1>1, <1>2, TimeRead, TimeFacts DEF TimeTypes

LEMMA DeleteTime ==
    ASSUME IInv, NEW t, NEW u, vTaskDelete(t, u), t \in AllTasks, u \in AllTasks
    PROVE  TimeInv'
<1>1. /\ OutOfBlockLists(u) /\ Executes(t) /\ pc[t] \in {"run", "hold"}
      /\ UNCHANGED <<xTickCount, masked, xExpectedIdleTime, xPreviousWakeTime>>
  BY DEF vTaskDelete, Calls, InApplication, interrupts, periods
<1>2. CASE u = t
  <2>1. Goto(t, "yield") /\ UNCHANGED xNextTaskUnblockTime
    BY <1>2 DEF vTaskDelete
  <2>2. PlacesStay
    BY <1>1, <2>1, PcMoves
  <2>3. t \notin ToSet(pxDelayedTaskList)
    BY <1>1, RunsReady DEF IInv, ListsInv, BlockInv, D
  <2>4. pxDelayedTaskList' = pxDelayedTaskList
    BY <1>1, <1>2, <2>3, TaskLeaves
  <2>5. TimeTypes'
    BY <1>1, <2>1, <2>2, TaskLeaves, TimeFacts DEF TimeTypes, PlacesStay
  <2>6. UnblockTime(pxDelayedTaskList)' = UnblockTime(pxDelayedTaskList)
    <3>1. pxDelayedTaskList # << >> => Head(pxDelayedTaskList) \in ToSet(pxDelayedTaskList)
      BY HeadIn, TimeFacts
    <3> QED BY <1>1, <2>4, <3>1, TaskLeaves DEF UnblockTime
  <2>7. UnblockInv'
    BY <1>1, <2>1, <2>2, <2>6, TimeFacts DEF UnblockInv, PlacesStay
  <2> QED BY <2>5, <2>7 DEF TimeInv
<1>3. CASE u # t
  <2>1. Goto(u, "run") /\ xNextTaskUnblockTime' = UnblockTime(pxDelayedTaskList')
    BY <1>3 DEF vTaskDelete, prvResetNextTaskUnblockTime
  <2>2. \A v \in AllTasks : pc'[v] = "delayUntil" => v \in Periodic
    <3>1. pc'[u] = "run" /\ \A v \in AllTasks \ {u} : pc'[v] = pc[v]
      BY <2>1, TimeFacts DEF Goto
    <3> QED BY <3>1, TimeFacts DEF TimeTypes
  <2> QED BY <1>1, <2>1, <2>2, TaskLeaves, TimeRead, TimeFacts DEF TimeTypes
<1> QED BY <1>2, <1>3

\* A task that is not in the delayed list enters the list its wake time belongs to.
LEMMA BlockedTime ==
    ASSUME IInv, NEW ticks \in Int, NEW indefinitely \in BOOLEAN, pxCurrentTCB \notin D,
           prvAddCurrentTaskToDelayedList(ticks, indefinitely)
    PROVE  /\ xItemValue' \in [AllTasks -> 0 .. portMAX_DELAY] /\ xNextTaskUnblockTime' \in Int
           /\ xNextTaskUnblockTime = UnblockTime(pxDelayedTaskList)
              => xNextTaskUnblockTime' = UnblockTime(pxDelayedTaskList)'
<1> DEFINE t  == pxCurrentTCB
           at == (xTickCount + ticks) % TickModulus
           s  == pxDelayedTaskList
<1>1. at \in 0 .. portMAX_DELAY /\ portMAX_DELAY \in Nat
  BY ModType, TimeFacts DEF TimeTypes
<1>2. t \in AllTasks /\ s \in Seq(AllTasks) /\ t \notin ToSet(s)
  BY TimeFacts DEF D
<1>3. xItemValue \in [AllTasks -> 0 .. portMAX_DELAY] /\ xNextTaskUnblockTime \in Int
  BY TimeFacts DEF TimeTypes
<1>4. \/ UNCHANGED <<pxDelayedTaskList, xItemValue, xNextTaskUnblockTime>>
      \/ xItemValue' = [xItemValue EXCEPT ![t] = at] /\ UNCHANGED <<pxDelayedTaskList, xNextTaskUnblockTime>>
      \/ /\ xItemValue' = [xItemValue EXCEPT ![t] = at] /\ s' = vListInsert(s, t, xItemValue')
         /\ xNextTaskUnblockTime' = IF at < xNextTaskUnblockTime THEN at ELSE xNextTaskUnblockTime
  BY DEF prvAddCurrentTaskToDelayedList, InsertOverflow, InsertDelayed
<1> HIDE DEF at
<1>5. CASE UNCHANGED <<pxDelayedTaskList, xItemValue, xNextTaskUnblockTime>>
  BY <1>3, <1>5 DEF UnblockTime
<1>6. ASSUME xItemValue' = [xItemValue EXCEPT ![t] = at]
      PROVE  /\ xItemValue' \in [AllTasks -> 0 .. portMAX_DELAY] /\ xItemValue'[t] = at
             /\ s # << >> => Head(s) \in AllTasks /\ Head(s) # t /\ xItemValue'[Head(s)] = xItemValue[Head(s)]
                             /\ Head(s) = s[1]
  <2>1. s # << >> => Head(s) \in AllTasks /\ Head(s) \in ToSet(s) /\ Head(s) = s[1]
    BY <1>2, HeadIn
  <2> QED BY <1>1, <1>2, <1>3, <1>6, <2>1
<1>7. CASE xItemValue' = [xItemValue EXCEPT ![t] = at] /\ UNCHANGED <<pxDelayedTaskList, xNextTaskUnblockTime>>
  BY <1>3, <1>6, <1>7 DEF UnblockTime
<1>8. CASE /\ xItemValue' = [xItemValue EXCEPT ![t] = at] /\ s' = vListInsert(s, t, xItemValue')
           /\ xNextTaskUnblockTime' = IF at < xNextTaskUnblockTime THEN at ELSE xNextTaskUnblockTime
  <2>1. s' # << >>
    <3>1. ToSet(s') = ToSet(s) \cup {t}
      BY <1>2, <1>8, vListInsertProperties
    <3> QED BY <3>1, EmptyToSet
  <2>2. Head(s') = IF s # << >> /\ xItemValue'[s[1]] <= xItemValue'[t] THEN s[1] ELSE t
    BY <1>2, <1>8, vListInsertHead
  <2>3. UnblockTime(pxDelayedTaskList)' = xItemValue'[Head(s')]
    BY <2>1 DEF UnblockTime
  <2>4. UnblockTime(pxDelayedTaskList) = IF s = << >> THEN portMAX_DELAY ELSE xItemValue[s[1]]
    BY <1>6, <1>8 DEF UnblockTime
  <2>5. CASE s = << >>
    <3>1. UnblockTime(pxDelayedTaskList)' = at
      BY <1>6, <1>8, <2>2, <2>3, <2>5
    <3> QED BY <1>1, <1>3, <1>6, <1>8, <2>4, <2>5, <3>1
  <2>6. CASE s # << >>
    <3>1. xItemValue[s[1]] \in 0 .. portMAX_DELAY /\ xItemValue'[s[1]] = xItemValue[s[1]] /\ xItemValue'[t] = at
      BY <1>3, <1>6, <1>8, <2>6
    <3>2. UnblockTime(pxDelayedTaskList)' = IF xItemValue[s[1]] <= at THEN xItemValue[s[1]] ELSE at
      BY <2>2, <2>3, <2>6, <3>1
    <3> QED BY <1>1, <1>3, <1>6, <1>8, <2>4, <2>6, <3>1, <3>2
  <2> QED BY <2>5, <2>6
<1> QED BY <1>4, <1>5, <1>7, <1>8

LEMMA BlockTime ==
    ASSUME IInv, NEW t \in AllTasks, DelayTicks(t) \/ DelayUntilTicks(t) \/ vTaskPlaceOnEventList(t)
    PROVE  TimeInv'
<1>1. /\ Executes(t) /\ pc[t] \in {"delay", "delayUntil", "wait"} /\ Goto(t, "resumeAll")
      /\ UNCHANGED <<xTickCount, masked, xExpectedIdleTime>>
  BY DEF DelayTicks, DelayUntilTicks, vTaskPlaceOnEventList, interrupts
<1>2. PlacesStay
  BY <1>1, PcMoves
<1>3. t = pxCurrentTCB /\ t \notin D
  BY <1>1, RunsReady DEF IInv, ListsInv, BlockInv
<1>4. portMAX_DELAY \in Int /\ Delays \subseteq Int
  BY ModType
<1>5. xPreviousWakeTime' \in [Periodic -> Int]
      /\ \/ UNCHANGED <<pxDelayedTaskList, xItemValue, xNextTaskUnblockTime>>
         \/ \E ticks \in Int, indefinitely \in BOOLEAN : prvAddCurrentTaskToDelayedList(ticks, indefinitely)
  <2>1. CASE DelayTicks(t)
    BY <1>4, <2>1, TimeFacts DEF DelayTicks, periods, TimeTypes
  <2>2. CASE vTaskPlaceOnEventList(t)
    BY <1>4, <2>2, TimeFacts DEF vTaskPlaceOnEventList, periods, TimeTypes
  <2>3. CASE DelayUntilTicks(t)
    <3>1. t \in Periodic /\ xPreviousWakeTime[t] \in Int /\ xTickCount \in Int
      BY <2>3, TimeFacts DEF DelayUntilTicks, TimeTypes
    <3>2. PICK increment \in Delays :
             LET previous == xPreviousWakeTime[t]
                 wake     == (previous + increment) % TickModulus
             IN  /\ xPreviousWakeTime' = [xPreviousWakeTime EXCEPT ![t] = wake]
                 /\ IF ShouldDelay(previous, wake, xTickCount)
                    THEN prvAddCurrentTaskToDelayedList((wake - xTickCount) % TickModulus, FALSE)
                    ELSE UNCHANGED <<blockLists, xItemValue, xNextTaskUnblockTime>>
      BY <2>3 DEF DelayUntilTicks
    <3> DEFINE wake == (xPreviousWakeTime[t] + increment) % TickModulus
    <3>3. wake \in Int
      BY <1>4, <3>1, ModType
    <3>4. (wake - xTickCount) % TickModulus \in Int
      BY <3>1, <3>3, ModType
    <3>5. /\ xPreviousWakeTime' = [xPreviousWakeTime EXCEPT ![t] = wake]
          /\ \/ prvAddCurrentTaskToDelayedList((wake - xTickCount) % TickModulus, FALSE)
             \/ UNCHANGED <<blockLists, xItemValue, xNextTaskUnblockTime>>
      BY <3>2
    <3> HIDE DEF wake
    <3>6. xPreviousWakeTime' \in [Periodic -> Int]
      BY <3>3, <3>5, TimeFacts DEF TimeTypes
    <3> QED BY <3>4, <3>5, <3>6 DEF blockLists
  <2> QED BY <2>1, <2>2, <2>3
<1>6. CASE UNCHANGED <<pxDelayedTaskList, xItemValue, xNextTaskUnblockTime>>
  BY <1>1, <1>2, <1>5, <1>6, TimeStays, TimeFacts DEF TimeTypes
<1>7. CASE \E ticks \in Int, indefinitely \in BOOLEAN : prvAddCurrentTaskToDelayedList(ticks, indefinitely)
  <2>1. PICK ticks \in Int, indefinitely \in BOOLEAN : prvAddCurrentTaskToDelayedList(ticks, indefinitely)
    BY <1>7
  <2>2. /\ xItemValue' \in [AllTasks -> 0 .. portMAX_DELAY] /\ xNextTaskUnblockTime' \in Int
        /\ xNextTaskUnblockTime = UnblockTime(pxDelayedTaskList)
           => xNextTaskUnblockTime' = UnblockTime(pxDelayedTaskList)'
    BY <1>3, <2>1, BlockedTime
  <2>3. TimeTypes'
    BY <1>1, <1>2, <1>5, <2>2, TimeFacts DEF TimeTypes, PlacesStay
  <2>4. UnblockInv'
    BY <1>1, <1>2, <2>2, TimeFacts DEF UnblockInv, PlacesStay
  <2> QED BY <2>3, <2>4 DEF TimeInv
<1> QED BY <1>5, <1>6, <1>7

\* The calls and interrupts that neither block a task nor wake one.
LEMMA CallTime ==
    ASSUME IInv, NEW t \in AllTasks,
           \/ Delay(t) \/ DelayUntil(t) \/ Wait(t) \/ Hold(t) \/ Yield(t)
           \/ \E u \in Victims : vTaskResume(t, u) \/ \E p \in NewPriorities : vTaskPrioritySet(t, u, p)
    PROVE  TimeInv'
<1>1. /\ UNCHANGED <<pxDelayedTaskList, xItemValue, xTickCount, xNextTaskUnblockTime, xExpectedIdleTime,
                     xPreviousWakeTime, masked>>
      /\ \/ UNCHANGED pc
         \/ /\ pc[t] \notin {"resetSelf", "reset"}
            /\ \E x \in {"run", "hold", "delay", "wait"} : Goto(t, x)
         \/ pc[t] = "run" /\ Goto(t, "delayUntil") /\ t \in Periodic
  <2>1. CASE Delay(t) \/ Wait(t) \/ Hold(t)
    BY <2>1 DEF Delay, Wait, Hold, vTaskSuspendAll, Calls, InApplication, blockLists, interrupts, time, periods
  <2>2. CASE DelayUntil(t)
    <3>1. t \in Periodic
      BY <2>2 DEF DelayUntil, Calls, InApplication, Periodic, AllTasks
    <3> QED BY <2>2, <3>1 DEF DelayUntil, vTaskSuspendAll, blockLists, interrupts, time, periods
  <2>3. CASE Yield(t)
    BY <2>3 DEF Yield, blockLists, interrupts, time, periods
  <2>4. CASE \E u \in Victims : vTaskResume(t, u) \/ \E p \in NewPriorities : vTaskPrioritySet(t, u, p)
    BY <2>4 DEF vTaskResume, vTaskPrioritySet, blockLists, interrupts, time, periods
  <2> QED BY <2>1, <2>2, <2>3, <2>4
<1>2. PlacesStay
  BY <1>1, PcMoves, PcStays
<1> QED BY <1>1, <1>2, SameTime

LEMMA CreateTime ==
    ASSUME IInv, NEW t \in AllTasks, NEW u, xTaskCreate(t, u)
    PROVE  TimeInv'
<1>1. /\ UNCHANGED <<pxDelayedTaskList, xItemValue, xTickCount, xNextTaskUnblockTime, xExpectedIdleTime,
                     xPreviousWakeTime, masked>>
      /\ pc[t] \in {"run", "hold"} /\ \E x \in {"run", "hold", "yield"} : Goto(t, x)
  BY DEF xTaskCreate, Calls, InApplication, blockLists, interrupts, time, periods
<1>2. PlacesStay
  BY <1>1, PcMoves
<1> QED BY <1>1, <1>2, SameTime

LEMMA ReadTime ==
    ASSUME IInv, NEW t \in AllTasks, ReadTickCount(t)
    PROVE  TimeInv'
<1>1. /\ UNCHANGED <<pxDelayedTaskList, xItemValue, xTickCount, xNextTaskUnblockTime, xExpectedIdleTime, masked, pc>>
      /\ xPreviousWakeTime' = [xPreviousWakeTime EXCEPT ![t] = xTickCount]
  BY DEF ReadTickCount, blockLists, interrupts, time
<1>2. xPreviousWakeTime' \in [Periodic -> Int]
  BY <1>1, TimeFacts DEF TimeTypes
<1> QED BY <1>1, <1>2, PcStays, TimeStays, TimeFacts DEF TimeTypes

\* The steps of the kernel itself that leave the delayed list alone.
LEMMA KernelTime ==
    ASSUME IInv,
           \/ TickSuspended \/ PendSV \/ ResumeAllEnds
           \/ \E t \in AllTasks : ResumeNested(t) \/ ResumeAll(t)
           \/ \E u \in Victims : xTaskResumeFromISR(u)
    PROVE  TimeInv'
<1>1. /\ UNCHANGED <<pxDelayedTaskList, xItemValue, xTickCount, xNextTaskUnblockTime, xExpectedIdleTime,
                     xPreviousWakeTime>>
      /\ masked \in {"no", "resumeAll"}
      /\ \/ UNCHANGED pc
         \/ /\ pc[pxCurrentTCB] \notin {"resetSelf", "reset"}
            /\ \E x \in {"run", "yield"} : Goto(pxCurrentTCB, x)
  <2>1. CASE TickSuspended \/ PendSV
    BY <2>1 DEF TickSuspended, PendSV, blockLists, interrupts, time, periods
  <2>2. CASE ResumeAllEnds
    <3>1. pc[pxCurrentTCB] \in {"hold", "resumeAll", "idleResume"}
      BY <2>2, ControlFacts DEF ResumeAllEnds, ControlInv
    <3> QED BY <2>2, <3>1 DEF ResumeAllEnds, ReturnsTo, blockLists, time, periods
  <2>3. CASE \E t \in AllTasks : ResumeNested(t) \/ ResumeAll(t)
    BY <2>3 DEF ResumeNested, ResumeAll, Resumes, Executes, blockLists, interrupts, time, periods
  <2>4. CASE \E u \in Victims : xTaskResumeFromISR(u)
    BY <2>4 DEF xTaskResumeFromISR, blockLists, interrupts, time, periods
  <2> QED BY <2>1, <2>2, <2>3, <2>4
<1>2. PlacesStay
  BY <1>1, PcMoves, PcStays, TimeFacts
<1> QED BY <1>1, <1>2, SameTime

LEMMA SleepTime ==
    ASSUME IInv, IdleStep
    PROVE  TimeInv'
<1>1. CASE \E u \in Tasks : Reclaim(u)
  <2>1. PICK u \in Tasks : Reclaim(u)
    BY <1>1
  <2>2. /\ UNCHANGED <<pxDelayedTaskList, xItemValue, xTickCount, xNextTaskUnblockTime, xExpectedIdleTime,
                       xPreviousWakeTime, masked>>
        /\ u \in xTasksWaitingTermination /\ Goto(u, "run")
    BY <2>1 DEF Reclaim, blockLists, interrupts, time, periods
  <2>3. pc[u] \notin {"resetSelf", "reset"} /\ u \in AllTasks
    BY <2>2, ControlFacts DEF ControlInv
  <2>4. PlacesStay
    BY <2>2, <2>3, PcMoves
  <2> QED BY <2>2, <2>4, SameTime
<1>2. CASE IdleChecked \/ IdleYields \/ IdleTests \/ IdleSuspends \/ IdleSamples \/ AbortsSleep \/ SleepsThrough \/ IsWoken
  <2>1. /\ UNCHANGED <<pxDelayedTaskList, xItemValue, xNextTaskUnblockTime, xPreviousWakeTime, masked>>
        /\ \E from \in IdlePCs, to \in IdlePCs : pc[Idle] = from /\ Goto(Idle, to)
    BY <1>2 DEF IdleChecked, IdleYields, IdleTests, IdleSuspends, IdleSamples, AbortsSleep, SleepsThrough, IsWoken,
       Sleep, IdleGoes, IdleAt, IdlePCs, vTaskSuspendAll, blockLists, interrupts, time, periods
  <2>2. PlacesStay
    BY <2>1, PcMoves, ControlFacts DEF IdlePCs
  <2>3. prvGetExpectedIdleTime \in Int
    BY ModType, TimeFacts DEF prvGetExpectedIdleTime, TimeTypes
  <2>4. xExpectedIdleTime \in Int /\ xTickCount \in Int /\ 0 \in Int
    BY TimeFacts DEF TimeTypes
  <2>5. Suppressed \in Int
    BY <2>4, SchedulerAssumption DEF Suppressed
  <2>6. xTickCount' \in Int /\ xExpectedIdleTime' \in Int
    <3>1. CASE IdleChecked \/ IdleYields \/ IdleTests \/ IdleSuspends
      BY <2>4, <3>1 DEF IdleChecked, IdleYields, IdleTests, IdleSuspends, IdleGoes, vTaskSuspendAll, time
    <3>2. CASE IdleSamples \/ AbortsSleep
      BY <2>3, <2>4, <3>2 DEF IdleSamples, AbortsSleep, IdleGoes, time
    <3>3. CASE SleepsThrough \/ IsWoken
      <4>1. PICK count \in Int : xTickCount' = xTickCount + count /\ xExpectedIdleTime' = 0
        BY <2>5, <3>3 DEF SleepsThrough, IsWoken, Sleep
      <4> QED BY <2>4, <4>1
    <3> QED BY <1>2, <3>1, <3>2, <3>3
  <2> QED BY <2>1, <2>2, <2>6, TimeStays, TimeFacts DEF TimeTypes
<1> QED BY <1>1, <1>2 DEF IdleStep

\* Every step.
LEMMA NextTime ==
    ASSUME IInv, [Next]_vars
    PROVE  TimeInv'
<1>1. ASSUME NEW t \in Tasks,
             \/ Delay(t) \/ DelayUntil(t) \/ Wait(t) \/ Hold(t) \/ Signal(t) \/ Yield(t) \/ ReadTickCount(t)
             \/ \E u \in Victims : \/ vTaskSuspend(t, u) \/ vTaskResume(t, u)
                                  \/ vTaskDelete(t, u) \/ xTaskCreate(t, u)
                                  \/ \E p \in NewPriorities : vTaskPrioritySet(t, u, p)
      PROVE  TimeInv'
  <2>1. t \in AllTasks /\ Victims \subseteq AllTasks
    BY SchedulerAssumption DEF AllTasks
  <2>2. Signal(t) => masked = "no" /\ xTaskRemoveFromEventList
    BY DEF Signal, Calls, InApplication, Executes
  <2>3. CASE Signal(t) \/ ReadTickCount(t)
    BY <2>1, <2>2, <2>3, SignalTime, ReadTime
  <2>4. CASE \E u \in Victims : vTaskSuspend(t, u) \/ vTaskDelete(t, u) \/ xTaskCreate(t, u)
    BY <2>1, <2>4, SuspendTime, DeleteTime, CreateTime
  <2> QED BY <1>1, <2>1, <2>3, <2>4, CallTime
<1>2. ASSUME NEW t \in AllTasks, Continue(t)
      PROVE  TimeInv'
  BY <1>2, BlockTime, KernelTime, ResetTime, CallTime DEF Continue
<1>3. CASE Tick \/ TickSuspended \/ PendSV \/ Loops
  BY <1>3, TickTime, KernelTime, WakeTime, WakeEndsTime, DrainTime DEF Loops
<1>4. CASE SignalFromISR \/ \E u \in Victims : xTaskResumeFromISR(u)
  BY <1>4, SignalTime, KernelTime DEF SignalFromISR
<1>5. CASE UNCHANGED vars
  <2>1. UNCHANGED <<pxDelayedTaskList, xItemValue, xTickCount, xNextTaskUnblockTime, xExpectedIdleTime,
                    xPreviousWakeTime, masked, pc>>
    BY <1>5 DEF vars, blockLists, interrupts, time, periods
  <2> QED BY <2>1, PcStays, SameTime
<1> QED BY <1>1, <1>2, <1>3, <1>4, <1>5, SleepTime DEF Next
-----------------------------------------------------------------------------
(* The initial states. *)

LEMMA InitIInv ==
    ASSUME Init
    PROVE  IInv
<1>1. /\ ready = [lists |-> [p \in Priorities |->
                     [items |-> SetToSeq({t \in AllTasks : InitPrio[t] = p}), idx |-> 0]],
                  top   |-> {InitPrio[t] : t \in AllTasks}]
      /\ uxPriority = InitPrio
  BY DEF Init
<1>2. /\ InitPrio \in [AllTasks -> Priorities] /\ Idle \in AllTasks /\ Idle \notin Tasks
      /\ IsFiniteSet(AllTasks) /\ InitPrio[Idle] = 0
  BY SchedulerAssumption, FS_AddElement DEF AllTasks
<1>3. /\ ReadySound(ready, uxPriority, AllTasks, Priorities)
      /\ BitsExact(ready, Priorities) /\ BitsSet(ready, Priorities)
      /\ \A t \in AllTasks : In(ready, uxPriority, t)
  BY <1>1, <1>2, InitReady
<1>6. \A t \in AllTasks : InReadyList(t)
  BY <1>3 DEF InReadyList, In
<1>7. ReadyOK(ready, uxPriority)
  BY <1>3 DEF ReadyOK, BitsExact
<1>8. Ready = AllTasks
  BY <1>6 DEF Ready
<1>9. ListsInv
  <2>1. /\ pxDelayedTaskList = << >> /\ pxOverflowDelayedTaskList = << >> /\ xEventList = << >>
        /\ xPendingReadyList = << >> /\ xSuspendedTaskList = {} /\ xTasksWaitingTermination = {}
    BY DEF Init
  <2>2. << >> \in Seq(AllTasks) /\ NoDuplicates(<< >>)
    BY EmptySeq DEF NoDuplicates
  <2>3. BlockInv
    BY <1>2, <1>8, <2>1, <2>2, EmptyToSet DEF BlockInv, D, O
  <2>4. EventInv
    BY <2>1, <2>2, EmptyToSet DEF EventInv, EventItemsAreOfBlockedTasks
  <2> QED BY <1>7, <2>3, <2>4 DEF ListsInv
<1>10. TypesInv
  <2>1. xItemValue = [t \in AllTasks |-> 0] /\ xPreviousWakeTime = [t \in Periodic |-> 0] /\ pc = [t \in AllTasks |-> "run"]
    BY DEF Init
  <2>2. /\ xItemValue \in [AllTasks -> 0 .. portMAX_DELAY] /\ xPreviousWakeTime \in [Periodic -> Int]
        /\ pc \in [AllTasks -> PCs] /\ \A t \in AllTasks : pc[t] # "delayUntil"
    BY <2>1, ModType DEF PCs
  <2>3. xNextTaskUnblockTime \in Int
    BY ModType DEF Init
  <2>4. /\ xTickCount \in Int /\ xExpectedIdleTime \in Int /\ uxSchedulerSuspended \in Nat
        /\ pxCurrentTCB \in AllTasks /\ masked = "no"
    BY DEF Init
  <2>6. xYieldPending \in BOOLEAN /\ pendSV \in BOOLEAN /\ xSwitchRequired \in BOOLEAN
    BY DEF Init
  <2>5. uxPriority \in PrioType
    BY <1>1, <1>2 DEF PrioType
  <2> QED BY <2>2, <2>3, <2>4, <2>5, <2>6 DEF TypesInv
<1>11. ControlInv
  BY <1>2, <1>8 DEF Init, ControlInv, IdlePCs, Holding
<1>12. HighestInv
  BY <1>1, <1>8 DEF Init, HighestInv, Highest
<1>13. UnblockInv
  BY DEF Init, UnblockInv, UnblockTime
<1> QED BY <1>9, <1>10, <1>11, <1>12, <1>13 DEF IInv
-----------------------------------------------------------------------------
(* The theorems. *)

\* The inductive invariant of the lists, the pended switch and the next unblock time
\* (tasks.c) holds in every reachable state.
THEOREM Invariance == Spec => []IInv
<1>1. Init => IInv
  BY InitIInv
<1>2. IInv /\ [Next]_vars => IInv'
  BY NextSwitch, NextTime, TypeParts DEF SwitchInv, TimeInv, IInv
<1> QED BY <1>1, <1>2, PTL DEF Spec

\* Every task is in one list of the scheduler at most, once, and its event item is
\* in a list only while the task is blocked, whatever tasks and interrupts do to
\* each other: vTaskSuspend, vTaskDelete, the wake loop and xTaskResumeAll take both
\* items of a task out of wherever they are.
THEOREM EveryTaskIsListed == Spec => []TasksAreListed
<1>1. ASSUME IInv PROVE TasksAreListed
  <2>1. ListsInv
    BY <1>1 DEF IInv
  <2>2. EventItemsAreOfBlockedTasks
    BY <2>1 DEF ListsInv, EventInv
  <2>3. ASSUME NEW t \in AllTasks
        PROVE  ReadyAt(t) \subseteq {uxPriority[t]} /\ (ReadyAt(t) # {} => t \in Ready)
    BY <2>1 DEF ListsInv, ReadyOK, ReadySound, ListOK, ReadyAt, Ready, InReadyList
  <2>4. ASSUME NEW t \in AllTasks
        PROVE  Cardinality({l \in {"ready", "delayed", "overflow", "suspended", "terminating"} :
                \/ l = "ready" /\ ReadyAt(t) # {}
                \/ l = "delayed" /\ t \in ToSet(pxDelayedTaskList)
                \/ l = "overflow" /\ t \in ToSet(pxOverflowDelayedTaskList)
                \/ l = "suspended" /\ t \in xSuspendedTaskList
                \/ l = "terminating" /\ t \in xTasksWaitingTermination}) <= 1
    <3> DEFINE lists == {l \in {"ready", "delayed", "overflow", "suspended", "terminating"} :
                \/ l = "ready" /\ ReadyAt(t) # {}
                \/ l = "delayed" /\ t \in ToSet(pxDelayedTaskList)
                \/ l = "overflow" /\ t \in ToSet(pxOverflowDelayedTaskList)
                \/ l = "suspended" /\ t \in xSuspendedTaskList
                \/ l = "terminating" /\ t \in xTasksWaitingTermination}
    <3>1. /\ "ready" \in lists => t \in Ready
          /\ "delayed" \in lists => t \in D
          /\ "overflow" \in lists => t \in O
          /\ "suspended" \in lists => t \in xSuspendedTaskList
          /\ "terminating" \in lists => t \in xTasksWaitingTermination
      BY <2>3 DEF D, O
    <3>2. \A l \in lists : l = "ready" \/ l = "delayed" \/ l = "overflow" \/ l = "suspended" \/ l = "terminating"
      OBVIOUS
    <3> HIDE DEF lists
    <3>3. \E l : lists \subseteq {l}
      <4>1. /\ t \in Ready => t \notin D \cup O \cup xSuspendedTaskList \cup xTasksWaitingTermination
            /\ t \in D => t \notin O \cup xSuspendedTaskList \cup xTasksWaitingTermination
            /\ t \in O => t \notin xSuspendedTaskList \cup xTasksWaitingTermination
            /\ t \in xSuspendedTaskList => t \notin xTasksWaitingTermination
        BY <2>1 DEF ListsInv, BlockInv
      <4>2. CASE t \in Ready
        <5>1. lists \subseteq {"ready"}
          BY <3>1, <3>2, <4>1, <4>2
        <5> QED BY <5>1
      <4>3. CASE t \in D
        <5>1. lists \subseteq {"delayed"}
          BY <3>1, <3>2, <4>1, <4>3
        <5> QED BY <5>1
      <4>4. CASE t \in O
        <5>1. lists \subseteq {"overflow"}
          BY <3>1, <3>2, <4>1, <4>4
        <5> QED BY <5>1
      <4>5. CASE t \in xSuspendedTaskList
        <5>1. lists \subseteq {"suspended"}
          BY <3>1, <3>2, <4>1, <4>5
        <5> QED BY <5>1
      <4>6. CASE t \notin Ready \cup D \cup O \cup xSuspendedTaskList
        <5>1. lists \subseteq {"terminating"}
          BY <3>1, <3>2, <4>6
        <5> QED BY <5>1
      <4> QED BY <4>2, <4>3, <4>4, <4>5, <4>6
    <3>4. PICK l : lists = {} \/ lists = {l}
      BY <3>3
    <3>5. Cardinality(lists) = 0 \/ Cardinality(lists) = 1
      BY <3>4, FS_EmptySet, FS_Singleton
    <3> QED BY <3>5 DEF lists
  <2>5. EveryTaskInOneList
    BY <2>1, <2>3, <2>4 DEF EveryTaskInOneList, ListsInv, ReadyOK, ReadySound, ListOK, BlockInv
  <2> QED BY <2>2, <2>5 DEF TasksAreListed
<1> QED BY <1>1, Invariance, PTL

\* taskSELECT_HIGHEST_PRIORITY_TASK finds a task in the list whose bit it read, and
\* overlooks none, for every number of priorities.
THEOREM ReadyBitsHold == Spec => []ReadyBitsAreExact
<1>1. IInv => ReadyBitsAreExact
  BY DEF IInv, ListsInv, ReadyOK, BitsExact, ReadyBitsAreExact
<1> QED BY <1>1, Invariance, PTL

\* No operation that makes a task ready, or changes a priority, forgets the context
\* switch it calls for: a task goes on with its own code only if none is more urgent.
THEOREM HighestRuns == Spec => []RunningIsHighest
<1>1. ASSUME IInv PROVE RunningIsHighest
  <2> SUFFICES ASSUME masked = "no", ~pendSV, uxSchedulerSuspended = 0,
                      pc[pxCurrentTCB] \notin {"yield", "resetSelf"}
               PROVE  /\ InReadyList(pxCurrentTCB)
                      /\ \A p \in Priorities : ready.lists[p].items # << >> => p <= uxPriority[pxCurrentTCB]
    BY DEF RunningIsHighest
  <2>1. pc[pxCurrentTCB] # "resumeAll"
    BY <1>1, ControlFacts DEF ControlInv, Holding, ControlTypes
  <2>2. pxCurrentTCB \in Ready
    BY <1>1, <2>1, ControlFacts DEF ControlInv
  <2>3. Highest(pxCurrentTCB)
    BY <1>1, ControlFacts DEF HighestInv, SwitchIsDue
  <2>4. ASSUME NEW p \in Priorities, ready.lists[p].items # << >>
        PROVE  p <= uxPriority[pxCurrentTCB]
    <3>1. ReadyOK(ready, uxPriority) /\ ready.lists[p].items \in Seq(AllTasks)
      BY <1>1 DEF IInv, ListsInv, ReadyOK, ReadySound, BitsExact, ReadyTypeOf, ListTypeOf
    <3>2. PICK u \in AllTasks : u \in ToSet(ready.lists[p].items)
      BY <2>4, <3>1, HeadIn
    <3>3. uxPriority[u] = p
      BY <3>1, <3>2 DEF ReadyOK, ReadySound, ListOK
    <3>4. u \in Ready
      BY <3>2, <3>3 DEF Ready, InReadyList
    <3> QED BY <2>3, <3>3, <3>4 DEF Highest
  <2> QED BY <2>2, <2>4 DEF Ready
<1> QED BY <1>1, Invariance, PTL

\* The tick looks at the delayed list when the first delayed task is due, neither
\* later nor in vain, across every wrap of the count.
THEOREM UnblockTimeHolds == Spec => []UnblockTimeIsExact
<1>1. IInv => UnblockTimeIsExact
  BY DEF IInv, UnblockInv, Resetting, UnblockTimeIsExact
<1> QED BY <1>1, Invariance, PTL
-----------------------------------------------------------------------------
(* When a delay ends. *)

Looping == masked \in {"tick", "pendedTick"}

ClockInv ==
    /\ xTickCount \in 0 .. portMAX_DELAY /\ xNextTaskUnblockTime \in 0 .. portMAX_DELAY
    /\ due \in [AllTasks -> 0 .. portMAX_DELAY]

\* The wake time of a delayed task is its due tick, in the overflow list one wrap
\* later; only the wake loop may find one that is due now.
DueInv ==
    /\ \A t \in D : /\ due[t] = xItemValue[t] - xTickCount
                    /\ due[t] > 0 \/ Looping
    /\ \A t \in O : xItemValue[t] < xTickCount /\ due[t] = xItemValue[t] + TickModulus - xTickCount
    /\ \A t \in AllTasks \ (D \cup O) : due[t] = 0

OrderInv == Ascending(pxDelayedTaskList, xItemValue) /\ Ascending(pxOverflowDelayedTaskList, xItemValue)

\* The next wake is not overlooked, though vTaskSuspend may have taken its task away.
WakeInv ==
    ~Looping => xTickCount <= xNextTaskUnblockTime /\ \A t \in D : xNextTaskUnblockTime <= xItemValue[t]

DelayInv == ClockInv /\ DueInv /\ OrderInv /\ WakeInv

\* A sleep that was planned is planned still.
SleepInv ==
    pc[Idle] = "idleSleep" =>
        /\ xExpectedIdleTime \in Nat \ {0, 1} /\ xTickCount + xExpectedIdleTime <= xNextTaskUnblockTime
        /\ Ready = {Idle}

LEMMA ModFacts ==
    /\ \A x \in 0 .. TickModulus - 1 : x % TickModulus = x
    /\ \A x \in TickModulus .. 2 * TickModulus - 1 : x % TickModulus = x - TickModulus
    /\ \A x \in -TickModulus .. -1 : x % TickModulus = x + TickModulus
<1> DEFINE M == TickModulus
<1>1. M \in Nat \ {0}
  BY SchedulerAssumption
<1> HIDE DEF M
<1>2. ASSUME NEW x \in 0 .. M - 1 PROVE x % M = x
  BY <1>1
<1>3. ASSUME NEW x \in M .. 2 * M - 1 PROVE x % M = x - M
  BY <1>1
<1>4. ASSUME NEW x \in -M .. -1 PROVE x % M = x + M
  BY <1>1
<1> QED BY <1>2, <1>3, <1>4 DEF M

LEMMA DelayFacts ==
    ASSUME IInv
    PROVE  /\ pxDelayedTaskList \in Seq(AllTasks) /\ pxOverflowDelayedTaskList \in Seq(AllTasks)
           /\ NoDuplicates(pxDelayedTaskList) /\ NoDuplicates(pxOverflowDelayedTaskList)
           /\ D \cap O = {} /\ D \subseteq AllTasks /\ O \subseteq AllTasks /\ Ready \cap (D \cup O) = {}
           /\ xItemValue \in [AllTasks -> 0 .. portMAX_DELAY]
           /\ portMAX_DELAY \in Nat /\ TickModulus = portMAX_DELAY + 1
<1>1. /\ pxDelayedTaskList \in Seq(AllTasks) /\ pxOverflowDelayedTaskList \in Seq(AllTasks)
      /\ NoDuplicates(pxDelayedTaskList) /\ NoDuplicates(pxOverflowDelayedTaskList)
      /\ D \cap O = {} /\ Ready \cap (D \cup O) = {}
  BY DEF IInv, ListsInv, BlockInv
<1>2. D \subseteq AllTasks /\ O \subseteq AllTasks
  BY <1>1, LenProperties DEF D, O, ToSet
<1>3. portMAX_DELAY \in Nat /\ TickModulus = portMAX_DELAY + 1
  BY SchedulerAssumption DEF portMAX_DELAY
<1> QED BY <1>1, <1>2, <1>3, TimeFacts DEF TimeTypes

\* The order of a list is that of the values of its items.
LEMMA OrderIsOfItems ==
    ASSUME NEW S, NEW s \in Seq(S), NEW v, NEW w, \A t \in ToSet(s) : v[t] = w[t], Ascending(s, v)
    PROVE  Ascending(s, w)
<1>1. \A i \in DOMAIN s : s[i] \in ToSet(s)
  BY DEF ToSet
<1> QED BY <1>1 DEF Ascending

LEMMA HeadIsFirst ==
    ASSUME NEW S, NEW s \in Seq(S), NEW value, Ascending(s, value), s # << >>
    PROVE  \A t \in ToSet(s) : value[Head(s)] <= value[t]
<1>1. Len(s) \in Nat /\ Len(s) # 0 /\ DOMAIN s = 1 .. Len(s) /\ Head(s) = s[1]
  BY LenProperties, EmptySeq, HeadIn
<1>2. \A i \in DOMAIN s : value[s[1]] <= value[s[i]]
  BY <1>1 DEF Ascending
<1> QED BY <1>1, <1>2 DEF ToSet

\* What the time of the first wake says of all.
LEMMA UnblockTimeIsFirst ==
    ASSUME IInv, ClockInv, NEW list \in Seq(AllTasks), Ascending(list, xItemValue),
           \A t \in ToSet(list) : xTickCount <= xItemValue[t]
    PROVE  /\ UnblockTime(list) \in 0 .. portMAX_DELAY /\ xTickCount <= UnblockTime(list)
           /\ \A t \in ToSet(list) : UnblockTime(list) <= xItemValue[t]
<1>1. CASE list = << >>
  BY <1>1, EmptyToSet, DelayFacts DEF UnblockTime, ClockInv
<1>2. CASE list # << >>
  <2>1. Head(list) \in AllTasks /\ Head(list) \in ToSet(list)
    BY <1>2, HeadIn
  <2>2. \A t \in ToSet(list) : xItemValue[Head(list)] <= xItemValue[t]
    BY <1>2, HeadIsFirst
  <2> QED BY <1>2, <2>1, <2>2, DelayFacts DEF UnblockTime
<1> QED BY <1>1, <1>2

LEMMA DelayedAhead ==
    ASSUME IInv, DelayInv
    PROVE  \A t \in D : xTickCount <= xItemValue[t]
<1> SUFFICES ASSUME NEW t \in D PROVE xTickCount <= xItemValue[t]
  OBVIOUS
<1>1. t \in AllTasks /\ due[t] = xItemValue[t] - xTickCount
  BY DelayFacts DEF DelayInv, DueInv
<1>2. due[t] \in 0 .. portMAX_DELAY /\ xItemValue[t] \in Int /\ xTickCount \in Int
  BY <1>1, DelayFacts DEF DelayInv, ClockInv
<1> QED BY <1>1, <1>2, DelayFacts

\* The steps that leave the delayed lists and the times alone.
LEMMA DelayStays ==
    ASSUME IInv, DelayInv,
           UNCHANGED <<pxDelayedTaskList, pxOverflowDelayedTaskList, xItemValue, xTickCount, due,
                       xNextTaskUnblockTime>>,
           Looping' <=> Looping
    PROVE  DelayInv'
  BY DEF DelayInv, ClockInv, DueInv, OrderInv, WakeInv, Ascending, D, O

\* A task leaves the lists.
LEMMA DelayLeaves ==
    ASSUME IInv, DelayInv, NEW u \in AllTasks, OutOfBlockLists(u), due' = [due EXCEPT ![u] = 0],
           UNCHANGED <<xTickCount, masked>>, xNextTaskUnblockTime' \in {xNextTaskUnblockTime, UnblockTime(pxDelayedTaskList')}
    PROVE  DelayInv'
<1> DEFINE s == pxDelayedTaskList'
           o == pxOverflowDelayedTaskList'
<1>1. /\ s = Without(pxDelayedTaskList, u) /\ o = Without(pxOverflowDelayedTaskList, u)
      /\ xItemValue' = [xItemValue EXCEPT ![u] = 0]
  BY DEF OutOfBlockLists
<1>2. s \in Seq(AllTasks) /\ o \in Seq(AllTasks) /\ D' = D \ {u} /\ O' = O \ {u} /\ ToSet(s) = D \ {u}
  BY <1>1, DelayFacts, WithoutProperties DEF D, O
<1>3. \A t \in AllTasks \ {u} : xItemValue'[t] = xItemValue[t] /\ due'[t] = due[t]
  BY <1>1, DelayFacts DEF DelayInv, ClockInv
<1>4. Ascending(s, xItemValue) /\ Ascending(o, xItemValue)
  BY <1>1, DelayFacts, RemoveKeepsOrder DEF Without, DelayInv, OrderInv
<1>5. OrderInv'
  <2>1. \A t \in ToSet(s) \cup ToSet(o) : xItemValue[t] = xItemValue'[t]
    BY <1>2, <1>3, DelayFacts DEF O
  <2> QED BY <1>2, <1>4, <2>1, OrderIsOfItems DEF OrderInv
<1>6. due' \in [AllTasks -> 0 .. portMAX_DELAY] /\ due'[u] = 0
  BY DelayFacts DEF DelayInv, ClockInv
<1>7. DueInv'
  <2>1. Looping' <=> Looping
    BY DEF Looping
  <2>2. ASSUME NEW t \in D' PROVE due'[t] = xItemValue'[t] - xTickCount' /\ (due'[t] > 0 \/ Looping')
    <3>1. t \in D /\ t \in AllTasks \ {u}
      BY <1>2, DelayFacts
    <3> QED BY <1>3, <2>1, <3>1 DEF DelayInv, DueInv
  <2>3. ASSUME NEW t \in O'
        PROVE  xItemValue'[t] < xTickCount' /\ due'[t] = xItemValue'[t] + TickModulus - xTickCount'
    <3>1. t \in O /\ t \in AllTasks \ {u}
      BY <1>2, DelayFacts
    <3> QED BY <1>3, <3>1 DEF DelayInv, DueInv
  <2>4. ASSUME NEW t \in AllTasks \ (D' \cup O') PROVE due'[t] = 0
    BY <1>2, <1>3, <1>6 DEF DelayInv, DueInv
  <2> QED BY <2>2, <2>3, <2>4 DEF DueInv
<1>8. \A t \in ToSet(s) : xTickCount <= xItemValue[t]
  BY <1>2, DelayedAhead
<1>9. /\ UnblockTime(s) \in 0 .. portMAX_DELAY /\ xTickCount <= UnblockTime(s)
      /\ \A t \in ToSet(s) : UnblockTime(s) <= xItemValue[t]
  BY <1>2, <1>4, <1>8, UnblockTimeIsFirst DEF DelayInv
<1>10. ClockInv'
  BY <1>6, <1>9 DEF DelayInv, ClockInv
<1>11. WakeInv'
  <2>1. \A t \in D' : t \in ToSet(s) /\ t \in D /\ xItemValue'[t] = xItemValue[t]
    BY <1>2, <1>3, DelayFacts
  <2> QED BY <1>9, <2>1 DEF DelayInv, WakeInv, Looping
<1> QED BY <1>5, <1>7, <1>10, <1>11 DEF DelayInv

\* A ready task that delays itself enters the list its wake time belongs to.
LEMMA DelayEnters ==
    ASSUME IInv, DelayInv, NEW ticks \in 1 .. portMAX_DELAY, NEW indefinitely \in BOOLEAN,
           pxCurrentTCB \in Ready, ~Looping, prvAddCurrentTaskToDelayedList(ticks, indefinitely),
           UNCHANGED <<xTickCount, masked>>
    PROVE  DelayInv'
<1> DEFINE t  == pxCurrentTCB
           at == (xTickCount + ticks) % TickModulus
           s  == pxDelayedTaskList
           o  == pxOverflowDelayedTaskList
<1>1. /\ t \in AllTasks /\ t \notin D \cup O /\ xTickCount \in 0 .. portMAX_DELAY
      /\ due \in [AllTasks -> 0 .. portMAX_DELAY] /\ xNextTaskUnblockTime \in 0 .. portMAX_DELAY
  BY DelayFacts, TimeFacts DEF DelayInv, ClockInv
<1>2. at = IF xTickCount + ticks < TickModulus THEN xTickCount + ticks ELSE xTickCount + ticks - TickModulus
  <2> DEFINE x == xTickCount + ticks
  <2>1. at = x % TickModulus
    OBVIOUS
  <2> HIDE DEF at
  <2>2. CASE x < TickModulus
    <3>1. x \in 0 .. TickModulus - 1
      BY <1>1, <2>2, DelayFacts
    <3> HIDE DEF x
    <3>2. at = x
      BY <2>1, <3>1, ModFacts
    <3> QED BY <2>2, <3>2 DEF x
  <2>3. CASE ~(x < TickModulus)
    <3>1. x \in TickModulus .. 2 * TickModulus - 1
      BY <1>1, <2>3, DelayFacts
    <3> HIDE DEF x
    <3>2. at = x - TickModulus
      BY <2>1, <3>1, ModFacts
    <3> QED BY <1>1, <2>3, <3>2, DelayFacts DEF x
  <2> QED BY <2>2, <2>3
<1>3. at \in 0 .. portMAX_DELAY
  BY <1>1, <1>2, DelayFacts
<1>4. \/ UNCHANGED <<s, o, xItemValue, due, xNextTaskUnblockTime>>
      \/ /\ xItemValue' = [xItemValue EXCEPT ![t] = at] /\ due' = [due EXCEPT ![t] = ticks]
         /\ \/ at < xTickCount /\ InsertOverflow(t)
            \/ at >= xTickCount /\ InsertDelayed(t, at)
  BY DEF prvAddCurrentTaskToDelayedList
<1> HIDE DEF at
<1>5. CASE UNCHANGED <<s, o, xItemValue, due, xNextTaskUnblockTime>>
  BY <1>5, DelayStays DEF Looping
<1>6. ASSUME xItemValue' = [xItemValue EXCEPT ![t] = at], due' = [due EXCEPT ![t] = ticks]
      PROVE  /\ \A u \in AllTasks \ {t} : xItemValue'[u] = xItemValue[u] /\ due'[u] = due[u]
             /\ xItemValue'[t] = at /\ due'[t] = ticks
             /\ xItemValue' \in [AllTasks -> 0 .. portMAX_DELAY] /\ due' \in [AllTasks -> 0 .. portMAX_DELAY]
             /\ xItemValue' \in [AllTasks -> Int]
             /\ Ascending(s, xItemValue') /\ Ascending(o, xItemValue')
  <2>1. /\ \A u \in AllTasks \ {t} : xItemValue'[u] = xItemValue[u] /\ due'[u] = due[u]
        /\ xItemValue'[t] = at /\ due'[t] = ticks
        /\ xItemValue' \in [AllTasks -> 0 .. portMAX_DELAY] /\ due' \in [AllTasks -> 0 .. portMAX_DELAY]
        /\ xItemValue' \in [AllTasks -> Int]
    BY <1>1, <1>3, <1>6, DelayFacts
  <2>2. \A u \in ToSet(s) \cup ToSet(o) : xItemValue[u] = xItemValue'[u]
    BY <1>1, <2>1, DelayFacts DEF D, O
  <2> QED BY <2>1, <2>2, OrderIsOfItems, DelayFacts DEF DelayInv, OrderInv
<1>7. CASE /\ xItemValue' = [xItemValue EXCEPT ![t] = at] /\ due' = [due EXCEPT ![t] = ticks]
           /\ at < xTickCount /\ InsertOverflow(t)
  <2>1. o' = vListInsert(o, t, xItemValue') /\ UNCHANGED <<s, xNextTaskUnblockTime>>
    BY <1>7 DEF InsertOverflow
  <2>2. D' = D /\ O' = O \cup {t}
    BY <1>1, <2>1, DelayFacts, vListInsertProperties DEF D, O
  <2>3. ClockInv'
    BY <1>1, <1>6, <1>7, <2>1 DEF ClockInv
  <2>4. DueInv'
    <3>1. \A u \in D : u \in AllTasks \ {t}
      BY <1>1, DelayFacts
    <3>2. \A u \in O : u \in AllTasks \ {t}
      BY <1>1, DelayFacts
    <3>3. at = xTickCount + ticks - TickModulus
      BY <1>1, <1>2, <1>7, DelayFacts
    <3>4. ticks = at + TickModulus - xTickCount
      BY <1>1, <3>3, DelayFacts
    <3> QED BY <1>6, <1>7, <2>2, <3>1, <3>2, <3>4 DEF DelayInv, DueInv, Looping
  <2>5. OrderInv'
    BY <1>1, <1>6, <1>7, <2>1, InsertKeepsOrder, DelayFacts DEF OrderInv
  <2>6. WakeInv'
    BY <1>1, <1>6, <1>7, <2>1, <2>2, DelayFacts DEF DelayInv, WakeInv, Looping
  <2> QED BY <2>3, <2>4, <2>5, <2>6 DEF DelayInv
<1>8. CASE /\ xItemValue' = [xItemValue EXCEPT ![t] = at] /\ due' = [due EXCEPT ![t] = ticks]
           /\ at >= xTickCount /\ InsertDelayed(t, at)
  <2>1. /\ s' = vListInsert(s, t, xItemValue') /\ UNCHANGED o
        /\ xNextTaskUnblockTime' = IF at < xNextTaskUnblockTime THEN at ELSE xNextTaskUnblockTime
    BY <1>8 DEF InsertDelayed
  <2>2. D' = D \cup {t} /\ O' = O
    BY <1>1, <2>1, DelayFacts, vListInsertProperties DEF D, O
  <2>3. ClockInv'
    BY <1>1, <1>3, <1>6, <1>8, <2>1 DEF ClockInv
  <2>4. DueInv'
    <3>1. \A u \in D : u \in AllTasks \ {t}
      BY <1>1, DelayFacts
    <3>2. \A u \in O : u \in AllTasks \ {t}
      BY <1>1, DelayFacts
    <3>3. at = xTickCount + ticks
      BY <1>1, <1>2, <1>8, DelayFacts
    <3>4. ticks = at - xTickCount /\ ticks > 0
      BY <1>1, <3>3
    <3> QED BY <1>6, <1>8, <2>2, <3>1, <3>2, <3>4 DEF DelayInv, DueInv, Looping
  <2>5. OrderInv'
    BY <1>1, <1>6, <1>8, <2>1, InsertKeepsOrder, DelayFacts DEF OrderInv
  <2>6. WakeInv'
    <3>1. \A u \in D : u \in AllTasks \ {t} /\ xNextTaskUnblockTime <= xItemValue[u] /\ xItemValue[u] \in Int
      BY <1>1, DelayFacts DEF DelayInv, WakeInv
    <3>2. xTickCount <= xNextTaskUnblockTime
      BY DEF DelayInv, WakeInv
    <3>3. /\ xNextTaskUnblockTime' \in Int /\ xNextTaskUnblockTime' <= xNextTaskUnblockTime
          /\ xNextTaskUnblockTime' <= at /\ xTickCount <= xNextTaskUnblockTime'
      BY <1>1, <1>3, <1>8, <2>1, <3>2
    <3>4. \A u \in D' : xNextTaskUnblockTime' <= xItemValue'[u]
      BY <1>1, <1>3, <1>6, <1>8, <2>2, <3>1, <3>3
    <3> QED BY <3>3, <3>4 DEF WakeInv
  <2> QED BY <2>3, <2>4, <2>5, <2>6 DEF DelayInv
<1> QED BY <1>4, <1>5, <1>7, <1>8

\* One tick of the count, and of every delay.
LEMMA DelayTick ==
    ASSUME IInv, DelayInv, NEW loop \in {"tick", "pendedTick"}, NEW otherwise \in {"no", "resumeAll"},
           IncrementTick(loop, otherwise), ~Looping, UNCHANGED xItemValue
    PROVE  DelayInv'
<1> DEFINE now == NextTick
<1>1. /\ xTickCount' = now /\ taskSWITCH_DELAYED_LISTS
      /\ due' = [t \in AllTasks |-> IF due[t] > 1 THEN due[t] - 1 ELSE 0]
      /\ masked' = IF now >= xNextTaskUnblockTime' THEN loop ELSE otherwise
  BY DEF IncrementTick, Pass
<1>2. /\ xTickCount \in 0 .. portMAX_DELAY /\ due \in [AllTasks -> 0 .. portMAX_DELAY]
      /\ \A t \in D : /\ due[t] = xItemValue[t] - xTickCount /\ due[t] > 0
                      /\ xItemValue[t] \in 0 .. portMAX_DELAY /\ t \in AllTasks
      /\ \A t \in O : /\ xItemValue[t] < xTickCount /\ due[t] = xItemValue[t] + TickModulus - xTickCount
                      /\ xItemValue[t] \in 0 .. portMAX_DELAY /\ t \in AllTasks
      /\ portMAX_DELAY \in Nat /\ TickModulus = portMAX_DELAY + 1
  BY DelayFacts DEF DelayInv, ClockInv, DueInv
<1>3. now = IF xTickCount = portMAX_DELAY THEN 0 ELSE xTickCount + 1
  <2> DEFINE x == xTickCount + 1
  <2>1. now = x % TickModulus
    BY DEF NextTick
  <2> HIDE DEF now
  <2>2. CASE xTickCount = portMAX_DELAY
    <3>1. x \in TickModulus .. 2 * TickModulus - 1 /\ x - TickModulus = 0
      BY <1>2, <2>2
    <3> HIDE DEF x
    <3>2. x % TickModulus = x - TickModulus
      BY <3>1, ModFacts
    <3> QED BY <2>1, <2>2, <3>1, <3>2
  <2>3. CASE xTickCount # portMAX_DELAY
    <3>1. x \in 0 .. TickModulus - 1
      BY <1>2, <2>3
    <3>2. x % TickModulus = x
      <4> HIDE DEF x
      <4> QED BY <3>1, ModFacts
    <3> QED BY <2>1, <2>3, <3>2
  <2> QED BY <2>2, <2>3
<1> HIDE DEF now
<1>4. now \in 0 .. portMAX_DELAY /\ (now = 0 <=> xTickCount = portMAX_DELAY)
  BY <1>2, <1>3
<1>5. due' \in [AllTasks -> 0 .. portMAX_DELAY] /\ \A t \in AllTasks : due[t] = 0 => due'[t] = 0
  BY <1>1, <1>2
<1>6. \A t \in AllTasks : due[t] > 0 => due'[t] = due[t] - 1
  BY <1>1, <1>2
<1>7. CASE now = 0
  <2>1. D = {} /\ xTickCount = portMAX_DELAY
    BY <1>2, <1>4, <1>7
  <2>2. /\ pxDelayedTaskList' = pxOverflowDelayedTaskList /\ pxOverflowDelayedTaskList' = pxDelayedTaskList
        /\ xNextTaskUnblockTime' = UnblockTime(pxOverflowDelayedTaskList)
    BY <1>1, <1>7 DEF taskSWITCH_DELAYED_LISTS, prvResetNextTaskUnblockTime, now
  <2>3. D' = O /\ O' = {}
    BY <2>1, <2>2 DEF D, O
  <2>4. OrderInv'
    BY <2>2 DEF DelayInv, OrderInv, Ascending
  <2>5. \A t \in O : due'[t] = xItemValue[t]
    <3> TAKE t \in O
    <3>1. due[t] = xItemValue[t] + 1 /\ t \in AllTasks
      BY <1>2, <2>1
    <3>2. due[t] > 0
      BY <1>2, <3>1
    <3>3. due'[t] = due[t] - 1
      BY <1>6, <3>1, <3>2
    <3> QED BY <1>2, <3>1, <3>3
  <2>6. /\ UnblockTime(pxOverflowDelayedTaskList) \in 0 .. portMAX_DELAY
        /\ \A t \in O : UnblockTime(pxOverflowDelayedTaskList) <= xItemValue[t]
    <3>1. CASE pxOverflowDelayedTaskList = << >>
      BY <1>2, <3>1, EmptyToSet DEF UnblockTime, O
    <3>2. CASE pxOverflowDelayedTaskList # << >>
      <4>1. Head(pxOverflowDelayedTaskList) \in O
        BY <3>2, HeadIn, DelayFacts DEF O
      <4>2. \A t \in O : xItemValue[Head(pxOverflowDelayedTaskList)] <= xItemValue[t]
        BY <3>2, HeadIsFirst, DelayFacts DEF O, DelayInv, OrderInv
      <4> QED BY <1>2, <3>2, <4>1, <4>2 DEF UnblockTime
    <3> QED BY <3>1, <3>2
  <2>7. ~Looping' => 0 < xNextTaskUnblockTime'
    BY <1>1, <1>7, <2>2, <2>6, <1>2 DEF Looping
  <2>8. ASSUME NEW t \in O PROVE due'[t] > 0 \/ Looping'
    <3>1. ~Looping' => 0 < xItemValue[t]
      BY <1>2, <2>2, <2>6, <2>7
    <3> QED BY <2>5, <3>1
  <2>9. DueInv'
    <3>1. \A t \in D' : due'[t] = xItemValue'[t] - xTickCount' /\ (due'[t] > 0 \/ Looping')
      BY <1>1, <1>2, <1>7, <2>3, <2>5, <2>8
    <3>2. \A t \in AllTasks \ (D' \cup O') : due'[t] = 0
      BY <1>5, <2>1, <2>3 DEF DelayInv, DueInv
    <3> QED BY <2>3, <3>1, <3>2 DEF DueInv
  <2>10. ClockInv'
    BY <1>1, <1>4, <1>5, <2>2, <2>6 DEF ClockInv
  <2>11. WakeInv'
    BY <1>1, <1>2, <1>7, <2>2, <2>3, <2>6, <2>7 DEF WakeInv
  <2> QED BY <2>4, <2>9, <2>10, <2>11 DEF DelayInv
<1>8. CASE now # 0
  <2>1. UNCHANGED <<pxDelayedTaskList, pxOverflowDelayedTaskList, xNextTaskUnblockTime>> /\ D' = D /\ O' = O
    BY <1>1, <1>8 DEF taskSWITCH_DELAYED_LISTS, now, D, O
  <2>2. now = xTickCount + 1 /\ xTickCount # portMAX_DELAY
    BY <1>3, <1>4, <1>8
  <2>3. OrderInv'
    BY <2>1 DEF DelayInv, OrderInv, Ascending
  <2>4. ~Looping' => now < xNextTaskUnblockTime
    BY <1>1, <1>4, <2>1, <1>2 DEF Looping, DelayInv, ClockInv
  <2>5. \A t \in D : xNextTaskUnblockTime <= xItemValue[t]
    BY DEF DelayInv, WakeInv
  <2>6. ASSUME NEW t \in D PROVE due'[t] = xItemValue[t] - now /\ (due'[t] > 0 \/ Looping')
    <3>1. due'[t] = due[t] - 1 /\ due[t] = xItemValue[t] - xTickCount
      BY <1>2, <1>6
    <3>2. due'[t] = xItemValue[t] - now
      BY <1>2, <2>2, <3>1
    <3>3. ~Looping' => now < xItemValue[t]
      BY <1>2, <1>4, <2>4, <2>5 DEF DelayInv, ClockInv
    <3> QED BY <1>2, <1>4, <3>2, <3>3
  <2>7. ASSUME NEW t \in O PROVE xItemValue[t] < now /\ due'[t] = xItemValue[t] + TickModulus - now
    <3>1. due[t] > 0
      BY <1>2
    <3>2. due'[t] = due[t] - 1
      BY <1>2, <1>6, <3>1
    <3> QED BY <1>2, <2>2, <3>2
  <2>8. \A t \in AllTasks \ (D \cup O) : due'[t] = 0
    BY <1>5 DEF DelayInv, DueInv
  <2>9. DueInv'
    BY <1>1, <2>1, <2>6, <2>7, <2>8 DEF DueInv
  <2>10. ClockInv'
    BY <1>1, <1>4, <1>5, <2>1 DEF ClockInv, DelayInv
  <2>11. WakeInv'
    BY <1>1, <1>2, <1>4, <2>1, <2>4, <2>5 DEF WakeInv, DelayInv, ClockInv
  <2> QED BY <2>3, <2>9, <2>10, <2>11 DEF DelayInv
<1> QED BY <1>7, <1>8

LEMMA DelayLoopEnds ==
    ASSUME IInv, DelayInv, WakeLoopEnds
    PROVE  DelayInv'
<1> DEFINE s == pxDelayedTaskList
<1>1. /\ ~HeadIsDue /\ xNextTaskUnblockTime' = UnblockTime(s) /\ ~Looping'
      /\ UNCHANGED <<pxDelayedTaskList, pxOverflowDelayedTaskList, xItemValue, xTickCount, due>>
  BY DEF WakeLoopEnds, blockLists, time, Looping
<1>2. D' = D /\ O' = O
  BY <1>1 DEF D, O
<1>3. OrderInv'
  BY <1>1 DEF DelayInv, OrderInv, Ascending
<1>4. /\ UnblockTime(s) \in 0 .. portMAX_DELAY /\ xTickCount <= UnblockTime(s)
      /\ \A t \in D : UnblockTime(s) <= xItemValue[t]
  BY UnblockTimeIsFirst, DelayedAhead, DelayFacts DEF D, DelayInv, OrderInv
<1>5. ASSUME NEW t \in D PROVE due[t] > 0
  <2>1. s # << >> /\ Head(s) \in D
    BY EmptyToSet, HeadIn, DelayFacts DEF D
  <2>2. xItemValue[Head(s)] <= xItemValue[t]
    BY <2>1, HeadIsFirst, DelayFacts DEF D, DelayInv, OrderInv
  <2>3. ~(xItemValue[Head(s)] <= xTickCount)
    BY <1>1, <2>1 DEF HeadIsDue
  <2>4. t \in AllTasks /\ Head(s) \in AllTasks
    BY <2>1, DelayFacts
  <2>5. xItemValue[t] \in Int /\ xItemValue[Head(s)] \in Int /\ xTickCount \in Int /\ due[t] = xItemValue[t] - xTickCount
    BY <2>4, DelayFacts DEF DelayInv, ClockInv, DueInv
  <2> HIDE DEF s
  <2> QED BY <2>2, <2>3, <2>5
<1>6. DueInv'
  BY <1>1, <1>2, <1>5 DEF DelayInv, DueInv
<1>7. ClockInv'
  BY <1>1, <1>4 DEF DelayInv, ClockInv
<1>8. WakeInv'
  BY <1>1, <1>2, <1>4 DEF WakeInv
<1> QED BY <1>3, <1>6, <1>7, <1>8 DEF DelayInv

\* A sleep of fewer ticks than were expected to be idle.
LEMMA DelaySleep ==
    ASSUME IInv, DelayInv, NEW count \in Nat, NEW tickWakes, Sleep(count, tickWakes),
           xTickCount + count < xNextTaskUnblockTime
    PROVE  DelayInv' /\ \A t \in Delayed : count < due[t]
<1>1. /\ xTickCount' = xTickCount + count /\ ~Looping /\ ~Looping'
      /\ due' = [t \in AllTasks |-> IF due[t] > count THEN due[t] - count ELSE 0]
      /\ UNCHANGED <<pxDelayedTaskList, pxOverflowDelayedTaskList, xItemValue, xNextTaskUnblockTime>>
  BY DEF Sleep, Pass, IdleAt, Executes, Looping, interrupts, blockLists
<1>2. D' = D /\ O' = O
  BY <1>1 DEF D, O
<1>3. /\ xTickCount \in 0 .. portMAX_DELAY /\ xNextTaskUnblockTime \in 0 .. portMAX_DELAY
      /\ due \in [AllTasks -> 0 .. portMAX_DELAY]
      /\ \A t \in D : /\ due[t] = xItemValue[t] - xTickCount /\ xNextTaskUnblockTime <= xItemValue[t]
                      /\ xItemValue[t] \in 0 .. portMAX_DELAY /\ t \in AllTasks
      /\ \A t \in O : /\ xItemValue[t] < xTickCount /\ due[t] = xItemValue[t] + TickModulus - xTickCount
                      /\ xItemValue[t] \in 0 .. portMAX_DELAY /\ t \in AllTasks
      /\ portMAX_DELAY \in Nat /\ TickModulus = portMAX_DELAY + 1
  BY <1>1, DelayFacts DEF DelayInv, ClockInv, DueInv, WakeInv
<1>4. OrderInv'
  BY <1>1 DEF DelayInv, OrderInv, Ascending
<1>5. ASSUME NEW t \in D PROVE count < due[t] /\ due'[t] = xItemValue[t] - xTickCount' /\ due'[t] > 0
  <2>1. count < due[t] /\ due[t] \in Int /\ t \in AllTasks
    BY <1>3
  <2>2. due'[t] = due[t] - count
    BY <1>1, <2>1
  <2> QED BY <1>1, <1>3, <2>1, <2>2
<1>6. ASSUME NEW t \in O
      PROVE  count < due[t] /\ due'[t] = xItemValue[t] + TickModulus - xTickCount' /\ xItemValue[t] < xTickCount'
  <2>1. count < due[t] /\ due[t] \in Int /\ t \in AllTasks
    BY <1>3
  <2>2. due'[t] = due[t] - count
    BY <1>1, <2>1
  <2> QED BY <1>1, <1>3, <2>1, <2>2
<1>7. \A t \in AllTasks \ (D \cup O) : due'[t] = 0
  BY <1>1 DEF DelayInv, DueInv
<1>8. DueInv'
  BY <1>1, <1>2, <1>5, <1>6, <1>7 DEF DueInv
<1>9. ClockInv'
  <2>1. due' \in [AllTasks -> 0 .. portMAX_DELAY]
    BY <1>1, <1>3
  <2>2. xTickCount' \in 0 .. portMAX_DELAY
    BY <1>1, <1>3
  <2> QED BY <1>1, <1>3, <2>1, <2>2 DEF ClockInv
<1>10. WakeInv'
  BY <1>1, <1>2, <1>3 DEF WakeInv
<1> QED BY <1>4, <1>5, <1>6, <1>8, <1>9, <1>10 DEF DelayInv, Delayed, D, O

LEMMA SleepDepth ==
    ASSUME IInv, DelayInv, SleepInv, pc[Idle] = "idleSleep"
    PROVE  /\ Suppressed \in Nat \ {0} /\ xTickCount + Suppressed <= xNextTaskUnblockTime
           /\ xTickCount \in Nat /\ xNextTaskUnblockTime \in Nat
<1>1. /\ xExpectedIdleTime \in Nat \ {0, 1} /\ xTickCount + xExpectedIdleTime <= xNextTaskUnblockTime
      /\ MaximumSuppressedTicks \in Nat \ {0} /\ xTickCount \in Nat /\ xNextTaskUnblockTime \in Nat
  BY SchedulerAssumption, DelayFacts DEF SleepInv, DelayInv, ClockInv
<1>2. Suppressed \in Nat \ {0} /\ Suppressed <= xExpectedIdleTime
  BY <1>1 DEF Suppressed
<1> QED BY <1>1, <1>2

PendedInv == uxPendedTicks \in Nat

LEMMA PendedKept ==
    ASSUME PendedInv, [Next]_vars
    PROVE  PendedInv'
<1>1. CASE IdleStep
  <2>1. CASE SleepsThrough \/ IsWoken
    BY <2>1 DEF SleepsThrough, IsWoken, Sleep, PendedInv
  <2>2. CASE ~(SleepsThrough \/ IsWoken)
    BY <1>1, <2>2 DEF IdleStep, Reclaim, IdleChecked, IdleYields, IdleTests, IdleSuspends, IdleSamples, AbortsSleep,
       IdleGoes, vTaskSuspendAll, PendedInv
  <2> QED BY <2>1, <2>2
<1>2. ASSUME NEW t \in Tasks,
             \/ Delay(t) \/ DelayUntil(t) \/ Wait(t) \/ Hold(t) \/ Signal(t) \/ Yield(t) \/ ReadTickCount(t)
             \/ \E u \in Victims : \/ vTaskSuspend(t, u) \/ vTaskResume(t, u)
                                  \/ vTaskDelete(t, u) \/ xTaskCreate(t, u)
                                  \/ \E p \in NewPriorities : vTaskPrioritySet(t, u, p)
      PROVE  UNCHANGED uxPendedTicks
  BY <1>2 DEF Delay, DelayUntil, Wait, Hold, Signal, Yield, ReadTickCount, vTaskSuspend, vTaskResume, vTaskDelete,
     xTaskCreate, vTaskPrioritySet, vTaskSuspendAll, xTaskRemoveFromEventList
<1>3. ASSUME NEW t \in AllTasks, Continue(t)
      PROVE  UNCHANGED uxPendedTicks
  BY <1>3 DEF Continue, DelayTicks, DelayUntilTicks, vTaskPlaceOnEventList, ResumeAll, ResumeNested,
     ResetUnblockTime, Yield
<1>4. CASE Tick \/ TickSuspended \/ PendSV \/ Loops
  BY <1>4 DEF Tick, TickSuspended, PendSV, Loops, WakeDelayed, WakeLoopEnds, DrainPending, PendedTick, ResumeAllEnds,
     PendedInv
<1>5. CASE SignalFromISR \/ (\E u \in Victims : xTaskResumeFromISR(u)) \/ UNCHANGED vars
  BY <1>5 DEF SignalFromISR, xTaskRemoveFromEventList, xTaskResumeFromISR, vars, PendedInv
<1> QED BY <1>1, <1>2, <1>3, <1>4, <1>5 DEF Next, PendedInv

LEMMA SleepSteps ==
    ASSUME IInv, DelayInv, SleepInv, SleepsThrough \/ IsWoken
    PROVE  \E count \in Nat : count < Suppressed /\ (Sleep(count, TRUE) \/ Sleep(count, FALSE))
<1>1. pc[Idle] = "idleSleep"
  BY DEF SleepsThrough, IsWoken, Sleep, IdleAt
<1>2. Suppressed \in Nat \ {0}
  BY <1>1, SleepDepth
<1>3. CASE SleepsThrough
  <2> DEFINE count == Suppressed - 1
  <2>1. count \in Nat /\ count < Suppressed
    BY <1>2
  <2>2. Sleep(count, TRUE)
    BY <1>3 DEF SleepsThrough
  <2> HIDE DEF count
  <2> QED BY <2>1, <2>2
<1>4. CASE IsWoken
  <2>1. PICK k \in 0 .. Suppressed - 1 : Sleep(k, FALSE)
    BY <1>4 DEF IsWoken
  <2>2. k \in Nat /\ k < Suppressed
    BY <1>2, <2>1
  <2> QED BY <2>1, <2>2
<1> QED BY <1>3, <1>4

LEMMA SleepKeeps ==
    ASSUME IInv, DelayInv, SleepInv, PendedInv, SleepsThrough \/ IsWoken
    PROVE  /\ DelayInv'
           /\ \A t \in Delayed : xTickCount' - xTickCount + uxPendedTicks' - uxPendedTicks <= due[t]
           /\ xTickCount' <= xNextTaskUnblockTime
<1>1. pc[Idle] = "idleSleep"
  BY DEF SleepsThrough, IsWoken, Sleep, IdleAt
<1>2. \E count \in Nat : count < Suppressed /\ (Sleep(count, TRUE) \/ Sleep(count, FALSE))
  BY SleepSteps
<1>3. PICK count \in Nat : count < Suppressed /\ (Sleep(count, TRUE) \/ Sleep(count, FALSE))
  BY <1>2
<1>4. /\ xTickCount + count < xNextTaskUnblockTime /\ xTickCount \in Nat /\ xNextTaskUnblockTime \in Nat
      /\ uxPendedTicks \in Nat
  BY <1>1, <1>3, SleepDepth DEF PendedInv
<1>5. DelayInv' /\ \A t \in Delayed : count < due[t]
  BY <1>3, <1>4, DelaySleep
<1>6. xTickCount' = xTickCount + count /\ (uxPendedTicks' = uxPendedTicks \/ uxPendedTicks' = uxPendedTicks + 1)
  <2>1. CASE Sleep(count, TRUE)
    BY <2>1 DEF Sleep
  <2>2. CASE Sleep(count, FALSE)
    BY <2>2 DEF Sleep
  <2> QED BY <1>3, <2>1, <2>2
<1>7. \A t \in Delayed : due[t] \in Nat
  BY DelayFacts DEF DelayInv, ClockInv, Delayed, D, O
<1>8. uxPendedTicks' - uxPendedTicks = 0 \/ uxPendedTicks' - uxPendedTicks = 1
  BY <1>4, <1>6
<1>9. xTickCount' - xTickCount = count
  BY <1>4, <1>6
<1>10. xTickCount' - xTickCount + uxPendedTicks' - uxPendedTicks = count
       \/ xTickCount' - xTickCount + uxPendedTicks' - uxPendedTicks = count + 1
  BY <1>8, <1>9
<1> QED BY <1>4, <1>5, <1>6, <1>7, <1>10

\* The time of the next wake is read from the list, with all as it was.
LEMMA DelayReset ==
    ASSUME IInv, DelayInv, ~Looping,
           UNCHANGED <<pxDelayedTaskList, pxOverflowDelayedTaskList, xItemValue, xTickCount, due, masked>>,
           xNextTaskUnblockTime' = UnblockTime(pxDelayedTaskList)
    PROVE  DelayInv'
<1>1. D' = D /\ O' = O /\ ~Looping'
  BY DEF D, O, Looping
<1>2. OrderInv'
  BY DEF DelayInv, OrderInv, Ascending
<1>3. /\ UnblockTime(pxDelayedTaskList) \in 0 .. portMAX_DELAY /\ xTickCount <= UnblockTime(pxDelayedTaskList)
      /\ \A t \in D : UnblockTime(pxDelayedTaskList) <= xItemValue[t]
  BY UnblockTimeIsFirst, DelayedAhead, DelayFacts DEF D, DelayInv, OrderInv
<1>4. DueInv'
  BY <1>1 DEF DelayInv, DueInv
<1>5. ClockInv'
  BY <1>3 DEF DelayInv, ClockInv
<1>6. WakeInv'
  BY <1>1, <1>3 DEF WakeInv
<1> QED BY <1>2, <1>4, <1>5, <1>6 DEF DelayInv

LEMMA DelayWakes ==
    ASSUME IInv, DelayInv, WakeDelayed
    PROVE  DelayInv'
<1> DEFINE w == Head(pxDelayedTaskList)
<1>1. /\ pxDelayedTaskList # << >> /\ xItemValue[w] <= xTickCount /\ OutOfBlockLists(w)
      /\ UNCHANGED <<xTickCount, due, masked, xNextTaskUnblockTime>>
  BY DEF WakeDelayed, HeadIsDue, Unblock
<1>2. w \in D /\ w \in AllTasks
  BY <1>1, HeadIn, DelayFacts DEF D
<1> HIDE DEF w
<1>3. due[w] = xItemValue[w] - xTickCount /\ xTickCount <= xItemValue[w]
  BY <1>2, DelayedAhead DEF DelayInv, DueInv
<1>4. xItemValue[w] \in Int /\ xTickCount \in Int
  BY <1>2, DelayFacts DEF DelayInv, ClockInv
<1>5. due[w] = 0
  BY <1>1, <1>3, <1>4
<1>6. due' = [due EXCEPT ![w] = 0]
  BY <1>1, <1>2, <1>5 DEF DelayInv, ClockInv
<1> QED BY <1>1, <1>2, <1>6, DelayLeaves

LEMMA DelaySignal ==
    ASSUME IInv, DelayInv, xTaskRemoveFromEventList, ~Looping
    PROVE  DelayInv'
<1> DEFINE w == Head(xEventList)
<1>1. xEventList # << >> /\ UNCHANGED <<xTickCount, masked>>
  BY DEF xTaskRemoveFromEventList, interrupts
<1>2. w \in AllTasks
  BY <1>1, EventHeads
<1>3. CASE uxSchedulerSuspended = 0
  <2>1. /\ OutOfBlockLists(w) /\ due' = [due EXCEPT ![w] = 0]
        /\ xNextTaskUnblockTime' = UnblockTime(pxDelayedTaskList')
    BY <1>3 DEF xTaskRemoveFromEventList, Unblock, prvResetNextTaskUnblockTime
  <2> HIDE DEF w
  <2> QED BY <1>1, <1>2, <2>1, DelayLeaves
<1>4. CASE uxSchedulerSuspended # 0
  <2>1. UNCHANGED <<pxDelayedTaskList, pxOverflowDelayedTaskList, xItemValue, due, xNextTaskUnblockTime>>
    BY <1>4 DEF xTaskRemoveFromEventList, blockLists
  <2> QED BY <1>1, <2>1, DelayStays DEF Looping
<1> QED BY <1>3, <1>4

\* The ticks that vTaskDelayUntil waits are at least one.
LEMMA UntilTicks ==
    ASSUME NEW previous \in Int, NEW wake \in 0 .. portMAX_DELAY, NEW now \in 0 .. portMAX_DELAY,
           ShouldDelay(previous, wake, now)
    PROVE  (wake - now) % TickModulus \in 1 .. portMAX_DELAY
<1>1. wake # now
  BY ModType DEF ShouldDelay
<1>2. portMAX_DELAY \in Nat /\ TickModulus = portMAX_DELAY + 1
  BY SchedulerAssumption DEF portMAX_DELAY
<1> DEFINE x == wake - now
<1>3. CASE wake > now
  <2>1. x \in 0 .. TickModulus - 1 /\ x \in 1 .. portMAX_DELAY
    BY <1>2, <1>3
  <2> HIDE DEF x
  <2> QED BY <2>1, ModFacts DEF x
<1>4. CASE wake < now
  <2>1. x \in -TickModulus .. -1 /\ x + TickModulus \in 1 .. portMAX_DELAY
    BY <1>2, <1>4
  <2>2. x % TickModulus = x + TickModulus
    <3> HIDE DEF x
    <3> QED BY <2>1, ModFacts
  <2> QED BY <2>1, <2>2
<1> QED BY <1>1, <1>2, <1>3, <1>4

LEMMA DelayBlocks ==
    ASSUME IInv, DelayInv, NEW t \in AllTasks, DelayTicks(t) \/ DelayUntilTicks(t) \/ vTaskPlaceOnEventList(t)
    PROVE  DelayInv'
<1>1. /\ Executes(t) /\ pc[t] \in {"delay", "delayUntil", "wait"} /\ ~Looping
      /\ UNCHANGED <<xTickCount, masked>>
  BY DEF DelayTicks, DelayUntilTicks, vTaskPlaceOnEventList, interrupts, Executes, Looping
<1>2. pxCurrentTCB \in Ready
  BY <1>1, RunsReady
<1>3. Delays \subseteq 1 .. portMAX_DELAY /\ portMAX_DELAY \in Nat
  BY ModType
<1>4. \/ UNCHANGED <<pxDelayedTaskList, pxOverflowDelayedTaskList, xItemValue, due, xNextTaskUnblockTime>>
      \/ \E ticks \in 1 .. portMAX_DELAY, indefinitely \in BOOLEAN : prvAddCurrentTaskToDelayedList(ticks, indefinitely)
  <2>1. CASE DelayTicks(t)
    BY <1>3, <2>1 DEF DelayTicks
  <2>2. CASE vTaskPlaceOnEventList(t)
    <3>1. PICK ticks \in Delays \cup {portMAX_DELAY} : prvAddCurrentTaskToDelayedList(ticks, TRUE)
      BY <2>2 DEF vTaskPlaceOnEventList
    <3>2. CASE ticks \in 1 .. portMAX_DELAY
      BY <3>1, <3>2
    <3>3. CASE ticks \notin 1 .. portMAX_DELAY
      <4>1. ticks = portMAX_DELAY
        BY <1>3, <3>1, <3>3
      <4> QED BY <3>1, <4>1 DEF prvAddCurrentTaskToDelayedList
    <3> QED BY <3>2, <3>3
  <2>3. CASE DelayUntilTicks(t)
    <3>1. t \in Periodic /\ xPreviousWakeTime[t] \in Int /\ xTickCount \in 0 .. portMAX_DELAY
      BY <2>3, TimeFacts DEF DelayUntilTicks, TimeTypes, DelayInv, ClockInv
    <3>2. PICK increment \in Delays :
             LET previous == xPreviousWakeTime[t]
                 wake     == (previous + increment) % TickModulus
             IN  IF ShouldDelay(previous, wake, xTickCount)
                 THEN prvAddCurrentTaskToDelayedList((wake - xTickCount) % TickModulus, FALSE)
                 ELSE UNCHANGED <<blockLists, xItemValue, xNextTaskUnblockTime, due>>
      BY <2>3 DEF DelayUntilTicks
    <3> DEFINE wake == (xPreviousWakeTime[t] + increment) % TickModulus
               ticks == (wake - xTickCount) % TickModulus
    <3>3. wake \in 0 .. portMAX_DELAY
      BY <1>3, <3>1, ModType
    <3> HIDE DEF wake
    <3>4. CASE ShouldDelay(xPreviousWakeTime[t], wake, xTickCount)
      <4>1. ticks \in 1 .. portMAX_DELAY
        BY <3>1, <3>3, <3>4, UntilTicks
      <4>2. prvAddCurrentTaskToDelayedList(ticks, FALSE)
        BY <3>2, <3>4 DEF wake
      <4> HIDE DEF ticks
      <4> QED BY <4>1, <4>2
    <3>5. CASE ~ShouldDelay(xPreviousWakeTime[t], wake, xTickCount)
      BY <3>2, <3>5 DEF wake, blockLists
    <3> QED BY <3>4, <3>5
  <2> QED BY <1>1, <2>1, <2>2, <2>3
<1>5. CASE UNCHANGED <<pxDelayedTaskList, pxOverflowDelayedTaskList, xItemValue, due, xNextTaskUnblockTime>>
  BY <1>1, <1>5, DelayStays DEF Looping
<1>6. CASE \E ticks \in 1 .. portMAX_DELAY, indefinitely \in BOOLEAN :
              prvAddCurrentTaskToDelayedList(ticks, indefinitely)
  BY <1>1, <1>2, <1>6, DelayEnters
<1> QED BY <1>4, <1>5, <1>6

\* A step of the idle task other than a sleep.
LEMMA DelayIdles ==
    ASSUME IInv, DelayInv, SleepInv, PendedInv, IdleStep
    PROVE  DelayInv'
<1>1. CASE SleepsThrough \/ IsWoken
  BY <1>1, SleepKeeps
<1>2. CASE ~(SleepsThrough \/ IsWoken)
  <2>1. /\ UNCHANGED <<pxDelayedTaskList, pxOverflowDelayedTaskList, xItemValue, xTickCount, due,
                       xNextTaskUnblockTime>>
        /\ masked' = masked
    BY <1>2 DEF IdleStep, Reclaim, IdleChecked, IdleYields, IdleTests, IdleSuspends, IdleSamples, AbortsSleep,
       IdleGoes, vTaskSuspendAll, blockLists, time, interrupts
  <2> QED BY <2>1, DelayStays DEF Looping
<1> QED BY <1>1, <1>2

\* A task is suspended or deleted.
LEMMA DelayTaken ==
    ASSUME IInv, DelayInv, NEW t \in Tasks, NEW u \in Victims, vTaskSuspend(t, u) \/ vTaskDelete(t, u)
    PROVE  DelayInv'
<1>1. u \in AllTasks
  BY VictimsAreTasks, ControlFacts
<1>2. /\ OutOfBlockLists(u) /\ due' = [due EXCEPT ![u] = 0] /\ UNCHANGED <<xTickCount, masked>>
      /\ xNextTaskUnblockTime' \in {xNextTaskUnblockTime, UnblockTime(pxDelayedTaskList')}
  <2>1. CASE vTaskSuspend(t, u)
    BY <2>1 DEF vTaskSuspend, interrupts
  <2>2. CASE vTaskDelete(t, u)
    BY <2>2 DEF vTaskDelete, prvResetNextTaskUnblockTime, interrupts
  <2> QED BY <2>1, <2>2
<1> QED BY <1>1, <1>2, DelayLeaves

LEMMA DelayDrains ==
    ASSUME IInv, DelayInv, DrainPending
    PROVE  DelayInv'
<1> DEFINE w == Head(xPendingReadyList)
<1>1. /\ xPendingReadyList # << >> /\ OutOfBlockLists(w) /\ due' = [due EXCEPT ![w] = 0]
      /\ UNCHANGED <<xTickCount, masked>> /\ xNextTaskUnblockTime' = UnblockTime(pxDelayedTaskList')
  BY DEF DrainPending, Unblock, prvResetNextTaskUnblockTime, interrupts
<1>2. w \in AllTasks
  BY <1>1, EventHeads
<1> HIDE DEF w
<1> QED BY <1>1, <1>2, DelayLeaves

LEMMA DelayCounts ==
    ASSUME IInv, DelayInv, Tick \/ PendedTick
    PROVE  DelayInv'
<1>1. CASE Tick
  <2>1. IncrementTick("tick", "no") /\ ~Looping /\ UNCHANGED xItemValue
    BY <1>1 DEF Tick, Looping
  <2> QED BY <2>1, DelayTick
<1>2. CASE PendedTick
  <2>1. IncrementTick("pendedTick", "resumeAll") /\ ~Looping /\ UNCHANGED xItemValue
    BY <1>2 DEF PendedTick, Looping
  <2> QED BY <2>1, DelayTick
<1> QED BY <1>1, <1>2

\* The steps that have nothing to do with the times.
LEMMA DelayFrame ==
    ASSUME IInv, DelayInv,
           \/ \E t \in Tasks : \/ Delay(t) \/ DelayUntil(t) \/ Wait(t) \/ Hold(t) \/ ReadTickCount(t)
                               \/ \E u \in Victims : \/ vTaskResume(t, u) \/ xTaskCreate(t, u)
                                                     \/ \E p \in NewPriorities : vTaskPrioritySet(t, u, p)
           \/ \E t \in AllTasks : Yield(t) \/ ResumeNested(t) \/ ResumeAll(t)
           \/ TickSuspended \/ PendSV \/ ResumeAllEnds
           \/ \E u \in Victims : xTaskResumeFromISR(u)
           \/ UNCHANGED vars
    PROVE  DelayInv'
<1>1. /\ UNCHANGED <<pxDelayedTaskList, pxOverflowDelayedTaskList, xItemValue, xTickCount, due, xNextTaskUnblockTime>>
      /\ masked' = masked \/ (masked' \in {"no", "resumeAll"} /\ masked \in {"no", "resumeAll"})
  <2>1. CASE \E t \in Tasks : Delay(t) \/ DelayUntil(t) \/ Wait(t) \/ Hold(t) \/ ReadTickCount(t)
    BY <2>1 DEF Delay, DelayUntil, Wait, Hold, ReadTickCount, vTaskSuspendAll, blockLists, time, interrupts
  <2>2. CASE \E t \in Tasks, u \in Victims : \/ vTaskResume(t, u) \/ xTaskCreate(t, u)
                                             \/ \E p \in NewPriorities : vTaskPrioritySet(t, u, p)
    BY <2>2 DEF vTaskResume, xTaskCreate, vTaskPrioritySet, blockLists, time, interrupts
  <2>3. CASE \E t \in AllTasks : Yield(t) \/ ResumeNested(t) \/ ResumeAll(t)
    BY <2>3 DEF Yield, ResumeNested, ResumeAll, Resumes, Executes, blockLists, time, interrupts
  <2>4. CASE TickSuspended \/ PendSV \/ ResumeAllEnds
    BY <2>4 DEF TickSuspended, PendSV, ResumeAllEnds, blockLists, time, interrupts
  <2>5. CASE \E u \in Victims : xTaskResumeFromISR(u)
    BY <2>5 DEF xTaskResumeFromISR, blockLists, time, interrupts
  <2>6. CASE UNCHANGED vars
    BY <2>6 DEF vars, blockLists, time, interrupts
  <2> QED BY <2>1, <2>2, <2>3, <2>4, <2>5, <2>6
<1> QED BY <1>1, DelayStays DEF Looping

\* Every step.
LEMMA NextDelay ==
    ASSUME IInv, DelayInv, SleepInv, PendedInv, [Next]_vars
    PROVE  DelayInv'
<1>1. ASSUME NEW t \in Tasks,
             \/ Delay(t) \/ DelayUntil(t) \/ Wait(t) \/ Hold(t) \/ Signal(t) \/ Yield(t) \/ ReadTickCount(t)
             \/ \E u \in Victims : \/ vTaskSuspend(t, u) \/ vTaskResume(t, u)
                                  \/ vTaskDelete(t, u) \/ xTaskCreate(t, u)
                                  \/ \E p \in NewPriorities : vTaskPrioritySet(t, u, p)
      PROVE  DelayInv'
  <2>1. t \in AllTasks
    BY ControlFacts
  <2>2. CASE Signal(t)
    BY <2>2, DelaySignal DEF Signal, Calls, InApplication, Executes, Looping
  <2>3. CASE \E u \in Victims : vTaskSuspend(t, u) \/ vTaskDelete(t, u)
    BY <2>3, DelayTaken
  <2> QED BY <1>1, <2>1, <2>2, <2>3, DelayFrame
<1>2. ASSUME NEW t \in AllTasks, Continue(t)
      PROVE  DelayInv'
  <2>1. CASE ResetUnblockTime(t)
    BY <2>1, DelayReset DEF ResetUnblockTime, Executes, Looping, blockLists, time, interrupts
  <2> QED BY <1>2, <2>1, DelayBlocks, DelayFrame DEF Continue
<1>3. CASE Tick \/ TickSuspended \/ PendSV \/ Loops
  BY <1>3, DelayCounts, DelayFrame, DelayWakes, DelayLoopEnds, DelayDrains DEF Loops
<1>4. CASE SignalFromISR \/ \E u \in Victims : xTaskResumeFromISR(u)
  BY <1>4, DelaySignal, DelayFrame DEF SignalFromISR, Looping
<1> QED BY <1>1, <1>2, <1>3, <1>4, DelayIdles, DelayFrame DEF Next
-----------------------------------------------------------------------------
(* The sleep of the idle task. *)

\* While the processor may sleep, only interrupts come, and they leave the ready
\* lists and the times to the resume.
LEMMA Asleep ==
    ASSUME IInv, pc[Idle] = "idleSleep", [Next]_vars
    PROVE  \/ AbortsSleep \/ SleepsThrough \/ IsWoken
           \/ UNCHANGED <<ready, xTickCount, xNextTaskUnblockTime, xExpectedIdleTime, uxPriority, pc>>
<1>1. Idle \in AllTasks /\ Idle = pxCurrentTCB /\ uxSchedulerSuspended > 0 /\ masked = "no"
  <2>1. Idle \in AllTasks /\ masked \in {"no", "tick", "resumeAll", "pendedTick"} /\ ControlInv
    BY ControlFacts DEF ControlTypes
  <2>2. Idle = pxCurrentTCB /\ (uxSchedulerSuspended > 0 \/ masked \in {"resumeAll", "pendedTick"})
    BY <2>1 DEF ControlInv, Holding
  <2>3. masked \notin {"resumeAll", "pendedTick"}
    BY <2>1, <2>2 DEF ControlInv
  <2>4. uxSchedulerSuspended > 0
    BY <2>2, <2>3
  <2> QED BY <2>1, <2>2, <2>3, <2>4 DEF ControlInv
<1>2. ~\E t \in Tasks : InApplication(t)
  BY <1>1, ControlFacts DEF InApplication, Executes
<1>3. ASSUME NEW t \in Tasks,
             \/ Delay(t) \/ DelayUntil(t) \/ Wait(t) \/ Hold(t) \/ Signal(t) \/ Yield(t) \/ ReadTickCount(t)
             \/ \E u \in Victims : \/ vTaskSuspend(t, u) \/ vTaskResume(t, u)
                                  \/ vTaskDelete(t, u) \/ xTaskCreate(t, u)
                                  \/ \E p \in NewPriorities : vTaskPrioritySet(t, u, p)
      PROVE  FALSE
  <2>1. CASE Yield(t)
    BY <1>1, <1>2, <2>1, ControlFacts DEF Yield, Calls, Executes
  <2> QED BY <1>2, <1>3, <2>1 DEF Delay, DelayUntil, Wait, Hold, Signal, ReadTickCount, vTaskSuspend, vTaskResume,
             vTaskDelete, xTaskCreate, vTaskPrioritySet, Calls
<1>4. ASSUME NEW t \in AllTasks, Continue(t)
      PROVE  FALSE
  <2>1. CASE Executes(t)
    <3>1. t = Idle
      BY <1>1, <2>1 DEF Executes
    <3> QED BY <1>1, <1>4, <3>1, ControlFacts DEF Continue, DelayTicks, DelayUntilTicks, vTaskPlaceOnEventList, ResumeAll,
               ResumeNested, ResetUnblockTime, Resumes
  <2>2. CASE ~Executes(t)
    BY <1>2, <1>4, <2>2, ControlFacts DEF Continue, DelayTicks, DelayUntilTicks, vTaskPlaceOnEventList, ResumeAll,
       ResumeNested, ResetUnblockTime, Resumes, Yield, Calls, InApplication
  <2> QED BY <2>1, <2>2
<1>5. CASE IdleStep
  BY <1>5 DEF IdleStep, Reclaim, IdleChecked, IdleYields, IdleTests, IdleSuspends, IdleSamples, IdleGoes, IdleAt
<1>6. CASE Tick \/ TickSuspended \/ PendSV \/ Loops
  <2>1. ~Tick /\ ~Loops
    BY <1>1 DEF Tick, Loops, WakeDelayed, WakeLoopEnds, DrainPending, PendedTick, ResumeAllEnds
  <2>2. CASE TickSuspended
    BY <2>2 DEF TickSuspended, time, priorities
  <2>3. CASE PendSV
    BY <1>1, <2>3 DEF PendSV, time, priorities
  <2> QED BY <1>6, <2>1, <2>2, <2>3
<1>7. CASE SignalFromISR
  BY <1>1, <1>7 DEF SignalFromISR, xTaskRemoveFromEventList, priorities
<1>8. CASE \E u \in Victims : xTaskResumeFromISR(u)
  BY <1>1, <1>8 DEF xTaskResumeFromISR, time, priorities
<1>9. CASE UNCHANGED vars
  BY <1>9 DEF vars, time, priorities
<1> QED BY <1>3, <1>4, <1>5, <1>6, <1>7, <1>8, <1>9 DEF Next

\* Only the second look at the expected idle time leads to a sleep.
LEMMA FallsAsleep ==
    ASSUME IInv, [Next]_vars, pc[Idle] # "idleSleep", pc'[Idle] = "idleSleep"
    PROVE  IdleSamples
<1>1. pc \in [AllTasks -> PCs] /\ Idle \in AllTasks /\ Idle \notin Tasks /\ Victims \subseteq AllTasks \ {Idle}
  BY ControlFacts, VictimsAreTasks DEF ControlTypes
<1>2. \A t \in AllTasks : \A x : Goto(t, x) => x = "idleSleep"
  BY <1>1 DEF Goto
<1>3. ~UNCHANGED pc
  BY <1>1
<1>4. \A t \in AllTasks \ {Idle} : \A x : ~Goto(t, x)
  BY <1>1 DEF Goto
<1>5. ASSUME NEW t \in Tasks,
             \/ Delay(t) \/ DelayUntil(t) \/ Wait(t) \/ Hold(t) \/ Signal(t) \/ Yield(t) \/ ReadTickCount(t)
             \/ \E u \in Victims : \/ vTaskSuspend(t, u) \/ vTaskResume(t, u)
                                  \/ vTaskDelete(t, u) \/ xTaskCreate(t, u)
                                  \/ \E p \in NewPriorities : vTaskPrioritySet(t, u, p)
      PROVE  FALSE
  <2>1. t \in AllTasks \ {Idle}
    BY <1>1, ControlFacts
  <2>2. CASE Delay(t) \/ DelayUntil(t) \/ Wait(t) \/ Hold(t) \/ Yield(t)
    BY <1>4, <2>1, <2>2 DEF Delay, DelayUntil, Wait, Hold, Yield, vTaskSuspendAll
  <2>3. CASE Signal(t) \/ ReadTickCount(t)
    BY <1>3, <2>3 DEF Signal, xTaskRemoveFromEventList, ReadTickCount
  <2>4. ASSUME NEW u \in Victims,
               \/ vTaskSuspend(t, u) \/ vTaskResume(t, u) \/ vTaskDelete(t, u) \/ xTaskCreate(t, u)
               \/ \E p \in NewPriorities : vTaskPrioritySet(t, u, p)
        PROVE  FALSE
    <3>1. u \in AllTasks \ {Idle}
      BY <1>1
    <3>2. CASE vTaskSuspend(t, u) \/ xTaskCreate(t, u)
      BY <1>4, <2>1, <3>2 DEF vTaskSuspend, xTaskCreate
    <3>3. CASE vTaskDelete(t, u)
      BY <1>4, <2>1, <3>1, <3>3 DEF vTaskDelete
    <3>4. CASE vTaskResume(t, u) \/ \E p \in NewPriorities : vTaskPrioritySet(t, u, p)
      BY <1>3, <3>4 DEF vTaskResume, vTaskPrioritySet
    <3> QED BY <2>4, <3>2, <3>3, <3>4
  <2> QED BY <1>5, <2>2, <2>3, <2>4
<1>6. ASSUME NEW t \in AllTasks, Continue(t)
      PROVE  FALSE
  BY <1>2, <1>3, <1>6 DEF Continue, DelayTicks, DelayUntilTicks, vTaskPlaceOnEventList, ResumeAll, ResumeNested,
     ResetUnblockTime, Yield
<1>7. CASE IdleStep
  <2>1. CASE \E u \in Tasks : Reclaim(u)
    BY <1>4, <2>1, ControlFacts DEF Reclaim
  <2>2. CASE IdleChecked \/ IdleYields \/ IdleTests \/ IdleSuspends \/ AbortsSleep \/ SleepsThrough \/ IsWoken
    BY <1>1, <1>2, <2>2 DEF IdleChecked, IdleYields, IdleTests, IdleSuspends, AbortsSleep, SleepsThrough, IsWoken,
       IdleGoes, Sleep, vTaskSuspendAll
  <2> QED BY <1>7, <2>1, <2>2 DEF IdleStep
<1>8. CASE Tick \/ TickSuspended \/ PendSV \/ Loops
  <2>1. CASE ResumeAllEnds
    BY <1>2, <2>1, ControlFacts DEF ResumeAllEnds, ReturnsTo, ControlTypes
  <2> QED BY <1>3, <1>8, <2>1 DEF Tick, TickSuspended, PendSV, Loops, WakeDelayed, WakeLoopEnds, DrainPending, PendedTick
<1>9. CASE SignalFromISR \/ (\E u \in Victims : xTaskResumeFromISR(u)) \/ UNCHANGED vars
  BY <1>3, <1>9 DEF SignalFromISR, xTaskRemoveFromEventList, xTaskResumeFromISR, vars
<1> QED BY <1>5, <1>6, <1>7, <1>8, <1>9 DEF Next

\* The look at the expected idle time finds the idle task alone, and the next wake
\* ahead.
LEMMA SleepPlanned ==
    ASSUME IInv, DelayInv, IdleSamples, pc'[Idle] = "idleSleep"
    PROVE  SleepInv'
<1> DEFINE e == prvGetExpectedIdleTime
<1>1. /\ pc \in [AllTasks -> PCs] /\ Idle \in AllTasks /\ Idle \in Ready /\ ReadyOK(ready, uxPriority)
      /\ uxPriority \in PrioType /\ MaxPriority \in Nat /\ Priorities \subseteq Nat
  BY ControlFacts, PrioritiesAreNats DEF ControlTypes, ListsInv
<1>2. /\ LongEnough(e) /\ xExpectedIdleTime' = e
      /\ masked = "no" /\ UNCHANGED <<ready, uxPriority, xTickCount, xNextTaskUnblockTime>>
  BY <1>1 DEF IdleSamples, IdleGoes, IdleAt, Executes, Goto, priorities, time
<1>3. /\ xTickCount \in 0 .. portMAX_DELAY /\ xNextTaskUnblockTime \in 0 .. portMAX_DELAY
      /\ xTickCount <= xNextTaskUnblockTime /\ portMAX_DELAY \in Nat /\ TickModulus = portMAX_DELAY + 1
  BY <1>2, DelayFacts DEF DelayInv, ClockInv, WakeInv, Looping
<1>4. e # 0 /\ ExpectedIdleTimeBeforeSleep \in Nat \ {0, 1} /\ ExpectedIdleTimeBeforeSleep <= e
  BY <1>2, SchedulerAssumption DEF LongEnough
<1>5. /\ e = (xNextTaskUnblockTime - xTickCount) % TickModulus
      /\ ~(Len(ready.lists[0].items) > 1) /\ \A p \in ready.top : ~(p > 0)
  BY <1>4 DEF prvGetExpectedIdleTime
<1>6. e = xNextTaskUnblockTime - xTickCount
  <2> DEFINE x == xNextTaskUnblockTime - xTickCount
  <2>1. x \in 0 .. TickModulus - 1
    BY <1>3
  <2>2. e = x % TickModulus
    BY <1>5
  <2> HIDE DEF x, e
  <2>3. e = x
    BY <2>1, <2>2, ModFacts
  <2> QED BY <2>3 DEF x
<1> HIDE DEF e
<1>7. e \in Nat \ {0, 1} /\ xTickCount + e <= xNextTaskUnblockTime
  BY <1>3, <1>4, <1>6
<1>8. Ready = {Idle}
  <2>1. ASSUME NEW u \in Ready PROVE uxPriority[u] = 0 /\ u \in ToSet(ready.lists[0].items)
    <3>1. /\ u \in AllTasks /\ uxPriority[u] \in Priorities /\ u \in ToSet(ready.lists[uxPriority[u]].items)
      BY <1>1 DEF Ready, InReadyList, PrioType
    <3>2. ready.lists[uxPriority[u]].items # << >>
      BY <3>1, EmptyToSet
    <3>3. uxPriority[u] \in ready.top
      BY <1>1, <3>1, <3>2 DEF ReadyOK, BitsExact
    <3>4. uxPriority[u] \in Nat /\ ~(uxPriority[u] > 0)
      BY <1>1, <1>5, <3>1, <3>3
    <3>5. uxPriority[u] = 0
      BY <3>4
    <3> QED BY <3>1, <3>5
  <2>2. 0 \in Priorities
    BY <1>1 DEF Priorities
  <2>3. ready.lists[0].items \in Seq(AllTasks)
    BY <1>1, <2>2 DEF ReadyOK, ReadySound, BitsExact, ReadyTypeOf, ListTypeOf
  <2>4. \A i \in DOMAIN ready.lists[0].items : i = 1
    BY <1>5, <2>3, LenProperties
  <2>5. \A u, v \in ToSet(ready.lists[0].items) : u = v
    BY <2>4 DEF ToSet
  <2> QED BY <1>1, <2>1, <2>5
<1>9. Ready' = Ready
  BY <1>2 DEF Ready, InReadyList
<1> QED BY <1>2, <1>7, <1>8, <1>9 DEF SleepInv

LEMMA NextSleep ==
    ASSUME IInv, DelayInv, SleepInv, [Next]_vars
    PROVE  SleepInv'
<1>1. pc \in [AllTasks -> PCs] /\ Idle \in AllTasks
  BY ControlFacts DEF ControlTypes
<1>2. CASE pc[Idle] = "idleSleep"
  <2>1. CASE AbortsSleep \/ SleepsThrough \/ IsWoken
    <3>1. pc'[Idle] = "idleResume"
      BY <1>1, <2>1 DEF AbortsSleep, SleepsThrough, IsWoken, IdleGoes, Sleep, Goto
    <3> QED BY <3>1 DEF SleepInv
  <2>2. CASE UNCHANGED <<ready, xTickCount, xNextTaskUnblockTime, xExpectedIdleTime, uxPriority, pc>>
    <3>1. Ready' = Ready
      BY <2>2 DEF Ready, InReadyList
    <3> QED BY <2>2, <3>1 DEF SleepInv
  <2> QED BY <1>2, <2>1, <2>2, Asleep
<1>3. CASE pc[Idle] # "idleSleep"
  BY <1>3, FallsAsleep, SleepPlanned DEF SleepInv
<1> QED BY <1>2, <1>3

LEMMA InitDelay ==
    ASSUME Init
    PROVE  DelayInv /\ SleepInv /\ PendedInv
<1>1. /\ pxDelayedTaskList = << >> /\ pxOverflowDelayedTaskList = << >> /\ xTickCount = 0
      /\ xNextTaskUnblockTime = portMAX_DELAY /\ due = [t \in AllTasks |-> 0]
      /\ pc = [t \in AllTasks |-> "run"] /\ uxPendedTicks = 0
  BY DEF Init
<1>2. D = {} /\ O = {} /\ portMAX_DELAY \in Nat /\ Idle \in AllTasks
  BY <1>1, EmptyToSet, ModType DEF D, O, AllTasks
<1>3. OrderInv
  BY <1>1 DEF OrderInv, Ascending
<1>4. ClockInv
  BY <1>1, <1>2 DEF ClockInv
<1>5. DueInv
  BY <1>1, <1>2 DEF DueInv
<1>6. WakeInv
  BY <1>1, <1>2 DEF WakeInv
<1> QED BY <1>1, <1>2, <1>3, <1>4, <1>5, <1>6 DEF DelayInv, SleepInv, PendedInv

DelayIInv == DelayInv /\ SleepInv /\ PendedInv

\* So do the invariants of what the delays of tasks.c and the sleep of the idle task
\* rest on: when each task is due, which ticks are pended, how far a sleep may go.
THEOREM DelayInvariance == Spec => []DelayIInv
<1>1. Init => DelayIInv
  BY InitDelay DEF DelayIInv
<1>2. IInv /\ DelayIInv /\ [Next]_vars => DelayIInv'
  BY NextDelay, NextSleep, PendedKept DEF DelayIInv
<1> QED BY <1>1, <1>2, Invariance, PTL DEF Spec

\* The processor sleeps only while the idle task alone is ready, and never past the
\* wake of a delayed task or past the wrap of the count, for every number of ticks
\* the timer can suppress: what interrupts do after the second look at the expected
\* idle time is held back until the scheduler resumes.
THEOREM SleepsSafely == Spec => SleepSkipsNoWake
<1> DEFINE A == pc[Idle] = "idleSleep" /\ pc'[Idle] # "idleSleep" =>
                   /\ \A t \in Tasks : ~InReadyList(t)
                   /\ \A t \in Delayed : xTickCount' - xTickCount + uxPendedTicks' - uxPendedTicks <= due[t]
                   /\ xTickCount' <= xNextTaskUnblockTime
<1>1. ASSUME IInv, DelayIInv, [Next]_vars PROVE A
  <2> SUFFICES ASSUME pc[Idle] = "idleSleep", pc'[Idle] # "idleSleep"
               PROVE  /\ \A t \in Tasks : ~InReadyList(t)
                      /\ \A t \in Delayed : xTickCount' - xTickCount + uxPendedTicks' - uxPendedTicks <= due[t]
                      /\ xTickCount' <= xNextTaskUnblockTime
    OBVIOUS
  <2>1. \A t \in Tasks : ~InReadyList(t)
    <3>1. Ready = {Idle} /\ Idle \notin Tasks /\ Tasks \subseteq AllTasks
      BY <1>1, ControlFacts DEF DelayIInv, SleepInv
    <3> QED BY <3>1 DEF Ready
  <2>2. AbortsSleep \/ SleepsThrough \/ IsWoken
    BY <1>1, Asleep
  <2>3. CASE SleepsThrough \/ IsWoken
    BY <1>1, <2>1, <2>3, SleepKeeps DEF DelayIInv
  <2>4. CASE AbortsSleep
    <3>1. UNCHANGED <<xTickCount, uxPendedTicks>>
      BY <2>4 DEF AbortsSleep, IdleGoes, time
    <3>2. /\ uxPendedTicks \in Nat /\ xTickCount \in Nat /\ xTickCount <= xNextTaskUnblockTime
          /\ \A t \in Delayed : due[t] \in Nat
      <4>1. xTickCount \in Nat /\ xNextTaskUnblockTime \in Nat /\ uxPendedTicks \in Nat
        BY <1>1, DelayFacts DEF DelayIInv, DelayInv, ClockInv, PendedInv
      <4>2. xTickCount <= xNextTaskUnblockTime
        BY <1>1, <2>4 DEF DelayIInv, DelayInv, WakeInv, Looping, AbortsSleep, IdleGoes, IdleAt, Executes
      <4>3. \A t \in Delayed : due[t] \in Nat
        BY <1>1, DelayFacts DEF DelayIInv, DelayInv, ClockInv, Delayed, D, O
      <4> QED BY <4>1, <4>2, <4>3
    <3>3. xTickCount' - xTickCount + uxPendedTicks' - uxPendedTicks = 0 /\ xTickCount' <= xNextTaskUnblockTime
      BY <3>1, <3>2
    <3>4. \A t \in Delayed : xTickCount' - xTickCount + uxPendedTicks' - uxPendedTicks <= due[t]
      BY <3>2, <3>3
    <3> QED BY <2>1, <3>3, <3>4
  <2> QED BY <2>2, <2>3, <2>4
<1>2. IInv /\ DelayIInv /\ [Next]_vars => [A]_vars
  BY <1>1
<1>3. Spec => [][A]_vars
  <2> HIDE DEF A
  <2> QED BY <1>2, Invariance, DelayInvariance, PTL DEF Spec
<1> QED BY <1>3 DEF SleepSkipsNoWake
-----------------------------------------------------------------------------
(* The periods of vTaskDelayUntil, for tasks that are delayed by it alone. *)

PeriodicsOnlyDelayUntil == \A t \in Periodic : OpsOf[t] \cap {"delay", "wait"} = {}

Waiting == xSuspendedTaskList \cup ToSet(xEventList) \cup ToSet(xPendingReadyList)

PlainInv == \A t \in Periodic : pc[t] \notin {"delay", "wait"} /\ t \notin Waiting

Wraps(x) == x = 0 \/ x = TickModulus \/ x = -TickModulus

\* The ticks since the last wake time are counted by the phase; a task that is
\* delayed is as far from its wake time as its phase says.
InPhase(t) ==
    /\ phase[t] < TickModulus => Wraps(xTickCount - xPreviousWakeTime[t] - phase[t])
    /\ t \in D \cup O => phase[t] = -due[t]
    /\ t \notin D \cup O => phase[t] >= 0
    /\ pc[t] = "delayUntil" => phase[t] < TickModulus

PhaseInv ==
    /\ phase \in [Periodic -> -portMAX_DELAY .. TickModulus]
    /\ xPreviousWakeTime \in [Periodic -> 0 .. portMAX_DELAY]
    /\ \A t \in Periodic : InPhase(t)

LEMMA PeriodicTasks == Periodic \subseteq Tasks /\ Periodic \subseteq AllTasks /\ Periodic \cap Victims = {}
  BY SchedulerAssumption DEF Periodic, AllTasks

\* The calls that are made with the scheduler suspended begin in one place each.
LEMMA CallBegins ==
    ASSUME IInv, [Next]_vars, NEW v \in Periodic, pc'[v] \in {"delay", "wait", "delayUntil"}, pc'[v] # pc[v]
    PROVE  Delay(v) \/ Wait(v) \/ DelayUntil(v)
<1>1. pc \in [AllTasks -> PCs] /\ v \in AllTasks /\ v # Idle /\ Victims \subseteq AllTasks /\ Idle \in AllTasks
  BY ControlFacts, VictimsAreTasks, PeriodicTasks DEF ControlTypes
<1>2. \A t \in AllTasks : \A x : Goto(t, x) => t = v /\ x \in {"delay", "wait", "delayUntil"} /\ x # pc[v]
  BY <1>1 DEF Goto
<1>3. ~UNCHANGED pc
  OBVIOUS
<1>5. ASSUME NEW t \in Tasks,
             \/ Delay(t) \/ DelayUntil(t) \/ Wait(t) \/ Hold(t) \/ Signal(t) \/ Yield(t) \/ ReadTickCount(t)
             \/ \E u \in Victims : \/ vTaskSuspend(t, u) \/ vTaskResume(t, u)
                                  \/ vTaskDelete(t, u) \/ xTaskCreate(t, u)
                                  \/ \E p \in NewPriorities : vTaskPrioritySet(t, u, p)
      PROVE  Delay(v) \/ Wait(v) \/ DelayUntil(v)
  <2>1. t \in AllTasks
    BY <1>1, ControlFacts
  <2>2. CASE Delay(t) \/ DelayUntil(t) \/ Wait(t)
    <3>1. t = v
      BY <1>2, <2>1, <2>2 DEF Delay, DelayUntil, Wait, vTaskSuspendAll
    <3> QED BY <2>2, <3>1
  <2>3. CASE Hold(t) \/ Yield(t)
    <3>1. Goto(t, "hold") \/ Goto(t, "run")
      BY <2>3 DEF Hold, Yield, vTaskSuspendAll
    <3> QED BY <1>2, <2>1, <3>1
  <2>4. CASE Signal(t) \/ ReadTickCount(t)
    BY <1>3, <2>4 DEF Signal, xTaskRemoveFromEventList, ReadTickCount
  <2>5. ASSUME NEW u \in Victims,
               \/ vTaskSuspend(t, u) \/ vTaskResume(t, u) \/ vTaskDelete(t, u) \/ xTaskCreate(t, u)
               \/ \E p \in NewPriorities : vTaskPrioritySet(t, u, p)
        PROVE  FALSE
    <3>1. u \in AllTasks
      BY <1>1
    <3>2. CASE vTaskSuspend(t, u) \/ xTaskCreate(t, u)
      BY <1>2, <2>1, <3>2 DEF vTaskSuspend, xTaskCreate
    <3>3. CASE vTaskDelete(t, u)
      BY <1>2, <2>1, <3>1, <3>3 DEF vTaskDelete
    <3>4. CASE vTaskResume(t, u) \/ \E p \in NewPriorities : vTaskPrioritySet(t, u, p)
      BY <1>3, <3>4 DEF vTaskResume, vTaskPrioritySet
    <3> QED BY <2>5, <3>2, <3>3, <3>4
  <2> QED BY <1>5, <2>2, <2>3, <2>4, <2>5
<1>6. ASSUME NEW t \in AllTasks, Continue(t)
      PROVE  FALSE
  <2>1. \/ Goto(t, "resumeAll") \/ Goto(t, "yield") \/ Goto(t, "hold") \/ Goto(t, "run")
        \/ UNCHANGED pc
    BY <1>6 DEF Continue, DelayTicks, DelayUntilTicks, vTaskPlaceOnEventList, ResumeAll, ResumeNested,
       ResetUnblockTime, Yield
  <2> QED BY <1>2, <1>3, <1>6, <2>1
<1>7. CASE IdleStep
  <2>1. CASE \E u \in Tasks : Reclaim(u)
    BY <1>2, <2>1, ControlFacts DEF Reclaim
  <2>2. CASE IdleChecked \/ IdleYields \/ IdleTests \/ IdleSuspends \/ IdleSamples \/ AbortsSleep \/ SleepsThrough \/ IsWoken
    BY <1>1, <1>2, <2>2 DEF IdleChecked, IdleYields, IdleTests, IdleSuspends, IdleSamples, AbortsSleep, SleepsThrough,
       IsWoken, IdleGoes, Sleep, vTaskSuspendAll
  <2> QED BY <1>7, <2>1, <2>2 DEF IdleStep
<1>8. CASE Tick \/ TickSuspended \/ PendSV \/ Loops
  <2>1. CASE ResumeAllEnds
    BY <1>2, <2>1, ControlFacts DEF ResumeAllEnds, ReturnsTo, ControlTypes
  <2> QED BY <1>3, <1>8, <2>1 DEF Tick, TickSuspended, PendSV, Loops, WakeDelayed, WakeLoopEnds, DrainPending, PendedTick
<1>9. CASE SignalFromISR \/ (\E u \in Victims : xTaskResumeFromISR(u)) \/ UNCHANGED vars
  BY <1>3, <1>9 DEF SignalFromISR, xTaskRemoveFromEventList, xTaskResumeFromISR, vars
<1> QED BY <1>5, <1>6, <1>7, <1>8, <1>9 DEF Next

LEMMA TailIn ==
    ASSUME NEW S, NEW s \in Seq(S), s # << >>
    PROVE  ToSet(Tail(s)) \subseteq ToSet(s) /\ Head(s) \in ToSet(s)
<1>1. /\ Tail(s) \in Seq(S) /\ Len(s) \in Nat /\ Len(s) # 0 /\ Len(Tail(s)) = Len(s) - 1
      /\ \A i \in 1 .. Len(Tail(s)) : Tail(s)[i] = s[i + 1]
  BY LenProperties, EmptySeq, HeadTailProperties
<1>2. \A i \in 1 .. Len(Tail(s)) : i + 1 \in 1 .. Len(s)
  BY <1>1
<1>3. DOMAIN Tail(s) = 1 .. Len(Tail(s)) /\ DOMAIN s = 1 .. Len(s)
  BY <1>1, LenProperties
<1> QED BY <1>1, <1>2, <1>3, HeadIn DEF ToSet

LEMMA AppendIn ==
    ASSUME NEW S, NEW s \in Seq(S), NEW x \in S
    PROVE  ToSet(Append(s, x)) \subseteq ToSet(s) \cup {x}
<1>1. /\ Append(s, x) \in Seq(S) /\ Len(s) \in Nat /\ Len(Append(s, x)) = Len(s) + 1
      /\ \A i \in 1 .. Len(s) : Append(s, x)[i] = s[i]
      /\ Append(s, x)[Len(s) + 1] = x
  BY LenProperties, AppendProperties
<1>2. DOMAIN Append(s, x) = 1 .. Len(s) + 1 /\ DOMAIN s = 1 .. Len(s)
  BY <1>1, LenProperties
<1>3. \A i \in 1 .. Len(s) + 1 : i \in 1 .. Len(s) \/ i = Len(s) + 1
  BY <1>1
<1> QED BY <1>1, <1>2, <1>3 DEF ToSet

\* Who comes to wait for something without a time.
LEMMA WaitingGrows ==
    ASSUME IInv, [Next]_vars
    PROVE  Waiting' \subseteq Waiting \cup Victims \cup {t \in AllTasks : pc[t] = "wait"}
<1> DEFINE E == ToSet(xEventList)
           P == ToSet(xPendingReadyList)
           W == {t \in AllTasks : pc[t] = "wait"}
<1>1. /\ xEventList \in Seq(AllTasks) /\ xPendingReadyList \in Seq(AllTasks)
      /\ NoDuplicates(xEventList) /\ NoDuplicates(xPendingReadyList) /\ EventLists
  BY ControlFacts, EventsBlocked DEF ListsInv, EventInv, EventItemsAreOfBlockedTasks
<1>2. SUFFICES xSuspendedTaskList' \cup E' \cup P' \subseteq Waiting \cup Victims \cup W
  BY DEF Waiting
<1>3. ASSUME UNCHANGED <<xSuspendedTaskList, eventLists>>
      PROVE  xSuspendedTaskList' \cup E' \cup P' \subseteq Waiting \cup Victims \cup W
  BY <1>3 DEF eventLists, Waiting
<1>4. ASSUME NEW u, OutOfEventList(u)
      PROVE  E' \cup P' \subseteq Waiting
  BY <1>1, <1>4, OutOfEventListMoves DEF Waiting
<1>5. ASSUME xTaskRemoveFromEventList
      PROVE  xSuspendedTaskList' \cup E' \cup P' \subseteq Waiting \cup Victims \cup W
  <2>1. xEventList # << >> /\ xEventList' = Tail(xEventList)
    BY <1>5 DEF xTaskRemoveFromEventList
  <2>2. E' \subseteq E /\ Head(xEventList) \in E /\ Head(xEventList) \in AllTasks
    BY <1>1, <2>1, TailIn, HeadIn
  <2>3. CASE uxSchedulerSuspended = 0
    BY <1>5, <2>2, <2>3 DEF xTaskRemoveFromEventList, Unblock, Waiting
  <2>4. CASE uxSchedulerSuspended # 0
    <3>1. xPendingReadyList' = Append(xPendingReadyList, Head(xEventList)) /\ UNCHANGED xSuspendedTaskList
      BY <1>5, <2>4 DEF xTaskRemoveFromEventList, blockLists
    <3>2. P' \subseteq P \cup {Head(xEventList)}
      BY <1>1, <2>2, <3>1, AppendIn
    <3> QED BY <2>2, <3>1, <3>2 DEF Waiting
  <2> QED BY <2>3, <2>4
<1>6. ASSUME NEW t \in Tasks,
             \/ Delay(t) \/ DelayUntil(t) \/ Wait(t) \/ Hold(t) \/ Signal(t) \/ Yield(t) \/ ReadTickCount(t)
             \/ \E u \in Victims : \/ vTaskSuspend(t, u) \/ vTaskResume(t, u)
                                  \/ vTaskDelete(t, u) \/ xTaskCreate(t, u)
                                  \/ \E p \in NewPriorities : vTaskPrioritySet(t, u, p)
      PROVE  xSuspendedTaskList' \cup E' \cup P' \subseteq Waiting \cup Victims \cup W
  <2>1. CASE Delay(t) \/ DelayUntil(t) \/ Wait(t) \/ Hold(t) \/ Yield(t) \/ ReadTickCount(t)
    BY <1>3, <2>1 DEF Delay, DelayUntil, Wait, Hold, Yield, ReadTickCount, vTaskSuspendAll, blockLists
  <2>2. CASE Signal(t)
    BY <1>5, <2>2 DEF Signal
  <2>3. ASSUME NEW u \in Victims,
               \/ vTaskSuspend(t, u) \/ vTaskResume(t, u) \/ vTaskDelete(t, u) \/ xTaskCreate(t, u)
               \/ \E p \in NewPriorities : vTaskPrioritySet(t, u, p)
        PROVE  xSuspendedTaskList' \cup E' \cup P' \subseteq Waiting \cup Victims \cup W
    <3>1. CASE vTaskSuspend(t, u) \/ vTaskDelete(t, u)
      <4>1. OutOfEventList(u) /\ xSuspendedTaskList' \subseteq xSuspendedTaskList \cup {u}
        BY <3>1 DEF vTaskSuspend, vTaskDelete
      <4> QED BY <1>4, <4>1 DEF Waiting
    <3>2. CASE vTaskResume(t, u)
      BY <3>2 DEF vTaskResume, MakeResumedReady, eventLists, Waiting
    <3>3. CASE xTaskCreate(t, u) \/ \E p \in NewPriorities : vTaskPrioritySet(t, u, p)
      BY <1>3, <3>3 DEF xTaskCreate, vTaskPrioritySet, blockLists
    <3> QED BY <2>3, <3>1, <3>2, <3>3
  <2> QED BY <1>6, <2>1, <2>2, <2>3
<1>7. ASSUME NEW t \in AllTasks, Continue(t)
      PROVE  xSuspendedTaskList' \cup E' \cup P' \subseteq Waiting \cup Victims \cup W
  <2>1. CASE DelayTicks(t) \/ DelayUntilTicks(t)
    <3>1. xSuspendedTaskList' = xSuspendedTaskList /\ UNCHANGED eventLists
      BY <2>1 DEF DelayTicks, DelayUntilTicks, prvAddCurrentTaskToDelayedList, blockLists
    <3> QED BY <1>3, <3>1
  <2>2. CASE vTaskPlaceOnEventList(t)
    <3>1. /\ t \in W /\ xEventList' = vListInsert(xEventList, t, xEventValue) /\ UNCHANGED xPendingReadyList
          /\ xSuspendedTaskList' \subseteq xSuspendedTaskList \cup {t}
      BY <2>2 DEF vTaskPlaceOnEventList, prvAddCurrentTaskToDelayedList, Executes
    <3>2. E' = E \cup {t}
      BY <1>1, <3>1, vListInsertProperties
    <3> QED BY <3>1, <3>2 DEF Waiting
  <2>3. CASE ResumeAll(t) \/ ResumeNested(t) \/ ResetUnblockTime(t) \/ Yield(t)
    BY <1>3, <2>3 DEF ResumeAll, ResumeNested, ResetUnblockTime, Yield, blockLists
  <2> QED BY <1>7, <2>1, <2>2, <2>3 DEF Continue
<1>8. CASE IdleStep
  BY <1>3, <1>8 DEF IdleStep, Reclaim, IdleChecked, IdleYields, IdleTests, IdleSuspends, IdleSamples, AbortsSleep,
     SleepsThrough, IsWoken, Sleep, IdleGoes, vTaskSuspendAll, blockLists
<1>9. CASE Tick \/ TickSuspended \/ PendSV \/ Loops
  <2>1. CASE WakeDelayed
    BY <1>4, <2>1 DEF WakeDelayed, Unblock, Waiting
  <2>2. CASE DrainPending
    <3>1. /\ xPendingReadyList # << >> /\ xPendingReadyList' = Tail(xPendingReadyList) /\ UNCHANGED xEventList
          /\ xSuspendedTaskList' \subseteq xSuspendedTaskList
      BY <2>2 DEF DrainPending, Unblock
    <3>2. P' \subseteq P
      BY <1>1, <3>1, TailIn
    <3> QED BY <3>1, <3>2 DEF Waiting
  <2> QED BY <1>3, <1>9, <2>1, <2>2 DEF Tick, TickSuspended, PendSV, Loops, WakeLoopEnds, PendedTick, ResumeAllEnds, blockLists
<1>10. CASE SignalFromISR
  BY <1>5, <1>10 DEF SignalFromISR
<1>11. CASE \E u \in Victims : xTaskResumeFromISR(u)
  <2>1. PICK u \in Victims : xTaskResumeFromISR(u)
    BY <1>11
  <2>2. u \in AllTasks /\ UNCHANGED xEventList /\ xSuspendedTaskList' \subseteq xSuspendedTaskList
    BY <2>1, VictimsAreTasks DEF xTaskResumeFromISR, MakeResumedReady
  <2>3. xPendingReadyList' = xPendingReadyList \/ xPendingReadyList' = Append(xPendingReadyList, u)
    BY <2>1 DEF xTaskResumeFromISR
  <2>4. P' \subseteq P \cup {u}
    BY <1>1, <2>2, <2>3, AppendIn
  <2> QED BY <2>2, <2>4 DEF Waiting
<1>12. CASE UNCHANGED vars
  BY <1>3, <1>12 DEF vars, blockLists
<1> QED BY <1>6, <1>7, <1>8, <1>9, <1>10, <1>11, <1>12 DEF Next

LEMMA NextPlain ==
    ASSUME IInv, PlainInv, PeriodicsOnlyDelayUntil, [Next]_vars
    PROVE  PlainInv'
<1> SUFFICES ASSUME NEW t \in Periodic PROVE pc'[t] \notin {"delay", "wait"} /\ t \notin Waiting'
  BY DEF PlainInv
<1>1. t \in AllTasks /\ t \notin Victims /\ pc[t] \notin {"delay", "wait"} /\ t \notin Waiting
  BY PeriodicTasks DEF PlainInv
<1>2. pc'[t] \notin {"delay", "wait"}
  <2>1. ~Delay(t) /\ ~Wait(t)
    BY DEF PeriodicsOnlyDelayUntil, Delay, Wait, Calls
  <2>2. DelayUntil(t) => pc'[t] = "delayUntil"
    BY <1>1, ControlFacts DEF DelayUntil, vTaskSuspendAll, Goto, ControlTypes
  <2> QED BY <1>1, <2>1, <2>2, CallBegins
<1> QED BY <1>1, <1>2, WaitingGrows

\* The wake time lies ahead exactly if the period is longer than the ticks since the
\* last wake time, whichever of them lie past the wrap.
LEMMA UntilWakes ==
    ASSUME NEW M \in Nat \ {0}, NEW previous \in 0 .. M - 1, NEW now \in 0 .. M - 1, NEW f \in 0 .. M - 1,
           NEW increment \in 1 .. M - 1, NEW wake \in 0 .. M - 1,
           \/ previous + increment < M /\ wake = previous + increment
           \/ previous + increment >= M /\ wake = previous + increment - M,
           \/ now - previous - f = 0 \/ now - previous - f = M \/ now - previous - f = -M
    PROVE  /\ ShouldDelay(previous, wake, now) <=> f < increment
           /\ f < increment => wake - now = increment - f \/ wake - now = increment - f - M
           /\ \/ now - wake - (f - increment) = 0 \/ now - wake - (f - increment) = M
              \/ now - wake - (f - increment) = -M
<1>1. \/ now >= previous /\ f = now - previous
      \/ now < previous /\ f = now + M - previous
  OBVIOUS
<1>2. CASE now >= previous
  BY <1>1, <1>2 DEF ShouldDelay
<1>3. CASE now < previous
  BY <1>1, <1>3 DEF ShouldDelay
<1> QED BY <1>2, <1>3

\* Nothing that the phases depend on changes.
LEMMA PhaseKept ==
    ASSUME PhaseInv, UNCHANGED <<xTickCount, phase, xPreviousWakeTime>>,
           \A t \in Periodic : /\ t \in D' \cup O' <=> t \in D \cup O
                               /\ due'[t] = due[t]
                               /\ pc'[t] = "delayUntil" => phase[t] < TickModulus
    PROVE  PhaseInv'
<1>1. ASSUME NEW t \in Periodic PROVE InPhase(t)'
  BY <1>1 DEF PhaseInv, InPhase
<1> QED BY <1>1 DEF PhaseInv

\* Ticks pass, with nobody in vTaskDelayUntil.
LEMMA PhasePasses ==
    ASSUME IInv, DelayInv, PhaseInv, NEW k \in Nat, Pass(k), UNCHANGED xPreviousWakeTime,
           D' \cup O' = D \cup O, \A t \in D \cup O : k <= due[t], xTickCount' \in 0 .. portMAX_DELAY,
           xTickCount' = xTickCount + k \/ xTickCount' = xTickCount + k - TickModulus,
           \A t \in Periodic : pc'[t] # "delayUntil"
    PROVE  PhaseInv'
<1> DEFINE M == TickModulus
<1>1. /\ M \in Nat \ {0} /\ portMAX_DELAY = M - 1 /\ xTickCount \in 0 .. M - 1 /\ xTickCount' \in 0 .. M - 1
      /\ due \in [AllTasks -> 0 .. M - 1]
  <2>1. M \in Nat \ {0} /\ portMAX_DELAY = M - 1
    BY SchedulerAssumption DEF portMAX_DELAY
  <2> QED BY <2>1 DEF DelayInv, ClockInv
<1>2. /\ phase \in [Periodic -> -(M - 1) .. M] /\ xPreviousWakeTime' \in [Periodic -> 0 .. M - 1]
      /\ phase' = [t \in Periodic |-> IF phase[t] + k < M THEN phase[t] + k ELSE M]
      /\ due' = [t \in AllTasks |-> IF due[t] > k THEN due[t] - k ELSE 0]
  BY <1>1 DEF PhaseInv, Pass
<1>3. ASSUME NEW t \in Periodic
      PROVE  InPhase(t)'
  <2> DEFINE f == phase[t]
             g == phase'[t]
             p == xPreviousWakeTime[t]
             now == xTickCount
             next == xTickCount'
  <2>1. /\ t \in AllTasks /\ f \in -(M - 1) .. M /\ p \in 0 .. M - 1 /\ now \in 0 .. M - 1 /\ next \in 0 .. M - 1
        /\ (f + k < M /\ g = f + k) \/ (f + k >= M /\ g = M)
        /\ next = now + k \/ next = now + k - M
    BY <1>1, <1>2, PeriodicTasks DEF PhaseInv
  <2>2. /\ f < M => now - p - f = 0 \/ now - p - f = M \/ now - p - f = -M
        /\ t \in D \cup O => f = -due[t]
        /\ t \notin D \cup O => f >= 0
    BY DEF PhaseInv, InPhase, Wraps
  <2>3. t \in D \cup O => f = -due[t] /\ k <= due[t] /\ due[t] \in 0 .. M - 1
    BY <1>1, <2>1, <2>2
  <2>4. t \in D \cup O => due'[t] = due[t] - k
    BY <1>1, <1>2, <2>1, <2>3
  <2> HIDE DEF f, g, p, now, next, M
  <2>5. g \in -(M - 1) .. M
    BY <1>1, <2>1
  <2>6. t \in D \cup O => g = -(due[t] - k)
    BY <1>1, <2>1, <2>3
  <2>7. t \notin D \cup O => g >= 0
    BY <1>1, <2>1, <2>2
  <2>8. g < M => next - p - g = 0 \/ next - p - g = M \/ next - p - g = -M
    <3> SUFFICES ASSUME g < M
                 PROVE  next - p - g = 0 \/ next - p - g = M \/ next - p - g = -M
      OBVIOUS
    <3>1. g = f + k /\ f < M
      BY <1>1, <2>1
    <3>2. next - p - g = now - p - f \/ next - p - g = now - p - f - M
      BY <1>1, <2>1, <3>1
    <3>3. next - p - g # -M - M
      BY <1>1, <2>1, <2>5
    <3> QED BY <1>1, <2>1, <2>2, <3>1, <3>2, <3>3
  <2>9. InPhase(t)'
    <3>1. phase'[t] < TickModulus => Wraps(xTickCount - xPreviousWakeTime[t] - phase[t])'
      BY <2>8 DEF f, g, p, now, next, M, Wraps
    <3>2. t \in D' \cup O' => phase'[t] = -due'[t]
      BY <2>4, <2>6 DEF g
    <3>3. t \notin D' \cup O' => phase'[t] >= 0
      BY <2>7 DEF g
    <3> QED BY <3>1, <3>2, <3>3 DEF InPhase
  <2> QED BY <2>9
<1> HIDE DEF M
<1>4. phase' \in [Periodic -> -(M - 1) .. M]
  <2>1. \A t \in Periodic : phase[t] + k < M => phase[t] + k \in -(M - 1) .. M
    BY <1>1, <1>2
  <2>2. M \in -(M - 1) .. M
    BY <1>1
  <2> DEFINE g == [t \in Periodic |-> IF phase[t] + k < M THEN phase[t] + k ELSE M]
             range == -(M - 1) .. M
  <2>3. \A t \in Periodic : (IF phase[t] + k < M THEN phase[t] + k ELSE M) \in range
    BY <2>1, <2>2
  <2> HIDE DEF range
  <2>4. g \in [Periodic -> range]
    BY <2>3
  <2>5. phase' = g
    BY <1>2
  <2> HIDE DEF g
  <2>6. phase' \in [Periodic -> range]
    BY <2>4, <2>5
  <2> QED BY <2>6 DEF range
<1> QED BY <1>1, <1>2, <1>3, <1>4 DEF PhaseInv, M

\* One turn of vTaskDelayUntil.
LEMMA PhaseUntil ==
    ASSUME IInv, DelayInv, PhaseInv, NEW t \in AllTasks, DelayUntilTicks(t)
    PROVE  PhaseInv'
<1> DEFINE M == TickModulus
           f == phase[t]
           p == xPreviousWakeTime[t]
           now == xTickCount
<1>1. /\ M \in Nat \ {0} /\ portMAX_DELAY = M - 1 /\ now \in 0 .. M - 1 /\ due \in [AllTasks -> 0 .. M - 1]
      /\ Delays \subseteq 1 .. M - 1
  <2>1. M \in Nat \ {0} /\ portMAX_DELAY = M - 1 /\ Delays \subseteq 1 .. M - 1
    BY SchedulerAssumption DEF portMAX_DELAY
  <2> QED BY <2>1 DEF DelayInv, ClockInv
<1>2. /\ Executes(t) /\ pc[t] = "delayUntil" /\ t \in Periodic /\ t = pxCurrentTCB /\ Goto(t, "resumeAll")
      /\ UNCHANGED xTickCount
  BY TimeFacts DEF DelayUntilTicks, TimeTypes, Executes
<1>3. t \notin D \cup O
  BY <1>2, RunsReady, DelayFacts
<1>4. /\ f \in 0 .. M - 1 /\ p \in 0 .. M - 1
      /\ now - p - f = 0 \/ now - p - f = M \/ now - p - f = -M
  <2>1. /\ phase \in [Periodic -> -(M - 1) .. M] /\ xPreviousWakeTime \in [Periodic -> 0 .. M - 1]
        /\ f < M /\ f >= 0 /\ Wraps(now - p - f)
    BY <1>1, <1>2, <1>3 DEF PhaseInv, InPhase
  <2>2. f \in -(M - 1) .. M /\ p \in 0 .. M - 1
    BY <1>2, <2>1
  <2> HIDE DEF f, p, now
  <2>3. f \in 0 .. M - 1
    BY <1>1, <2>1, <2>2
  <2> QED BY <2>1, <2>2, <2>3 DEF Wraps
<1>5. PICK increment \in Delays :
         LET previous == xPreviousWakeTime[t]
             wake     == (previous + increment) % TickModulus
         IN  /\ xPreviousWakeTime' = [xPreviousWakeTime EXCEPT ![t] = wake]
             /\ phase' = [phase EXCEPT ![t] = @ - increment]
             /\ IF ShouldDelay(previous, wake, xTickCount)
                THEN prvAddCurrentTaskToDelayedList((wake - xTickCount) % TickModulus, FALSE)
                ELSE UNCHANGED <<ready, blockLists, xItemValue, xNextTaskUnblockTime, due>>
  BY DEF DelayUntilTicks
<1> DEFINE wake == (p + increment) % M
<1>6. /\ xPreviousWakeTime' = [xPreviousWakeTime EXCEPT ![t] = wake]
      /\ phase' = [phase EXCEPT ![t] = f - increment]
      /\ IF ShouldDelay(p, wake, now)
         THEN prvAddCurrentTaskToDelayedList((wake - now) % M, FALSE)
         ELSE UNCHANGED <<blockLists, due>>
  BY <1>5
<1>7. increment \in 1 .. M - 1
  BY <1>1, <1>5
<1>8. /\ wake \in 0 .. M - 1
      /\ \/ p + increment < M /\ wake = p + increment
         \/ p + increment >= M /\ wake = p + increment - M
  <2> DEFINE x == p + increment
  <2> HIDE DEF p, now, f
  <2>1. CASE x < M
    <3>1. x \in 0 .. M - 1
      BY <1>1, <1>4, <1>7, <2>1
    <3>2. wake = x
      <4> HIDE DEF x
      <4>1. x % TickModulus = x
        BY <3>1, ModFacts
      <4> QED BY <4>1 DEF x
    <3> QED BY <2>1, <3>1, <3>2
  <2>2. CASE ~(x < M)
    <3>1. x \in M .. 2 * M - 1 /\ x - M \in 0 .. M - 1 /\ x >= M
      BY <1>1, <1>4, <1>7, <2>2
    <3>2. wake = x - M
      <4> HIDE DEF x
      <4>1. x % TickModulus = x - TickModulus
        BY <3>1, ModFacts
      <4> QED BY <4>1 DEF x
    <3>3. p + increment >= M /\ wake = p + increment - M
      <4> HIDE DEF wake, M
      <4> QED BY <1>1, <1>4, <1>7, <3>1, <3>2
    <3> QED BY <3>1, <3>2, <3>3
  <2> QED BY <2>1, <2>2
<1> HIDE DEF wake
<1>9. /\ ShouldDelay(p, wake, now) <=> f < increment
      /\ f < increment => wake - now = increment - f \/ wake - now = increment - f - M
      /\ Wraps(now - wake - (f - increment))
  <2> HIDE DEF f, p, now, M
  <2>1. /\ ShouldDelay(p, wake, now) <=> f < increment
        /\ f < increment => wake - now = increment - f \/ wake - now = increment - f - M
        /\ \/ now - wake - (f - increment) = 0 \/ now - wake - (f - increment) = M
           \/ now - wake - (f - increment) = -M
    <3>1. /\ M \in Nat \ {0} /\ p \in 0 .. M - 1 /\ now \in 0 .. M - 1 /\ f \in 0 .. M - 1
          /\ increment \in 1 .. M - 1 /\ wake \in 0 .. M - 1
      BY <1>1, <1>4, <1>7, <1>8
    <3>2. /\ \/ p + increment < M /\ wake = p + increment
             \/ p + increment >= M /\ wake = p + increment - M
          /\ now - p - f = 0 \/ now - p - f = M \/ now - p - f = -M
      BY <1>4, <1>8
    <3>3. ShouldDelay(p, wake, now) <=> f < increment
      BY <3>1, <3>2, UntilWakes
    <3>4. f < increment => wake - now = increment - f \/ wake - now = increment - f - M
      BY <3>1, <3>2, UntilWakes
    <3>5. \/ now - wake - (f - increment) = 0 \/ now - wake - (f - increment) = M
          \/ now - wake - (f - increment) = -M
      BY <3>1, <3>2, UntilWakes
    <3> QED BY <3>3, <3>4, <3>5
  <2> QED BY <2>1 DEF Wraps, M
<1>10. /\ phase' \in [Periodic -> -(M - 1) .. M] /\ xPreviousWakeTime' \in [Periodic -> 0 .. M - 1]
       /\ phase'[t] = f - increment /\ xPreviousWakeTime'[t] = wake
       /\ \A u \in Periodic \ {t} : phase'[u] = phase[u] /\ xPreviousWakeTime'[u] = xPreviousWakeTime[u]
  <2>1. phase \in [Periodic -> -(M - 1) .. M] /\ xPreviousWakeTime \in [Periodic -> 0 .. M - 1]
    BY <1>1 DEF PhaseInv
  <2>2. f - increment \in -(M - 1) .. M
    <3> HIDE DEF f
    <3> QED BY <1>1, <1>4, <1>7
  <2> HIDE DEF f
  <2> QED BY <1>2, <1>6, <1>8, <2>1, <2>2
<1>11. ASSUME NEW u \in Periodic \ {t}, due'[u] = due[u], u \in D' \cup O' <=> u \in D \cup O
       PROVE  InPhase(u)'
  <2>1. u \in AllTasks /\ pc'[u] = pc[u]
    BY <1>2, PeriodicTasks, TimeFacts DEF Goto
  <2> QED BY <1>2, <1>10, <1>11, <2>1 DEF PhaseInv, InPhase
<1>12. pc'[t] = "resumeAll"
  BY <1>2, TimeFacts DEF Goto
<1>13. Wraps(xTickCount' - xPreviousWakeTime'[t] - phase'[t])
  BY <1>2, <1>9, <1>10
<1>14. CASE f < increment
  <2> DEFINE ticks == (wake - now) % M
  <2>1. ticks = increment - f
    <3> DEFINE x == wake - now
    <3> HIDE DEF f, now, p
    <3>1. CASE x = increment - f
      <4>1. x \in 0 .. M - 1
        BY <1>1, <1>4, <1>7, <1>14, <3>1
      <4>2. x % TickModulus = x
        <5> HIDE DEF x
        <5> QED BY <4>1, ModFacts
      <4> QED BY <3>1, <4>2
    <3>2. CASE x = increment - f - M
      <4>1. x \in -M .. -1 /\ x + M = increment - f
        BY <1>1, <1>4, <1>7, <1>14, <3>2
      <4>2. x % TickModulus = x + TickModulus
        <5> HIDE DEF x
        <5> QED BY <4>1, ModFacts
      <4> QED BY <4>1, <4>2
    <3> QED BY <1>9, <1>14, <3>1, <3>2
  <2>2. prvAddCurrentTaskToDelayedList(ticks, FALSE)
    BY <1>6, <1>9, <1>14
  <2> HIDE DEF ticks
  <2>3. /\ due' = [due EXCEPT ![t] = ticks]
        /\ \/ UNCHANGED pxDelayedTaskList /\ pxOverflowDelayedTaskList' = vListInsert(pxOverflowDelayedTaskList, t, xItemValue')
           \/ UNCHANGED pxOverflowDelayedTaskList /\ pxDelayedTaskList' = vListInsert(pxDelayedTaskList, t, xItemValue')
    BY <1>2, <2>2 DEF prvAddCurrentTaskToDelayedList, InsertOverflow, InsertDelayed
  <2>4. D' \cup O' = D \cup O \cup {t}
    BY <2>3, DelayFacts, vListInsertProperties DEF D, O
  <2>5. due'[t] = increment - f /\ \A u \in Periodic \ {t} : due'[u] = due[u]
    BY <1>1, <1>2, <2>1, <2>3, PeriodicTasks
  <2>6. InPhase(t)'
    <3>1. phase'[t] = -due'[t]
      <4> HIDE DEF f
      <4> QED BY <1>4, <1>7, <1>10, <2>5
    <3> QED BY <1>12, <1>13, <2>4, <3>1 DEF InPhase, Wraps
  <2>7. \A u \in Periodic : InPhase(u)'
    BY <1>11, <2>4, <2>5, <2>6
  <2> QED BY <1>1, <1>10, <2>7 DEF PhaseInv
<1>15. CASE ~(f < increment)
  <2>1. UNCHANGED <<blockLists, due>>
    BY <1>6, <1>9, <1>15
  <2>2. D' = D /\ O' = O
    BY <2>1 DEF blockLists, D, O
  <2>3. phase'[t] >= 0
    <3> HIDE DEF f
    <3> QED BY <1>4, <1>7, <1>10, <1>15
  <2>4. InPhase(t)'
    BY <1>3, <1>12, <1>13, <2>2, <2>3 DEF InPhase, Wraps
  <2>5. \A u \in Periodic : InPhase(u)'
    BY <1>11, <2>1, <2>2, <2>4
  <2> QED BY <1>1, <1>10, <2>5 DEF PhaseInv
<1> QED BY <1>14, <1>15

\* Ticks that are counted one by one.
LEMMA PhaseTicks ==
    ASSUME IInv, DelayInv, PhaseInv, Tick \/ PendedTick, DelayInv'
    PROVE  PhaseInv'
<1>1. /\ Pass(1) /\ xTickCount' = NextTick /\ taskSWITCH_DELAYED_LISTS
      /\ UNCHANGED <<xPreviousWakeTime, pc>>
      /\ masked \in {"no", "resumeAll"}
      /\ uxSchedulerSuspended = 0 \/ masked = "resumeAll"
  BY DEF Tick, PendedTick, IncrementTick
<1>2. D' \cup O' = D \cup O
  BY <1>1 DEF taskSWITCH_DELAYED_LISTS, D, O
<1>3. \A t \in D \cup O : 1 <= due[t]
  <2>1. ~Looping
    BY DEF Tick, PendedTick, Looping
  <2>2. \A t \in D \cup O : t \in AllTasks /\ due[t] \in 0 .. portMAX_DELAY /\ due[t] > 0
    BY <2>1, DelayFacts DEF DelayInv, ClockInv, DueInv
  <2> QED BY <2>2, DelayFacts
<1>4. xTickCount' \in 0 .. portMAX_DELAY
  BY DEF DelayInv, ClockInv
<1>5. xTickCount' = xTickCount + 1 \/ xTickCount' = xTickCount + 1 - TickModulus
  <2> DEFINE x == xTickCount + 1
  <2>1. xTickCount' = x % TickModulus /\ (x \in 0 .. TickModulus - 1 \/ x \in TickModulus .. 2 * TickModulus - 1)
    BY <1>1, DelayFacts DEF NextTick, DelayInv, ClockInv
  <2> HIDE DEF x
  <2>2. xTickCount' = x \/ xTickCount' = x - TickModulus
    BY <2>1, ModFacts
  <2> QED BY <2>2, DelayFacts DEF x, DelayInv, ClockInv
<1>6. \A t \in Periodic : pc[t] # "delayUntil"
  <2> SUFFICES ASSUME NEW t \in Periodic, pc[t] = "delayUntil" PROVE FALSE
    OBVIOUS
  <2>1. t = pxCurrentTCB /\ (uxSchedulerSuspended > 0 \/ masked \in {"resumeAll", "pendedTick"})
    BY ControlFacts, PeriodicTasks DEF ControlInv, Holding
  <2>2. masked = "resumeAll"
    BY <1>1, <2>1
  <2> QED BY <2>1, <2>2, ControlFacts DEF ControlInv
<1> QED BY <1>1, <1>2, <1>3, <1>4, <1>5, <1>6, PhasePasses

\* Ticks that pass while the processor sleeps.
LEMMA PhaseSleeps ==
    ASSUME IInv, DelayInv, SleepInv, PhaseInv, NEW count \in Nat, NEW tickWakes, Sleep(count, tickWakes),
           count < Suppressed
    PROVE  PhaseInv'
<1>1. /\ Pass(count) /\ xTickCount' = xTickCount + count /\ IdleAt("idleSleep") /\ Goto(Idle, "idleResume")
      /\ UNCHANGED <<xPreviousWakeTime, pxDelayedTaskList, pxOverflowDelayedTaskList>>
  BY DEF Sleep, blockLists
<1>2. xTickCount + count < xNextTaskUnblockTime /\ xTickCount \in Nat /\ xNextTaskUnblockTime \in 0 .. portMAX_DELAY
  BY <1>1, SleepDepth DEF IdleAt, DelayInv, ClockInv
<1>3. DelayInv' /\ \A t \in Delayed : count < due[t]
  BY <1>2, DelaySleep
<1>4. D' \cup O' = D \cup O /\ Delayed = D \cup O
  BY <1>1 DEF D, O, Delayed
<1>5. \A t \in D \cup O : count <= due[t]
  <2>1. \A t \in D \cup O : due[t] \in 0 .. portMAX_DELAY
    BY DelayFacts DEF DelayInv, ClockInv
  <2> QED BY <1>3, <1>4, <2>1
<1>6. xTickCount' \in 0 .. portMAX_DELAY
  BY <1>3 DEF DelayInv, ClockInv
<1>7. \A t \in Periodic : pc[t] # "delayUntil"
  <2> SUFFICES ASSUME NEW t \in Periodic, pc[t] = "delayUntil" PROVE FALSE
    OBVIOUS
  <2>1. t = pxCurrentTCB /\ t \in Tasks
    BY ControlFacts, PeriodicTasks DEF ControlInv, Holding
  <2> QED BY <1>1, <2>1, ControlFacts DEF IdleAt, Executes
<1>8. \A t \in Periodic : pc'[t] # "delayUntil"
  BY <1>1, <1>7, PeriodicTasks, ControlFacts DEF Goto, ControlTypes
<1> QED BY <1>1, <1>4, <1>5, <1>6, <1>8, PhasePasses

\* The steps that move no periodic task in or out of the delayed lists.
LEMMA PhaseElsewhere ==
    ASSUME IInv, PhaseInv, PlainInv, PeriodicsOnlyDelayUntil, [Next]_vars,
           UNCHANGED <<xTickCount, phase, xPreviousWakeTime>>, NEW u \in AllTasks \ Periodic,
           D' \cup O' \subseteq D \cup O \cup {u}, D \cup O \subseteq D' \cup O' \cup {u},
           \A t \in AllTasks \ {u} : due'[t] = due[t]
    PROVE  PhaseInv'
<1>1. ASSUME NEW t \in Periodic
      PROVE  pc'[t] = "delayUntil" => phase[t] < TickModulus
  <2>1. CASE pc'[t] = pc[t]
    BY <2>1 DEF PhaseInv, InPhase
  <2>2. CASE pc'[t] # pc[t] /\ pc'[t] = "delayUntil"
    <3>1. DelayUntil(t) \/ Delay(t) \/ Wait(t)
      BY <2>2, CallBegins
    <3>2. ~Delay(t) /\ ~Wait(t)
      BY DEF PeriodicsOnlyDelayUntil, Delay, Wait, Calls
    <3> QED BY <3>1, <3>2 DEF DelayUntil
  <2> QED BY <2>1, <2>2
<1>2. \A t \in Periodic : t \in AllTasks \ {u}
  BY PeriodicTasks
<1> QED BY <1>1, <1>2, PhaseKept

LEMMA PhaseFrame ==
    ASSUME IInv, PhaseInv, PlainInv, PeriodicsOnlyDelayUntil, [Next]_vars,
           UNCHANGED <<xTickCount, phase, xPreviousWakeTime, pxDelayedTaskList, pxOverflowDelayedTaskList, due>>
    PROVE  PhaseInv'
<1>1. Idle \in AllTasks \ Periodic
  BY PeriodicTasks, ControlFacts
<1>2. D' = D /\ O' = O
  BY DEF D, O
<1> QED BY <1>1, <1>2, PhaseElsewhere

\* A task that is not periodic leaves the delayed lists.
LEMMA PhaseLeaves ==
    ASSUME IInv, DelayInv, PhaseInv, PlainInv, PeriodicsOnlyDelayUntil, [Next]_vars,
           UNCHANGED <<xTickCount, periods>>, NEW u \in AllTasks \ Periodic, OutOfBlockLists(u),
           due' = [due EXCEPT ![u] = 0]
    PROVE  PhaseInv'
<1>1. D' = D \ {u} /\ O' = O \ {u}
  BY DelayFacts, WithoutProperties DEF OutOfBlockLists, D, O
<1>2. \A t \in AllTasks \ {u} : due'[t] = due[t]
  BY DEF DelayInv, ClockInv
<1> QED BY <1>1, <1>2, PhaseElsewhere DEF periods

\* A delayed task is woken when it is due.
LEMMA PhaseWakes ==
    ASSUME IInv, DelayInv, PhaseInv, WakeDelayed
    PROVE  PhaseInv'
<1> DEFINE w == Head(pxDelayedTaskList)
<1>1. /\ pxDelayedTaskList # << >> /\ xItemValue[w] <= xTickCount /\ OutOfBlockLists(w)
      /\ UNCHANGED <<xTickCount, due, phase, xPreviousWakeTime, pc>>
  BY DEF WakeDelayed, HeadIsDue, Unblock, periods
<1>2. w \in D /\ w \in AllTasks
  BY <1>1, HeadIn, DelayFacts DEF D
<1> HIDE DEF w
<1>3. due[w] = 0
  <2>1. due[w] = xItemValue[w] - xTickCount /\ xTickCount <= xItemValue[w]
    BY <1>2, DelayedAhead DEF DelayInv, DueInv
  <2>2. xItemValue[w] \in Int /\ xTickCount \in Int
    BY <1>2, DelayFacts DEF DelayInv, ClockInv
  <2> QED BY <1>1, <2>1, <2>2
<1>4. D' = D \ {w} /\ O' = O \ {w}
  BY <1>1, DelayFacts, WithoutProperties DEF OutOfBlockLists, D, O
<1>5. ASSUME NEW t \in Periodic PROVE InPhase(t)'
  <2>1. CASE t = w
    <3>1. phase[t] >= 0
      <4>1. phase[t] = -due[t]
        BY <1>2, <2>1 DEF PhaseInv, InPhase
      <4>2. due[t] = 0
        BY <1>3, <2>1
      <4>3. \A x \in Int : x <= 0 => -x >= 0
        OBVIOUS
      <4> DEFINE d == due[t]
      <4>4. phase[t] = -d /\ d <= 0 /\ d \in Int
        BY <4>1, <4>2
      <4> HIDE DEF d
      <4> QED BY <4>3, <4>4
    <3> QED BY <1>1, <1>4, <2>1, <3>1 DEF PhaseInv, InPhase
  <2>2. CASE t # w
    BY <1>1, <1>4, <2>2 DEF PhaseInv, InPhase
  <2> QED BY <2>1, <2>2
<1> QED BY <1>1, <1>5 DEF PhaseInv

LEMMA PhaseRead ==
    ASSUME IInv, DelayInv, PhaseInv, NEW t \in Periodic, ReadTickCount(t)
    PROVE  PhaseInv'
<1>1. /\ xPreviousWakeTime' = [xPreviousWakeTime EXCEPT ![t] = xTickCount] /\ phase' = [phase EXCEPT ![t] = 0]
      /\ UNCHANGED <<xTickCount, due, pxDelayedTaskList, pxOverflowDelayedTaskList, pc>>
      /\ Executes(t) /\ pc[t] = "run"
  BY DEF ReadTickCount, Calls, InApplication, time, blockLists
<1>2. t \notin D \cup O
  BY <1>1, RunsReady, DelayFacts
<1>3. D' = D /\ O' = O
  BY <1>1 DEF D, O
<1>4. xTickCount \in 0 .. portMAX_DELAY /\ portMAX_DELAY \in Nat /\ TickModulus = portMAX_DELAY + 1
  BY DelayFacts DEF DelayInv, ClockInv
<1>5. /\ phase' \in [Periodic -> -portMAX_DELAY .. TickModulus]
      /\ xPreviousWakeTime' \in [Periodic -> 0 .. portMAX_DELAY]
      /\ phase'[t] = 0 /\ xPreviousWakeTime'[t] = xTickCount
      /\ \A u \in Periodic \ {t} : phase'[u] = phase[u] /\ xPreviousWakeTime'[u] = xPreviousWakeTime[u]
  <2>1. 0 \in -portMAX_DELAY .. TickModulus
    BY <1>4
  <2> QED BY <1>1, <1>4, <2>1 DEF PhaseInv
<1>6. InPhase(t)'
  BY <1>1, <1>2, <1>3, <1>4, <1>5 DEF InPhase, Wraps
<1>7. ASSUME NEW u \in Periodic \ {t} PROVE InPhase(u)'
  BY <1>1, <1>3, <1>5 DEF PhaseInv, InPhase
<1> QED BY <1>5, <1>6, <1>7 DEF PhaseInv

\* A task that is not periodic is delayed.
LEMMA PhaseBlocks ==
    ASSUME IInv, DelayInv, PhaseInv, PlainInv, PeriodicsOnlyDelayUntil, [Next]_vars, NEW t \in AllTasks,
           DelayTicks(t) \/ vTaskPlaceOnEventList(t)
    PROVE  PhaseInv'
<1>1. /\ t = pxCurrentTCB /\ pc[t] \in {"delay", "wait"} /\ UNCHANGED <<xTickCount, phase, xPreviousWakeTime>>
      /\ \E ticks, c : prvAddCurrentTaskToDelayedList(ticks, c)
  BY DEF DelayTicks, vTaskPlaceOnEventList, Executes, periods
<1>2. t \in AllTasks \ Periodic
  BY <1>1 DEF PlainInv
<1>3. /\ UNCHANGED due \/ \E ticks : due' = [due EXCEPT ![t] = ticks]
      /\ \/ UNCHANGED <<pxDelayedTaskList, pxOverflowDelayedTaskList>>
         \/ UNCHANGED pxDelayedTaskList /\ pxOverflowDelayedTaskList' = vListInsert(pxOverflowDelayedTaskList, t, xItemValue')
         \/ UNCHANGED pxOverflowDelayedTaskList /\ pxDelayedTaskList' = vListInsert(pxDelayedTaskList, t, xItemValue')
  BY <1>1 DEF prvAddCurrentTaskToDelayedList, InsertOverflow, InsertDelayed
<1>4. \A u \in AllTasks \ {t} : due'[u] = due[u]
  BY <1>3 DEF DelayInv, ClockInv
<1>5. D' \cup O' \subseteq D \cup O \cup {t} /\ D \cup O \subseteq D' \cup O'
  BY <1>3, DelayFacts, vListInsertProperties DEF D, O
<1> QED BY <1>1, <1>2, <1>4, <1>5, PhaseElsewhere

LEMMA PhaseSignal ==
    ASSUME IInv, DelayInv, PhaseInv, PlainInv, PeriodicsOnlyDelayUntil, [Next]_vars, xTaskRemoveFromEventList
    PROVE  PhaseInv'
<1> DEFINE w == Head(xEventList)
<1>1. xEventList # << >> /\ UNCHANGED <<xTickCount, periods>>
  BY DEF xTaskRemoveFromEventList
<1>2. w \in AllTasks \ Periodic
  <2>1. w \in ToSet(xEventList) /\ w \in AllTasks
    BY <1>1, HeadIn, ControlFacts DEF ListsInv, EventInv
  <2> QED BY <2>1 DEF PlainInv, Waiting
<1>3. CASE uxSchedulerSuspended = 0
  <2>1. OutOfBlockLists(w) /\ due' = [due EXCEPT ![w] = 0]
    BY <1>3 DEF xTaskRemoveFromEventList, Unblock
  <2> HIDE DEF w
  <2> QED BY <1>1, <1>2, <2>1, PhaseLeaves
<1>4. CASE uxSchedulerSuspended # 0
  <2>1. UNCHANGED <<pxDelayedTaskList, pxOverflowDelayedTaskList, due>>
    BY <1>4 DEF xTaskRemoveFromEventList, blockLists
  <2> QED BY <1>1, <2>1, PhaseFrame DEF periods
<1> QED BY <1>3, <1>4

\* Every step.
LEMMA NextPhase ==
    ASSUME IInv, DelayIInv, PhaseInv, PlainInv, PeriodicsOnlyDelayUntil, [Next]_vars, DelayInv'
    PROVE  PhaseInv'
<1> USE DEF DelayIInv
<1>1. ASSUME NEW t \in Tasks,
             \/ Delay(t) \/ DelayUntil(t) \/ Wait(t) \/ Hold(t) \/ Signal(t) \/ Yield(t) \/ ReadTickCount(t)
             \/ \E u \in Victims : \/ vTaskSuspend(t, u) \/ vTaskResume(t, u)
                                  \/ vTaskDelete(t, u) \/ xTaskCreate(t, u)
                                  \/ \E p \in NewPriorities : vTaskPrioritySet(t, u, p)
      PROVE  PhaseInv'
  <2>1. CASE Delay(t) \/ DelayUntil(t) \/ Wait(t) \/ Hold(t) \/ Yield(t)
    BY <2>1, PhaseFrame DEF Delay, DelayUntil, Wait, Hold, Yield, vTaskSuspendAll, blockLists, time, periods
  <2>2. CASE Signal(t)
    BY <2>2, PhaseSignal DEF Signal
  <2>3. CASE ReadTickCount(t)
    <3>1. t \in Periodic
      BY <2>3 DEF ReadTickCount, Calls, Periodic
    <3> QED BY <2>3, <3>1, PhaseRead
  <2>4. ASSUME NEW u \in Victims,
               \/ vTaskSuspend(t, u) \/ vTaskResume(t, u) \/ vTaskDelete(t, u) \/ xTaskCreate(t, u)
               \/ \E p \in NewPriorities : vTaskPrioritySet(t, u, p)
        PROVE  PhaseInv'
    <3>1. u \in AllTasks \ Periodic
      BY PeriodicTasks, VictimsAreTasks, ControlFacts
    <3>2. CASE vTaskSuspend(t, u) \/ vTaskDelete(t, u)
      <4>1. OutOfBlockLists(u) /\ due' = [due EXCEPT ![u] = 0] /\ UNCHANGED <<xTickCount, periods>>
        BY <3>2 DEF vTaskSuspend, vTaskDelete
      <4> QED BY <3>1, <4>1, PhaseLeaves
    <3>3. CASE vTaskResume(t, u) \/ xTaskCreate(t, u) \/ \E p \in NewPriorities : vTaskPrioritySet(t, u, p)
      BY <3>3, PhaseFrame DEF vTaskResume, xTaskCreate, vTaskPrioritySet, blockLists, time, periods
    <3> QED BY <2>4, <3>2, <3>3
  <2> QED BY <1>1, <2>1, <2>2, <2>3, <2>4
<1>2. ASSUME NEW t \in AllTasks, Continue(t)
      PROVE  PhaseInv'
  <2>1. CASE ResumeAll(t) \/ ResumeNested(t) \/ ResetUnblockTime(t) \/ Yield(t)
    BY <2>1, PhaseFrame DEF ResumeAll, ResumeNested, ResetUnblockTime, Yield, blockLists, time, periods
  <2> QED BY <1>2, <2>1, PhaseBlocks, PhaseUntil DEF Continue
<1>3. CASE IdleStep
  <2>1. CASE SleepsThrough \/ IsWoken
    <3>1. \E count \in Nat : count < Suppressed /\ (Sleep(count, TRUE) \/ Sleep(count, FALSE))
      BY <2>1, SleepSteps
    <3> QED BY <3>1, PhaseSleeps
  <2>2. CASE ~(SleepsThrough \/ IsWoken)
    BY <1>3, <2>2, PhaseFrame DEF IdleStep, Reclaim, IdleChecked, IdleYields, IdleTests, IdleSuspends, IdleSamples,
       AbortsSleep, IdleGoes, vTaskSuspendAll, blockLists, time, periods
  <2> QED BY <2>1, <2>2
<1>4. CASE Tick \/ TickSuspended \/ PendSV \/ Loops
  <2>1. CASE Tick \/ PendedTick
    BY <2>1, PhaseTicks
  <2>2. CASE TickSuspended \/ PendSV \/ WakeLoopEnds \/ ResumeAllEnds
    BY <2>2, PhaseFrame DEF TickSuspended, PendSV, WakeLoopEnds, ResumeAllEnds, blockLists, time, periods
  <2>3. CASE WakeDelayed
    BY <2>3, PhaseWakes
  <2>4. CASE DrainPending
    <3> DEFINE w == Head(xPendingReadyList)
    <3>1. /\ xPendingReadyList # << >> /\ OutOfBlockLists(w) /\ due' = [due EXCEPT ![w] = 0]
          /\ UNCHANGED <<xTickCount, periods>>
      BY <2>4 DEF DrainPending, Unblock
    <3>2. w \in ToSet(xPendingReadyList) /\ w \in AllTasks
      BY <3>1, HeadIn, ControlFacts DEF ListsInv, EventInv
    <3>3. w \in AllTasks \ Periodic
      BY <3>2 DEF PlainInv, Waiting
    <3> HIDE DEF w
    <3> QED BY <3>1, <3>3, PhaseLeaves
  <2> QED BY <1>4, <2>1, <2>2, <2>3, <2>4 DEF Loops
<1>5. CASE SignalFromISR
  BY <1>5, PhaseSignal DEF SignalFromISR
<1>6. CASE (\E u \in Victims : xTaskResumeFromISR(u)) \/ UNCHANGED vars
  BY <1>6, PhaseFrame DEF xTaskResumeFromISR, vars, blockLists, time, periods
<1> QED BY <1>1, <1>2, <1>3, <1>4, <1>5, <1>6 DEF Next

LEMMA InitPhase ==
    ASSUME Init
    PROVE  PhaseInv /\ PlainInv
<1>1. /\ pxDelayedTaskList = << >> /\ pxOverflowDelayedTaskList = << >> /\ xTickCount = 0
      /\ xSuspendedTaskList = {} /\ xEventList = << >> /\ xPendingReadyList = << >>
      /\ pc = [t \in AllTasks |-> "run"] /\ phase = [t \in Periodic |-> 0]
      /\ xPreviousWakeTime = [t \in Periodic |-> 0]
  BY DEF Init
<1>2. D = {} /\ O = {} /\ Waiting = {}
  BY <1>1, EmptyToSet DEF D, O, Waiting
<1>3. portMAX_DELAY \in Nat /\ TickModulus = portMAX_DELAY + 1
  BY SchedulerAssumption DEF portMAX_DELAY
<1>4. 0 \in -portMAX_DELAY .. TickModulus /\ 0 \in 0 .. portMAX_DELAY
  BY <1>3
<1>5. phase \in [Periodic -> -portMAX_DELAY .. TickModulus] /\ xPreviousWakeTime \in [Periodic -> 0 .. portMAX_DELAY]
  BY <1>1, <1>4
<1>6. ASSUME NEW t \in Periodic PROVE InPhase(t) /\ pc[t] = "run"
  BY <1>1, <1>2, PeriodicTasks DEF InPhase, Wraps
<1> QED BY <1>2, <1>5, <1>6 DEF PhaseInv, PlainInv

\* A delay ends at its tick, whichever list its wake time put it in, however often the
\* tick count wrapped and however its ticks came: one at a time, held back while the
\* scheduler was suspended, or slept through.
THEOREM DelaysEnd == Spec => []WakesWhenDue
<1>1. ASSUME IInv, DelayIInv PROVE WakesWhenDue
  <2>1. /\ due \in [AllTasks -> 0 .. portMAX_DELAY] /\ D \subseteq AllTasks /\ O \subseteq AllTasks
        /\ xItemValue \in [AllTasks -> 0 .. portMAX_DELAY] /\ xTickCount \in 0 .. portMAX_DELAY
        /\ portMAX_DELAY \in Nat /\ TickModulus = portMAX_DELAY + 1 /\ Delayed = D \cup O
    BY <1>1, DelayFacts DEF DelayIInv, DelayInv, ClockInv, Delayed, D, O
  <2>2. ASSUME NEW t \in AllTasks, due[t] > 0 PROVE t \in Delayed
    BY <1>1, <2>1, <2>2 DEF DelayIInv, DelayInv, DueInv
  <2>3. ASSUME NEW t \in D PROVE due[t] > 0 \/ masked \in {"tick", "pendedTick"}
    BY <1>1 DEF DelayIInv, DelayInv, DueInv, Looping
  <2>4. ASSUME NEW t \in O PROVE due[t] > 0
    <3>1. due[t] = xItemValue[t] + TickModulus - xTickCount /\ xItemValue[t] \in 0 .. portMAX_DELAY
      BY <1>1, <2>1 DEF DelayIInv, DelayInv, DueInv
    <3> QED BY <2>1, <3>1
  <2> QED BY <2>1, <2>2, <2>3, <2>4 DEF WakesWhenDue
<1> QED BY <1>1, Invariance, DelayInvariance, PTL

\* The same of the periods of vTaskDelayUntil: a task that is delayed by it alone wakes
\* a whole number of periods after it started, though the tick count or its wake time,
\* or both, have wrapped since.
THEOREM DelaysEndOnTime ==
    ASSUME \A t \in Periodic : OpsOf[t] \cap {"delay", "wait"} = {}
    PROVE  Spec => []DelaysAreExact
<1>1. PeriodicsOnlyDelayUntil
  BY DEF PeriodicsOnlyDelayUntil
<1>2. Init => PhaseInv /\ PlainInv
  BY InitPhase
<1>3. IInv /\ DelayIInv /\ DelayIInv' /\ PhaseInv /\ PlainInv /\ [Next]_vars => (PhaseInv /\ PlainInv)'
  BY <1>1, NextPhase, NextPlain DEF DelayIInv
<1>4. ASSUME DelayIInv, PhaseInv PROVE PeriodIsKept
  <2>1. ASSUME NEW t \in Periodic, t \in D \cup O PROVE due[t] = -phase[t]
    <3>1. phase[t] = -due[t] /\ due[t] \in 0 .. portMAX_DELAY
      BY <1>4, <2>1, PeriodicTasks DEF PhaseInv, InPhase, DelayIInv, DelayInv, ClockInv
    <3> QED BY <3>1
  <2> QED BY <1>4, <2>1 DEF PhaseInv, InPhase, PeriodIsKept, Delayed, D, O
<1>5. Spec => [](PhaseInv /\ PlainInv)
  BY <1>2, <1>3, Invariance, DelayInvariance, PTL DEF Spec
<1> QED BY <1>4, <1>5, DelaysEnd, DelayInvariance, PTL DEF DelaysAreExact
=============================================================================
