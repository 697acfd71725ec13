--------------------------- MODULE Mutex_proofs ---------------------------
(***************************************************************************)
(* Proofs about Mutex, for every set of tasks and of mutexes, assignment   *)
(* of priorities, and use the tasks make of the mutexes.                   *)
(***************************************************************************)
EXTENDS Mutex, KernelLists_proofs

PrioType == [AllTasks -> Priorities]

TypesInv ==
    /\ uxMessagesWaiting \in [Mutexes -> 0..1]
    /\ xMutexHolder \in [Mutexes -> Tasks \cup {NoTask}]
    /\ uxRecursiveCallCount \in [Mutexes -> 0..RecursionBound]
    /\ xTasksWaitingToReceive \in [Mutexes -> Seq(Tasks)]
    /\ pxCurrentTCB \in AllTasks /\ pendSV \in BOOLEAN
    /\ uxPriority \in PrioType /\ uxBasePriority \in PrioType
    /\ xEventValue \in [AllTasks -> -MaxPriority..0]
    /\ uxMutexesHeld \in [AllTasks -> Nat]
    /\ pc \in [AllTasks -> PCs]
    /\ xQueue \in [Tasks -> Mutexes] /\ xTicksToWait \in [Tasks -> BlockTimes]
    /\ xInheritanceOccurred \in [Tasks -> BOOLEAN] /\ over \in [Tasks -> BOOLEAN]

HeldBy(t) == {m \in Mutexes : xMutexHolder[m] = t}

\* Mutexes that are not recursive are not counted at all.
CountInv == HoldersAreCounted /\ \A m \in Mutexes \ Recursive : uxRecursiveCallCount[m] = 0

Awake(t) == pc[t] \notin {"blocked", "delayed"}

\* The ready lists hold the tasks that do not wait, the idle task among them, and
\* no bit of a list with tasks is missing.
ReadyOK(R, prio) == ReadySound(R, prio, AllTasks, Priorities) /\ BitsSet(R, Priorities)

ReadyInv ==
    /\ ReadyOK(ready, uxPriority)
    /\ \A t \in AllTasks : In(ready, uxPriority, t) <=> Awake(t)
    /\ pendSV \/ Awake(pxCurrentTCB)
    /\ pc[Idle] = "run"

\* A task is in the event list of a mutex while it waits for it, and no other.
EventInv ==
    \A m \in Mutexes :
        /\ NoDuplicates(xTasksWaitingToReceive[m])
        /\ \A t \in Tasks : t \in ToSet(xTasksWaitingToReceive[m]) <=> pc[t] = "blocked" /\ xQueue[t] = m

\* The inductive invariant.
IInv == TypesInv /\ CountInv /\ ReadyInv /\ EventInv /\ PriorityIsReturned
-----------------------------------------------------------------------------
(* Constants, and the state as a function of its parts. *)

LEMMA PrioritiesAreNats == MaxPriority \in Nat /\ Priorities \in SUBSET (0 .. MaxPriority) /\ 0 \in Priorities
  BY MutexAssumption DEF Priorities

LEMMA TasksAre ==
    /\ Idle \in AllTasks /\ Idle \notin Tasks /\ Tasks \subseteq AllTasks /\ NoTask \notin AllTasks
    /\ IsFiniteSet(AllTasks) /\ AllTasks \ Tasks = {Idle}
  BY MutexAssumption, FS_AddElement DEF AllTasks

LEMMA EventValues == \A p \in Priorities : EventValueOf(p) \in -MaxPriority..0
  BY MutexAssumption DEF Priorities, EventValueOf

\* A task that changes its priority keeps to the ready lists.
LEMMA MovedReady ==
    ASSUME NEW R, NEW prio \in PrioType, NEW prio2 \in PrioType, NEW t \in AllTasks, ReadyOK(R, prio),
           \A u \in AllTasks \ {t} : prio2[u] = prio[u],
           NEW c \in Priorities, NEW R2, R2 = Moved(R, t, prio[t], prio2[t], c)
    PROVE  /\ ReadyOK(R2, prio2)
           /\ BitsExact(R, Priorities) /\ c = prio[t] => BitsExact(R2, Priorities)
           /\ \A u \in AllTasks : In(R2, prio2, u) <=> In(R, prio, u)
<1>1. /\ prio \in [AllTasks -> Priorities] /\ prio2 \in [AllTasks -> Priorities]
      /\ ReadySound(R, prio, AllTasks, Priorities) /\ BitsSet(R, Priorities)
  BY DEF PrioType, ReadyOK
<1>2. CASE In(R, prio, t)
  <2> DEFINE R1 == RemoveAndClear(R, t, prio[t], c)
             q  == prio2[t]
  <2>1. R2 = prvAddTaskToReadyList(R1, t, q) /\ q = prio2[t]
    BY <1>2 DEF Moved, In
  <2>2. R1 = RemoveAndClear(R, t, prio[t], c)
    OBVIOUS
  <2> HIDE DEF R1, q
  <2>3. /\ ReadySound(R1, prio, AllTasks, Priorities)
        /\ BitsSet(R, Priorities) => BitsSet(R1, Priorities)
        /\ BitsExact(R, Priorities) /\ c = prio[t] => BitsExact(R1, Priorities)
        /\ \A u \in AllTasks : In(R1, prio, u) <=> u # t /\ In(R, prio, u)
    BY <1>1, <1>2, <2>2, RemoveReady
  <2>4. ~In(R1, prio, t) /\ ReadySound(R1, prio, AllTasks, Priorities)
    BY <2>3
  <2>5. /\ ReadySound(R2, prio2, AllTasks, Priorities)
        /\ BitsSet(R1, Priorities) => BitsSet(R2, Priorities)
        /\ BitsExact(R1, Priorities) => BitsExact(R2, Priorities)
        /\ \A u \in AllTasks : In(R2, prio2, u) <=> u = t \/ In(R1, prio, u)
    BY <1>1, <2>1, <2>4, AddReady
  <2> QED BY <1>1, <1>2, <2>3, <2>5 DEF ReadyOK
<1>3. CASE ~In(R, prio, t)
  <2>1. R2 = R
    BY <1>3 DEF Moved, In
  <2>2. ReadySound(R, prio2, AllTasks, Priorities) /\ \A u \in AllTasks : In(R, prio2, u) <=> In(R, prio, u)
    BY <1>1, <1>3, Reprioritise
  <2> QED BY <1>1, <2>1, <2>2 DEF ReadyOK
<1> QED BY <1>2, <1>3

\* A task that waits, and one that no longer does.
LEMMA LeaveReady ==
    ASSUME NEW R, NEW prio \in PrioType, NEW t \in AllTasks, ReadyOK(R, prio), In(R, prio, t),
           NEW R2, R2 = RemoveFromReadyList(R, t, prio[t])
    PROVE  /\ ReadyOK(R2, prio)
           /\ BitsExact(R, Priorities) => BitsExact(R2, Priorities)
           /\ \A u \in AllTasks : In(R2, prio, u) <=> u # t /\ In(R, prio, u)
<1> DEFINE c == prio[t]
<1>1. /\ prio \in [AllTasks -> Priorities] /\ c \in Priorities
      /\ ReadySound(R, prio, AllTasks, Priorities) /\ BitsSet(R, Priorities)
  BY DEF PrioType, ReadyOK
<1>2. R2 = RemoveAndClear(R, t, prio[t], c) /\ c = prio[t]
  BY DEF RemoveFromReadyList
<1> HIDE DEF c
<1>3. /\ ReadySound(R2, prio, AllTasks, Priorities)
      /\ BitsSet(R, Priorities) => BitsSet(R2, Priorities)
      /\ BitsExact(R, Priorities) /\ c = prio[t] => BitsExact(R2, Priorities)
      /\ \A u \in AllTasks : In(R2, prio, u) <=> u # t /\ In(R, prio, u)
  BY <1>1, <1>2, RemoveReady
<1> QED BY <1>1, <1>2, <1>3 DEF ReadyOK

LEMMA JoinReady ==
    ASSUME NEW R, NEW prio \in PrioType, NEW t \in AllTasks, ReadyOK(R, prio), ~In(R, prio, t),
           NEW R2, R2 = prvAddTaskToReadyList(R, t, prio[t])
    PROVE  /\ ReadyOK(R2, prio)
           /\ BitsExact(R, Priorities) => BitsExact(R2, Priorities)
           /\ \A u \in AllTasks : In(R2, prio, u) <=> u = t \/ In(R, prio, u)
<1> DEFINE p == prio[t]
<1>1. /\ prio \in [AllTasks -> Priorities]
      /\ ReadySound(R, prio, AllTasks, Priorities) /\ BitsSet(R, Priorities)
  BY DEF PrioType, ReadyOK
<1>2. R2 = prvAddTaskToReadyList(R, t, p) /\ p = prio[t] /\ \A u \in AllTasks \ {t} : prio[u] = prio[u]
  OBVIOUS
<1> HIDE DEF p
<1>3. /\ ReadySound(R2, prio, AllTasks, Priorities)
      /\ BitsSet(R, Priorities) => BitsSet(R2, Priorities)
      /\ BitsExact(R, Priorities) => BitsExact(R2, Priorities)
      /\ \A u \in AllTasks : In(R2, prio, u) <=> u = t \/ In(R, prio, u)
  BY <1>1, <1>2, AddReady
<1> QED BY <1>1, <1>3 DEF ReadyOK
-----------------------------------------------------------------------------
(* Mutexes and their holders. *)

\* The mutexes t holds when h gives the holder of each.
HeldIn(h, t) == {m \in Mutexes : h[m] = t}

LEMMA HeldIsFinite ==
    \A h, t : /\ IsFiniteSet(HeldIn(h, t)) /\ Cardinality(HeldIn(h, t)) \in Nat
              /\ Cardinality(HeldIn(h, t)) <= Cardinality(Mutexes)
              /\ Cardinality(HeldIn(h, t)) = 0 <=> HeldIn(h, t) = {}
<1> TAKE h, t
<1>1. HeldIn(h, t) \subseteq Mutexes /\ IsFiniteSet(Mutexes)
  BY MutexAssumption DEF HeldIn
<1>2. IsFiniteSet(HeldIn(h, t)) /\ Cardinality(HeldIn(h, t)) <= Cardinality(Mutexes)
  BY <1>1, FS_Subset
<1> QED BY <1>2, FS_CardinalityType, FS_EmptySet

LEMMA HeldObtain ==
    ASSUME NEW h \in [Mutexes -> Tasks \cup {NoTask}], NEW t \in Tasks, NEW m \in Mutexes, h[m] = NoTask,
           NEW h2, h2[m] = t, \A k \in Mutexes \ {m} : h2[k] = h[k]
    PROVE  /\ Cardinality(HeldIn(h2, t)) = Cardinality(HeldIn(h, t)) + 1
           /\ \A u \in AllTasks \ {t} : Cardinality(HeldIn(h2, u)) = Cardinality(HeldIn(h, u))
<1>1. t # NoTask /\ NoTask \notin AllTasks
  BY TasksAre
<1>2. HeldIn(h2, t) = HeldIn(h, t) \cup {m} /\ m \notin HeldIn(h, t)
  BY <1>1 DEF HeldIn
<1>3. Cardinality(HeldIn(h2, t)) = Cardinality(HeldIn(h, t)) + 1
  BY <1>2, HeldIsFinite, FS_AddElement, ZenonT(40)
<1>4. \A u \in AllTasks \ {t} : HeldIn(h2, u) = HeldIn(h, u)
  BY <1>1 DEF HeldIn
<1> QED BY <1>3, <1>4

LEMMA HeldRelease ==
    ASSUME NEW h \in [Mutexes -> Tasks \cup {NoTask}], NEW t \in Tasks, NEW m \in Mutexes, h[m] = t,
           NEW h2, h2[m] = NoTask, \A k \in Mutexes \ {m} : h2[k] = h[k]
    PROVE  /\ Cardinality(HeldIn(h, t)) = Cardinality(HeldIn(h2, t)) + 1
           /\ \A u \in AllTasks \ {t} : Cardinality(HeldIn(h2, u)) = Cardinality(HeldIn(h, u))
<1>1. t # NoTask /\ NoTask \notin AllTasks
  BY TasksAre
<1>2. HeldIn(h, t) = HeldIn(h2, t) \cup {m} /\ m \notin HeldIn(h2, t)
  BY <1>1 DEF HeldIn
<1>3. Cardinality(HeldIn(h, t)) = Cardinality(HeldIn(h2, t)) + 1
  <2> DEFINE A == HeldIn(h2, t)
  <2>1. IsFiniteSet(A) /\ m \notin A /\ HeldIn(h, t) = A \cup {m}
    BY <1>2, HeldIsFinite
  <2> HIDE DEF A
  <2>2. Cardinality(A \cup {m}) = Cardinality(A) + 1
    BY <2>1, FS_AddElement
  <2> QED BY <2>1, <2>2 DEF A
<1>4. \A u \in AllTasks \ {t} : HeldIn(h2, u) = HeldIn(h, u)
  BY <1>1 DEF HeldIn
<1> QED BY <1>3, <1>4

\* CountInv with the sets named.
LEMMA CountIs ==
    CountInv <=>
      /\ \A m \in Mutexes : uxMessagesWaiting[m] = (IF xMutexHolder[m] = NoTask THEN 1 ELSE 0)
      /\ \A m \in Mutexes : IF m \in Recursive
                            THEN uxRecursiveCallCount[m] = 0 <=> xMutexHolder[m] = NoTask
                            ELSE uxRecursiveCallCount[m] = 0
      /\ \A t \in AllTasks : uxMutexesHeld[t] = Cardinality(HeldIn(xMutexHolder, t))
  BY DEF CountInv, HoldersAreCounted, HeldIn

LEMMA CountIsPrimed ==
    CountInv' <=>
      /\ \A m \in Mutexes : uxMessagesWaiting'[m] = (IF xMutexHolder'[m] = NoTask THEN 1 ELSE 0)
      /\ \A m \in Mutexes : IF m \in Recursive
                            THEN uxRecursiveCallCount'[m] = 0 <=> xMutexHolder'[m] = NoTask
                            ELSE uxRecursiveCallCount'[m] = 0
      /\ \A t \in AllTasks : uxMutexesHeld'[t] = Cardinality(HeldIn(xMutexHolder', t))
  BY DEF CountInv, HoldersAreCounted, HeldIn

LEMMA ObtainCounts ==
    ASSUME TypesInv, CountInv, NEW t \in Tasks, NEW m \in Mutexes, Obtain(t, m)
    PROVE  /\ CountInv'
           /\ uxMessagesWaiting' \in [Mutexes -> 0..1] /\ xMutexHolder' \in [Mutexes -> Tasks \cup {NoTask}]
           /\ uxRecursiveCallCount' \in [Mutexes -> 0..RecursionBound]
           /\ uxMutexesHeld' \in [AllTasks -> Nat]
           /\ xMutexHolder[m] = NoTask
           /\ \A u \in AllTasks : uxMutexesHeld'[u] = 0 => uxMutexesHeld[u] = 0
<1>1. /\ uxMessagesWaiting \in [Mutexes -> 0..1] /\ xMutexHolder \in [Mutexes -> Tasks \cup {NoTask}]
      /\ uxRecursiveCallCount \in [Mutexes -> 0..RecursionBound] /\ uxMutexesHeld \in [AllTasks -> Nat]
      /\ t \in AllTasks /\ NoTask \notin AllTasks /\ t # NoTask /\ RecursionBound \in Nat \ {0}
  BY TasksAre, MutexAssumption DEF TypesInv
<1>2. /\ \A k \in Mutexes : uxMessagesWaiting[k] = (IF xMutexHolder[k] = NoTask THEN 1 ELSE 0)
      /\ \A k \in Mutexes : IF k \in Recursive
                            THEN uxRecursiveCallCount[k] = 0 <=> xMutexHolder[k] = NoTask
                            ELSE uxRecursiveCallCount[k] = 0
      /\ \A u \in AllTasks : uxMutexesHeld[u] = Cardinality(HeldIn(xMutexHolder, u))
  BY CountIs
<1>3. xMutexHolder[m] = NoTask
  BY <1>2 DEF Obtain, Available
<1>4. /\ uxMessagesWaiting' = [uxMessagesWaiting EXCEPT ![m] = 0]
      /\ xMutexHolder' = [xMutexHolder EXCEPT ![m] = t]
      /\ uxRecursiveCallCount' = [uxRecursiveCallCount EXCEPT ![m] = IF m \in Recursive THEN 1 ELSE 0]
      /\ uxMutexesHeld' = [uxMutexesHeld EXCEPT ![t] = @ + 1]
  <2>1. uxMessagesWaiting[m] - 1 = 0
    BY <1>2, <1>3
  <2> QED BY <2>1 DEF Obtain, CountFirstCall
<1>5. /\ Cardinality(HeldIn(xMutexHolder', t)) = Cardinality(HeldIn(xMutexHolder, t)) + 1
      /\ \A u \in AllTasks \ {t} : Cardinality(HeldIn(xMutexHolder', u)) = Cardinality(HeldIn(xMutexHolder, u))
  <2> DEFINE h == xMutexHolder
             h2 == [xMutexHolder EXCEPT ![m] = t]
  <2>1. /\ h \in [Mutexes -> Tasks \cup {NoTask}] /\ h[m] = NoTask 
        /\ h2[m] = t /\ \A k \in Mutexes \ {m} : h2[k] = h[k]
        /\ xMutexHolder' = h2 /\ xMutexHolder = h
    BY <1>1, <1>3, <1>4
  <2> HIDE DEF h, h2
  <2>2. Cardinality(HeldIn(h2, t)) = Cardinality(HeldIn(h, t)) + 1
    BY <2>1, HeldObtain
  <2>3. \A u \in AllTasks \ {t} : Cardinality(HeldIn(h2, u)) = Cardinality(HeldIn(h, u))
    BY <2>1, HeldObtain
  <2> QED BY <2>1, <2>2, <2>3
<1>6. \A k \in Mutexes : uxMessagesWaiting'[k] = (IF xMutexHolder'[k] = NoTask THEN 1 ELSE 0)
  BY <1>1, <1>2, <1>4
<1>7. \A k \in Mutexes : IF k \in Recursive
                         THEN uxRecursiveCallCount'[k] = 0 <=> xMutexHolder'[k] = NoTask
                         ELSE uxRecursiveCallCount'[k] = 0
  BY <1>1, <1>2, <1>4
<1>8. \A u \in AllTasks : uxMutexesHeld'[u] = Cardinality(HeldIn(xMutexHolder', u))
  BY <1>1, <1>2, <1>4, <1>5
<1>9. CountInv'
  BY <1>6, <1>7, <1>8, CountIsPrimed
<1>10. \A u \in AllTasks : uxMutexesHeld'[u] = 0 => uxMutexesHeld[u] = 0
  BY <1>1, <1>4
<1> QED BY <1>1, <1>3, <1>4, <1>9, <1>10

\* A mutex is given: Release with the count of recursive calls.
LEMMA GiveCounts ==
    ASSUME TypesInv, CountInv, NEW t \in Tasks, NEW m \in Mutexes, Give(t, m)
    PROVE  /\ CountInv'
           /\ uxMessagesWaiting' \in [Mutexes -> 0..1] /\ xMutexHolder' \in [Mutexes -> Tasks \cup {NoTask}]
           /\ uxRecursiveCallCount' \in [Mutexes -> 0..RecursionBound]
           /\ uxMutexesHeld' \in [AllTasks -> Nat]
           /\ \A u \in AllTasks \ {t} : uxMutexesHeld'[u] = uxMutexesHeld[u]
           /\ uxMutexesHeld[t] > 0 /\ uxMutexesHeld'[t] = uxMutexesHeld[t] - 1
<1>1. /\ uxMessagesWaiting \in [Mutexes -> 0..1] /\ xMutexHolder \in [Mutexes -> Tasks \cup {NoTask}]
      /\ uxRecursiveCallCount \in [Mutexes -> 0..RecursionBound] /\ uxMutexesHeld \in [AllTasks -> Nat]
      /\ t \in AllTasks /\ NoTask \notin AllTasks /\ t # NoTask /\ RecursionBound \in Nat \ {0}
  BY TasksAre, MutexAssumption DEF TypesInv
<1>2. /\ \A k \in Mutexes : uxMessagesWaiting[k] = (IF xMutexHolder[k] = NoTask THEN 1 ELSE 0)
      /\ \A k \in Mutexes : IF k \in Recursive
                            THEN uxRecursiveCallCount[k] = 0 <=> xMutexHolder[k] = NoTask
                            ELSE uxRecursiveCallCount[k] = 0
      /\ \A u \in AllTasks : uxMutexesHeld[u] = Cardinality(HeldIn(xMutexHolder, u))
  BY CountIs
<1>3. xMutexHolder[m] = t /\ uxRecursiveCallCount[m] <= 1
  BY DEF Give
<1>4. /\ uxMessagesWaiting' = [uxMessagesWaiting EXCEPT ![m] = 1]
      /\ xMutexHolder' = [xMutexHolder EXCEPT ![m] = NoTask]
      /\ uxRecursiveCallCount' = [uxRecursiveCallCount EXCEPT ![m] = 0]
      /\ uxMutexesHeld' = [uxMutexesHeld EXCEPT ![t] = uxMutexesHeld[t] - 1]
  <2>1. uxMessagesWaiting[m] + 1 = 1
    BY <1>1, <1>2, <1>3
  <2>2. (IF m \in Recursive THEN uxRecursiveCallCount[m] - 1 ELSE 0) = 0
    <3>1. uxRecursiveCallCount[m] \in 0 .. RecursionBound
      BY <1>1
    <3>2. m \in Recursive => uxRecursiveCallCount[m] # 0
      BY <1>1, <1>2, <1>3
    <3> QED BY <1>3, <3>1, <3>2
  <2> QED BY <2>1, <2>2 DEF Give, Release, HeldAfterGive
<1>5. /\ Cardinality(HeldIn(xMutexHolder, t)) = Cardinality(HeldIn(xMutexHolder', t)) + 1
      /\ \A u \in AllTasks \ {t} : Cardinality(HeldIn(xMutexHolder', u)) = Cardinality(HeldIn(xMutexHolder, u))
  <2> DEFINE h == xMutexHolder
             h2 == [xMutexHolder EXCEPT ![m] = NoTask]
  <2>1. /\ h \in [Mutexes -> Tasks \cup {NoTask}] /\ h[m] = t 
        /\ h2[m] = NoTask /\ \A k \in Mutexes \ {m} : h2[k] = h[k]
        /\ xMutexHolder' = h2 /\ xMutexHolder = h
    BY <1>1, <1>3, <1>4
  <2> HIDE DEF h, h2
  <2>2. Cardinality(HeldIn(h, t)) = Cardinality(HeldIn(h2, t)) + 1
    BY <2>1, HeldRelease
  <2>3. \A u \in AllTasks \ {t} : Cardinality(HeldIn(h2, u)) = Cardinality(HeldIn(h, u))
    BY <2>1, HeldRelease
  <2> QED BY <2>1, <2>2, <2>3
<1>6. \A k \in Mutexes : uxMessagesWaiting'[k] = (IF xMutexHolder'[k] = NoTask THEN 1 ELSE 0)
  BY <1>1, <1>2, <1>4
<1>7. \A k \in Mutexes : IF k \in Recursive
                         THEN uxRecursiveCallCount'[k] = 0 <=> xMutexHolder'[k] = NoTask
                         ELSE uxRecursiveCallCount'[k] = 0
  BY <1>1, <1>2, <1>4
<1>8. uxMutexesHeld[t] > 0 /\ uxMutexesHeld[t] - 1 = Cardinality(HeldIn(xMutexHolder', t)) /\ uxMutexesHeld[t] - 1 \in Nat
  BY <1>1, <1>2, <1>5, HeldIsFinite
<1>9. \A u \in AllTasks : uxMutexesHeld'[u] = Cardinality(HeldIn(xMutexHolder', u))
  BY <1>1, <1>2, <1>4, <1>5, <1>8
<1>10. CountInv'
  BY <1>6, <1>7, <1>9, CountIsPrimed
<1> QED BY <1>1, <1>4, <1>8, <1>10

\* Recursive calls.
LEMMA RecursionCounts ==
    ASSUME TypesInv, CountInv, NEW t \in Tasks, NEW m \in Mutexes,
           xQueueTakeMutexRecursive(t, m) \/ xQueueGiveMutexRecursive(t, m)
    PROVE  CountInv' /\ uxRecursiveCallCount' \in [Mutexes -> 0..RecursionBound]
<1>1. /\ uxRecursiveCallCount \in [Mutexes -> 0..RecursionBound]
      /\ t # NoTask /\ RecursionBound \in Nat \ {0}
  BY TasksAre, MutexAssumption DEF TypesInv
<1>2. CountInv
  OBVIOUS
<1>3. /\ xMutexHolder[m] = t /\ m \in Recursive
      /\ xMutexHolder' = xMutexHolder /\ uxMessagesWaiting' = uxMessagesWaiting /\ uxMutexesHeld' = uxMutexesHeld
  BY DEF xQueueTakeMutexRecursive, xQueueGiveMutexRecursive
<1>4. \E n \in 1 .. RecursionBound : uxRecursiveCallCount' = [uxRecursiveCallCount EXCEPT ![m] = n]
  <2>1. uxRecursiveCallCount[m] \in 0 .. RecursionBound
    BY <1>1
  <2>2. CASE xQueueTakeMutexRecursive(t, m)
    <3>1. uxRecursiveCallCount[m] + 1 \in 1 .. RecursionBound
      BY <1>1, <2>1, <2>2 DEF xQueueTakeMutexRecursive
    <3>2. uxRecursiveCallCount' = [uxRecursiveCallCount EXCEPT ![m] = uxRecursiveCallCount[m] + 1]
      BY <2>2 DEF xQueueTakeMutexRecursive
    <3> QED BY <3>1, <3>2
  <2>3. CASE xQueueGiveMutexRecursive(t, m)
    <3>1. uxRecursiveCallCount[m] - 1 \in 1 .. RecursionBound
      BY <1>1, <2>1, <2>3 DEF xQueueGiveMutexRecursive
    <3>2. uxRecursiveCallCount' = [uxRecursiveCallCount EXCEPT ![m] = uxRecursiveCallCount[m] - 1]
      BY <2>3 DEF xQueueGiveMutexRecursive
    <3> QED BY <3>1, <3>2
  <2> QED BY <2>2, <2>3
<1>6. PICK n \in 1 .. RecursionBound : uxRecursiveCallCount' = [uxRecursiveCallCount EXCEPT ![m] = n]
  BY <1>4
<1>5. CountInv'
  BY <1>1, <1>2, <1>3, <1>6, CountIs, CountIsPrimed
<1> QED BY <1>1, <1>5, <1>6
-----------------------------------------------------------------------------
(* The steps of a call that leave the lists alone. *)

BitsKept == BitsExact(ready, Priorities) => BitsExact(ready', Priorities)

LEMMA RunsAwake ==
    ASSUME IInv, NEW t \in Tasks, NEW place, At(t, place)
    PROVE  Awake(t) /\ pc[t] = place /\ t \in AllTasks /\ t # Idle /\ pxCurrentTCB = t
  BY TasksAre DEF At, Executes, IInv, ReadyInv

LEMMA SameReadyOK ==
    ASSUME ready' = ready, uxPriority' = uxPriority
    PROVE  /\ ReadyOK(ready, uxPriority) => ReadyOK(ready', uxPriority')
           /\ \A u \in AllTasks : In(ready', uxPriority', u) <=> In(ready, uxPriority, u)
           /\ BitsKept
  BY DEF ReadyOK, In, BitsKept

\* A call goes on to a place where its task does not wait.
LEMMA QuietLists ==
    ASSUME IInv, NEW t \in Tasks, Awake(t), NEW c \in PCs \ {"blocked", "delayed"},
           pc' = [pc EXCEPT ![t] = c],
           xTasksWaitingToReceive' = xTasksWaitingToReceive, ready' = ready, uxPriority' = uxPriority,
           pendSV' = pendSV, pxCurrentTCB' = pxCurrentTCB,
           \A u \in Tasks \ {t} : xQueue'[u] = xQueue[u]
    PROVE  ReadyInv' /\ EventInv' /\ BitsKept
<1>1. /\ pc \in [AllTasks -> PCs] /\ pxCurrentTCB \in AllTasks /\ t \in AllTasks /\ t # Idle /\ Idle \in AllTasks
      /\ Tasks \subseteq AllTasks
  BY TasksAre DEF IInv, TypesInv
<1>2. \A u \in AllTasks : (Awake(u))' <=> Awake(u)
  BY <1>1 DEF Awake
<1>3. ReadyInv'
  <2>1. ReadyInv
    BY DEF IInv
  <2>2. pc'[Idle] = pc[Idle]
    BY <1>1
  <2>3. (Awake(pxCurrentTCB))' <=> Awake(pxCurrentTCB)
    BY <1>1 DEF Awake
  <2> QED BY <1>2, <2>1, <2>2, <2>3, SameReadyOK DEF ReadyInv, Awake
<1>4. EventInv'
  <2>1. EventInv
    BY DEF IInv
  <2>2. \A u \in Tasks, m \in Mutexes : pc'[u] = "blocked" /\ xQueue'[u] = m <=> pc[u] = "blocked" /\ xQueue[u] = m
    BY <1>1 DEF Awake
  <2> QED BY <2>1, <2>2 DEF EventInv
<1> QED BY <1>3, <1>4, SameReadyOK

\* Nothing the lists depend on changes.
LEMMA StillLists ==
    ASSUME IInv, pc' = pc, xQueue' = xQueue,
           xTasksWaitingToReceive' = xTasksWaitingToReceive, ready' = ready, uxPriority' = uxPriority,
           pendSV' = pendSV, pxCurrentTCB' = pxCurrentTCB
    PROVE  ReadyInv' /\ EventInv' /\ BitsKept
<1>1. ReadyInv /\ EventInv
  BY DEF IInv
<1>2. EventInv'
  BY <1>1 DEF EventInv
<1>3. \A u \in AllTasks : (Awake(u))' <=> Awake(u)
  BY DEF Awake
<1>4. ReadyInv'
  BY <1>1, <1>3, SameReadyOK DEF ReadyInv, Awake
<1> QED BY <1>2, <1>4, SameReadyOK

LEMMA SamePriorities ==
    ASSUME IInv, priorities' = priorities, \A u \in AllTasks : uxMutexesHeld'[u] = 0 => uxMutexesHeld[u] = 0
    PROVE  PriorityIsReturned'
  BY DEF IInv, PriorityIsReturned, priorities

LEMMA SameCounts ==
    ASSUME IInv, UNCHANGED <<mutexes, uxMutexesHeld>>
    PROVE  CountInv'
  BY CountIs, CountIsPrimed DEF IInv, mutexes

LEMMA PlacesAre ==
    /\ {"run", "check", "retry", "isEmpty", "disinherit"} = PCs \ {"blocked", "delayed"}
    /\ "blocked" \in PCs /\ "delayed" \in PCs
  BY DEF PCs

LEMMA TakeKeeps ==
    ASSUME IInv, NEW t \in Tasks, NEW m \in Mutexes, NEW ticks \in BlockTimes, Take(t, m, ticks)
    PROVE  IInv' /\ BitsKept
<1>1. Awake(t) /\ pc[t] = "run" /\ t \in AllTasks /\ t # Idle /\ pxCurrentTCB = t
  BY RunsAwake DEF Take
<1>2. CASE Obtain(t, m) /\ UNCHANGED <<pc, call>>
  <2>1. ReadyInv' /\ EventInv' /\ BitsKept
    BY <1>2, StillLists DEF Obtain, call, switching, priorities
  <2>2. CountInv' /\ PriorityIsReturned'
    BY <1>2, ObtainCounts, SamePriorities DEF IInv, Obtain
  <2>3. TypesInv'
    BY <1>2, ObtainCounts DEF IInv, TypesInv, Obtain, switching, priorities, call
  <2> QED BY <2>1, <2>2, <2>3 DEF IInv
<1>3. CASE /\ ~Available(m) /\ ticks # "none"
           /\ Goto(t, "check")
           /\ xQueue' = [xQueue EXCEPT ![t] = m]
           /\ xTicksToWait' = [xTicksToWait EXCEPT ![t] = ticks]
           /\ UNCHANGED <<mutexes, xTasksWaitingToReceive, ready, switching, priorities,
                          uxMutexesHeld, xInheritanceOccurred, over>>
  <2>1. TypesInv'
    BY <1>1, <1>3 DEF IInv, TypesInv, Goto, PCs, switching, priorities, mutexes
  <2>2. ReadyInv' /\ EventInv' /\ BitsKept
    <3>1. \A u \in Tasks \ {t} : xQueue'[u] = xQueue[u]
      BY <1>3 DEF IInv, TypesInv
    <3> QED BY <1>1, <1>3, <3>1, PlacesAre, QuietLists DEF Goto, switching, priorities
  <2>3. CountInv' /\ PriorityIsReturned'
    BY <1>3, SameCounts, SamePriorities
  <2> QED BY <2>1, <2>2, <2>3 DEF IInv
<1> QED BY <1>2, <1>3 DEF Take

LEMMA RecursiveKeeps ==
    ASSUME IInv, NEW t \in Tasks, NEW m \in Mutexes,
           xQueueTakeMutexRecursive(t, m) \/ xQueueGiveMutexRecursive(t, m)
    PROVE  IInv' /\ BitsKept
<1>1. /\ UNCHANGED <<uxMessagesWaiting, xMutexHolder, xTasksWaitingToReceive, ready, switching,
                     priorities, uxMutexesHeld, pc, call>>
  BY DEF xQueueTakeMutexRecursive, xQueueGiveMutexRecursive
<1>2. CountInv' /\ uxRecursiveCallCount' \in [Mutexes -> 0..RecursionBound]
  BY RecursionCounts DEF IInv
<1>3. TypesInv'
  BY <1>1, <1>2 DEF IInv, TypesInv, switching, priorities, call
<1>4. ReadyInv' /\ EventInv' /\ BitsKept
  BY <1>1, StillLists DEF switching, priorities, call
<1>5. PriorityIsReturned'
  BY <1>1, SamePriorities
<1> QED BY <1>2, <1>3, <1>4, <1>5 DEF IInv

\* A call moves on, or returns.
LEMMA CallKeeps ==
    ASSUME IInv, NEW t \in Tasks, Awake(t), NEW c \in PCs \ {"blocked", "delayed"}, Goto(t, c),
           UNCHANGED <<mutexes, xTasksWaitingToReceive, ready, switching, priorities, uxMutexesHeld, xQueue>>,
           xTicksToWait' \in [Tasks -> BlockTimes], xInheritanceOccurred' \in [Tasks -> BOOLEAN],
           over' \in [Tasks -> BOOLEAN]
    PROVE  IInv' /\ BitsKept
<1>1. TypesInv'
  BY TasksAre DEF IInv, TypesInv, Goto, switching, priorities, mutexes
<1>2. ReadyInv' /\ EventInv' /\ BitsKept
  BY QuietLists DEF Goto, switching, priorities
<1>3. CountInv' /\ PriorityIsReturned'
  BY SameCounts, SamePriorities
<1> QED BY <1>1, <1>2, <1>3 DEF IInv

LEMMA ReturnsTypes ==
    ASSUME TypesInv, NEW t \in Tasks, Returns(t)
    PROVE  /\ Goto(t, "run") /\ xQueue' = xQueue
           /\ xTicksToWait' \in [Tasks -> BlockTimes] /\ xInheritanceOccurred' \in [Tasks -> BOOLEAN]
           /\ over' \in [Tasks -> BOOLEAN]
  BY DEF TypesInv, Returns, BlockTimes

LEMMA CallTypes ==
    ASSUME IInv, UNCHANGED call
    PROVE  /\ xQueue' = xQueue
           /\ xTicksToWait' \in [Tasks -> BlockTimes] /\ xInheritanceOccurred' \in [Tasks -> BOOLEAN]
           /\ over' \in [Tasks -> BOOLEAN]
  BY DEF IInv, TypesInv, call

LEMMA TimesOutKeeps ==
    ASSUME IInv, NEW t \in Tasks, TimesOut(t)
    PROVE  IInv' /\ BitsKept
<1>1. Awake(t)
  BY RunsAwake DEF TimesOut
<1>2. /\ xTicksToWait' \in [Tasks -> BlockTimes] /\ xInheritanceOccurred' \in [Tasks -> BOOLEAN]
      /\ over' \in [Tasks -> BOOLEAN]
  BY DEF IInv, TypesInv, TimesOut, BlockTimes
<1> QED BY <1>1, <1>2, CallKeeps, PlacesAre DEF TimesOut

LEMMA NeedNotBlockKeeps ==
    ASSUME IInv, NEW t \in Tasks, NeedNotBlock(t)
    PROVE  IInv' /\ BitsKept
<1>1. Awake(t)
  BY RunsAwake DEF NeedNotBlock
<1> QED BY <1>1, CallTypes, CallKeeps, PlacesAre DEF NeedNotBlock

LEMMA TryAgainKeeps ==
    ASSUME IInv, NEW t \in Tasks, TryAgain(t)
    PROVE  IInv' /\ BitsKept
<1>1. Awake(t) /\ pc[t] = "retry"
  BY RunsAwake DEF TryAgain
<1>2. CASE Obtain(t, xQueue[t]) /\ Returns(t)
  <2>1. xQueue[t] \in Mutexes
    BY DEF IInv, TypesInv
  <2>2. /\ CountInv'
        /\ uxMessagesWaiting' \in [Mutexes -> 0..1] /\ xMutexHolder' \in [Mutexes -> Tasks \cup {NoTask}]
        /\ uxRecursiveCallCount' \in [Mutexes -> 0..RecursionBound]
        /\ uxMutexesHeld' \in [AllTasks -> Nat]
        /\ \A u \in AllTasks : uxMutexesHeld'[u] = 0 => uxMutexesHeld[u] = 0
    BY <1>2, <2>1, ObtainCounts DEF IInv
  <2>3. PriorityIsReturned'
    BY <1>2, <2>2, SamePriorities DEF Obtain
  <2>4. /\ Goto(t, "run") /\ xQueue' = xQueue
        /\ xTicksToWait' \in [Tasks -> BlockTimes] /\ xInheritanceOccurred' \in [Tasks -> BOOLEAN]
        /\ over' \in [Tasks -> BOOLEAN]
    BY <1>2, ReturnsTypes DEF IInv
  <2>5. TypesInv'
    BY <1>2, <2>2, <2>4, TasksAre, PlacesAre DEF IInv, TypesInv, Obtain, switching, priorities, Goto
  <2>6. ReadyInv' /\ EventInv' /\ BitsKept
    BY <1>1, <1>2, <2>4, QuietLists, PlacesAre DEF Obtain, switching, priorities, Goto
  <2> QED BY <2>2, <2>3, <2>5, <2>6 DEF IInv
<1>3. CASE /\ Returns(t)
           /\ UNCHANGED <<mutexes, xTasksWaitingToReceive, ready, switching, priorities, uxMutexesHeld>>
  <2>1. TypesInv
    BY DEF IInv
  <2> QED BY <1>1, <1>3, <2>1, ReturnsTypes, CallKeeps, PlacesAre
<1>4. CASE /\ Goto(t, "check") /\ UNCHANGED call
           /\ UNCHANGED <<mutexes, xTasksWaitingToReceive, ready, switching, priorities, uxMutexesHeld>>
  BY <1>1, <1>4, CallTypes, CallKeeps, PlacesAre
<1> QED BY <1>2, <1>3, <1>4 DEF TryAgain

LEMMA IsEmptyKeeps ==
    ASSUME IInv, NEW t \in Tasks, IsEmpty(t)
    PROVE  IInv' /\ BitsKept
<1>1. Awake(t) /\ TypesInv
  BY RunsAwake DEF IsEmpty, IInv
<1>2. UNCHANGED <<mutexes, xTasksWaitingToReceive, ready, switching, priorities, uxMutexesHeld>>
  BY DEF IsEmpty
<1>3. CASE Returns(t)
  BY <1>1, <1>2, <1>3, ReturnsTypes, CallKeeps, PlacesAre
<1>4. CASE Goto(t, "retry") /\ UNCHANGED call
  BY <1>1, <1>2, <1>4, CallTypes, CallKeeps, PlacesAre
<1>5. CASE Goto(t, "disinherit") /\ UNCHANGED call
  BY <1>1, <1>2, <1>5, CallTypes, CallKeeps, PlacesAre
<1> QED BY <1>3, <1>4, <1>5 DEF IsEmpty
-----------------------------------------------------------------------------
(* The steps that move tasks between the lists. *)

LEMMA ReadyIs ==
    ASSUME IInv
    PROVE  /\ ReadyOK(ready, uxPriority) /\ uxPriority \in PrioType /\ uxPriority \in [AllTasks -> Priorities]
           /\ \A u \in AllTasks : In(ready, uxPriority, u) <=> Awake(u)
           /\ pc \in [AllTasks -> PCs] /\ pc[Idle] = "run" /\ Idle \in AllTasks
           /\ pendSV \/ Awake(pxCurrentTCB)
  BY TasksAre DEF IInv, ReadyInv, TypesInv, PrioType

\* What is left to show of the ready lists when the tasks in them are known.
LEMMA ReadyInvFrom ==
    ASSUME NEW A, ReadyOK(ready', uxPriority'), \A u \in AllTasks : In(ready', uxPriority', u) <=> u \in A,
           \A u \in AllTasks : pc'[u] \notin {"blocked", "delayed"} <=> u \in A,
           pendSV' \/ pxCurrentTCB' \in A, pxCurrentTCB' \in AllTasks, pc'[Idle] = "run"
    PROVE  ReadyInv'
  BY DEF ReadyInv, Awake

LEMMA HolderCounts ==
    ASSUME IInv, NEW m \in Mutexes, xMutexHolder[m] # NoTask
    PROVE  /\ xMutexHolder[m] \in Tasks /\ xMutexHolder[m] \in AllTasks /\ xMutexHolder[m] # Idle
           /\ uxMutexesHeld[xMutexHolder[m]] # 0
<1>1. xMutexHolder[m] \in Tasks
  BY DEF IInv, TypesInv
<1>2. m \in HeldIn(xMutexHolder, xMutexHolder[m])
  BY DEF HeldIn
<1>3. Cardinality(HeldIn(xMutexHolder, xMutexHolder[m])) # 0
  BY <1>2, HeldIsFinite
<1> QED BY <1>1, <1>3, CountIs, TasksAre DEF IInv

LEMMA DelayKeeps ==
    ASSUME IInv, NEW t \in Tasks, Delay(t)
    PROVE  IInv' /\ BitsKept
<1>1. Awake(t) /\ t \in AllTasks /\ t # Idle /\ pc[t] = "run"
  BY RunsAwake DEF Delay
<1>2. ready' = RemoveFromReadyList(ready, t, uxPriority[t]) /\ uxPriority' = uxPriority
  BY DEF Delay, priorities
<1>3. /\ ReadyOK(ready', uxPriority)
      /\ BitsExact(ready, Priorities) => BitsExact(ready', Priorities)
      /\ \A u \in AllTasks : In(ready', uxPriority, u) <=> u # t /\ In(ready, uxPriority, u)
  BY <1>1, <1>2, ReadyIs, LeaveReady
<1>4. pc' = [pc EXCEPT ![t] = "delayed"] /\ pendSV' = TRUE
  BY DEF Delay, Goto
<1>5. TypesInv'
  BY <1>4, PlacesAre DEF IInv, TypesInv, Delay, mutexes, priorities, call
<1>6. ReadyInv'
  <2> DEFINE A == {u \in AllTasks : u # t /\ Awake(u)}
  <2>1. \A u \in AllTasks : In(ready', uxPriority', u) <=> u \in A
    BY <1>2, <1>3, ReadyIs
  <2>2. \A u \in AllTasks : pc'[u] \notin {"blocked", "delayed"} <=> u \in A
    BY <1>4, ReadyIs DEF Awake
  <2>3. pc'[Idle] = "run" /\ pxCurrentTCB' \in AllTasks
    BY <1>1, <1>4, <1>5, ReadyIs DEF TypesInv
  <2> QED BY <1>2, <1>3, <1>4, <2>1, <2>2, <2>3, ReadyInvFrom
<1>7. EventInv'
  <2>1. \A u \in Tasks : u \in AllTasks /\ (pc'[u] = "blocked" <=> pc[u] = "blocked")
    BY <1>1, <1>4, ReadyIs, TasksAre
  <2>2. EventInv /\ xTasksWaitingToReceive' = xTasksWaitingToReceive /\ xQueue' = xQueue
    BY DEF IInv, Delay, call
  <2> QED BY <2>1, <2>2 DEF EventInv
<1>8. CountInv' /\ PriorityIsReturned'
  BY SameCounts, SamePriorities DEF Delay
<1> QED BY <1>3, <1>5, <1>6, <1>7, <1>8 DEF IInv, BitsKept

\* A task that waits is made ready.
LEMMA ReadyLists ==
    ASSUME IInv, NEW t \in Tasks, ~Awake(t), Ready(t), NEW c \in PCs \ {"blocked", "delayed"},
           pc' = [pc EXCEPT ![t] = c], pxCurrentTCB' = pxCurrentTCB, uxPriority' = uxPriority
    PROVE  ReadyInv' /\ BitsKept /\ pendSV' \in BOOLEAN
<1>1. t \in AllTasks /\ t # Idle /\ ~In(ready, uxPriority, t)
  BY ReadyIs, TasksAre
<1>2. ready' = prvAddTaskToReadyList(ready, t, uxPriority[t])
  BY DEF Ready
<1>3. /\ ReadyOK(ready', uxPriority)
      /\ BitsExact(ready, Priorities) => BitsExact(ready', Priorities)
      /\ \A u \in AllTasks : In(ready', uxPriority, u) <=> u = t \/ In(ready, uxPriority, u)
  BY <1>1, <1>2, ReadyIs, JoinReady
<1> DEFINE A == {u \in AllTasks : u = t \/ Awake(u)}
<1>4. \A u \in AllTasks : In(ready', uxPriority', u) <=> u \in A
  BY <1>3, ReadyIs
<1>5. \A u \in AllTasks : pc'[u] \notin {"blocked", "delayed"} <=> u \in A
  BY <1>1, ReadyIs DEF Awake
<1>6. pc'[Idle] = "run" /\ pxCurrentTCB' \in AllTasks
  BY <1>1, ReadyIs DEF IInv, TypesInv
<1>7. pendSV' \/ pxCurrentTCB' \in A
  BY ReadyIs DEF Ready, IInv, TypesInv
<1>8. ReadyInv'
  BY <1>3, <1>4, <1>5, <1>6, <1>7, ReadyInvFrom
<1>9. pendSV' \in BOOLEAN
  BY DEF Ready, IInv, TypesInv
<1> QED BY <1>3, <1>8, <1>9 DEF BitsKept

LEMMA DelayEndsKeeps ==
    ASSUME IInv, NEW t \in Tasks, DelayEnds(t)
    PROVE  IInv' /\ BitsKept
<1>1. /\ pc[t] = "delayed" /\ ~Awake(t) /\ t \in AllTasks
      /\ pc' = [pc EXCEPT ![t] = "run"] /\ Ready(t)
      /\ UNCHANGED <<mutexes, pxCurrentTCB, priorities, uxMutexesHeld, xTasksWaitingToReceive, call>>
  BY TasksAre DEF DelayEnds, Awake, Ready, Goto
<1>2. ReadyInv' /\ BitsKept /\ pendSV' \in BOOLEAN
  <2>1. pxCurrentTCB' = pxCurrentTCB /\ uxPriority' = uxPriority
    BY <1>1 DEF priorities
  <2> QED BY <1>1, <2>1, PlacesAre, ReadyLists
<1>3. TypesInv'
  BY <1>1, <1>2, PlacesAre DEF IInv, TypesInv, mutexes, priorities, call
<1>4. EventInv'
  <2>1. \A u \in Tasks : u \in AllTasks /\ (pc'[u] = "blocked" <=> pc[u] = "blocked")
    BY <1>1, ReadyIs, TasksAre
  <2>2. EventInv /\ xTasksWaitingToReceive' = xTasksWaitingToReceive /\ xQueue' = xQueue
    BY <1>1 DEF IInv, call
  <2> QED BY <2>1, <2>2 DEF EventInv
<1>5. CountInv' /\ PriorityIsReturned'
  BY <1>1, SameCounts, SamePriorities
<1> QED BY <1>2, <1>3, <1>4, <1>5 DEF IInv

LEMMA WaitEndsKeeps ==
    ASSUME IInv, NEW t \in Tasks, WaitEnds(t)
    PROVE  IInv' /\ BitsKept
<1> DEFINE m == xQueue[t]
           X == xTasksWaitingToReceive
<1>1. /\ pc[t] = "blocked" /\ ~Awake(t) /\ t \in AllTasks
      /\ pc' = [pc EXCEPT ![t] = "retry"] /\ Ready(t)
      /\ UNCHANGED <<mutexes, pxCurrentTCB, priorities, uxMutexesHeld, xQueue, xTicksToWait, xInheritanceOccurred>>
      /\ X' = [X EXCEPT ![m] = uxListRemove(X[m], t)]
      /\ over' = [over EXCEPT ![t] = TRUE]
  BY TasksAre DEF WaitEnds, Awake, Ready, Goto
<1>2. ReadyInv' /\ BitsKept /\ pendSV' \in BOOLEAN
  <2>1. pxCurrentTCB' = pxCurrentTCB /\ uxPriority' = uxPriority
    BY <1>1 DEF priorities
  <2> QED BY <1>1, <2>1, PlacesAre, ReadyLists
<1>3. m \in Mutexes /\ X \in [Mutexes -> Seq(Tasks)] /\ EventInv
  BY DEF IInv, TypesInv
<1>4. X[m] \in Seq(Tasks) /\ NoDuplicates(X[m]) /\ t \in ToSet(X[m])
  BY <1>1, <1>3 DEF EventInv
<1> DEFINE r == uxListRemove(X[m], t)
<1>5. r \in Seq(Tasks) /\ ToSet(r) = ToSet(X[m]) \ {t} /\ NoDuplicates(r)
  BY <1>4, uxListRemoveProperties
<1> HIDE DEF r
<1>6. X' = [X EXCEPT ![m] = r]
  BY <1>1 DEF r
<1> HIDE DEF m
<1>7. TypesInv'
  <2>1. X' \in [Mutexes -> Seq(Tasks)]
    BY <1>3, <1>5, <1>6
  <2> QED BY <1>1, <1>2, <2>1, PlacesAre DEF IInv, TypesInv, mutexes, priorities
<1>8. EventInv'
  <2>1. \A k \in Mutexes : X'[k] = IF k = m THEN r ELSE X[k]
    BY <1>3, <1>6
  <2>2. \A u \in Tasks : pc'[u] = "blocked" <=> pc[u] = "blocked" /\ u # t
    BY <1>1, ReadyIs, TasksAre
  <2>3. xQueue[t] = m /\ xQueue' = xQueue
    BY <1>1 DEF m
  <2>4. \A k \in Mutexes : NoDuplicates(X'[k])
    BY <1>3, <1>5, <2>1 DEF EventInv
  <2>5. \A k \in Mutexes, u \in Tasks : u \in ToSet(X'[k]) <=> u \in ToSet(X[k]) /\ u # t
    BY <1>1, <1>3, <1>5, <2>1, <2>3 DEF EventInv
  <2> QED BY <1>3, <2>2, <2>3, <2>4, <2>5 DEF EventInv
<1>9. CountInv' /\ PriorityIsReturned'
  BY <1>1, SameCounts, SamePriorities
<1> QED BY <1>2, <1>7, <1>8, <1>9 DEF IInv

\* The switch takes one of the ready tasks of the highest priority.
LEMMA PendSVSwitches ==
    ASSUME IInv, PendSV
    PROVE  /\ ReadyOK(ready', uxPriority) /\ BitsKept
           /\ \A u \in AllTasks : In(ready', uxPriority, u) <=> Awake(u)
           /\ pxCurrentTCB' \in AllTasks /\ Awake(pxCurrentTCB')
           /\ \A u \in AllTasks : Awake(u) => uxPriority[u] <= uxPriority[pxCurrentTCB']
<1> DEFINE p == Max(ready.top)
           l == listGET_OWNER_OF_NEXT_ENTRY(ready.lists[p])
           cur == l.items[l.idx]
<1>1. /\ ready' = [ready EXCEPT !.lists[p] = l] /\ pxCurrentTCB' = cur
      /\ pendSV' = FALSE /\ ready.lists[p].items # << >>
      /\ UNCHANGED <<mutexes, xTasksWaitingToReceive, priorities, uxMutexesHeld, pc, call>>
  BY DEF PendSV, SelectsReadyTask
<1>2. /\ uxPriority \in [AllTasks -> Priorities] /\ ReadySound(ready, uxPriority, AllTasks, Priorities)
      /\ BitsSet(ready, Priorities) /\ \A u \in AllTasks : In(ready, uxPriority, u) <=> Awake(u)
  BY ReadyIs DEF ReadyOK
<1>3. ready.top # {} /\ ready.top \subseteq Priorities
  <2>1. In(ready, uxPriority, Idle) /\ uxPriority[Idle] \in Priorities
    BY <1>2, ReadyIs DEF Awake
  <2>2. ready.lists[uxPriority[Idle]].items # << >>
    BY <2>1, EmptyToSet DEF In
  <2> QED BY <1>2, <2>1, <2>2 DEF BitsSet, ReadySound, ReadyTypeOf
<1>4. p \in ready.top /\ \A q \in ready.top : q <= p
  <2>1. MaxPriority \in Nat /\ ready.top \in SUBSET (0 .. MaxPriority)
    BY <1>3, PrioritiesAreNats DEF Priorities
  <2> QED BY <1>3, <2>1, MaxOfBounded
<1>5. l = listGET_OWNER_OF_NEXT_ENTRY(ready.lists[p]) /\ cur = l.items[l.idx]
  OBVIOUS
<1> HIDE DEF p, l, cur
<1>6. /\ ReadySound(ready', uxPriority, AllTasks, Priorities)
      /\ BitsSet(ready, Priorities) => BitsSet(ready', Priorities)
      /\ BitsExact(ready, Priorities) => BitsExact(ready', Priorities)
      /\ \A u \in AllTasks : In(ready', uxPriority, u) <=> In(ready, uxPriority, u)
      /\ cur \in AllTasks /\ In(ready, uxPriority, cur)
      /\ BitsSet(ready, Priorities) => \A u \in AllTasks : In(ready, uxPriority, u) => uxPriority[u] <= uxPriority[cur]
  BY <1>1, <1>2, <1>4, <1>5, SwitchReady
<1> QED BY <1>1, <1>2, <1>6 DEF ReadyOK, BitsKept

LEMMA PendSVKeeps ==
    ASSUME IInv, PendSV
    PROVE  IInv' /\ BitsKept
<1>1. /\ ReadyOK(ready', uxPriority) /\ BitsKept
      /\ \A u \in AllTasks : In(ready', uxPriority, u) <=> Awake(u)
      /\ pxCurrentTCB' \in AllTasks /\ Awake(pxCurrentTCB')
  BY PendSVSwitches
<1>2. /\ pendSV' = FALSE
      /\ UNCHANGED <<mutexes, xTasksWaitingToReceive, priorities, uxMutexesHeld, pc, call>>
  BY DEF PendSV
<1>3. TypesInv'
  BY <1>1, <1>2 DEF IInv, TypesInv, mutexes, priorities, call
<1>4. ReadyInv'
  <2> DEFINE A == {u \in AllTasks : Awake(u)}
  <2>1. \A u \in AllTasks : In(ready', uxPriority', u) <=> u \in A
    BY <1>1, <1>2 DEF priorities
  <2>2. \A u \in AllTasks : pc'[u] \notin {"blocked", "delayed"} <=> u \in A
    BY <1>2 DEF Awake
  <2>3. ReadyOK(ready', uxPriority') /\ pxCurrentTCB' \in A /\ pc'[Idle] = "run"
    BY <1>1, <1>2, ReadyIs DEF priorities
  <2> QED BY <1>1, <2>1, <2>2, <2>3, ReadyInvFrom
<1>5. EventInv'
  BY <1>2 DEF IInv, EventInv, call
<1>6. CountInv' /\ PriorityIsReturned'
  BY <1>2, SameCounts, SamePriorities
<1> QED BY <1>1, <1>3, <1>4, <1>5, <1>6 DEF IInv
-----------------------------------------------------------------------------
(* The steps that change priorities. *)

\* A task is given a priority, and moves with it if it is ready.
LEMMA MovesLists ==
    ASSUME IInv, NEW u \in Tasks, NEW q \in Priorities, NEW c \in Priorities,
           uxPriority' = [uxPriority EXCEPT ![u] = q], ready' = Moved(ready, u, uxPriority[u], q, c)
    PROVE  /\ uxPriority' \in PrioType /\ ReadyOK(ready', uxPriority')
           /\ BitsExact(ready, Priorities) /\ c = uxPriority[u] => BitsExact(ready', Priorities)
           /\ \A v \in AllTasks : In(ready', uxPriority', v) <=> Awake(v)
<1>1. u \in AllTasks
  BY TasksAre
<1>2. uxPriority' \in PrioType /\ uxPriority'[u] = q /\ \A v \in AllTasks \ {u} : uxPriority'[v] = uxPriority[v]
  BY <1>1, ReadyIs DEF PrioType
<1>3. ready' = Moved(ready, u, uxPriority[u], uxPriority'[u], c)
  BY <1>2
<1>4. /\ ReadyOK(ready', uxPriority')
      /\ BitsExact(ready, Priorities) /\ c = uxPriority[u] => BitsExact(ready', Priorities)
      /\ \A v \in AllTasks : In(ready', uxPriority', v) <=> In(ready, uxPriority, v)
  <2> DEFINE prio  == uxPriority
             prio2 == uxPriority'
             R     == ready
             R2    == ready'
  <2>1. /\ prio \in PrioType /\ prio2 \in PrioType /\ ReadyOK(R, prio)
        /\ \A v \in AllTasks \ {u} : prio2[v] = prio[v]
        /\ R2 = Moved(R, u, prio[u], prio2[u], c)
    BY <1>2, <1>3, ReadyIs
  <2> HIDE DEF prio, prio2, R, R2
  <2>2. /\ ReadyOK(R2, prio2)
        /\ BitsExact(R, Priorities) /\ c = prio[u] => BitsExact(R2, Priorities)
        /\ \A v \in AllTasks : In(R2, prio2, v) <=> In(R, prio, v)
    BY <1>1, <2>1, MovedReady
  <2> QED BY <2>2 DEF prio, prio2, R, R2
<1> QED BY <1>2, <1>4, ReadyIs

LEMMA PrioritySetKeeps ==
    ASSUME IInv, NEW t \in Tasks, NEW u \in Victims, NEW p \in NewPriorities, vTaskPrioritySet(t, u, p)
    PROVE  IInv' /\ BitsKept
<1> DEFINE q == NewPriority(u, p)
           c == uxPriority[u]
<1>1. /\ u \in Tasks /\ u \in AllTasks /\ p \in Priorities /\ Awake(t) /\ pxCurrentTCB = t /\ t \in AllTasks
      /\ uxPriority \in PrioType /\ uxBasePriority \in PrioType
  BY RunsAwake, MutexAssumption, TasksAre DEF vTaskPrioritySet, IInv, TypesInv
<1>2. q \in Priorities /\ c \in Priorities
  BY <1>1 DEF NewPriority, PrioType
<1>3. /\ uxPriority' = [uxPriority EXCEPT ![u] = q] /\ ready' = Moved(ready, u, uxPriority[u], q, c)
      /\ uxBasePriority' = [uxBasePriority EXCEPT ![u] = p]
      /\ xEventValue' = [xEventValue EXCEPT ![u] = EventValueOf(p)]
      /\ pendSV' \in BOOLEAN
      /\ UNCHANGED <<mutexes, xTasksWaitingToReceive, pxCurrentTCB, uxMutexesHeld, pc, call>>
  BY DEF vTaskPrioritySet
<1>4. \A v \in AllTasks : uxMutexesHeld[v] = 0 => uxPriority[v] = uxBasePriority[v]
  BY DEF IInv, PriorityIsReturned
<1>5. \A v \in AllTasks : uxMutexesHeld[v] = 0 => uxPriority'[v] = uxBasePriority'[v]
  BY <1>1, <1>3, <1>4 DEF NewPriority, PrioType
<1>6. c = uxPriority[u]
  OBVIOUS
<1> HIDE DEF q, c
<1>7. /\ uxPriority' \in PrioType /\ ReadyOK(ready', uxPriority')
      /\ BitsExact(ready, Priorities) => BitsExact(ready', Priorities)
      /\ \A v \in AllTasks : In(ready', uxPriority', v) <=> Awake(v)
  BY <1>1, <1>2, <1>3, <1>6, MovesLists
<1>8. ReadyInv'
  <2> DEFINE A == {v \in AllTasks : Awake(v)}
  <2>1. \A v \in AllTasks : In(ready', uxPriority', v) <=> v \in A
    BY <1>7
  <2>2. \A v \in AllTasks : pc'[v] \notin {"blocked", "delayed"} <=> v \in A
    BY <1>3 DEF Awake
  <2>3. pxCurrentTCB' \in A /\ pxCurrentTCB' \in AllTasks /\ pc'[Idle] = "run"
    BY <1>1, <1>3, ReadyIs
  <2> QED BY <1>7, <2>1, <2>2, <2>3, ReadyInvFrom
<1>9. TypesInv'
  <2>1. uxBasePriority' \in PrioType
    BY <1>1, <1>3 DEF PrioType
  <2>2. xEventValue' \in [AllTasks -> -MaxPriority..0]
    BY <1>1, <1>3, EventValues DEF IInv, TypesInv
  <2> QED BY <1>3, <1>7, <2>1, <2>2 DEF IInv, TypesInv, mutexes, call
<1>10. EventInv'
  BY <1>3 DEF IInv, EventInv, call
<1>11. CountInv' /\ PriorityIsReturned'
  BY <1>3, <1>5, SameCounts DEF PriorityIsReturned
<1> QED BY <1>7, <1>8, <1>9, <1>10, <1>11 DEF IInv, BitsKept

LEMMA DisinheritTypes ==
    ASSUME IInv, NEW m \in Mutexes
    PROVE  prvGetDisinheritPriorityAfterTimeout(m) \in Priorities
<1>1. CASE xTasksWaitingToReceive[m] = << >>
  BY <1>1, PrioritiesAreNats DEF prvGetDisinheritPriorityAfterTimeout
<1>2. CASE xTasksWaitingToReceive[m] # << >>
  <2>1. Head(xTasksWaitingToReceive[m]) \in AllTasks
    BY <1>2, HeadIn, TasksAre DEF IInv, TypesInv
  <2>2. xEventValue[Head(xTasksWaitingToReceive[m])] \in -MaxPriority..0 /\ MaxPriority \in Nat
    BY <2>1, PrioritiesAreNats DEF IInv, TypesInv
  <2>3. -xEventValue[Head(xTasksWaitingToReceive[m])] \in 0..MaxPriority
    BY <2>2
  <2> QED BY <1>2, <2>3 DEF prvGetDisinheritPriorityAfterTimeout, Priorities
<1> QED BY <1>1, <1>2

\* The bit looked at is that of the new priority, so that the bits may not stay exact.
LEMMA DisinheritKeeps ==
    ASSUME IInv, NEW t \in Tasks, DisinheritAfterTimeout(t)
    PROVE  IInv'
<1> DEFINE h == xMutexHolder[xQueue[t]]
           waiting == prvGetDisinheritPriorityAfterTimeout(xQueue[t])
           p == IF uxBasePriority[h] < waiting THEN waiting ELSE uxBasePriority[h]
<1>1. /\ Awake(t) /\ t \in AllTasks /\ t # Idle /\ pxCurrentTCB = t /\ xQueue[t] \in Mutexes
      /\ uxBasePriority \in PrioType /\ TypesInv
  BY RunsAwake DEF DisinheritAfterTimeout, IInv, TypesInv
<1>2. /\ Goto(t, "run") /\ xQueue' = xQueue
      /\ xTicksToWait' \in [Tasks -> BlockTimes] /\ xInheritanceOccurred' \in [Tasks -> BOOLEAN]
      /\ over' \in [Tasks -> BOOLEAN]
      /\ UNCHANGED <<mutexes, xTasksWaitingToReceive, switching, uxBasePriority, uxMutexesHeld>>
  BY <1>1, ReturnsTypes DEF DisinheritAfterTimeout
<1>3. CASE /\ h # NoTask /\ uxPriority[h] # p /\ uxMutexesHeld[h] = 1
           /\ uxPriority' = [uxPriority EXCEPT ![h] = p]
           /\ xEventValue' = [xEventValue EXCEPT ![h] = EventValueOf(p)]
           /\ ready' = Moved(ready, h, uxPriority[h], p, p)
  <2>1. h \in Tasks /\ h \in AllTasks
    BY <1>1, <1>3, HolderCounts
  <2>2. waiting \in Priorities
    BY <1>1, DisinheritTypes
  <2>3. p \in Priorities
    BY <1>1, <2>1, <2>2 DEF PrioType
  <2>4. uxMutexesHeld[h] = 1
    BY <1>3
  <2> HIDE DEF p, h
  <2>5. /\ uxPriority' \in PrioType /\ ReadyOK(ready', uxPriority')
        /\ BitsExact(ready, Priorities) /\ p = uxPriority[h] => BitsExact(ready', Priorities)
        /\ \A v \in AllTasks : In(ready', uxPriority', v) <=> Awake(v)
    BY <1>3, <2>1, <2>3, MovesLists
  <2>6. ReadyInv'
    <3> DEFINE A == {v \in AllTasks : Awake(v)}
    <3>1. \A v \in AllTasks : In(ready', uxPriority', v) <=> v \in A
      BY <2>5
    <3>2. \A v \in AllTasks : pc'[v] \notin {"blocked", "delayed"} <=> v \in A
      BY <1>1, <1>2, ReadyIs DEF Awake, Goto
    <3>3. pxCurrentTCB' \in A /\ pxCurrentTCB' \in AllTasks /\ pc'[Idle] = "run"
      BY <1>1, <1>2, ReadyIs DEF switching, Goto
    <3> QED BY <2>5, <3>1, <3>2, <3>3, ReadyInvFrom
  <2>7. TypesInv'
    <3>1. xEventValue' \in [AllTasks -> -MaxPriority..0]
      BY <1>3, <2>1, <2>3, EventValues DEF IInv, TypesInv
    <3> QED BY <1>2, <2>5, <3>1, PlacesAre DEF IInv, TypesInv, mutexes, switching, Goto
  <2>8. EventInv'
    <3>1. \A u \in Tasks : pc'[u] = "blocked" <=> pc[u] = "blocked"
      BY <1>1, <1>2, ReadyIs, TasksAre DEF Goto, Awake
    <3> QED BY <1>2, <3>1 DEF IInv, EventInv
  <2>9. PriorityIsReturned'
    <3>1. PriorityIsReturned
      BY DEF IInv
    <3>2. \A u \in AllTasks : uxMutexesHeld[u] = 0 => uxPriority'[u] = uxPriority[u]
      BY <1>3, <2>4, ReadyIs
    <3> QED BY <1>2, <3>1, <3>2 DEF PriorityIsReturned
  <2>10. CountInv'
    BY <1>2, SameCounts
  <2> QED BY <2>6, <2>7, <2>8, <2>9, <2>10 DEF IInv
<1>4. CASE UNCHANGED <<uxPriority, xEventValue, ready>>
  <2>1. UNCHANGED <<mutexes, xTasksWaitingToReceive, ready, switching, priorities, uxMutexesHeld, xQueue>>
    BY <1>2, <1>4 DEF priorities
  <2> QED BY <1>1, <1>2, <2>1, CallKeeps, PlacesAre
<1> QED BY <1>3, <1>4 DEF DisinheritAfterTimeout

LEMMA BlocksKeeps ==
    ASSUME IInv, NEW t \in Tasks, Blocks(t)
    PROVE  IInv' /\ BitsKept
<1> DEFINE m == xQueue[t]
           h == xMutexHolder[m]
           p == uxPriority[t]
           X == xTasksWaitingToReceive
           R == IF Raises(h, t) THEN ReadyAfterRaise(h, p) ELSE ready
<1>1. /\ Awake(t) /\ pc[t] = "check" /\ t \in AllTasks /\ t # Idle /\ m \in Mutexes /\ p \in Priorities
      /\ X \in [Mutexes -> Seq(Tasks)] /\ EventInv
  BY RunsAwake DEF Blocks, IInv, TypesInv, PrioType
<1>2. /\ pc' = [pc EXCEPT ![t] = "blocked"] /\ pendSV' = TRUE
      /\ ready' = RemoveFromReadyList(R, t, p)
      /\ xInheritanceOccurred' = [xInheritanceOccurred EXCEPT ![t] = Inherits(h, t)]
      /\ UNCHANGED <<mutexes, uxBasePriority, uxMutexesHeld, pxCurrentTCB, xQueue, xTicksToWait, over>>
      /\ X' = [X EXCEPT ![m] = vListInsert(X[m], t, xEventValue')]
  BY DEF Blocks, Goto
<1>3. /\ uxPriority' \in PrioType /\ ReadyOK(R, uxPriority') /\ uxPriority'[t] = p
      /\ BitsExact(ready, Priorities) => BitsExact(R, Priorities)
      /\ \A v \in AllTasks : In(R, uxPriority', v) <=> Awake(v)
      /\ xEventValue' \in [AllTasks -> -MaxPriority..0]
      /\ \A u \in AllTasks : uxMutexesHeld[u] = 0 => uxPriority'[u] = uxPriority[u]
  <2>1. CASE Raises(h, t)
    <3>1. h # NoTask /\ uxPriority[h] < p
      BY <2>1 DEF Raises
    <3>2. h \in Tasks /\ h \in AllTasks /\ uxMutexesHeld[h] # 0
      BY <1>1, <3>1, HolderCounts
    <3>3. /\ uxPriority' = [uxPriority EXCEPT ![h] = p] /\ xEventValue' = [xEventValue EXCEPT ![h] = EventValueOf(p)]
      BY <2>1 DEF Blocks
    <3> DEFINE q == p
               c == uxPriority[h]
               R2 == Moved(ready, h, uxPriority[h], q, c)
    <3>4. /\ uxPriority' = [uxPriority EXCEPT ![h] = q] /\ q \in Priorities /\ c \in Priorities /\ c = uxPriority[h]
      BY <1>1, <3>2, <3>3, ReadyIs
    <3>5. R = R2
      BY <2>1 DEF ReadyAfterRaise
    <3>6. uxPriority' \in PrioType /\ uxPriority'[h] = q /\ \A v \in AllTasks \ {h} : uxPriority'[v] = uxPriority[v]
      BY <3>2, <3>4, ReadyIs DEF PrioType
    <3>7. R2 = Moved(ready, h, uxPriority[h], uxPriority'[h], c)
      BY <3>6
    <3> HIDE DEF q, c, R2
    <3>8. /\ ReadyOK(R2, uxPriority')
          /\ BitsExact(ready, Priorities) /\ c = uxPriority[h] => BitsExact(R2, Priorities)
          /\ \A v \in AllTasks : In(R2, uxPriority', v) <=> In(ready, uxPriority, v)
      <4> DEFINE prio  == uxPriority
                 prio2 == uxPriority'
                 S     == ready
      <4>1. /\ prio \in PrioType /\ prio2 \in PrioType /\ ReadyOK(S, prio)
            /\ \A v \in AllTasks \ {h} : prio2[v] = prio[v]
            /\ R2 = Moved(S, h, prio[h], prio2[h], c) /\ c \in Priorities /\ h \in AllTasks
        BY <3>2, <3>4, <3>6, <3>7, ReadyIs
      <4> HIDE DEF prio, prio2, S, h
      <4>2. /\ ReadyOK(R2, prio2)
            /\ BitsExact(S, Priorities) /\ c = prio[h] => BitsExact(R2, Priorities)
            /\ \A v \in AllTasks : In(R2, prio2, v) <=> In(S, prio, v)
        BY <4>1, MovedReady
      <4> QED BY <4>2 DEF prio, prio2, S
    <3>9. uxPriority'[t] = p
      BY <1>1, <3>2, <3>3, ReadyIs
    <3>10. xEventValue' \in [AllTasks -> -MaxPriority..0]
      BY <1>1, <3>2, <3>3, EventValues DEF IInv, TypesInv
    <3>11. \A u \in AllTasks : uxMutexesHeld[u] = 0 => uxPriority'[u] = uxPriority[u]
      BY <3>2, <3>6
    <3> HIDE DEF R
    <3> QED BY <3>4, <3>5, <3>6, <3>8, <3>9, <3>10, <3>11, ReadyIs
  <2>2. CASE ~Raises(h, t)
    <3>1. uxPriority' = uxPriority /\ xEventValue' = xEventValue /\ R = ready
      BY <2>2 DEF Blocks
    <3> QED BY <3>1, ReadyIs DEF IInv, TypesInv
  <2> QED BY <2>1, <2>2
<1> HIDE DEF R
<1>4. /\ ReadyOK(ready', uxPriority')
      /\ BitsExact(R, Priorities) => BitsExact(ready', Priorities)
      /\ \A u \in AllTasks : In(ready', uxPriority', u) <=> u # t /\ In(R, uxPriority', u)
  <2> DEFINE prio == uxPriority'
  <2>1. prio \in PrioType /\ ReadyOK(R, prio) /\ In(R, prio, t) /\ ready' = RemoveFromReadyList(R, t, prio[t])
    BY <1>1, <1>2, <1>3
  <2> HIDE DEF prio
  <2>2. /\ ReadyOK(ready', prio)
        /\ BitsExact(R, Priorities) => BitsExact(ready', Priorities)
        /\ \A u \in AllTasks : In(ready', prio, u) <=> u # t /\ In(R, prio, u)
    BY <1>1, <2>1, LeaveReady
  <2> QED BY <2>2 DEF prio
<1>5. ReadyInv'
  <2> DEFINE A == {u \in AllTasks : u # t /\ Awake(u)}
  <2>1. \A u \in AllTasks : In(ready', uxPriority', u) <=> u \in A
    BY <1>3, <1>4
  <2>2. \A u \in AllTasks : pc'[u] \notin {"blocked", "delayed"} <=> u \in A
    BY <1>2, ReadyIs DEF Awake
  <2>3. pc'[Idle] = "run" /\ pxCurrentTCB' \in AllTasks
    BY <1>1, <1>2, ReadyIs DEF IInv, TypesInv
  <2> QED BY <1>2, <1>4, <2>1, <2>2, <2>3, ReadyInvFrom
<1> DEFINE r == vListInsert(X[m], t, xEventValue')
<1>6. X[m] \in Seq(Tasks) /\ NoDuplicates(X[m]) /\ t \notin ToSet(X[m])
  BY <1>1 DEF EventInv
<1>7. r \in Seq(Tasks) /\ ToSet(r) = ToSet(X[m]) \cup {t} /\ NoDuplicates(r)
  BY <1>6, vListInsertProperties
<1>8. X' = [X EXCEPT ![m] = r]
  BY <1>2
<1> HIDE DEF r, m
<1>9. TypesInv'
  <2>1. X' \in [Mutexes -> Seq(Tasks)]
    BY <1>1, <1>7, <1>8
  <2>2. Inherits(h, t) \in BOOLEAN
    BY DEF Inherits, Raises
  <2> HIDE DEF h
  <2> QED BY <1>2, <1>3, <2>1, <2>2, PlacesAre DEF IInv, TypesInv, mutexes
<1>10. EventInv'
  <2>1. \A k \in Mutexes : X'[k] = IF k = m THEN r ELSE X[k]
    BY <1>1, <1>8
  <2>2. \A u \in Tasks : pc'[u] = "blocked" <=> pc[u] = "blocked" \/ u = t
    BY <1>1, <1>2, ReadyIs, TasksAre
  <2>3. xQueue[t] = m /\ xQueue' = xQueue
    BY <1>2 DEF m
  <2>4. \A k \in Mutexes : NoDuplicates(X'[k])
    BY <1>1, <1>7, <2>1 DEF EventInv
  <2>5. \A k \in Mutexes, u \in Tasks : u \in ToSet(X'[k]) <=> u \in ToSet(X[k]) \/ (u = t /\ k = m)
    BY <1>7, <2>1
  <2> QED BY <1>1, <2>2, <2>3, <2>4, <2>5 DEF EventInv
<1>11. CountInv' /\ PriorityIsReturned'
  <2>1. UNCHANGED <<mutexes, uxMutexesHeld>>
    BY <1>2
  <2>2. PriorityIsReturned
    BY DEF IInv
  <2> QED BY <1>2, <1>3, <2>1, <2>2, SameCounts DEF PriorityIsReturned
<1> QED BY <1>3, <1>4, <1>5, <1>9, <1>10, <1>11 DEF IInv, BitsKept
-----------------------------------------------------------------------------
(* Giving a mutex. *)

LEMMA GiveKeeps ==
    ASSUME IInv, NEW t \in Tasks, NEW m \in Mutexes, Give(t, m)
    PROVE  IInv' /\ BitsKept
<1> DEFINE X == xTasksWaitingToReceive
           w == Head(X[m])
           lowered == Disinherits(t)
           base == uxBasePriority[t]
           R == IF lowered THEN Moved(ready, t, uxPriority[t], base, uxPriority[t]) ELSE ready
<1>1. /\ Awake(t) /\ pc[t] = "run" /\ t \in AllTasks /\ t # Idle /\ pxCurrentTCB = t /\ base \in Priorities
      /\ X \in [Mutexes -> Seq(Tasks)] /\ X[m] \in Seq(Tasks) /\ NoDuplicates(X[m]) /\ EventInv
      /\ TypesInv /\ CountInv /\ PriorityIsReturned
  BY RunsAwake DEF Give, IInv, TypesInv, PrioType, EventInv
<1>2. /\ uxPriority' = IF lowered THEN [uxPriority EXCEPT ![t] = base] ELSE uxPriority
      /\ xEventValue' = IF lowered THEN [xEventValue EXCEPT ![t] = EventValueOf(base)] ELSE xEventValue
      /\ UNCHANGED <<uxBasePriority, pxCurrentTCB, call>>
      /\ \/ /\ X[m] = << >>
            /\ pendSV' = lowered /\ ready' = R
            /\ UNCHANGED <<xTasksWaitingToReceive, pc>>
         \/ /\ X[m] # << >>
            /\ X' = [X EXCEPT ![m] = Tail(X[m])]
            /\ pc' = [pc EXCEPT ![w] = "retry"]
            /\ ready' = prvAddTaskToReadyList(R, w, uxPriority[w])
            /\ pendSV' = WakesHigher(w, t)
  BY DEF Give, Release, Goto
<1>3. lowered \in BOOLEAN /\ WakesHigher(w, t) \in BOOLEAN
  BY DEF Disinherits, HoldsNoOtherMutex, WakesHigher
<1>4. /\ CountInv'
      /\ uxMessagesWaiting' \in [Mutexes -> 0..1] /\ xMutexHolder' \in [Mutexes -> Tasks \cup {NoTask}]
      /\ uxRecursiveCallCount' \in [Mutexes -> 0..RecursionBound]
      /\ uxMutexesHeld' \in [AllTasks -> Nat]
      /\ \A u \in AllTasks \ {t} : uxMutexesHeld'[u] = uxMutexesHeld[u]
      /\ uxMutexesHeld[t] > 0 /\ uxMutexesHeld'[t] = uxMutexesHeld[t] - 1
  BY <1>1, GiveCounts
<1>5. /\ uxPriority' \in PrioType /\ ReadyOK(R, uxPriority')
      /\ BitsExact(ready, Priorities) => BitsExact(R, Priorities)
      /\ \A v \in AllTasks : In(R, uxPriority', v) <=> Awake(v)
      /\ xEventValue' \in [AllTasks -> -MaxPriority..0]
      /\ \A v \in AllTasks \ {t} : uxPriority'[v] = uxPriority[v]
  <2>1. CASE lowered
    <3> DEFINE prio  == uxPriority
               prio2 == uxPriority'
               S     == ready
               c     == uxPriority[t]
    <3>1. prio2 = [prio EXCEPT ![t] = base]
      BY <1>2, <2>1
    <3>2. prio \in PrioType /\ ReadyOK(S, prio) /\ c \in Priorities
      BY <1>1, ReadyIs DEF PrioType
    <3>3. prio2 \in PrioType /\ prio2[t] = base /\ \A v \in AllTasks \ {t} : prio2[v] = prio[v]
      BY <1>1, <3>1, <3>2 DEF PrioType
    <3>4. R = Moved(S, t, prio[t], prio2[t], c) /\ c = prio[t]
      BY <2>1, <3>3
    <3>5. xEventValue' \in [AllTasks -> -MaxPriority..0]
      BY <1>1, <1>2, <2>1, EventValues DEF TypesInv
    <3> HIDE DEF prio, prio2, S, c, R
    <3>6. /\ ReadyOK(R, prio2)
          /\ BitsExact(S, Priorities) /\ c = prio[t] => BitsExact(R, Priorities)
          /\ \A v \in AllTasks : In(R, prio2, v) <=> In(S, prio, v)
      BY <1>1, <3>2, <3>3, <3>4, MovedReady
    <3> QED BY <3>3, <3>4, <3>5, <3>6, ReadyIs DEF prio, prio2, S, c
  <2>2. CASE ~lowered
    <3>1. uxPriority' = uxPriority /\ xEventValue' = xEventValue /\ R = ready
      BY <1>2, <2>2
    <3> QED BY <1>1, <3>1, ReadyIs DEF TypesInv
  <2> QED BY <2>1, <2>2
<1>6. PriorityIsReturned'
  <2>1. CASE uxMutexesHeld'[t] = 0
    <3>1. uxPriority[t] # base => lowered
      BY <1>4, <2>1 DEF Disinherits, HoldsNoOtherMutex
    <3>2. uxPriority'[t] = uxBasePriority'[t]
      BY <1>1, <1>2, <3>1, ReadyIs
    <3> QED BY <1>1, <1>2, <1>4, <1>5, <3>2 DEF PriorityIsReturned
  <2>2. CASE uxMutexesHeld'[t] # 0
    BY <1>1, <1>2, <1>4, <1>5, <2>2 DEF PriorityIsReturned
  <2> QED BY <2>1, <2>2
<1> HIDE DEF lowered, base, R
<1>7. CASE X[m] = << >>
  <2>1. pendSV' = lowered /\ ready' = R /\ UNCHANGED <<xTasksWaitingToReceive, pc>>
    BY <1>2, <1>7
  <2>2. ReadyInv'
    <3> DEFINE A == {v \in AllTasks : Awake(v)}
    <3>1. \A v \in AllTasks : In(ready', uxPriority', v) <=> v \in A
      BY <1>5, <2>1
    <3>2. \A v \in AllTasks : pc'[v] \notin {"blocked", "delayed"} <=> v \in A
      BY <2>1 DEF Awake
    <3>3. pxCurrentTCB' \in A /\ pxCurrentTCB' \in AllTasks /\ pc'[Idle] = "run"
      BY <1>1, <1>2, <2>1, ReadyIs
    <3> QED BY <1>5, <2>1, <3>1, <3>2, <3>3, ReadyInvFrom
  <2>3. TypesInv'
    BY <1>1, <1>2, <1>3, <1>4, <1>5, <2>1 DEF TypesInv, call
  <2>4. EventInv'
    BY <1>1, <1>2, <2>1 DEF EventInv, call
  <2>5. BitsKept
    BY <1>5, <2>1 DEF BitsKept
  <2> QED BY <1>4, <1>6, <2>2, <2>3, <2>4, <2>5 DEF IInv
<1>8. CASE X[m] # << >>
  <2>1. /\ X' = [X EXCEPT ![m] = Tail(X[m])]
        /\ pc' = [pc EXCEPT ![w] = "retry"]
        /\ ready' = prvAddTaskToReadyList(R, w, uxPriority[w])
        /\ pendSV' = WakesHigher(w, t)
    BY <1>2, <1>8
  <2>2. /\ w \in Tasks /\ Tail(X[m]) \in Seq(Tasks) /\ ToSet(X[m]) = {w} \cup ToSet(Tail(X[m]))
        /\ NoDuplicates(Tail(X[m])) /\ w \notin ToSet(Tail(X[m]))
    BY <1>1, <1>8, HeadProperties
  <2> DEFINE r == Tail(X[m])
  <2>3. w \in ToSet(X[m])
    BY <2>2
  <2>4. pc[w] = "blocked" /\ xQueue[w] = m /\ w \in AllTasks /\ ~Awake(w) /\ w # t /\ w # Idle
    BY <1>1, <2>2, <2>3, TasksAre DEF EventInv, Awake
  <2>5. X' = [X EXCEPT ![m] = r] /\ r \in Seq(Tasks) /\ NoDuplicates(r) /\ ToSet(r) = ToSet(X[m]) \ {w}
    BY <2>1, <2>2
  <2> HIDE DEF r, w
  <2>6. /\ ReadyOK(ready', uxPriority')
        /\ BitsExact(R, Priorities) => BitsExact(ready', Priorities)
        /\ \A v \in AllTasks : In(ready', uxPriority', v) <=> v = w \/ In(R, uxPriority', v)
    <3> DEFINE prio == uxPriority'
    <3>1. prio \in PrioType /\ ReadyOK(R, prio) /\ ~In(R, prio, w) /\ ready' = prvAddTaskToReadyList(R, w, prio[w])
      BY <1>5, <2>1, <2>4
    <3> HIDE DEF prio
    <3>2. /\ ReadyOK(ready', prio)
          /\ BitsExact(R, Priorities) => BitsExact(ready', Priorities)
          /\ \A u \in AllTasks : In(ready', prio, u) <=> u = w \/ In(R, prio, u)
      BY <2>4, <3>1, JoinReady
    <3> QED BY <3>2 DEF prio
  <2>7. ReadyInv'
    <3> DEFINE A == {v \in AllTasks : v = w \/ Awake(v)}
    <3>1. \A v \in AllTasks : In(ready', uxPriority', v) <=> v \in A
      BY <1>5, <2>6
    <3>2. \A v \in AllTasks : pc'[v] \notin {"blocked", "delayed"} <=> v \in A
      BY <2>1, <2>4, ReadyIs DEF Awake
    <3>3. pxCurrentTCB' \in A /\ pxCurrentTCB' \in AllTasks /\ pc'[Idle] = "run"
      BY <1>1, <1>2, <2>1, <2>4, ReadyIs
    <3> QED BY <2>6, <3>1, <3>2, <3>3, ReadyInvFrom
  <2>8. TypesInv'
    <3>1. X' \in [Mutexes -> Seq(Tasks)]
      BY <1>1, <2>5
    <3>2. pc' \in [AllTasks -> PCs] /\ pendSV' \in BOOLEAN
      BY <1>3, <2>1, ReadyIs, PlacesAre DEF w
    <3> QED BY <1>1, <1>2, <1>4, <1>5, <3>1, <3>2 DEF TypesInv, call
  <2>9. EventInv'
    <3>1. \A k \in Mutexes : X'[k] = IF k = m THEN r ELSE X[k]
      BY <1>1, <2>5
    <3>2. \A u \in Tasks : pc'[u] = "blocked" <=> pc[u] = "blocked" /\ u # w
      BY <2>1, <2>4, ReadyIs, TasksAre
    <3>3. xQueue' = xQueue
      BY <1>2 DEF call
    <3>4. \A k \in Mutexes : NoDuplicates(X'[k])
      BY <1>1, <2>5, <3>1 DEF EventInv
    <3>5. \A k \in Mutexes, u \in Tasks : u \in ToSet(X'[k]) <=> u \in ToSet(X[k]) /\ u # w
      BY <1>1, <2>4, <2>5, <3>1 DEF EventInv
    <3> QED BY <1>1, <3>2, <3>3, <3>4, <3>5 DEF EventInv
  <2>10. BitsKept
    BY <1>5, <2>6 DEF BitsKept
  <2> QED BY <1>4, <1>6, <2>7, <2>8, <2>9, <2>10 DEF IInv
<1> QED BY <1>7, <1>8
-----------------------------------------------------------------------------
(* The theorems. *)

LEMMA InitIInv ==
    ASSUME Init
    PROVE  IInv /\ BitsExact(ready, Priorities)
<1>1. /\ ready = [lists |-> [p \in Priorities |->
                     [items |-> SetToSeq({t \in AllTasks : InitPrio[t] = p}), idx |-> 0]],
                  top   |-> {InitPrio[t] : t \in AllTasks}]
      /\ uxPriority = InitPrio
  BY DEF Init
<1>2. /\ InitPrio \in [AllTasks -> Priorities] /\ IsFiniteSet(AllTasks) /\ Idle \in AllTasks /\ Tasks \subseteq AllTasks
  BY MutexAssumption, TasksAre
<1>3. /\ ReadySound(ready, uxPriority, AllTasks, Priorities)
      /\ BitsExact(ready, Priorities) /\ BitsSet(ready, Priorities)
      /\ \A t \in AllTasks : In(ready, uxPriority, t)
  BY <1>1, <1>2, InitReady
<1>4. /\ pc = [t \in AllTasks |-> "run"] /\ pxCurrentTCB \in AllTasks /\ pendSV = FALSE
      /\ xTasksWaitingToReceive = [m \in Mutexes |-> << >>]
      /\ uxMessagesWaiting = [m \in Mutexes |-> 1] /\ xMutexHolder = [m \in Mutexes |-> NoTask]
      /\ uxRecursiveCallCount = [m \in Mutexes |-> 0]
      /\ uxMutexesHeld = [t \in AllTasks |-> 0] /\ uxBasePriority = InitPrio
      /\ xEventValue = [t \in AllTasks |-> EventValueOf(InitPrio[t])]
      /\ xQueue = [t \in Tasks |-> CHOOSE m \in Mutexes : TRUE]
      /\ xTicksToWait = [t \in Tasks |-> "none"]
      /\ xInheritanceOccurred = [t \in Tasks |-> FALSE] /\ over = [t \in Tasks |-> FALSE]
  BY DEF Init
<1>5. ReadyInv
  BY <1>2, <1>3, <1>4 DEF ReadyInv, ReadyOK, Awake
<1>6. TypesInv
  <2>1. << >> \in Seq(Tasks) /\ RecursionBound \in Nat /\ \A t \in AllTasks : EventValueOf(InitPrio[t]) \in -MaxPriority..0
    BY <1>2, EmptySeq, EventValues, MutexAssumption
  <2>2. (CHOOSE m \in Mutexes : TRUE) \in Mutexes
    BY MutexAssumption
  <2>3. xTasksWaitingToReceive \in [Mutexes -> Seq(Tasks)] /\ xEventValue \in [AllTasks -> -MaxPriority..0]
    BY <1>4, <2>1
  <2>4. xQueue \in [Tasks -> Mutexes] /\ xTicksToWait \in [Tasks -> BlockTimes]
    BY <1>4, <2>2 DEF BlockTimes
  <2>5. uxRecursiveCallCount \in [Mutexes -> 0 .. RecursionBound] /\ uxMessagesWaiting \in [Mutexes -> 0..1]
    BY <1>4, <2>1
  <2>6. pc \in [AllTasks -> PCs]
    BY <1>4, PlacesAre
  <2> QED BY <1>1, <1>2, <1>4, <2>3, <2>4, <2>5, <2>6 DEF TypesInv, PrioType
<1>7. EventInv
  <2>1. NoDuplicates(<< >>)
    BY DEF NoDuplicates
  <2> QED BY <1>2, <1>4, <2>1, EmptyToSet DEF EventInv
<1>8. CountInv
  <2>1. \A t \in AllTasks : HeldIn(xMutexHolder, t) = {}
    BY <1>4, TasksAre DEF HeldIn
  <2>2. \A t \in AllTasks : uxMutexesHeld[t] = Cardinality(HeldIn(xMutexHolder, t))
    BY <1>4, <2>1, FS_EmptySet
  <2> QED BY <1>4, <2>2, CountIs
<1>9. PriorityIsReturned
  BY <1>1, <1>4 DEF PriorityIsReturned
<1> QED BY <1>3, <1>5, <1>6, <1>7, <1>8, <1>9 DEF IInv

LEMMA NextIInv ==
    ASSUME IInv, [Next]_vars
    PROVE  IInv' /\ ((\A t \in Tasks : ~DisinheritAfterTimeout(t)) => BitsKept)
<1>1. CASE UNCHANGED vars
  <2>1. ReadyInv' /\ EventInv' /\ BitsKept
    BY <1>1, StillLists DEF vars, switching, priorities, call
  <2>2. CountInv' /\ PriorityIsReturned'
    BY <1>1, SameCounts, SamePriorities DEF vars, priorities
  <2>3. TypesInv'
    BY <1>1 DEF IInv, TypesInv, vars, mutexes, switching, priorities, call
  <2> QED BY <2>1, <2>2, <2>3 DEF IInv
<1>2. ASSUME NEW t \in Tasks, Continue(t)
      PROVE  IInv' /\ ((\A u \in Tasks : ~DisinheritAfterTimeout(u)) => BitsKept)
  BY <1>2, TimesOutKeeps, BlocksKeeps, NeedNotBlockKeeps, TryAgainKeeps, IsEmptyKeeps, DisinheritKeeps DEF Continue
<1>3. ASSUME NEW t \in Tasks, NEW m \in Mutexes,
             \/ \E ticks \in BlockTimes : Take(t, m, ticks)
             \/ xQueueTakeMutexRecursive(t, m)
             \/ Give(t, m) \/ xQueueGiveMutexRecursive(t, m)
      PROVE  IInv' /\ BitsKept
  BY <1>3, TakeKeeps, RecursiveKeeps, GiveKeeps
<1>4. ASSUME NEW t \in Tasks, Delay(t) \/ DelayEnds(t) \/ WaitEnds(t)
      PROVE  IInv' /\ BitsKept
  BY <1>4, DelayKeeps, DelayEndsKeeps, WaitEndsKeeps
<1>5. ASSUME NEW t \in Tasks, NEW u \in Victims, NEW p \in NewPriorities, vTaskPrioritySet(t, u, p)
      PROVE  IInv' /\ BitsKept
  BY <1>5, PrioritySetKeeps
<1>6. CASE PendSV
  BY <1>6, PendSVKeeps
<1> QED BY <1>1, <1>2, <1>3, <1>4, <1>5, <1>6 DEF Next

\* The inductive invariant holds in every reachable state.
THEOREM Invariance == Spec => []IInv
<1>1. Init => IInv
  BY InitIInv
<1>2. IInv /\ [Next]_vars => IInv'
  BY NextIInv
<1> QED BY <1>1, <1>2, PTL DEF Spec

\* Every variable keeps its type: no count of mutexes held goes below zero or above
\* the number of mutexes, whatever the tasks take, give and wait for (queue.c).
THEOREM TypeCorrect == Spec => []TypeOK
<1>1. IInv => TypeOK
  <2> SUFFICES ASSUME IInv PROVE TypeOK
    OBVIOUS
  <2>1. ready \in [lists : [Priorities -> [items : Seq(AllTasks), idx : Nat]], top : SUBSET Priorities]
    BY ReadyIs DEF ReadyOK, ReadySound, ReadyTypeOf, ListTypeOf
  <2>2. uxMutexesHeld \in [AllTasks -> 0..Cardinality(Mutexes)]
    <3>1. uxMutexesHeld \in [AllTasks -> Nat] /\ \A t \in AllTasks : uxMutexesHeld[t] = Cardinality(HeldIn(xMutexHolder, t))
      BY CountIs DEF IInv, TypesInv
    <3>2. Cardinality(Mutexes) \in Nat
      BY MutexAssumption, FS_CardinalityType
    <3>3. \A t \in AllTasks : uxMutexesHeld[t] \in 0..Cardinality(Mutexes)
      BY <3>1, <3>2, HeldIsFinite
    <3> QED BY <3>1, <3>3
  <2> QED BY <2>1, <2>2 DEF IInv, TypesInv, TypeOK, PrioType
<1> QED BY <1>1, Invariance, PTL

\* Takes and gives are counted exactly, through every timeout and every recursive
\* call: the count that decides when a priority is returned (uxMutexesHeld).
THEOREM MutexesAreCounted == Spec => []HoldersAreCounted
<1>1. IInv => HoldersAreCounted
  BY DEF IInv, CountInv
<1> QED BY <1>1, Invariance, PTL

\* A task that holds no mutex runs at its own priority, whatever mutexes it held
\* before, who waited for them, and what new priorities it was given meanwhile.
THEOREM PrioritiesAreReturned == Spec => []PriorityIsReturned
<1>1. IInv => PriorityIsReturned
  BY DEF IInv
<1> QED BY <1>1, Invariance, PTL
-----------------------------------------------------------------------------
(* Without timeouts. *)

\* No task takes a mutex with a block time that ends.
NoTimeouts == \A t \in Tasks : "finite" \notin WaitsOf[t]

UntimedInv == \A t \in Tasks : xTicksToWait[t] # "finite" /\ pc[t] \notin {"isEmpty", "disinherit"}

LEMMA NextUntimed ==
    ASSUME NoTimeouts, IInv, UntimedInv, [Next]_vars
    PROVE  UntimedInv'
<1>1. /\ pc \in [AllTasks -> PCs] /\ xTicksToWait \in [Tasks -> BlockTimes]
      /\ xTasksWaitingToReceive \in [Mutexes -> Seq(Tasks)]
      /\ \A u \in Tasks : u \in AllTasks /\ xTicksToWait[u] # "finite" /\ pc[u] \notin {"isEmpty", "disinherit"}
  BY TasksAre DEF UntimedInv, IInv, TypesInv
<1>2. ASSUME UNCHANGED <<pc, xTicksToWait>> PROVE UntimedInv'
  BY <1>1, <1>2 DEF UntimedInv
<1>3. ASSUME NEW t \in AllTasks, NEW c \in PCs \ {"isEmpty", "disinherit"}, pc' = [pc EXCEPT ![t] = c],
             xTicksToWait' = xTicksToWait
      PROVE  UntimedInv'
  BY <1>1, <1>3 DEF UntimedInv
<1>4. ASSUME NEW t \in Tasks, NEW c \in PCs \ {"isEmpty", "disinherit"}, pc' = [pc EXCEPT ![t] = c],
             NEW ticks, ticks # "finite", xTicksToWait' = [xTicksToWait EXCEPT ![t] = ticks]
      PROVE  UntimedInv'
  BY <1>1, <1>4 DEF UntimedInv
<1>5. ASSUME NEW t \in Tasks, NEW m \in Mutexes, NEW ticks \in BlockTimes, Take(t, m, ticks)
      PROVE  UntimedInv'
  <2>1. ticks # "finite"
    BY <1>5 DEF Take, NoTimeouts
  <2>2. CASE UNCHANGED <<pc, call>>
    BY <1>2, <2>2 DEF call
  <2>3. CASE Goto(t, "check") /\ xTicksToWait' = [xTicksToWait EXCEPT ![t] = ticks]
    BY <1>4, <2>1, <2>3 DEF Goto, PCs
  <2> QED BY <1>5, <2>2, <2>3 DEF Take
<1>6. ASSUME NEW t \in Tasks, NEW m \in Mutexes, Give(t, m) PROVE UntimedInv'
  <2>1. CASE xTasksWaitingToReceive[m] = << >>
    BY <1>2, <1>6, <2>1 DEF Give, Release, call
  <2>2. CASE xTasksWaitingToReceive[m] # << >>
    <3>1. Head(xTasksWaitingToReceive[m]) \in AllTasks
      BY <1>1, <2>2, HeadIn
    <3> QED BY <1>3, <1>6, <2>2, <3>1 DEF Give, Release, call, Goto, PCs
  <2> QED BY <2>1, <2>2
<1>7. ASSUME NEW t \in Tasks, NEW m \in Mutexes, xQueueTakeMutexRecursive(t, m) \/ xQueueGiveMutexRecursive(t, m)
      PROVE  UntimedInv'
  BY <1>2, <1>7 DEF xQueueTakeMutexRecursive, xQueueGiveMutexRecursive, call
<1>8. ASSUME NEW t \in Tasks, Continue(t) PROVE UntimedInv'
  <2>1. ~TimesOut(t) /\ ~IsEmpty(t) /\ ~DisinheritAfterTimeout(t)
    BY <1>1 DEF TimesOut, IsEmpty, DisinheritAfterTimeout, At
  <2>2. CASE Blocks(t)
    BY <1>1, <1>3, <2>2 DEF Blocks, Goto, PCs
  <2>3. CASE NeedNotBlock(t)
    BY <1>1, <1>3, <2>3 DEF NeedNotBlock, Goto, PCs, call
  <2>4. CASE TryAgain(t)
    <3>1. CASE Returns(t)
      BY <1>4, <3>1 DEF Returns, Goto, PCs
    <3>2. CASE Goto(t, "check") /\ UNCHANGED call
      BY <1>1, <1>3, <3>2 DEF Goto, PCs, call
    <3> QED BY <2>4, <3>1, <3>2 DEF TryAgain
  <2> QED BY <1>8, <2>1, <2>2, <2>3, <2>4 DEF Continue
<1>9. ASSUME NEW t \in Tasks, Delay(t) \/ DelayEnds(t) PROVE UntimedInv'
  BY <1>1, <1>3, <1>9 DEF Delay, DelayEnds, Goto, PCs, call
<1>10. ASSUME NEW t \in Tasks PROVE ~WaitEnds(t)
  BY <1>1 DEF WaitEnds
<1>11. ASSUME NEW t \in Tasks, NEW u \in Victims, NEW p \in NewPriorities, vTaskPrioritySet(t, u, p) PROVE UntimedInv'
  BY <1>2, <1>11 DEF vTaskPrioritySet, call
<1>12. CASE PendSV \/ UNCHANGED vars
  BY <1>2, <1>12 DEF PendSV, call, vars
<1> QED BY <1>5, <1>6, <1>7, <1>8, <1>9, <1>10, <1>11, <1>12 DEF Next

LEMMA UntimedInvariance == ASSUME NoTimeouts PROVE Spec => [](UntimedInv /\ BitsExact(ready, Priorities))
<1>1. Init => UntimedInv /\ BitsExact(ready, Priorities)
  <2> SUFFICES ASSUME Init PROVE UntimedInv
    BY InitIInv
  <2>1. \A t \in Tasks : t \in AllTasks
    BY TasksAre
  <2> QED BY <2>1 DEF Init, UntimedInv
<1>2. IInv /\ UntimedInv /\ BitsExact(ready, Priorities) /\ [Next]_vars => (UntimedInv /\ BitsExact(ready, Priorities))'
  <2> SUFFICES ASSUME IInv, UntimedInv, BitsExact(ready, Priorities), [Next]_vars
               PROVE  UntimedInv' /\ BitsExact(ready', Priorities)
    OBVIOUS
  <2>1. \A t \in Tasks : ~DisinheritAfterTimeout(t)
    BY DEF UntimedInv, DisinheritAfterTimeout, At
  <2>2. BitsKept
    BY <2>1, NextIInv
  <2> QED BY <2>2, NextUntimed DEF BitsKept
<1> QED BY <1>1, <1>2, Invariance, PTL DEF Spec

\* What the scheduler needs of the ready lists.
ReadyTasksAreFound ==
    /\ \A t \in AllTasks, p \in Priorities :
          t \in ToSet(ready.lists[p].items) <=> p = uxPriority[t] /\ pc[t] \notin {"blocked", "delayed"}
    /\ \A p \in Priorities : ready.lists[p].items # << >> => p \in ready.top

LEMMA FoundFromIInv == IInv => ReadyTasksAreFound
<1> SUFFICES ASSUME IInv PROVE ReadyTasksAreFound
  OBVIOUS
<1>1. /\ uxPriority \in [AllTasks -> Priorities] /\ ReadySound(ready, uxPriority, AllTasks, Priorities)
      /\ BitsSet(ready, Priorities) /\ \A u \in AllTasks : In(ready, uxPriority, u) <=> Awake(u)
  BY ReadyIs DEF ReadyOK
<1>2. ASSUME NEW p \in Priorities
      PROVE  \A t \in AllTasks : t \in ToSet(ready.lists[p].items) <=> p = uxPriority[t] /\ Awake(t)
  BY <1>1, ReadyTasks
<1> QED BY <1>1, <1>2 DEF ReadyTasksAreFound, BitsSet, Awake

\* Lending and returning priorities never loses a ready task: it is in the list of
\* its priority and the bit of that list is set, after timeouts too (tasks.c).
THEOREM ReadyTasksAreNotLost == Spec => []ReadyTasksAreFound
  BY FoundFromIInv, Invariance, PTL

\* Without timeouts no bit stays set for an empty list either: what can leave one is
\* vTaskPriorityDisinheritAfterTimeout, which clears the bit of the new priority.
THEOREM ReadyBitsStayExact == ASSUME NoTimeouts PROVE Spec => []ReadyListsAreExact
<1>1. IInv /\ BitsExact(ready, Priorities) => ReadyListsAreExact
  BY FoundFromIInv DEF ReadyTasksAreFound, ReadyListsAreExact, BitsExact
<1> QED BY <1>1, Invariance, UntimedInvariance, PTL
-----------------------------------------------------------------------------
(* Who waits for a mutex, and who has it. *)

\* Each task takes no more than one mutex, and new priorities are given to tasks
\* that take none.
Unnested ==
    /\ \A t \in Tasks : \A m, n \in Uses[t] : m = n
    /\ \A u \in Victims : Uses[u] = {}

Calls(t) == pc[t] \notin {"run", "delayed"}

\* A task calls for a mutex it uses and does not hold, and holds only what it uses.
UsesInv ==
    /\ \A m \in Mutexes : xMutexHolder[m] # NoTask => m \in Uses[xMutexHolder[m]]
    /\ \A t \in Tasks : Calls(t) => xQueue[t] \in Uses[t] /\ xMutexHolder[xQueue[t]] # t

ValueInv == \A t \in AllTasks : xEventValue[t] = -uxPriority[t]

\* The event list of a mutex is in the order of the priorities.
OrderInv == \A m \in Mutexes : Ascending(xTasksWaitingToReceive[m], xEventValue)

\* The holder is not below a task that waits.
BoundInv ==
    \A m \in Mutexes : xMutexHolder[m] # NoTask =>
        \A w \in ToSet(xTasksWaitingToReceive[m]) : uxPriority[w] <= uxPriority[xMutexHolder[m]]

\* While a mutex is there to take and tasks wait for it, one that is about to take
\* it is not below them, and the running task is not below that one if it uses it.
TriesFor(y, m) ==
    /\ pc[y] \in {"retry", "check", "isEmpty"} /\ xQueue[y] = m
    /\ \A w \in ToSet(xTasksWaitingToReceive[m]) : uxPriority[w] <= uxPriority[y]
    /\ \/ pendSV
       \/ pxCurrentTCB \in Tasks /\ m \in Uses[pxCurrentTCB] => uxPriority[y] <= uxPriority[pxCurrentTCB]

FreeInv ==
    \A m \in Mutexes : xMutexHolder[m] = NoTask /\ xTasksWaitingToReceive[m] # << >> =>
        \E y \in Tasks : TriesFor(y, m)

WaitersInv == UsesInv /\ ValueInv /\ OrderInv /\ BoundInv /\ FreeInv

\* The types these parts need.
LEMMA WaitersTypes ==
    ASSUME IInv
    PROVE  /\ \A u \in AllTasks : uxPriority[u] \in Int /\ uxBasePriority[u] \in Int /\ xEventValue[u] \in Int
           /\ \A m \in Mutexes : xTasksWaitingToReceive[m] \in Seq(Tasks) /\ ToSet(xTasksWaitingToReceive[m]) \subseteq Tasks
           /\ \A m \in Mutexes : xMutexHolder[m] \in Tasks \cup {NoTask}
           /\ xTasksWaitingToReceive \in [Mutexes -> Seq(Tasks)] /\ xMutexHolder \in [Mutexes -> Tasks \cup {NoTask}]
           /\ \A t \in Tasks : xQueue[t] \in Mutexes /\ t \in AllTasks /\ t # NoTask
           /\ uxPriority \in [AllTasks -> Priorities] /\ uxBasePriority \in [AllTasks -> Priorities]
           /\ xEventValue \in [AllTasks -> Int] /\ pc \in [AllTasks -> PCs]
           /\ \A p \in Priorities : p \in Int
<1>1. MaxPriority \in Nat
  BY MutexAssumption
<1>2. /\ uxPriority \in [AllTasks -> Priorities] /\ uxBasePriority \in [AllTasks -> Priorities]
      /\ xEventValue \in [AllTasks -> -MaxPriority..0] /\ pc \in [AllTasks -> PCs]
      /\ xTasksWaitingToReceive \in [Mutexes -> Seq(Tasks)] /\ xMutexHolder \in [Mutexes -> Tasks \cup {NoTask}]
      /\ xQueue \in [Tasks -> Mutexes]
  BY DEF IInv, TypesInv, PrioType
<1>3. \A m \in Mutexes : ToSet(xTasksWaitingToReceive[m]) \subseteq Tasks
  BY <1>2, ElementOfSeq DEF ToSet
<1>4. \A u \in AllTasks : uxPriority[u] \in Int /\ uxBasePriority[u] \in Int /\ xEventValue[u] \in Int
  BY <1>1, <1>2 DEF Priorities
<1>5. xEventValue \in [AllTasks -> Int]
  BY <1>2, <1>4
<1>6. \A p \in Priorities : p \in Int
  BY <1>1 DEF Priorities
<1> QED BY <1>2, <1>3, <1>4, <1>5, <1>6, TasksAre

\* A task that holds a mutex makes no call, waits for none, and holds no other.
LEMMA HoldersRun ==
    ASSUME Unnested, IInv, UsesInv, NEW m \in Mutexes, NEW t \in Tasks, xMutexHolder[m] = t
    PROVE  /\ ~Calls(t) /\ m \in Uses[t]
           /\ \A k \in Mutexes : t \notin ToSet(xTasksWaitingToReceive[k])
           /\ \A k \in Mutexes \ {m} : xMutexHolder[k] # t
<1>1. t # NoTask /\ m \in Uses[t] /\ ~Calls(t)
  BY WaitersTypes DEF UsesInv, Unnested
<1>2. \A k \in Mutexes : t \notin ToSet(xTasksWaitingToReceive[k])
  BY <1>1 DEF IInv, EventInv, Calls
<1>3. \A k \in Mutexes \ {m} : xMutexHolder[k] # t
  BY <1>1 DEF UsesInv, Unnested
<1> QED BY <1>1, <1>2, <1>3

\* A task that waits for a mutex.
LEMMA WaitersCall ==
    ASSUME IInv, UsesInv, NEW m \in Mutexes, NEW w \in ToSet(xTasksWaitingToReceive[m])
    PROVE  w \in Tasks /\ w \in AllTasks /\ pc[w] = "blocked" /\ Calls(w) /\ xQueue[w] = m
  BY WaitersTypes DEF IInv, EventInv, Calls

\* The two that compete for a mutex hold nothing.
LEMMA CallersHoldNothing ==
    ASSUME Unnested, IInv, UsesInv, NEW t \in Tasks, Calls(t)
    PROVE  uxMutexesHeld[t] = 0 /\ uxPriority[t] = uxBasePriority[t] /\ \A k \in Mutexes : xMutexHolder[k] # t
<1>1. \A k \in Mutexes : xMutexHolder[k] # t
  BY HoldersRun
<1>2. HeldIn(xMutexHolder, t) = {}
  BY <1>1 DEF HeldIn
<1>3. uxMutexesHeld[t] = 0
  BY <1>2, HeldIsFinite, CountIs, WaitersTypes DEF IInv
<1> QED BY <1>1, <1>3, WaitersTypes DEF IInv, PriorityIsReturned

\* A step that leaves the holders, the event lists and the priorities alone.
LEMMA QuietWaiters ==
    ASSUME IInv, WaitersInv,
           UNCHANGED <<xMutexHolder, xTasksWaitingToReceive, uxPriority, xEventValue>>,
           \A t \in Tasks : pc'[t] \notin {"run", "delayed"} => xQueue'[t] \in Uses[t] /\ xMutexHolder[xQueue'[t]] # t,
           \A y \in Tasks : pc[y] \in {"retry", "check", "isEmpty"} /\ xMutexHolder[xQueue[y]] = NoTask
               => pc'[y] \in {"retry", "check", "isEmpty"} /\ xQueue'[y] = xQueue[y],
           pendSV' \/ (~pendSV /\ pxCurrentTCB' = pxCurrentTCB)
    PROVE  WaitersInv'
<1>1. UsesInv' /\ ValueInv' /\ OrderInv' /\ BoundInv'
  BY DEF WaitersInv, UsesInv, ValueInv, OrderInv, BoundInv, Ascending, Calls
<1>2. FreeInv'
  <2> SUFFICES ASSUME NEW m \in Mutexes, xMutexHolder[m] = NoTask, xTasksWaitingToReceive[m] # << >>
               PROVE  \E y \in Tasks : TriesFor(y, m)'
    BY DEF FreeInv
  <2>1. PICK y \in Tasks : TriesFor(y, m)
    BY DEF WaitersInv, FreeInv
  <2>2. pc'[y] \in {"retry", "check", "isEmpty"} /\ xQueue'[y] = m
    BY <2>1 DEF TriesFor
  <2>3. TriesFor(y, m)'
    BY <2>1, <2>2 DEF TriesFor
  <2> QED BY <2>3
<1> QED BY <1>1, <1>2 DEF WaitersInv

\* The mutex is taken by a task that makes no other call.
LEMMA ObtainWaiters ==
    ASSUME Unnested, IInv, WaitersInv, NEW t \in Tasks, NEW m \in Mutexes, Obtain(t, m), Executes(t), m \in Uses[t],
           pc[t] = "run" \/ xQueue[t] = m, pc'[t] = "run", xQueue' = xQueue,
           \A u \in Tasks \ {t} : pc'[u] = pc[u]
    PROVE  WaitersInv' /\ uxMutexesHeld[t] = 0 /\ xMutexHolder[m] = NoTask
           /\ xMutexHolder' = [xMutexHolder EXCEPT ![m] = t]
<1>1. /\ xMutexHolder[m] = NoTask /\ xMutexHolder' = [xMutexHolder EXCEPT ![m] = t]
      /\ UNCHANGED <<xTasksWaitingToReceive, uxPriority, xEventValue, pxCurrentTCB, pendSV>>
      /\ pxCurrentTCB = t /\ ~pendSV
  BY ObtainCounts DEF IInv, Obtain, switching, priorities, Executes
<1>2. UsesInv /\ ValueInv /\ OrderInv /\ BoundInv /\ FreeInv
  BY DEF WaitersInv
<1>3. \A k \in Mutexes : xMutexHolder[k] # t
  BY <1>1, <1>2, HoldersRun, WaitersTypes DEF Unnested
<1>4. uxMutexesHeld[t] = 0
  <2>1. HeldIn(xMutexHolder, t) = {}
    BY <1>3 DEF HeldIn
  <2> QED BY <2>1, HeldIsFinite, CountIs, WaitersTypes DEF IInv
<1>5. UsesInv'
  <2>1. \A k \in Mutexes : xMutexHolder'[k] = IF k = m THEN t ELSE xMutexHolder[k]
    BY <1>1, WaitersTypes
  <2>2. ASSUME NEW u \in Tasks, pc'[u] \notin {"run", "delayed"}
        PROVE  xQueue[u] \in Uses[u] /\ xMutexHolder'[xQueue[u]] # u
    <3>1. u # t /\ Calls(u)
      BY <2>2 DEF Calls
    <3> QED BY <1>2, <2>1, <3>1, WaitersTypes DEF UsesInv
  <2> QED BY <1>2, <2>1, <2>2 DEF UsesInv, Calls
<1>6. ValueInv' /\ OrderInv'
  BY <1>1, <1>2 DEF ValueInv, OrderInv, Ascending
<1>7. BoundInv'
  <2> SUFFICES ASSUME NEW k \in Mutexes, xMutexHolder'[k] # NoTask, NEW w \in ToSet(xTasksWaitingToReceive[k])
               PROVE  uxPriority[w] <= uxPriority[xMutexHolder'[k]]
    BY <1>1 DEF BoundInv
  <2>1. CASE k # m
    BY <1>1, <1>2, <2>1, WaitersTypes DEF BoundInv
  <2>2. CASE k = m
    <3>1. xTasksWaitingToReceive[m] # << >>
      BY <2>2, EmptyToSet
    <3>2. PICK y \in Tasks : TriesFor(y, m)
      BY <1>1, <1>2, <3>1 DEF FreeInv
    <3>3. uxPriority[w] <= uxPriority[y] /\ uxPriority[y] <= uxPriority[t]
      BY <1>1, <2>2, <3>2 DEF TriesFor
    <3>4. xMutexHolder'[k] = t /\ w \in AllTasks
      BY <1>1, <2>2, WaitersTypes
    <3> QED BY <3>3, <3>4, WaitersTypes
  <2> QED BY <2>1, <2>2
<1>8. FreeInv'
  <2> SUFFICES ASSUME NEW k \in Mutexes, xMutexHolder'[k] = NoTask, xTasksWaitingToReceive[k] # << >>
               PROVE  \E y \in Tasks : TriesFor(y, k)'
    BY <1>1 DEF FreeInv
  <2>1. k # m /\ xMutexHolder[k] = NoTask
    BY <1>1, WaitersTypes
  <2>2. PICK y \in Tasks : TriesFor(y, k)
    BY <1>2, <2>1 DEF FreeInv
  <2>3. y # t
    BY <2>1, <2>2 DEF TriesFor
  <2>4. TriesFor(y, k)'
    BY <1>1, <2>2, <2>3 DEF TriesFor
  <2> QED BY <2>4
<1> QED BY <1>1, <1>4, <1>5, <1>6, <1>7, <1>8 DEF WaitersInv

LEMMA TakeWaiters ==
    ASSUME Unnested, IInv, WaitersInv, NEW t \in Tasks, NEW m \in Mutexes, NEW ticks \in BlockTimes, Take(t, m, ticks)
    PROVE  WaitersInv'
<1>1. At(t, "run") /\ m \in Uses[t] /\ xMutexHolder[m] # t /\ pc[t] = "run" /\ Executes(t) /\ t \in AllTasks
  BY WaitersTypes DEF Take, At
<1>2. CASE Obtain(t, m) /\ UNCHANGED <<pc, call>>
  BY <1>1, <1>2, ObtainWaiters DEF call
<1>3. CASE /\ ~Available(m) /\ ticks # "none"
           /\ Goto(t, "check")
           /\ xQueue' = [xQueue EXCEPT ![t] = m]
           /\ UNCHANGED <<mutexes, xTasksWaitingToReceive, ready, switching, priorities,
                          uxMutexesHeld, xInheritanceOccurred, over>>
  <2>1. /\ UNCHANGED <<xMutexHolder, xTasksWaitingToReceive, uxPriority, xEventValue>>
        /\ pendSV' = pendSV /\ ~pendSV /\ pxCurrentTCB' = pxCurrentTCB
    BY <1>1, <1>3 DEF mutexes, priorities, switching, Executes
  <2>2. \A u \in Tasks : /\ pc'[u] = IF u = t THEN "check" ELSE pc[u]
                         /\ xQueue'[u] = IF u = t THEN m ELSE xQueue[u]
    BY <1>3, WaitersTypes DEF Goto, IInv, TypesInv
  <2>3. \A u \in Tasks : pc'[u] \notin {"run", "delayed"} => xQueue'[u] \in Uses[u] /\ xMutexHolder[xQueue'[u]] # u
    BY <1>1, <2>2 DEF WaitersInv, UsesInv, Calls
  <2> QED BY <1>1, <2>1, <2>2, <2>3, QuietWaiters
<1> QED BY <1>2, <1>3 DEF Take

\* A call goes on, with the mutex it is for, or returns where nothing is there to take.
LEMMA CallWaiters ==
    ASSUME IInv, WaitersInv, NEW t \in Tasks, Executes(t), NEW c, Goto(t, c), xQueue' = xQueue,
           UNCHANGED <<mutexes, xTasksWaitingToReceive, priorities, switching>>,
           \/ Calls(t) /\ c \in {"retry", "check", "isEmpty"}
           \/ Calls(t) /\ ~Available(xQueue[t])
           \/ pc[t] = "disinherit" /\ c = "run"
    PROVE  WaitersInv'
<1>1. /\ UNCHANGED <<xMutexHolder, xTasksWaitingToReceive, uxPriority, xEventValue>>
      /\ pendSV' = pendSV /\ ~pendSV /\ pxCurrentTCB' = pxCurrentTCB
  BY DEF mutexes, priorities, switching, Executes
<1>2. \A u \in Tasks : u # t => pc'[u] = pc[u]
  BY WaitersTypes DEF Goto
<1>3. pc'[t] = c
  BY WaitersTypes DEF Goto
<1>4. \A u \in Tasks : pc'[u] \notin {"run", "delayed"} => xQueue'[u] \in Uses[u] /\ xMutexHolder[xQueue'[u]] # u
  BY <1>2, <1>3 DEF WaitersInv, UsesInv, Calls
<1>5. ~Available(xQueue[t]) => xMutexHolder[xQueue[t]] # NoTask
  BY WaitersTypes, CountIs DEF IInv, Available
<1>6. \A y \in Tasks : pc[y] \in {"retry", "check", "isEmpty"} /\ xMutexHolder[xQueue[y]] = NoTask
          => pc'[y] \in {"retry", "check", "isEmpty"} /\ xQueue'[y] = xQueue[y]
  BY <1>2, <1>3, <1>5
<1> QED BY <1>1, <1>4, <1>6, QuietWaiters

LEMMA QuietCallsWaiters ==
    ASSUME Unnested, IInv, WaitersInv, NEW t \in Tasks,
           TimesOut(t) \/ NeedNotBlock(t) \/ TryAgain(t) \/ IsEmpty(t)
    PROVE  WaitersInv'
<1>1. CASE TimesOut(t)
  BY <1>1, CallWaiters DEF TimesOut, At, Calls
<1>2. CASE NeedNotBlock(t)
  BY <1>2, CallWaiters DEF NeedNotBlock, At, Calls, call
<1>3. CASE IsEmpty(t)
  BY <1>3, CallWaiters DEF IsEmpty, At, Calls, call, Returns
<1>4. CASE TryAgain(t)
  <2>1. At(t, "retry") /\ pc[t] = "retry" /\ Executes(t) /\ Calls(t)
    BY <1>4 DEF TryAgain, At, Calls
  <2>2. CASE Obtain(t, xQueue[t]) /\ Returns(t)
    <3>1. xQueue[t] \in Uses[t] /\ xQueue[t] \in Mutexes
      BY <2>1, WaitersTypes DEF WaitersInv, UsesInv
    <3>2. pc'[t] = "run" /\ xQueue' = xQueue /\ \A u \in Tasks \ {t} : pc'[u] = pc[u]
      BY <2>2, WaitersTypes DEF Returns, Goto
    <3> QED BY <2>1, <2>2, <3>1, <3>2, ObtainWaiters
  <2>3. CASE /\ ~Available(xQueue[t])
             /\ Returns(t) \/ (Goto(t, "check") /\ UNCHANGED call)
             /\ UNCHANGED <<mutexes, xTasksWaitingToReceive, ready, switching, priorities, uxMutexesHeld>>
    <3>1. (Goto(t, "run") \/ Goto(t, "check")) /\ xQueue' = xQueue
      BY <2>3 DEF Returns, call
    <3> QED BY <2>1, <2>3, <3>1, CallWaiters
  <2> QED BY <1>4, <2>2, <2>3 DEF TryAgain
<1> QED BY <1>1, <1>2, <1>3, <1>4

LEMMA RecursiveWaiters ==
    ASSUME IInv, WaitersInv, NEW t \in Tasks, NEW m \in Mutexes,
           xQueueTakeMutexRecursive(t, m) \/ xQueueGiveMutexRecursive(t, m)
    PROVE  WaitersInv'
<1>1. /\ UNCHANGED <<xMutexHolder, xTasksWaitingToReceive, uxPriority, xEventValue>>
      /\ pendSV' = pendSV /\ ~pendSV /\ pxCurrentTCB' = pxCurrentTCB /\ pc' = pc /\ xQueue' = xQueue
  BY DEF xQueueTakeMutexRecursive, xQueueGiveMutexRecursive, At, Executes, switching, priorities, call
<1> QED BY <1>1, QuietWaiters DEF WaitersInv, UsesInv, Calls

LEMMA DelayWaiters ==
    ASSUME IInv, WaitersInv, NEW t \in Tasks, Delay(t) \/ DelayEnds(t)
    PROVE  WaitersInv'
<1>1. /\ UNCHANGED <<xMutexHolder, xTasksWaitingToReceive, uxPriority, xEventValue, pxCurrentTCB, xQueue>>
      /\ pendSV' \/ ~pendSV
      /\ \E c \in {"run", "delayed"} : pc' = [pc EXCEPT ![t] = c]
  BY DEF Delay, DelayEnds, Ready, At, Executes, Goto, mutexes, priorities, call
<1>2. pc[t] \in {"run", "delayed"}
  BY DEF Delay, DelayEnds, At
<1>3. \A u \in Tasks : IF u = t THEN pc'[u] \in {"run", "delayed"} ELSE pc'[u] = pc[u]
  BY <1>1, WaitersTypes
<1>4. \A u \in Tasks : pc'[u] \notin {"run", "delayed"} => xQueue'[u] \in Uses[u] /\ xMutexHolder[xQueue'[u]] # u
  BY <1>1, <1>3 DEF WaitersInv, UsesInv, Calls
<1> QED BY <1>1, <1>2, <1>3, <1>4, QuietWaiters

LEMMA SwitchWaiters ==
    ASSUME IInv, WaitersInv, PendSV
    PROVE  WaitersInv'
<1>1. UNCHANGED <<xMutexHolder, xTasksWaitingToReceive, uxPriority, xEventValue, pc, xQueue>>
  BY DEF PendSV, mutexes, priorities, call
<1>2. UsesInv' /\ ValueInv' /\ OrderInv' /\ BoundInv'
  BY <1>1 DEF WaitersInv, UsesInv, ValueInv, OrderInv, BoundInv, Ascending, Calls
<1>3. FreeInv'
  <2> SUFFICES ASSUME NEW m \in Mutexes, xMutexHolder[m] = NoTask, xTasksWaitingToReceive[m] # << >>
               PROVE  \E y \in Tasks : TriesFor(y, m)'
    BY <1>1 DEF FreeInv
  <2>1. PICK y \in Tasks : TriesFor(y, m)
    BY DEF WaitersInv, FreeInv
  <2>2. Awake(y) /\ y \in AllTasks
    BY <2>1, WaitersTypes DEF TriesFor, Awake
  <2>3. uxPriority[y] <= uxPriority[pxCurrentTCB']
    BY <2>2, PendSVSwitches
  <2>4. TriesFor(y, m)'
    BY <1>1, <2>1, <2>3 DEF TriesFor
  <2> QED BY <2>4
<1> QED BY <1>2, <1>3 DEF WaitersInv

\* The order of a list is that of the values of the tasks in it.
LEMMA SameOrder ==
    ASSUME NEW s \in Seq(Tasks), NEW v, NEW v2, Ascending(s, v), \A w \in ToSet(s) : v2[w] = v[w]
    PROVE  Ascending(s, v2)
  BY DEF Ascending, ToSet

LEMMA HeadIsFirst ==
    ASSUME NEW s \in Seq(Tasks), NEW v, Ascending(s, v), s # << >>
    PROVE  Head(s) \in ToSet(s) /\ \A w \in ToSet(s) : v[Head(s)] <= v[w]
<1>1. Head(s) \in ToSet(s) /\ Head(s) = s[1]
  BY HeadIn
<1>2. Len(s) \in Nat /\ Len(s) # 0 /\ DOMAIN s = 1 .. Len(s)
  BY LenProperties, EmptySeq
<1>3. \A j \in DOMAIN s : 1 \in DOMAIN s /\ 1 <= j
  BY <1>2
<1> QED BY <1>1, <1>3 DEF Ascending, ToSet

\* In a list in order, the head is the task of the highest priority.
LEMMA HeadIsHighest ==
    ASSUME IInv, WaitersInv, NEW m \in Mutexes, xTasksWaitingToReceive[m] # << >>
    PROVE  /\ Head(xTasksWaitingToReceive[m]) \in ToSet(xTasksWaitingToReceive[m])
           /\ \A w \in ToSet(xTasksWaitingToReceive[m]) : uxPriority[w] <= uxPriority[Head(xTasksWaitingToReceive[m])]
<1> DEFINE s == xTasksWaitingToReceive[m]
<1>1. s \in Seq(Tasks) /\ Ascending(s, xEventValue) /\ s # << >> /\ ToSet(s) \subseteq AllTasks
  BY WaitersTypes DEF WaitersInv, OrderInv
<1>2. \A w \in AllTasks : xEventValue[w] = -uxPriority[w] /\ uxPriority[w] \in Int
  BY WaitersTypes DEF WaitersInv, ValueInv
<1> HIDE DEF s
<1>3. Head(s) \in ToSet(s) /\ \A w \in ToSet(s) : xEventValue[Head(s)] <= xEventValue[w]
  BY <1>1, HeadIsFirst
<1>4. ASSUME NEW w \in ToSet(s) PROVE uxPriority[w] <= uxPriority[Head(s)]
  <2>1. w \in AllTasks /\ Head(s) \in AllTasks
    BY <1>1, <1>3
  <2>2. -uxPriority[Head(s)] <= -uxPriority[w]
    BY <1>2, <1>3, <2>1
  <2> QED BY <1>2, <2>1, <2>2
<1> QED BY <1>3, <1>4 DEF s

LEMMA WaitEndsWaiters ==
    ASSUME IInv, WaitersInv, NEW t \in Tasks, WaitEnds(t)
    PROVE  WaitersInv'
<1> DEFINE m == xQueue[t]
           X == xTasksWaitingToReceive
           r == uxListRemove(X[m], t)
<1>1. /\ UNCHANGED <<xMutexHolder, uxPriority, xEventValue, pxCurrentTCB, xQueue>>
      /\ pendSV' = (pendSV \/ uxPriority[t] >= uxPriority[pxCurrentTCB])
      /\ pc[t] = "blocked" /\ pc' = [pc EXCEPT ![t] = "retry"]
      /\ X' = [X EXCEPT ![m] = uxListRemove(X[m], t)]
  BY DEF WaitEnds, Ready, Goto, mutexes, priorities
<1>2. m \in Mutexes /\ X[m] \in Seq(Tasks) /\ NoDuplicates(X[m]) /\ t \in ToSet(X[m])
  BY <1>1, WaitersTypes DEF IInv, EventInv
<1>3. r \in Seq(Tasks) /\ ToSet(r) = ToSet(X[m]) \ {t}
  BY <1>2, uxListRemoveProperties
<1>4. Ascending(X[m], xEventValue)
  BY <1>2 DEF WaitersInv, OrderInv
<1>5. Ascending(r, xEventValue)
  BY <1>2, <1>4, RemoveKeepsOrder
<1>6. X' = [X EXCEPT ![m] = r]
  BY <1>1
<1> HIDE DEF r, m
<1>7. \A k \in Mutexes : X'[k] = IF k = m THEN r ELSE X[k]
  BY <1>6, WaitersTypes
<1>8. \A k \in Mutexes : ToSet(X'[k]) \subseteq ToSet(X[k])
  BY <1>3, <1>7
<1>9. \A u \in Tasks : pc'[u] = IF u = t THEN "retry" ELSE pc[u]
  BY <1>1, WaitersTypes
<1>10. UsesInv' /\ ValueInv'
  <2>1. \A u \in Tasks : pc'[u] \notin {"run", "delayed"} => Calls(u)
    BY <1>1, <1>9 DEF Calls
  <2> QED BY <1>1, <2>1 DEF WaitersInv, UsesInv, ValueInv, Calls
<1>11. OrderInv'
  BY <1>1, <1>5, <1>7 DEF WaitersInv, OrderInv
<1>12. BoundInv'
  BY <1>1, <1>8 DEF WaitersInv, BoundInv
<1>13. FreeInv'
  <2> SUFFICES ASSUME NEW k \in Mutexes, xMutexHolder[k] = NoTask, X'[k] # << >>
               PROVE  \E y \in Tasks : TriesFor(y, k)'
    BY <1>1 DEF FreeInv
  <2>1. X[k] # << >>
    <3>1. X[m] # << >>
      BY <1>2, EmptyToSet
    <3> QED BY <1>7, <3>1
  <2>2. PICK y \in Tasks : TriesFor(y, k)
    BY <2>1 DEF WaitersInv, FreeInv
  <2>3. pc'[y] = pc[y]
    BY <1>1, <1>9, <2>2 DEF TriesFor
  <2>4. TriesFor(y, k)'
    BY <1>1, <1>8, <2>2, <2>3 DEF TriesFor
  <2> QED BY <2>4
<1> QED BY <1>10, <1>11, <1>12, <1>13 DEF WaitersInv

\* A task that no mutex depends on changes its priority: one that holds a mutex is not
\* put below those that wait for it.
LEMMA RepriorityWaiters ==
    ASSUME Unnested, IInv, WaitersInv, NEW h \in Tasks, ~Calls(h), NEW p \in Int,
           uxPriority' = [uxPriority EXCEPT ![h] = p], xEventValue' = [xEventValue EXCEPT ![h] = -p],
           UNCHANGED <<xMutexHolder, xTasksWaitingToReceive, xQueue>>,
           \A m \in Mutexes : \A w \in ToSet(xTasksWaitingToReceive[m]) : xMutexHolder[m] = h => uxPriority[w] <= p,
           NEW t \in Tasks, pc[t] \notin {"retry", "check", "isEmpty"}, \A u \in Tasks \ {t} : pc'[u] = pc[u],
           pc'[t] = pc[t] \/ pc'[t] = "run",
           pendSV' \/ (~pendSV /\ pxCurrentTCB' = pxCurrentTCB /\ (pxCurrentTCB # h \/ Uses[h] = {}))
    PROVE  WaitersInv'
<1>1. \A u \in AllTasks : /\ uxPriority'[u] = IF u = h THEN p ELSE uxPriority[u]
                          /\ xEventValue'[u] = IF u = h THEN -p ELSE xEventValue[u]
  BY WaitersTypes
<1>2. \A m \in Mutexes : \A w \in ToSet(xTasksWaitingToReceive[m]) : w # h /\ w \in AllTasks
  BY WaitersCall DEF WaitersInv
<1>3. \A u \in Tasks : pc'[u] \notin {"run", "delayed"} => Calls(u)
  BY DEF Calls
<1>4. UsesInv' /\ ValueInv'
  BY <1>1, <1>3 DEF WaitersInv, UsesInv, ValueInv, Calls
<1>5. OrderInv'
  <2>1. \A m \in Mutexes : \A w \in ToSet(xTasksWaitingToReceive[m]) : xEventValue'[w] = xEventValue[w]
    BY <1>1, <1>2
  <2>2. \A m \in Mutexes : Ascending(xTasksWaitingToReceive[m], xEventValue')
    BY <2>1 DEF WaitersInv, OrderInv, Ascending, ToSet
  <2> QED BY <2>2 DEF OrderInv
<1>6. BoundInv'
  <2> SUFFICES ASSUME NEW m \in Mutexes, xMutexHolder[m] # NoTask, NEW w \in ToSet(xTasksWaitingToReceive[m])
               PROVE  uxPriority'[w] <= uxPriority'[xMutexHolder[m]]
    BY DEF BoundInv
  <2>1. uxPriority'[w] = uxPriority[w] /\ xMutexHolder[m] \in AllTasks
    BY <1>1, <1>2, WaitersTypes
  <2> QED BY <1>1, <2>1 DEF WaitersInv, BoundInv
<1>7. FreeInv'
  <2> SUFFICES ASSUME NEW m \in Mutexes, xMutexHolder[m] = NoTask, xTasksWaitingToReceive[m] # << >>
               PROVE  \E y \in Tasks : TriesFor(y, m)'
    BY DEF FreeInv
  <2>1. PICK y \in Tasks : TriesFor(y, m)
    BY DEF WaitersInv, FreeInv
  <2>2. y # h /\ y # t /\ y \in AllTasks
    BY <2>1, WaitersTypes DEF TriesFor, Calls
  <2>3. pc'[y] = pc[y] /\ uxPriority'[y] = uxPriority[y]
    BY <1>1, <2>2
  <2>4. \A w \in ToSet(xTasksWaitingToReceive[m]) : uxPriority'[w] <= uxPriority'[y]
    BY <1>1, <1>2, <2>1, <2>3 DEF TriesFor
  <2>5. pendSV' \/ (pxCurrentTCB' \in Tasks /\ m \in Uses[pxCurrentTCB'] => uxPriority'[y] <= uxPriority'[pxCurrentTCB'])
    BY <1>1, <2>1, <2>3, WaitersTypes DEF TriesFor
  <2>6. TriesFor(y, m)'
    BY <2>1, <2>3, <2>4, <2>5 DEF TriesFor
  <2> QED BY <2>6
<1> QED BY <1>4, <1>5, <1>6, <1>7 DEF WaitersInv

LEMMA PrioritySetWaiters ==
    ASSUME Unnested, IInv, WaitersInv, NEW t \in Tasks, NEW u \in Victims, NEW p \in NewPriorities,
           vTaskPrioritySet(t, u, p)
    PROVE  /\ WaitersInv'
           /\ uxPriority[u] = uxBasePriority[u] /\ uxPriority' = [uxPriority EXCEPT ![u] = p]
           /\ \A m \in Mutexes : xMutexHolder[m] # u /\ u \notin ToSet(xTasksWaitingToReceive[m])
<1>1. u \in Tasks /\ u \in AllTasks /\ Uses[u] = {} /\ p \in Int
  BY WaitersTypes, MutexAssumption DEF Unnested
<1>2. ~Calls(u) /\ \A m \in Mutexes : xMutexHolder[m] # u
  BY <1>1, WaitersTypes DEF WaitersInv, UsesInv
<1>3. uxPriority[u] = uxBasePriority[u]
  <2>1. HeldIn(xMutexHolder, u) = {}
    BY <1>2 DEF HeldIn
  <2>2. uxMutexesHeld[u] = 0
    BY <1>1, <2>1, HeldIsFinite, CountIs DEF IInv
  <2> QED BY <1>1, <2>2 DEF IInv, PriorityIsReturned
<1>4. /\ uxPriority' = [uxPriority EXCEPT ![u] = p] /\ xEventValue' = [xEventValue EXCEPT ![u] = -p]
      /\ UNCHANGED <<xMutexHolder, xTasksWaitingToReceive, xQueue, pc>>
      /\ pxCurrentTCB' = pxCurrentTCB /\ pc[t] = "run" /\ ~pendSV
  BY <1>3 DEF vTaskPrioritySet, NewPriority, EventValueOf, mutexes, call, At, Executes
<1>5. \A m \in Mutexes : u \notin ToSet(xTasksWaitingToReceive[m])
  BY <1>2, WaitersCall DEF WaitersInv
<1>6. WaitersInv'
  BY <1>1, <1>2, <1>4, RepriorityWaiters
<1> QED BY <1>2, <1>3, <1>4, <1>5, <1>6

LEMMA DisinheritWaiters ==
    ASSUME Unnested, IInv, WaitersInv, NEW t \in Tasks, DisinheritAfterTimeout(t)
    PROVE  WaitersInv'
<1> DEFINE m == xQueue[t]
           h == xMutexHolder[m]
           waiting == prvGetDisinheritPriorityAfterTimeout(m)
           p == IF uxBasePriority[h] < waiting THEN waiting ELSE uxBasePriority[h]
<1>1. /\ pc[t] = "disinherit" /\ Executes(t) /\ Calls(t) /\ m \in Mutexes /\ h # t
      /\ Goto(t, "run") /\ xQueue' = xQueue
      /\ UNCHANGED <<mutexes, xTasksWaitingToReceive, switching, uxBasePriority, uxMutexesHeld>>
  BY WaitersTypes DEF DisinheritAfterTimeout, At, Calls, Returns, WaitersInv, UsesInv
<1>2. CASE UNCHANGED <<uxPriority, xEventValue, ready>>
  <2>1. UNCHANGED <<mutexes, xTasksWaitingToReceive, priorities, switching>>
    BY <1>1, <1>2 DEF priorities
  <2> QED BY <1>1, <2>1, CallWaiters
<1>3. CASE /\ h # NoTask
           /\ uxPriority' = [uxPriority EXCEPT ![h] = p]
           /\ xEventValue' = [xEventValue EXCEPT ![h] = EventValueOf(p)]
  <2>1. h \in Tasks /\ h \in AllTasks /\ ~Calls(h) /\ \A k \in Mutexes \ {m} : xMutexHolder[k] # h
    BY <1>1, <1>3, WaitersTypes, HoldersRun DEF WaitersInv
  <2>2. waiting \in Int /\ uxBasePriority[h] \in Int
    BY <1>1, <2>1, DisinheritTypes, WaitersTypes
  <2>3. ASSUME NEW w \in ToSet(xTasksWaitingToReceive[m]) PROVE uxPriority[w] <= waiting
    <3>1. xTasksWaitingToReceive[m] # << >>
      BY <2>3, EmptyToSet
    <3>2. /\ Head(xTasksWaitingToReceive[m]) \in ToSet(xTasksWaitingToReceive[m])
          /\ uxPriority[w] <= uxPriority[Head(xTasksWaitingToReceive[m])]
      BY <1>1, <3>1, HeadIsHighest
    <3>3. Head(xTasksWaitingToReceive[m]) \in AllTasks
      BY <1>1, <3>2, WaitersTypes
    <3>4. waiting = uxPriority[Head(xTasksWaitingToReceive[m])]
      <4>1. /\ waiting = -xEventValue[Head(xTasksWaitingToReceive[m])]
            /\ xEventValue[Head(xTasksWaitingToReceive[m])] = -uxPriority[Head(xTasksWaitingToReceive[m])]
        BY <3>1, <3>3 DEF prvGetDisinheritPriorityAfterTimeout, WaitersInv, ValueInv
      <4>2. uxPriority[Head(xTasksWaitingToReceive[m])] \in Int
        BY <3>3, WaitersTypes
      <4> HIDE DEF waiting
      <4> QED BY <4>1, <4>2
    <3> QED BY <3>2, <3>4
  <2>4. \A w \in ToSet(xTasksWaitingToReceive[m]) : uxPriority[w] \in Int
    BY <1>1, WaitersTypes
  <2> HIDE DEF waiting
  <2>5. p \in Int /\ \A w \in ToSet(xTasksWaitingToReceive[m]) : uxPriority[w] <= p
    BY <2>2, <2>3, <2>4
  <2>6. xEventValue' = [xEventValue EXCEPT ![h] = -p]
    BY <1>3 DEF EventValueOf
  <2>7. \A k \in Mutexes : \A w \in ToSet(xTasksWaitingToReceive[k]) : xMutexHolder[k] = h => uxPriority[w] <= p
    BY <2>1, <2>5
  <2>8. UNCHANGED <<xMutexHolder, xTasksWaitingToReceive, xQueue>> /\ ~pendSV /\ pxCurrentTCB' = pxCurrentTCB /\ pxCurrentTCB # h
    BY <1>1 DEF mutexes, switching, Executes
  <2>9. pc'[t] = "run" /\ \A u \in Tasks \ {t} : pc'[u] = pc[u]
    BY <1>1, WaitersTypes DEF Goto
  <2> HIDE DEF p, h
  <2> QED BY <1>1, <1>3, <2>1, <2>5, <2>6, <2>7, <2>8, <2>9, RepriorityWaiters
<1> QED BY <1>2, <1>3 DEF DisinheritAfterTimeout

\* The priorities when t is about to wait: those of tasks that call stay, and the holder
\* of the mutex gets that of t if it is higher.
LEMMA BlocksPriorities ==
    ASSUME Unnested, IInv, WaitersInv, NEW t \in Tasks, Blocks(t), NEW m, m = xQueue[t], NEW h, h = xMutexHolder[m]
    PROVE  /\ pc[t] = "check" /\ Calls(t) /\ m \in Mutexes /\ h \in Tasks /\ h # t /\ ~Calls(h)
           /\ \A k \in Mutexes \ {m} : xMutexHolder[k] # h
           /\ \A u \in AllTasks \ {h} : uxPriority'[u] = uxPriority[u] /\ xEventValue'[u] = xEventValue[u]
           /\ xEventValue' \in [AllTasks -> Int]
           /\ uxPriority'[h] = (IF uxPriority[h] < uxPriority[t] THEN uxPriority[t] ELSE uxPriority[h])
           /\ xEventValue'[h] = -uxPriority'[h]
<1>1. pc[t] = "check" /\ Calls(t) /\ m \in Mutexes /\ h # t /\ ~Available(m)
  BY WaitersTypes DEF Blocks, At, Calls, WaitersInv, UsesInv
<1>2. h # NoTask
  BY <1>1, CountIs DEF IInv, Available
<1>3. h \in Tasks /\ h \in AllTasks /\ ~Calls(h) /\ \A k \in Mutexes \ {m} : xMutexHolder[k] # h
  BY <1>1, <1>2, WaitersTypes, HoldersRun DEF WaitersInv
<1>4. /\ uxPriority[t] \in Int /\ uxPriority[h] \in Int /\ xEventValue[h] = -uxPriority[h] /\ t \in AllTasks
  BY <1>3, WaitersTypes DEF WaitersInv, ValueInv
<1>5. CASE uxPriority[h] < uxPriority[t]
  <2>1. /\ uxPriority' = [uxPriority EXCEPT ![h] = uxPriority[t]]
        /\ xEventValue' = [xEventValue EXCEPT ![h] = -uxPriority[t]]
    BY <1>2, <1>5 DEF Blocks, Raises, EventValueOf
  <2> QED BY <1>1, <1>3, <1>4, <1>5, <2>1, WaitersTypes
<1>6. CASE ~(uxPriority[h] < uxPriority[t])
  <2>1. uxPriority' = uxPriority /\ xEventValue' = xEventValue
    BY <1>2, <1>6 DEF Blocks, Raises
  <2> QED BY <1>1, <1>3, <1>4, <1>6, <2>1, WaitersTypes
<1> QED BY <1>5, <1>6

LEMMA BlocksWaiters ==
    ASSUME Unnested, IInv, WaitersInv, NEW t \in Tasks, Blocks(t)
    PROVE  /\ WaitersInv' /\ pendSV' = TRUE
           /\ xTasksWaitingToReceive' \in [Mutexes -> Seq(Tasks)]
           /\ \A k \in Mutexes : \A w : w \in ToSet(xTasksWaitingToReceive'[k])
                 <=> w \in ToSet(xTasksWaitingToReceive[k]) \/ (w = t /\ k = xQueue[t])
<1> DEFINE m == xQueue[t]
           h == xMutexHolder[m]
           X == xTasksWaitingToReceive
           v == xEventValue'
           r == vListInsert(X[m], t, v)
<1>1. m = xQueue[t] /\ h = xMutexHolder[m]
  OBVIOUS
<1>2. /\ pc' = [pc EXCEPT ![t] = "blocked"] /\ pendSV' = TRUE
      /\ UNCHANGED <<xMutexHolder, xQueue>>
      /\ X' = [X EXCEPT ![m] = r]
  BY DEF Blocks, Goto, mutexes
<1> HIDE DEF m, h
<1>3. /\ pc[t] = "check" /\ Calls(t) /\ m \in Mutexes /\ h \in Tasks /\ h # t /\ ~Calls(h)
      /\ \A k \in Mutexes \ {m} : xMutexHolder[k] # h
      /\ \A u \in AllTasks \ {h} : uxPriority'[u] = uxPriority[u] /\ xEventValue'[u] = xEventValue[u]
      /\ xEventValue' \in [AllTasks -> Int]
      /\ uxPriority'[h] = (IF uxPriority[h] < uxPriority[t] THEN uxPriority[t] ELSE uxPriority[h])
      /\ xEventValue'[h] = -uxPriority'[h]
  BY <1>1, BlocksPriorities
<1>4. \A k \in Mutexes : \A w \in ToSet(X[k]) : w # h /\ w # t /\ w \in AllTasks
  BY <1>3, WaitersCall DEF WaitersInv
<1>5. X[m] \in Seq(AllTasks) /\ X[m] \in Seq(Tasks) /\ t \in AllTasks /\ NoDuplicates(X[m]) /\ t \notin ToSet(X[m])
  <2>1. Tasks \subseteq AllTasks /\ X[m] \in Seq(Tasks) /\ NoDuplicates(X[m])
    BY <1>3, WaitersTypes, TasksAre DEF IInv, EventInv
  <2> QED BY <1>3, <1>4, <2>1
<1>6. \A k \in Mutexes : Ascending(X[k], v)
  <2>1. \A k \in Mutexes : \A w \in ToSet(X[k]) : v[w] = xEventValue[w]
    BY <1>3, <1>4
  <2> QED BY <2>1 DEF WaitersInv, OrderInv, Ascending, ToSet
<1>7. r \in Seq(Tasks) /\ ToSet(r) = ToSet(X[m]) \cup {t}
  BY <1>5, vListInsertProperties
<1>8. Ascending(r, v)
  <2>1. r = vListInsert(X[m], t, v) /\ v \in [AllTasks -> Int] /\ Ascending(X[m], v)
    BY <1>3, <1>6
  <2> HIDE DEF v, r
  <2> QED BY <1>5, <2>1, InsertKeepsOrder
<1> HIDE DEF r
<1>9. \A k \in Mutexes : X'[k] = IF k = m THEN r ELSE X[k]
  BY <1>2, WaitersTypes
<1>10. UsesInv' /\ ValueInv' /\ OrderInv'
  <2>1. \A u \in Tasks : pc'[u] \notin {"run", "delayed"} => Calls(u)
    BY <1>2, <1>3, WaitersTypes DEF Calls
  <2>2. UsesInv'
    BY <1>2, <2>1 DEF WaitersInv, UsesInv, Calls
  <2>3. ValueInv'
    BY <1>3 DEF WaitersInv, ValueInv
  <2>4. OrderInv'
    BY <1>6, <1>8, <1>9 DEF OrderInv
  <2> QED BY <2>2, <2>3, <2>4
<1>11. BoundInv'
  <2> SUFFICES ASSUME NEW k \in Mutexes, xMutexHolder[k] # NoTask, NEW w \in ToSet(X'[k])
               PROVE  uxPriority'[w] <= uxPriority'[xMutexHolder[k]]
    BY <1>2 DEF BoundInv
  <2>1. w \in ToSet(X[k]) \/ (w = t /\ k = m)
    BY <1>7, <1>9
  <2>2. w # h /\ w \in AllTasks /\ uxPriority'[w] = uxPriority[w] /\ uxPriority[w] \in Int
    BY <1>3, <1>4, <1>5, <2>1, WaitersTypes
  <2>3. xMutexHolder[k] \in AllTasks /\ uxPriority[xMutexHolder[k]] \in Int
    BY WaitersTypes
  <2>4. CASE w \in ToSet(X[k])
    <3>1. uxPriority[w] <= uxPriority[xMutexHolder[k]]
      BY <2>4 DEF WaitersInv, BoundInv
    <3>2. uxPriority[xMutexHolder[k]] <= uxPriority'[xMutexHolder[k]] /\ uxPriority'[xMutexHolder[k]] \in Int
      <4>1. CASE xMutexHolder[k] = h
        BY <1>3, <1>5, <2>3, <4>1, WaitersTypes
      <4>2. CASE xMutexHolder[k] # h
        BY <1>3, <2>3, <4>2
      <4> QED BY <4>1, <4>2
    <3> QED BY <2>2, <2>3, <3>1, <3>2
  <2>5. CASE w = t /\ k = m
    <3>1. xMutexHolder[k] = h
      BY <2>5 DEF h
    <3> QED BY <1>3, <2>2, <2>3, <2>5, <3>1
  <2> QED BY <2>1, <2>4, <2>5
<1>12. FreeInv'
  <2> SUFFICES ASSUME NEW k \in Mutexes, xMutexHolder[k] = NoTask, X'[k] # << >>
               PROVE  \E y \in Tasks : TriesFor(y, k)'
    BY <1>2 DEF FreeInv
  <2>1. k # m /\ X'[k] = X[k]
    BY <1>3, <1>9, WaitersTypes DEF h
  <2>2. PICK y \in Tasks : TriesFor(y, k)
    BY <2>1 DEF WaitersInv, FreeInv
  <2>3. y # t /\ y # h /\ y \in AllTasks
    BY <1>3, <2>1, <2>2, WaitersTypes DEF TriesFor, Calls, m
  <2>4. pc'[y] = pc[y] /\ uxPriority'[y] = uxPriority[y]
    BY <1>2, <1>3, <2>3, WaitersTypes
  <2>5. \A w \in ToSet(X'[k]) : uxPriority'[w] <= uxPriority'[y]
    BY <1>3, <1>4, <2>1, <2>2, <2>4 DEF TriesFor
  <2>6. TriesFor(y, k)'
    BY <1>2, <2>2, <2>4, <2>5 DEF TriesFor
  <2> QED BY <2>6
<1>13. X' \in [Mutexes -> Seq(Tasks)]
  BY <1>2, <1>3, <1>7, WaitersTypes
<1>14. \A k \in Mutexes : \A w : w \in ToSet(X'[k]) <=> w \in ToSet(X[k]) \/ (w = t /\ k = m)
  BY <1>7, <1>9
<1> QED BY <1>2, <1>10, <1>11, <1>12, <1>13, <1>14 DEF WaitersInv, m

\* What giving a mutex does to the priorities and the lists.
LEMMA GiveIs ==
    ASSUME Unnested, IInv, WaitersInv, NEW t \in Tasks, NEW m \in Mutexes, Give(t, m)
    PROVE  /\ pc[t] = "run" /\ pxCurrentTCB = t /\ ~pendSV /\ xMutexHolder[m] = t /\ uxMutexesHeld[t] = 1
           /\ \A k \in Mutexes \ {m} : xMutexHolder[k] # t
           /\ \A u \in AllTasks \ {t} : uxPriority'[u] = uxPriority[u] /\ xEventValue'[u] = xEventValue[u]
           /\ uxPriority'[t] = uxBasePriority[t] /\ xEventValue'[t] = -uxBasePriority[t]
           /\ uxBasePriority' = uxBasePriority
           /\ UNCHANGED <<pxCurrentTCB, xQueue>>
           /\ xMutexHolder' = [xMutexHolder EXCEPT ![m] = NoTask]
           /\ \A k \in Mutexes : \A w \in ToSet(xTasksWaitingToReceive[k]) : w # t /\ w \in AllTasks
<1>1. pc[t] = "run" /\ pxCurrentTCB = t /\ ~pendSV /\ xMutexHolder[m] = t
  BY DEF Give, At, Executes
<1>2. \A k \in Mutexes \ {m} : xMutexHolder[k] # t
  BY <1>1, HoldersRun DEF WaitersInv
<1>3. uxMutexesHeld[t] = 1
  <2>1. HeldIn(xMutexHolder, t) = {m}
    BY <1>1, <1>2 DEF HeldIn
  <2> QED BY <2>1, FS_Singleton, CountIs, WaitersTypes DEF IInv
<1>4. Disinherits(t) <=> uxPriority[t] # uxBasePriority[t]
  BY <1>3 DEF Disinherits, HoldsNoOtherMutex
<1>5. /\ uxPriority' = IF Disinherits(t) THEN [uxPriority EXCEPT ![t] = uxBasePriority[t]] ELSE uxPriority
      /\ xEventValue' = IF Disinherits(t) THEN [xEventValue EXCEPT ![t] = -uxBasePriority[t]] ELSE xEventValue
      /\ UNCHANGED <<uxBasePriority, pxCurrentTCB, xQueue>>
      /\ xMutexHolder' = [xMutexHolder EXCEPT ![m] = NoTask]
  BY DEF Give, Release, call, EventValueOf
<1>6. \A u \in AllTasks \ {t} : uxPriority'[u] = uxPriority[u] /\ xEventValue'[u] = xEventValue[u]
  BY <1>5, WaitersTypes
<1>7. uxPriority'[t] = uxBasePriority[t] /\ xEventValue'[t] = -uxBasePriority[t]
  BY <1>4, <1>5, WaitersTypes DEF WaitersInv, ValueInv
<1>8. \A k \in Mutexes : \A w \in ToSet(xTasksWaitingToReceive[k]) : w # t /\ w \in AllTasks
  BY <1>1, WaitersCall DEF WaitersInv
<1> QED BY <1>1, <1>2, <1>3, <1>5, <1>6, <1>7, <1>8

LEMMA GiveWaiters ==
    ASSUME Unnested, IInv, WaitersInv, NEW t \in Tasks, NEW m \in Mutexes, Give(t, m)
    PROVE  WaitersInv'
<1> DEFINE X == xTasksWaitingToReceive
           w == Head(X[m])
<1>1. /\ pc[t] = "run" /\ pxCurrentTCB = t /\ ~pendSV /\ xMutexHolder[m] = t
      /\ \A k \in Mutexes \ {m} : xMutexHolder[k] # t
      /\ \A u \in AllTasks \ {t} : uxPriority'[u] = uxPriority[u] /\ xEventValue'[u] = xEventValue[u]
      /\ uxPriority'[t] = uxBasePriority[t] /\ xEventValue'[t] = -uxBasePriority[t]
      /\ UNCHANGED <<pxCurrentTCB, xQueue>>
      /\ xMutexHolder' = [xMutexHolder EXCEPT ![m] = NoTask]
      /\ \A k \in Mutexes : \A u \in ToSet(X[k]) : u # t /\ u \in AllTasks
  BY GiveIs
<1>2. \A k \in Mutexes : xMutexHolder'[k] = IF k = m THEN NoTask ELSE xMutexHolder[k]
  BY <1>1, WaitersTypes
<1>3. m \in Uses[t] /\ t \in AllTasks
  BY <1>1, HoldersRun, WaitersTypes DEF WaitersInv
<1>4. ValueInv'
  BY <1>1, <1>3 DEF WaitersInv, ValueInv
<1>5. /\ X[m] = << >> => UNCHANGED <<xTasksWaitingToReceive, pc>>
      /\ X[m] # << >> => /\ X' = [X EXCEPT ![m] = Tail(X[m])]
                         /\ pc' = [pc EXCEPT ![w] = "retry"]
                         /\ pendSV' = (uxPriority'[w] > uxPriority'[t])
  BY DEF Give, Release, Goto, WakesHigher
<1>6. X[m] # << >> => /\ w \in ToSet(X[m]) /\ w \in Tasks /\ w \in AllTasks /\ pc[w] = "blocked" /\ xQueue[w] = m
                      /\ \A u \in ToSet(X[m]) : uxPriority[u] <= uxPriority[w]
  BY HeadIsHighest, WaitersCall DEF WaitersInv
<1>7. X[m] # << >> => ToSet(Tail(X[m])) \subseteq ToSet(X[m]) /\ Ascending(Tail(X[m]), xEventValue)
  <2> SUFFICES ASSUME X[m] # << >> PROVE ToSet(Tail(X[m])) \subseteq ToSet(X[m]) /\ Ascending(Tail(X[m]), xEventValue)
    OBVIOUS
  <2> DEFINE s == X[m]
  <2>1. s \in Seq(Tasks) /\ s # << >> /\ Ascending(s, xEventValue)
    BY WaitersTypes DEF WaitersInv, OrderInv
  <2> HIDE DEF s
  <2>2. ToSet(s) = {Head(s)} \cup ToSet(Tail(s)) /\ Len(s) \in Nat /\ Len(s) # 0
    BY <2>1, HeadProperties, LenProperties, EmptySeq
  <2>3. Tail(s) = SubSeq(s, 1 + 1, Len(s)) /\ 1 \in 0 .. Len(s)
    BY <2>1, <2>2, TailIsSubSeq
  <2>4. Ascending(SubSeq(s, 1 + 1, Len(s)), xEventValue)
    BY <2>1, <2>3, DropKeepsOrder
  <2> QED BY <2>2, <2>3, <2>4 DEF s
<1> HIDE DEF w
<1>8. \A k \in Mutexes : ToSet(X'[k]) \subseteq ToSet(X[k]) /\ Ascending(X'[k], xEventValue) /\ (k # m => X'[k] = X[k])
  BY <1>5, <1>7, WaitersTypes DEF WaitersInv, OrderInv
<1>9. \A u \in Tasks : pc'[u] = IF X[m] # << >> /\ u = w THEN "retry" ELSE pc[u]
  BY <1>5, <1>6, WaitersTypes
<1>10. UsesInv'
  <2>1. \A u \in Tasks : pc'[u] \notin {"run", "delayed"} => Calls(u)
    BY <1>6, <1>9 DEF Calls
  <2>2. \A k \in Mutexes : xMutexHolder'[k] # NoTask => k \in Uses[xMutexHolder'[k]]
    BY <1>2 DEF WaitersInv, UsesInv
  <2>3. \A u \in Tasks : Calls(u) => xQueue[u] \in Uses[u] /\ xMutexHolder'[xQueue[u]] # u
    BY <1>2, WaitersTypes DEF WaitersInv, UsesInv
  <2> QED BY <1>1, <2>1, <2>2, <2>3 DEF UsesInv, Calls
<1>11. OrderInv'
  <2>1. \A k \in Mutexes : \A u \in ToSet(X'[k]) : xEventValue'[u] = xEventValue[u]
    BY <1>1, <1>8
  <2> QED BY <1>8, <2>1 DEF OrderInv, Ascending, ToSet
<1>12. BoundInv'
  <2> SUFFICES ASSUME NEW k \in Mutexes, xMutexHolder'[k] # NoTask, NEW u \in ToSet(X'[k])
               PROVE  uxPriority'[u] <= uxPriority'[xMutexHolder'[k]]
    BY DEF BoundInv
  <2>1. k # m /\ xMutexHolder'[k] = xMutexHolder[k] /\ xMutexHolder[k] # t /\ xMutexHolder[k] \in AllTasks
    BY <1>1, <1>2, WaitersTypes
  <2>2. u \in ToSet(X[k]) /\ uxPriority'[u] = uxPriority[u]
    BY <1>1, <1>8
  <2>3. uxPriority'[xMutexHolder[k]] = uxPriority[xMutexHolder[k]]
    BY <1>1, <2>1
  <2> QED BY <2>1, <2>2, <2>3 DEF WaitersInv, BoundInv
<1>13. FreeInv'
  <2> SUFFICES ASSUME NEW k \in Mutexes, xMutexHolder'[k] = NoTask, X'[k] # << >>
               PROVE  \E y \in Tasks : TriesFor(y, k)'
    BY DEF FreeInv
  <2>1. CASE k = m
    <3>1. X[m] # << >>
      BY <1>5, <2>1
    <3>0. PICK v : v = w
      OBVIOUS
    <3>2. /\ pc'[v] = "retry" /\ xQueue'[v] = m /\ uxPriority'[v] = uxPriority[v] /\ v \in Tasks
      BY <1>1, <1>6, <1>9, <3>0, <3>1
    <3>3. \A u \in ToSet(X'[k]) : uxPriority'[u] <= uxPriority'[v]
      BY <1>1, <1>6, <1>8, <2>1, <3>0, <3>1, <3>2
    <3>4. pendSV' \/ uxPriority'[v] <= uxPriority'[t]
      <4>1. uxPriority[v] \in Int /\ uxBasePriority[t] \in Int
        BY <1>3, <1>6, <3>0, <3>1, WaitersTypes
      <4>2. uxPriority'[v] > uxPriority'[t] \/ uxPriority'[v] <= uxPriority'[t]
        BY <1>1, <3>2, <4>1
      <4>3. pendSV' = (uxPriority'[v] > uxPriority'[t])
        BY <1>5, <3>0, <3>1
      <4> QED BY <4>2, <4>3, Zenon
    <3>5. TriesFor(v, m)'
      <4>1. pc'[v] \in {"retry", "check", "isEmpty"} /\ xQueue'[v] = m
        BY <3>2
      <4>2. \A u \in ToSet(X'[m]) : uxPriority'[u] <= uxPriority'[v]
        BY <2>1, <3>3
      <4>3. pendSV' \/ uxPriority'[v] <= uxPriority'[pxCurrentTCB']
        <5>1. pxCurrentTCB' = t
          BY <1>1
        <5> QED BY <3>4, <5>1, Zenon
      <4> QED BY <4>1, <4>2, <4>3, Zenon DEF TriesFor
    <3> QED BY <2>1, <3>2, <3>5
  <2>2. CASE k # m
    <3>1. xMutexHolder[k] = NoTask /\ X'[k] = X[k]
      BY <1>2, <1>8, <2>2
    <3>2. PICK y \in Tasks : TriesFor(y, k)
      BY <3>1 DEF WaitersInv, FreeInv
    <3>3. y # t /\ pc[y] # "blocked" /\ y \in AllTasks
      BY <1>1, <3>2, WaitersTypes DEF TriesFor
    <3>4. pc'[y] = pc[y] /\ uxPriority'[y] = uxPriority[y]
      BY <1>1, <1>6, <1>9, <3>3
    <3>5. \A u \in ToSet(X'[k]) : uxPriority'[u] <= uxPriority'[y]
      BY <1>1, <3>1, <3>2, <3>4 DEF TriesFor
    <3>6. k \notin Uses[t]
      BY <1>3, <2>2 DEF Unnested
    <3>7. TriesFor(y, k)'
      BY <1>1, <3>2, <3>4, <3>5, <3>6 DEF TriesFor
    <3> QED BY <3>7
  <2> QED BY <2>1, <2>2
<1> QED BY <1>4, <1>10, <1>11, <1>12, <1>13 DEF WaitersInv

LEMMA InitWaiters ==
    ASSUME Init
    PROVE  WaitersInv
<1>1. /\ uxPriority = InitPrio /\ xEventValue = [t \in AllTasks |-> EventValueOf(InitPrio[t])]
      /\ pc = [t \in AllTasks |-> "run"] /\ xMutexHolder = [m \in Mutexes |-> NoTask]
      /\ xTasksWaitingToReceive = [m \in Mutexes |-> << >>]
  BY DEF Init
<1>2. UsesInv /\ BoundInv /\ FreeInv
  BY <1>1, TasksAre DEF UsesInv, BoundInv, FreeInv, Calls
<1>3. ValueInv
  BY <1>1 DEF ValueInv, EventValueOf
<1>4. OrderInv
  <2>1. DOMAIN << >> = {}
    OBVIOUS
  <2> QED BY <1>1, <2>1 DEF OrderInv, Ascending
<1> QED BY <1>2, <1>3, <1>4 DEF WaitersInv

LEMMA NextWaiters ==
    ASSUME Unnested, IInv, WaitersInv, [Next]_vars
    PROVE  WaitersInv'
<1>1. CASE UNCHANGED vars
  <2>1. /\ UNCHANGED <<xMutexHolder, xTasksWaitingToReceive, uxPriority, xEventValue, xQueue, pc, pendSV, pxCurrentTCB>>
    BY <1>1 DEF vars, mutexes, switching, priorities, call
  <2> QED BY <2>1 DEF WaitersInv, UsesInv, ValueInv, OrderInv, BoundInv, FreeInv, TriesFor, Calls, Ascending
<1>2. ASSUME NEW t \in Tasks, Continue(t) PROVE WaitersInv'
  BY <1>2, QuietCallsWaiters, BlocksWaiters, DisinheritWaiters DEF Continue
<1>3. ASSUME NEW t \in Tasks, NEW m \in Mutexes,
             \/ \E ticks \in BlockTimes : Take(t, m, ticks)
             \/ xQueueTakeMutexRecursive(t, m)
             \/ Give(t, m) \/ xQueueGiveMutexRecursive(t, m)
      PROVE  WaitersInv'
  BY <1>3, TakeWaiters, RecursiveWaiters, GiveWaiters
<1>4. ASSUME NEW t \in Tasks, Delay(t) \/ DelayEnds(t) \/ WaitEnds(t) PROVE WaitersInv'
  BY <1>4, DelayWaiters, WaitEndsWaiters
<1>5. ASSUME NEW t \in Tasks, NEW u \in Victims, NEW p \in NewPriorities, vTaskPrioritySet(t, u, p) PROVE WaitersInv'
  BY <1>5, PrioritySetWaiters
<1>6. CASE PendSV
  BY <1>6, SwitchWaiters
<1> QED BY <1>1, <1>2, <1>3, <1>4, <1>5, <1>6 DEF Next

LEMMA WaitersInvariance == ASSUME Unnested PROVE Spec => []WaitersInv
<1>1. IInv /\ WaitersInv /\ [Next]_vars => WaitersInv'
  BY NextWaiters
<1> QED BY <1>1, InitWaiters, Invariance, PTL DEF Spec

\* Where tasks take one mutex each, the holder is never below a task that waits for
\* it, and runs at its own priority when it holds it no longer: through timeouts of
\* other waiters, and with the mutex passed from task to task (tasks.c, queue.c).
THEOREM HoldersInherit == ASSUME Unnested PROVE Spec => []PriorityFollowsWaiters
<1>1. IInv /\ WaitersInv => PriorityFollowsWaiters
  <2> SUFFICES ASSUME IInv, WaitersInv, NEW m \in Mutexes, NEW w \in ToSet(xTasksWaitingToReceive[m]),
                      xMutexHolder[m] # NoTask
               PROVE  uxPriority[xMutexHolder[m]] >= uxBasePriority[w]
    BY DEF PriorityFollowsWaiters, HolderInherits, IInv
  <2>1. uxPriority[w] <= uxPriority[xMutexHolder[m]] /\ w \in Tasks /\ w \in AllTasks /\ Calls(w)
    BY WaitersCall DEF WaitersInv, BoundInv
  <2>2. uxPriority[w] = uxBasePriority[w]
    BY <2>1, CallersHoldNothing DEF WaitersInv
  <2>3. xMutexHolder[m] \in AllTasks
    BY WaitersTypes
  <2> QED BY <2>1, <2>2, <2>3, WaitersTypes
<1> QED BY <1>1, Invariance, WaitersInvariance, PTL
-----------------------------------------------------------------------------
(* The task that runs. *)

\* A holder is above its own priority only while a task of that priority waits.
LentInv ==
    \A m \in Mutexes : xMutexHolder[m] # NoTask /\ uxPriority[xMutexHolder[m]] # uxBasePriority[xMutexHolder[m]] =>
        /\ uxBasePriority[xMutexHolder[m]] < uxPriority[xMutexHolder[m]]
        /\ \E w \in ToSet(xTasksWaitingToReceive[m]) : uxPriority[w] = uxPriority[xMutexHolder[m]]

HighInv == pendSV \/ \A u \in AllTasks : Awake(u) => uxPriority[u] <= uxPriority[pxCurrentTCB]

\* A step that leaves holders, lists and priorities alone and wakes no task.
LEMMA QuietRuns ==
    ASSUME IInv, LentInv, HighInv,
           UNCHANGED <<xMutexHolder, xTasksWaitingToReceive, uxPriority, uxBasePriority>>,
           \A u \in AllTasks : (Awake(u))' => Awake(u),
           pendSV' \/ (~pendSV /\ pxCurrentTCB' = pxCurrentTCB)
    PROVE  LentInv' /\ HighInv'
  BY DEF LentInv, HighInv

\* The same for a call that moves on.
LEMMA CallRuns ==
    ASSUME IInv, LentInv, HighInv, NEW t \in Tasks, Executes(t), Awake(t), NEW c, Goto(t, c),
           UNCHANGED <<mutexes, xTasksWaitingToReceive, priorities, switching>>
    PROVE  LentInv' /\ HighInv'
<1>1. \A u \in AllTasks : (Awake(u))' => Awake(u)
  BY WaitersTypes DEF Awake, Goto
<1> QED BY <1>1, QuietRuns DEF mutexes, priorities, switching, Executes

\* The one that takes a mutex has its own priority.
LEMMA ObtainRuns ==
    ASSUME IInv, LentInv, HighInv, NEW t \in Tasks, NEW m \in Mutexes, Obtain(t, m), Executes(t),
           uxMutexesHeld[t] = 0, xMutexHolder' = [xMutexHolder EXCEPT ![m] = t],
           \A u \in AllTasks : (Awake(u))' => Awake(u)
    PROVE  LentInv' /\ HighInv'
<1>1. /\ UNCHANGED <<xTasksWaitingToReceive, uxPriority, uxBasePriority, pxCurrentTCB, pendSV>>
  BY DEF Obtain, switching, priorities
<1>2. \A k \in Mutexes : xMutexHolder'[k] = IF k = m THEN t ELSE xMutexHolder[k]
  BY WaitersTypes
<1>3. uxPriority[t] = uxBasePriority[t]
  BY WaitersTypes DEF IInv, PriorityIsReturned
<1>4. LentInv'
  BY <1>1, <1>2, <1>3 DEF LentInv
<1> QED BY <1>1, <1>4 DEF HighInv

LEMMA TakeRuns ==
    ASSUME Unnested, IInv, WaitersInv, LentInv, HighInv,
           NEW t \in Tasks, NEW m \in Mutexes, NEW ticks \in BlockTimes, Take(t, m, ticks)
    PROVE  LentInv' /\ HighInv'
<1>1. At(t, "run") /\ m \in Uses[t] /\ pc[t] = "run" /\ Executes(t) /\ t \in AllTasks /\ Awake(t)
  BY WaitersTypes DEF Take, At, Awake
<1>2. CASE Obtain(t, m) /\ UNCHANGED <<pc, call>>
  <2>1. uxMutexesHeld[t] = 0 /\ xMutexHolder' = [xMutexHolder EXCEPT ![m] = t]
    BY <1>1, <1>2, ObtainWaiters DEF call
  <2>2. \A u \in AllTasks : (Awake(u))' => Awake(u)
    BY <1>2 DEF Awake
  <2> QED BY <1>1, <1>2, <2>1, <2>2, ObtainRuns
<1>3. CASE Goto(t, "check") /\ UNCHANGED <<mutexes, xTasksWaitingToReceive, switching, priorities>>
  BY <1>1, <1>3, CallRuns
<1> QED BY <1>2, <1>3 DEF Take

LEMMA QuietCallsRuns ==
    ASSUME Unnested, IInv, WaitersInv, LentInv, HighInv, NEW t \in Tasks, NeedNotBlock(t) \/ TryAgain(t)
    PROVE  LentInv' /\ HighInv'
<1>1. Executes(t) /\ pc[t] \in {"check", "retry"} /\ Awake(t) /\ Calls(t)
  BY DEF NeedNotBlock, TryAgain, At, Awake, Calls
<1>2. CASE NeedNotBlock(t)
  BY <1>1, <1>2, CallRuns DEF NeedNotBlock
<1>3. CASE TryAgain(t)
  <2>1. CASE Obtain(t, xQueue[t]) /\ Returns(t)
    <3>1. xQueue[t] \in Uses[t] /\ xQueue[t] \in Mutexes
      BY <1>1, WaitersTypes DEF WaitersInv, UsesInv
    <3>2. pc'[t] = "run" /\ xQueue' = xQueue /\ \A u \in Tasks \ {t} : pc'[u] = pc[u]
      BY <2>1, WaitersTypes DEF Returns, Goto
    <3>3. uxMutexesHeld[t] = 0 /\ xMutexHolder' = [xMutexHolder EXCEPT ![xQueue[t]] = t]
      BY <1>1, <2>1, <3>1, <3>2, ObtainWaiters
    <3>4. \A u \in AllTasks : (Awake(u))' => Awake(u)
      BY <1>1, <2>1, WaitersTypes DEF Returns, Goto, Awake
    <3> QED BY <1>1, <2>1, <3>1, <3>3, <3>4, ObtainRuns
  <2>2. CASE /\ Returns(t) \/ (Goto(t, "check") /\ UNCHANGED call)
             /\ UNCHANGED <<mutexes, xTasksWaitingToReceive, ready, switching, priorities, uxMutexesHeld>>
    <3>1. Goto(t, "run") \/ Goto(t, "check")
      BY <2>2 DEF Returns
    <3> QED BY <1>1, <2>2, <3>1, CallRuns
  <2> QED BY <1>3, <2>1, <2>2 DEF TryAgain
<1> QED BY <1>2, <1>3

LEMMA BlocksRuns ==
    ASSUME Unnested, IInv, WaitersInv, LentInv, HighInv, NEW t \in Tasks, Blocks(t)
    PROVE  LentInv' /\ HighInv'
<1> DEFINE X == xTasksWaitingToReceive
<1>0. PICK m, h : m = xQueue[t] /\ h = xMutexHolder[m]
  OBVIOUS
<1>1. /\ Calls(t) /\ m \in Mutexes /\ h \in Tasks /\ h # t /\ ~Calls(h)
      /\ \A k \in Mutexes \ {m} : xMutexHolder[k] # h
      /\ \A u \in AllTasks \ {h} : uxPriority'[u] = uxPriority[u]
      /\ uxPriority'[h] = (IF uxPriority[h] < uxPriority[t] THEN uxPriority[t] ELSE uxPriority[h])
  BY <1>0, BlocksPriorities
<1>2. /\ pendSV' = TRUE
      /\ \A k \in Mutexes : \A w : w \in ToSet(X'[k]) <=> w \in ToSet(X[k]) \/ (w = t /\ k = m)
  BY <1>0, BlocksWaiters
<1>3. UNCHANGED <<xMutexHolder, uxBasePriority>>
  BY DEF Blocks, mutexes
<1>4. \A k \in Mutexes : \A w \in ToSet(X[k]) : w # h /\ w \in AllTasks /\ uxPriority'[w] = uxPriority[w]
  BY <1>1, WaitersCall DEF WaitersInv
<1>5. LentInv'
  <2> SUFFICES ASSUME NEW k \in Mutexes, NEW g, g = xMutexHolder[k], g # NoTask, uxPriority'[g] # uxBasePriority[g]
               PROVE  uxBasePriority[g] < uxPriority'[g] /\ \E w \in ToSet(X'[k]) : uxPriority'[w] = uxPriority'[g]
    BY <1>3 DEF LentInv
  <2>0. /\ g \in AllTasks /\ t \in AllTasks /\ uxPriority[g] \in Int /\ uxBasePriority[g] \in Int /\ uxPriority[t] \in Int
    BY WaitersTypes
  <2>1. uxPriority[g] # uxBasePriority[g] =>
           uxBasePriority[g] < uxPriority[g] /\ \E w \in ToSet(X[k]) : uxPriority[w] = uxPriority[g]
    BY DEF LentInv
  <2>2. CASE uxPriority'[g] = uxPriority[g]
    <3>1. PICK w \in ToSet(X[k]) : uxPriority[w] = uxPriority[g]
      BY <2>1, <2>2
    <3>2. w \in ToSet(X'[k]) /\ uxPriority'[w] = uxPriority'[g]
      BY <1>2, <1>4, <2>2, <3>1
    <3> QED BY <2>1, <2>2, <3>2
  <2>3. CASE uxPriority'[g] # uxPriority[g]
    <3>1. g = h /\ k = m /\ uxPriority[h] < uxPriority[t] /\ uxPriority'[g] = uxPriority[t]
      BY <1>1, <2>0, <2>3
    <3>2. t \in ToSet(X'[k]) /\ uxPriority'[t] = uxPriority[t]
      BY <1>1, <1>2, <2>0, <3>1
    <3>3. uxBasePriority[g] < uxPriority'[g]
      BY <2>0, <2>1, <3>1
    <3> QED BY <3>1, <3>2, <3>3
  <2> QED BY <2>2, <2>3
<1>6. HighInv'
  BY <1>2 DEF HighInv
<1> QED BY <1>5, <1>6

LEMMA DelayRuns ==
    ASSUME IInv, LentInv, HighInv, NEW t \in Tasks, Delay(t) \/ DelayEnds(t)
    PROVE  LentInv' /\ HighInv'
<1>1. UNCHANGED <<xMutexHolder, xTasksWaitingToReceive, uxPriority, uxBasePriority, pxCurrentTCB>>
  BY DEF Delay, DelayEnds, Ready, mutexes, priorities
<1>2. LentInv'
  BY <1>1 DEF LentInv
<1>3. CASE Delay(t)
  BY <1>2, <1>3 DEF Delay, HighInv
<1>4. CASE DelayEnds(t)
  <2>1. pendSV' = (pendSV \/ uxPriority[t] >= uxPriority[pxCurrentTCB]) /\ pc' = [pc EXCEPT ![t] = "run"]
    BY <1>4 DEF DelayEnds, Ready, Goto
  <2>2. pxCurrentTCB \in AllTasks /\ t \in AllTasks
    BY WaitersTypes DEF IInv, TypesInv
  <2>3. uxPriority[t] >= uxPriority[pxCurrentTCB] \/ uxPriority[t] <= uxPriority[pxCurrentTCB]
    BY <2>2, WaitersTypes
  <2>4. \A u \in AllTasks : (Awake(u))' => u = t \/ Awake(u)
    BY <2>1, WaitersTypes DEF Awake
  <2> QED BY <1>1, <1>2, <2>1, <2>3, <2>4 DEF HighInv
<1> QED BY <1>3, <1>4

LEMMA SwitchRuns ==
    ASSUME IInv, LentInv, PendSV
    PROVE  LentInv' /\ HighInv'
<1>1. UNCHANGED <<xMutexHolder, xTasksWaitingToReceive, uxPriority, uxBasePriority, pc>>
  BY DEF PendSV, mutexes, priorities
<1>2. LentInv'
  BY <1>1 DEF LentInv
<1>3. \A u \in AllTasks : Awake(u) => uxPriority[u] <= uxPriority[pxCurrentTCB']
  BY PendSVSwitches
<1> QED BY <1>1, <1>2, <1>3 DEF HighInv, Awake

LEMMA RecursiveRuns ==
    ASSUME IInv, LentInv, HighInv, NEW t \in Tasks, NEW m \in Mutexes,
           xQueueTakeMutexRecursive(t, m) \/ xQueueGiveMutexRecursive(t, m)
    PROVE  LentInv' /\ HighInv'
<1>1. /\ UNCHANGED <<xMutexHolder, xTasksWaitingToReceive, uxPriority, uxBasePriority, pc>>
      /\ ~pendSV /\ pxCurrentTCB' = pxCurrentTCB /\ pendSV' = pendSV
  BY DEF xQueueTakeMutexRecursive, xQueueGiveMutexRecursive, At, Executes, switching, priorities
<1> QED BY <1>1, QuietRuns DEF Awake

LEMMA PrioritySetRuns ==
    ASSUME Unnested, IInv, WaitersInv, LentInv, HighInv,
           NEW t \in Tasks, NEW u \in Victims, NEW p \in NewPriorities, vTaskPrioritySet(t, u, p)
    PROVE  LentInv' /\ HighInv'
<1>1. /\ uxPriority[u] = uxBasePriority[u] /\ uxPriority' = [uxPriority EXCEPT ![u] = p]
      /\ \A m \in Mutexes : xMutexHolder[m] # u /\ u \notin ToSet(xTasksWaitingToReceive[m])
  BY PrioritySetWaiters
<1>2. /\ uxBasePriority' = [uxBasePriority EXCEPT ![u] = p] /\ p # uxBasePriority[u]
      /\ pendSV' = (IF p > uxBasePriority[u] THEN u # t /\ p >= uxPriority[t] ELSE u = t)
      /\ UNCHANGED <<xMutexHolder, xTasksWaitingToReceive, pxCurrentTCB, pc>>
      /\ pxCurrentTCB = t /\ ~pendSV
  BY DEF vTaskPrioritySet, mutexes, At, Executes
<1>3. u \in AllTasks /\ t \in AllTasks /\ p \in Int /\ u \in Tasks
  BY WaitersTypes, MutexAssumption
<1>4. \A v \in AllTasks : /\ uxPriority'[v] = IF v = u THEN p ELSE uxPriority[v]
                          /\ uxBasePriority'[v] = IF v = u THEN p ELSE uxBasePriority[v]
  BY <1>1, <1>2, WaitersTypes
<1>5. LentInv'
  <2>1. \A m \in Mutexes : \A w \in ToSet(xTasksWaitingToReceive[m]) : w \in AllTasks /\ w # u
    BY <1>1, WaitersTypes
  <2>2. \A m \in Mutexes : xMutexHolder[m] # NoTask => xMutexHolder[m] \in AllTasks /\ xMutexHolder[m] # u
    BY <1>1, WaitersTypes
  <2> QED BY <1>2, <1>4, <2>1, <2>2 DEF LentInv
<1>6. HighInv'
  <2> SUFFICES ASSUME ~pendSV', NEW v \in AllTasks, Awake(v) PROVE uxPriority'[v] <= uxPriority'[t]
    BY <1>2 DEF HighInv, Awake
  <2>1. uxPriority[v] <= uxPriority[t]
    BY <1>2 DEF HighInv
  <2>2. uxPriority[v] \in Int /\ uxPriority[t] \in Int /\ uxPriority[u] \in Int
    BY <1>3, WaitersTypes
  <2>3. ~(IF p > uxPriority[u] THEN u # t /\ p >= uxPriority[t] ELSE u = t) /\ p # uxPriority[u]
    BY <1>1, <1>2
  <2>4. /\ uxPriority'[v] = IF v = u THEN p ELSE uxPriority[v]
        /\ uxPriority'[t] = IF t = u THEN p ELSE uxPriority[t]
    BY <1>3, <1>4
  <2> QED BY <1>3, <2>1, <2>2, <2>3, <2>4
<1> QED BY <1>5, <1>6

\* The holder that gives a mutex and runs below a waiting task leaves the processor to
\* it, so that no task between the two is passed over.
LEMMA GiveRuns ==
    ASSUME Unnested, IInv, WaitersInv, LentInv, HighInv, NEW t \in Tasks, NEW m \in Mutexes, Give(t, m)
    PROVE  LentInv' /\ HighInv'
<1> DEFINE X == xTasksWaitingToReceive
<1>0. PICK w : w = Head(X[m])
  OBVIOUS
<1>1. /\ pc[t] = "run" /\ pxCurrentTCB = t /\ ~pendSV /\ xMutexHolder[m] = t /\ uxMutexesHeld[t] = 1
      /\ \A k \in Mutexes \ {m} : xMutexHolder[k] # t
      /\ \A u \in AllTasks \ {t} : uxPriority'[u] = uxPriority[u]
      /\ uxPriority'[t] = uxBasePriority[t]
      /\ uxBasePriority' = uxBasePriority /\ pxCurrentTCB' = pxCurrentTCB
      /\ xMutexHolder' = [xMutexHolder EXCEPT ![m] = NoTask]
      /\ \A k \in Mutexes : \A u \in ToSet(X[k]) : u # t /\ u \in AllTasks
  BY GiveIs
<1>2. \A k \in Mutexes : xMutexHolder'[k] = IF k = m THEN NoTask ELSE xMutexHolder[k]
  BY <1>1, WaitersTypes
<1>3. /\ t \in AllTasks /\ t # NoTask /\ \A u \in AllTasks : uxPriority[u] \in Int /\ uxBasePriority[u] \in Int
  BY WaitersTypes
<1>4. /\ X[m] = << >> => UNCHANGED <<xTasksWaitingToReceive, pc>> /\ pendSV' = Disinherits(t)
      /\ X[m] # << >> => /\ X' = [X EXCEPT ![m] = Tail(X[m])]
                         /\ pc' = [pc EXCEPT ![w] = "retry"]
                         /\ pendSV' = (uxPriority'[w] > uxPriority'[t])
  BY <1>0 DEF Give, Release, Goto, WakesHigher
<1>5. X[m] # << >> => /\ w \in ToSet(X[m]) /\ w \in AllTasks
                      /\ \A u \in ToSet(X[m]) : uxPriority[u] <= uxPriority[w]
  BY <1>0, HeadIsHighest, WaitersTypes
<1>6. \A k \in Mutexes \ {m} : X'[k] = X[k]
  BY <1>4, WaitersTypes
<1>7. LentInv'
  <2> SUFFICES ASSUME NEW k \in Mutexes, NEW g, g = xMutexHolder'[k], g # NoTask, uxPriority'[g] # uxBasePriority[g]
               PROVE  uxBasePriority[g] < uxPriority'[g] /\ \E u \in ToSet(X'[k]) : uxPriority'[u] = uxPriority'[g]
    BY <1>1 DEF LentInv
  <2>1. k # m /\ g = xMutexHolder[k] /\ g # t /\ g \in AllTasks
    BY <1>1, <1>2, WaitersTypes
  <2>2. uxPriority'[g] = uxPriority[g] /\ X'[k] = X[k] /\ \A u \in ToSet(X[k]) : uxPriority'[u] = uxPriority[u]
    BY <1>1, <1>6, <2>1
  <2> QED BY <2>1, <2>2 DEF LentInv
<1>8. \A u \in AllTasks : (Awake(u))' => Awake(u) \/ (X[m] # << >> /\ u = w)
  BY <1>4, WaitersTypes DEF Awake
<1>9. uxPriority[t] # uxBasePriority[t] =>
         /\ uxBasePriority[t] < uxPriority[t] /\ X[m] # << >>
         /\ uxPriority[t] <= uxPriority[w]
  <2> SUFFICES ASSUME uxPriority[t] # uxBasePriority[t]
               PROVE  uxBasePriority[t] < uxPriority[t] /\ X[m] # << >> /\ uxPriority[t] <= uxPriority[w]
    OBVIOUS
  <2>1. uxBasePriority[t] < uxPriority[t] /\ \E u \in ToSet(X[m]) : uxPriority[u] = uxPriority[t]
    BY <1>1, <1>3 DEF LentInv
  <2>2. X[m] # << >>
    BY <2>1, EmptyToSet
  <2> QED BY <1>5, <2>1, <2>2
<1>10. HighInv'
  <2> SUFFICES ASSUME ~pendSV', NEW u \in AllTasks, (Awake(u))' PROVE uxPriority'[u] <= uxPriority'[t]
    BY <1>1 DEF HighInv
  <2>1. ASSUME X[m] # << >> PROVE uxPriority[w] <= uxBasePriority[t] /\ w # t /\ w \in AllTasks
    <3>1. w # t /\ w \in AllTasks /\ ~(uxPriority'[w] > uxPriority'[t])
      BY <1>1, <1>4, <1>5, <2>1
    <3> QED BY <1>1, <1>3, <3>1
  <2>2. uxPriority[t] = uxBasePriority[t]
    <3>1. CASE X[m] = << >>
      BY <1>9, <3>1
    <3>2. CASE X[m] # << >>
      BY <1>3, <1>9, <2>1, <3>2
    <3> QED BY <3>1, <3>2
  <2>3. uxPriority'[t] = uxPriority[t] /\ uxPriority'[u] = uxPriority[u]
    BY <1>1, <2>2
  <2>4. CASE Awake(u)
    BY <1>1, <2>3, <2>4 DEF HighInv
  <2>5. CASE X[m] # << >> /\ u = w
    BY <2>1, <2>2, <2>3, <2>5
  <2> QED BY <1>8, <2>4, <2>5
<1> QED BY <1>7, <1>10

RunsInv == LentInv /\ HighInv

LEMMA InitRuns ==
    ASSUME Init
    PROVE  RunsInv
<1>1. /\ uxPriority = InitPrio /\ uxBasePriority = InitPrio /\ xMutexHolder = [m \in Mutexes |-> NoTask]
      /\ \A u \in AllTasks : InitPrio[u] <= InitPrio[pxCurrentTCB]
  BY DEF Init
<1> QED BY <1>1 DEF RunsInv, LentInv, HighInv

LEMMA NextRuns ==
    ASSUME Unnested, IInv, UntimedInv, WaitersInv, RunsInv, [Next]_vars
    PROVE  RunsInv'
<1>0. LentInv /\ HighInv
  BY DEF RunsInv
<1>1. CASE UNCHANGED vars
  <2>1. UNCHANGED <<xMutexHolder, xTasksWaitingToReceive, uxPriority, uxBasePriority, pc, pendSV, pxCurrentTCB>>
    BY <1>1 DEF vars, mutexes, switching, priorities
  <2> QED BY <1>0, <2>1 DEF RunsInv, LentInv, HighInv, Awake
<1>2. ASSUME NEW t \in Tasks, Continue(t) PROVE RunsInv'
  <2>1. ~TimesOut(t) /\ ~IsEmpty(t) /\ ~DisinheritAfterTimeout(t)
    BY DEF UntimedInv, TimesOut, IsEmpty, DisinheritAfterTimeout, At
  <2> QED BY <1>0, <1>2, <2>1, QuietCallsRuns, BlocksRuns DEF Continue, RunsInv
<1>3. ASSUME NEW t \in Tasks, NEW m \in Mutexes,
             \/ \E ticks \in BlockTimes : Take(t, m, ticks)
             \/ xQueueTakeMutexRecursive(t, m)
             \/ Give(t, m) \/ xQueueGiveMutexRecursive(t, m)
      PROVE  RunsInv'
  BY <1>0, <1>3, TakeRuns, RecursiveRuns, GiveRuns DEF RunsInv
<1>4. ASSUME NEW t \in Tasks, Delay(t) \/ DelayEnds(t) PROVE RunsInv'
  BY <1>0, <1>4, DelayRuns DEF RunsInv
<1>5. ASSUME NEW t \in Tasks PROVE ~WaitEnds(t)
  BY DEF UntimedInv, WaitEnds
<1>6. ASSUME NEW t \in Tasks, NEW u \in Victims, NEW p \in NewPriorities, vTaskPrioritySet(t, u, p) PROVE RunsInv'
  BY <1>0, <1>6, PrioritySetRuns DEF RunsInv
<1>7. CASE PendSV
  BY <1>0, <1>7, SwitchRuns DEF RunsInv
<1> QED BY <1>1, <1>2, <1>3, <1>4, <1>5, <1>6, <1>7 DEF Next

\* Where tasks take one mutex each and wait without a timeout, lending and returning
\* priorities keeps the ready lists exact and the task that runs the one of the highest
\* priority: a holder that is lowered when it gives is below the waiter it wakes, for
\* which it yields, so that the yield xTaskPriorityDisinherit asks for is not missed.
THEOREM HighestTaskRuns == ASSUME Unnested, NoTimeouts PROVE Spec => []RunsByPriority
<1>1. IInv /\ UntimedInv /\ WaitersInv /\ RunsInv /\ [Next]_vars => RunsInv'
  BY NextRuns
<1>2. IInv /\ RunsInv => RunningIsHighest
  BY ReadyIs DEF RunsInv, HighInv, RunningIsHighest, InReadyList, In
<1>3. Spec => []RunsInv
  BY <1>1, InitRuns, Invariance, UntimedInvariance, WaitersInvariance, PTL DEF Spec
<1> QED BY <1>2, <1>3, Invariance, ReadyBitsStayExact, PTL DEF RunsByPriority
-----------------------------------------------------------------------------
=============================================================================
