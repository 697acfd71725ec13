------------------------------- MODULE Mutex -------------------------------
(***************************************************************************)
(* Mutexes and priority inheritance: the mutex part of queue.c with the    *)
(* inheritance functions of tasks.c.                                       *)
(*                                                                         *)
(* A mutex is a queue of length 1 whose items have no bytes, given with no *)
(* block time, so no task ever waits to give one, and interrupts may not   *)
(* use it.  With the scheduler suspended, then, nothing else touches a     *)
(* mutex, and what a call does from vTaskSuspendAll to xTaskResumeAll is   *)
(* one action; every other critical section is an action of its own.       *)
(* Ticks are modelled by what they do here: end a wait, or wake a task     *)
(* that delays.                                                            *)
(***************************************************************************)
EXTENDS KernelLists

CONSTANTS Tasks, Idle,
          Mutexes,
          Recursive,       \* the mutexes used with the recursive calls
          InitPrio,        \* the priority a task is created with
          MaxPriority,     \* configMAX_PRIORITIES - 1
          Uses,            \* the mutexes each task takes
          WaitsOf,         \* the block times each task takes them with
          Victims,         \* tasks given new priorities ...
          NewPriorities,   \* ... of these values
          RecursionBound,  \* bound: depth of recursive takes
          NoTask           \* NULL

Priorities == 0 .. MaxPriority
AllTasks   == Tasks \cup {Idle}
BlockTimes == {"none", "finite", "forever"}

ASSUME MutexAssumption ==
    /\ Idle \notin Tasks /\ NoTask \notin Tasks \cup {Idle} /\ IsFiniteSet(Tasks)
    /\ IsFiniteSet(Mutexes) /\ Mutexes # {} /\ Recursive \subseteq Mutexes
    /\ MaxPriority \in Nat /\ InitPrio \in [AllTasks -> Priorities] /\ InitPrio[Idle] = 0
    /\ Uses \in [Tasks -> SUBSET Mutexes] /\ WaitsOf \in [Tasks -> SUBSET BlockTimes]
    /\ Victims \subseteq Tasks /\ NewPriorities \subseteq Priorities
    /\ RecursionBound \in Nat \ {0}

VARIABLES
    uxMessagesWaiting,          \* of each mutex: 1 when it may be taken
    xMutexHolder, uxRecursiveCallCount, xTasksWaitingToReceive,
    ready,                      \* pxReadyTasksLists, uxTopReadyPriority
    pxCurrentTCB, pendSV,
    uxPriority, uxBasePriority, uxMutexesHeld, xEventValue,
    pc,
    xQueue,                     \* the mutex of a call in progress
    xTicksToWait,
    xInheritanceOccurred,
    over                        \* the block time of a call has passed

mutexes    == <<uxMessagesWaiting, xMutexHolder, uxRecursiveCallCount>>
switching  == <<pxCurrentTCB, pendSV>>
priorities == <<uxPriority, uxBasePriority, xEventValue>>
call       == <<xQueue, xTicksToWait, xInheritanceOccurred, over>>
vars == <<mutexes, xTasksWaitingToReceive, ready, switching, priorities, uxMutexesHeld, pc, call>>

\* In the application, blocked outside this module, or in xQueueSemaphoreTake:
\* before vTaskSuspendAll, in the event list, and at each later critical section.
PCs == {"run", "delayed", "check", "blocked", "retry", "isEmpty", "disinherit"}

EventValueOf(priority) == -priority

Init ==
    /\ uxMessagesWaiting = [m \in Mutexes |-> 1]
    /\ xMutexHolder = [m \in Mutexes |-> NoTask]
    /\ uxRecursiveCallCount = [m \in Mutexes |-> 0]
    /\ xTasksWaitingToReceive = [m \in Mutexes |-> << >>]
    /\ ready = [lists |-> [p \in Priorities |->
                   [items |-> SetToSeq({t \in AllTasks : InitPrio[t] = p}), idx |-> 0]],
                top   |-> {InitPrio[t] : t \in AllTasks}]
    /\ pxCurrentTCB \in {t \in AllTasks : \A u \in AllTasks : InitPrio[u] <= InitPrio[t]}
    /\ pendSV = FALSE
    /\ uxPriority = InitPrio /\ uxBasePriority = InitPrio
    /\ xEventValue = [t \in AllTasks |-> EventValueOf(InitPrio[t])]
    /\ uxMutexesHeld = [t \in AllTasks |-> 0]
    /\ pc = [t \in AllTasks |-> "run"]
    /\ xQueue = [t \in Tasks |-> CHOOSE m \in Mutexes : TRUE]
    /\ xTicksToWait = [t \in Tasks |-> "none"]
    /\ xInheritanceOccurred = [t \in Tasks |-> FALSE]
    /\ over = [t \in Tasks |-> FALSE]
-----------------------------------------------------------------------------
Executes(t) == pxCurrentTCB = t /\ ~pendSV

At(t, place) == Executes(t) /\ pc[t] = place

Goto(t, place) == pc' = [pc EXCEPT ![t] = place]

InReadyList(t) == t \in ToSet(ready.lists[uxPriority[t]].items)

Available(m) == uxMessagesWaiting[m] > 0

\* The call returns: its local variables are gone.
Returns(t) ==
    /\ Goto(t, "run")
    /\ xTicksToWait' = [xTicksToWait EXCEPT ![t] = "none"]
    /\ xInheritanceOccurred' = [xInheritanceOccurred EXCEPT ![t] = FALSE]
    /\ over' = [over EXCEPT ![t] = FALSE]
    /\ UNCHANGED xQueue

\* R with t, if it is in the list of its priority p, moved to that of q; the bit
\* looked at when it leaves is that of cleared.
Moved(R, t, p, q, cleared) ==
    IF t \in ToSet(R.lists[p].items)
    THEN prvAddTaskToReadyList(RemoveAndClear(R, t, p, cleared), t, q) ELSE R
-----------------------------------------------------------------------------
(* Taking a mutex. *)

\* Mutant: the first of a number of recursive calls is not counted.
FirstCallUncounted(m) == UNCHANGED uxRecursiveCallCount

CountFirstCall(m) ==
    uxRecursiveCallCount' = [uxRecursiveCallCount EXCEPT ![m] = IF m \in Recursive THEN 1 ELSE 0]

\* The mutex is there: the running task takes it and holds one more.
Obtain(t, m) ==
    /\ Available(m)
    /\ uxMessagesWaiting' = [uxMessagesWaiting EXCEPT ![m] = @ - 1]
    /\ xMutexHolder' = [xMutexHolder EXCEPT ![m] = t]
    /\ CountFirstCall(m)
    /\ uxMutexesHeld' = [uxMutexesHeld EXCEPT ![t] = @ + 1]
    /\ UNCHANGED <<xTasksWaitingToReceive, ready, switching, priorities>>

\* A new call: the first critical section, but for a mutex not there and no block
\* time, which changes nothing.  A mutex that is not recursive is not taken by the
\* task that holds it.
Take(t, m, ticks) ==
    /\ At(t, "run") /\ m \in Uses[t] /\ ticks \in WaitsOf[t] /\ xMutexHolder[m] # t
    /\ \/ Obtain(t, m) /\ UNCHANGED <<pc, call>>
       \/ /\ ~Available(m) /\ ticks # "none"
          /\ Goto(t, "check")
          /\ xQueue' = [xQueue EXCEPT ![t] = m]
          /\ xTicksToWait' = [xTicksToWait EXCEPT ![t] = ticks]
          /\ UNCHANGED <<mutexes, xTasksWaitingToReceive, ready, switching, priorities,
                         uxMutexesHeld, xInheritanceOccurred, over>>

xQueueTakeMutexRecursive(t, m) ==
    /\ At(t, "run") /\ m \in Recursive /\ xMutexHolder[m] = t
    /\ uxRecursiveCallCount[m] < RecursionBound
    /\ uxRecursiveCallCount' = [uxRecursiveCallCount EXCEPT ![m] = @ + 1]
    /\ UNCHANGED <<uxMessagesWaiting, xMutexHolder, xTasksWaitingToReceive, ready, switching,
                   priorities, uxMutexesHeld, pc, call>>

\* Mutant: no inheritance.
NeverRaises(holder, t) == FALSE

Raises(holder, t) == holder # NoTask /\ uxPriority[holder] < uxPriority[t]

ReadyAfterRaise(holder, p) == Moved(ready, holder, uxPriority[holder], p, uxPriority[holder])

\* Whether xTaskPriorityInherit finds that holder has the priority of t from t or
\* from another waiting task.
Inherits(holder, t) ==
    holder # NoTask /\ (Raises(holder, t) \/ uxBasePriority[holder] < uxPriority[t])

\* With the scheduler suspended, the call looks whether its block time has passed:
\* it has when a tick ended the wait, and may have at any time.
TimesOut(t) ==
    /\ At(t, "check") /\ xTicksToWait[t] = "finite"
    /\ xTicksToWait' = [xTicksToWait EXCEPT ![t] = "none"]
    /\ over' = [over EXCEPT ![t] = FALSE]
    /\ Goto(t, "isEmpty")
    /\ UNCHANGED <<mutexes, xTasksWaitingToReceive, ready, switching, priorities, uxMutexesHeld,
                   xQueue, xInheritanceOccurred>>

\* It has not, and there is nothing to take: xTaskPriorityInherit,
\* vTaskPlaceOnEventList and a yield.
Blocks(t) ==
    LET m == xQueue[t]
        h == xMutexHolder[m]
        p == uxPriority[t]
    IN  /\ At(t, "check") /\ ~over[t] /\ ~Available(m)
        /\ IF Raises(h, t)
           THEN /\ uxPriority' = [uxPriority EXCEPT ![h] = p]
                /\ xEventValue' = [xEventValue EXCEPT ![h] = EventValueOf(p)]
                /\ ready' = RemoveFromReadyList(ReadyAfterRaise(h, p), t, p)
           ELSE /\ ready' = RemoveFromReadyList(ready, t, p)
                /\ UNCHANGED <<uxPriority, xEventValue>>
        /\ xInheritanceOccurred' = [xInheritanceOccurred EXCEPT ![t] = Inherits(h, t)]
        /\ xTasksWaitingToReceive' =
              [xTasksWaitingToReceive EXCEPT ![m] = vListInsert(@, t, xEventValue')]
        /\ Goto(t, "blocked")
        /\ pendSV' = TRUE
        /\ UNCHANGED <<mutexes, uxBasePriority, uxMutexesHeld, pxCurrentTCB, xQueue, xTicksToWait, over>>

\* Or there is something to take after all.
NeedNotBlock(t) ==
    /\ At(t, "check") /\ ~over[t] /\ Available(xQueue[t])
    /\ Goto(t, "retry")
    /\ UNCHANGED <<mutexes, xTasksWaitingToReceive, ready, switching, priorities, uxMutexesHeld, call>>

\* The next turn of the loop.  A block time that has run out is 0 now; the call
\* then returns without the mutex, and the kernel asserts that no priority was
\* inherited.
TryAgain(t) ==
    /\ At(t, "retry")
    /\ \/ Obtain(t, xQueue[t]) /\ Returns(t)
       \/ /\ ~Available(xQueue[t])
          /\ \/ xTicksToWait[t] = "none" /\ ~xInheritanceOccurred[t] /\ Returns(t)
             \/ xTicksToWait[t] # "none" /\ Goto(t, "check") /\ UNCHANGED call
          /\ UNCHANGED <<mutexes, xTasksWaitingToReceive, ready, switching, priorities, uxMutexesHeld>>
-----------------------------------------------------------------------------
(* The timeout of a call. *)

\* After the timeout the mutex is looked at once more.
IsEmpty(t) ==
    /\ At(t, "isEmpty")
    /\ \/ Available(xQueue[t]) /\ Goto(t, "retry") /\ UNCHANGED call
       \/ ~Available(xQueue[t]) /\ xInheritanceOccurred[t] /\ Goto(t, "disinherit") /\ UNCHANGED call
       \/ ~Available(xQueue[t]) /\ ~xInheritanceOccurred[t] /\ Returns(t)
    /\ UNCHANGED <<mutexes, xTasksWaitingToReceive, ready, switching, priorities, uxMutexesHeld>>

\* The priority the head of the event list is sorted by.
prvGetDisinheritPriorityAfterTimeout(m) ==
    IF xTasksWaitingToReceive[m] = << >> THEN 0 ELSE -xEventValue[Head(xTasksWaitingToReceive[m])]

\* vTaskPriorityDisinheritAfterTimeout.  The bit it looks at when the holder leaves
\* its ready list is that of the new priority.
DisinheritAfterTimeout(t) ==
    LET h == xMutexHolder[xQueue[t]]
        waiting == prvGetDisinheritPriorityAfterTimeout(xQueue[t])
        p == IF uxBasePriority[h] < waiting THEN waiting ELSE uxBasePriority[h]
    IN  /\ At(t, "disinherit")
        /\ IF h # NoTask /\ uxPriority[h] # p /\ uxMutexesHeld[h] = 1
           THEN /\ uxPriority' = [uxPriority EXCEPT ![h] = p]
                /\ xEventValue' = [xEventValue EXCEPT ![h] = EventValueOf(p)]
                /\ ready' = Moved(ready, h, uxPriority[h], p, p)
           ELSE UNCHANGED <<uxPriority, xEventValue, ready>>
        /\ Returns(t)
        /\ UNCHANGED <<mutexes, xTasksWaitingToReceive, switching, uxBasePriority, uxMutexesHeld>>
-----------------------------------------------------------------------------
(* Giving a mutex. *)

\* Mutant: the mutex being given still counts.
HoldsNoOther(t) == uxMutexesHeld[t] = 0

HoldsNoOtherMutex(t) == uxMutexesHeld[t] - 1 = 0

\* Mutant: a task that inherited nothing returns before the count.
HeldUnlessInherited(t) ==
    IF uxPriority[t] = uxBasePriority[t] THEN uxMutexesHeld[t] ELSE uxMutexesHeld[t] - 1

HeldAfterGive(t) == uxMutexesHeld[t] - 1

\* What xTaskPriorityDisinherit returns.
Disinherits(t) == uxPriority[t] # uxBasePriority[t] /\ HoldsNoOtherMutex(t)

\* Mutant: priorities are compared before the one that gives is lowered.
WakesHigherBefore(waiter, t) == uxPriority[waiter] > uxPriority[t]

WakesHigher(waiter, t) == uxPriority'[waiter] > uxPriority'[t]

\* xTaskPriorityDisinherit in prvCopyDataToQueue, then the waiting task of the
\* highest priority is woken; with no task waiting, a lowered priority yields.
Release(t, m) ==
    LET waiting == xTasksWaitingToReceive[m]
        lowered == Disinherits(t)
        base    == uxBasePriority[t]
        R == IF lowered THEN Moved(ready, t, uxPriority[t], base, uxPriority[t]) ELSE ready
    IN  /\ uxMessagesWaiting' = [uxMessagesWaiting EXCEPT ![m] = @ + 1]
        /\ xMutexHolder' = [xMutexHolder EXCEPT ![m] = NoTask]
        /\ uxMutexesHeld' = [uxMutexesHeld EXCEPT ![t] = HeldAfterGive(t)]
        /\ uxPriority' = IF lowered THEN [uxPriority EXCEPT ![t] = base] ELSE uxPriority
        /\ xEventValue' = IF lowered THEN [xEventValue EXCEPT ![t] = EventValueOf(base)] ELSE xEventValue
        /\ \/ /\ waiting = << >>
              /\ pendSV' = lowered /\ ready' = R
              /\ UNCHANGED <<xTasksWaitingToReceive, pc>>
           \/ /\ waiting # << >>
              /\ xTasksWaitingToReceive' = [xTasksWaitingToReceive EXCEPT ![m] = Tail(waiting)]
              /\ Goto(Head(waiting), "retry")
              /\ ready' = prvAddTaskToReadyList(R, Head(waiting), uxPriority[Head(waiting)])
              /\ pendSV' = WakesHigher(Head(waiting), t)
        /\ UNCHANGED <<uxBasePriority, pxCurrentTCB, call>>

Give(t, m) ==
    /\ At(t, "run") /\ xMutexHolder[m] = t
    /\ uxRecursiveCallCount[m] <= 1
    /\ uxRecursiveCallCount' = [uxRecursiveCallCount EXCEPT ![m] = IF m \in Recursive THEN @ - 1 ELSE 0]
    /\ Release(t, m)

\* A recursive mutex taken more than once is only counted down.
xQueueGiveMutexRecursive(t, m) ==
    /\ At(t, "run") /\ m \in Recursive /\ xMutexHolder[m] = t
    /\ uxRecursiveCallCount[m] > 1
    /\ uxRecursiveCallCount' = [uxRecursiveCallCount EXCEPT ![m] = @ - 1]
    /\ UNCHANGED <<uxMessagesWaiting, xMutexHolder, xTasksWaitingToReceive, ready, switching,
                   priorities, uxMutexesHeld, pc, call>>
-----------------------------------------------------------------------------
(* The scheduler. *)

\* t blocks outside this module.
Delay(t) ==
    /\ At(t, "run") /\ t # Idle
    /\ ready' = RemoveFromReadyList(ready, t, uxPriority[t])
    /\ Goto(t, "delayed")
    /\ pendSV' = TRUE
    /\ UNCHANGED <<mutexes, xTasksWaitingToReceive, pxCurrentTCB, priorities, uxMutexesHeld, call>>

\* The tick makes t ready.
Ready(t) ==
    /\ ready' = prvAddTaskToReadyList(ready, t, uxPriority[t])
    /\ pendSV' = (pendSV \/ uxPriority[t] >= uxPriority[pxCurrentTCB])
    /\ UNCHANGED <<mutexes, pxCurrentTCB, priorities, uxMutexesHeld>>

DelayEnds(t) ==
    /\ pc[t] = "delayed"
    /\ Ready(t)
    /\ Goto(t, "run")
    /\ UNCHANGED <<xTasksWaitingToReceive, call>>

WaitEnds(t) ==
    /\ t \in Tasks /\ pc[t] = "blocked" /\ xTicksToWait[t] = "finite"
    /\ Ready(t)
    /\ xTasksWaitingToReceive' = [xTasksWaitingToReceive EXCEPT ![xQueue[t]] = uxListRemove(@, t)]
    /\ over' = [over EXCEPT ![t] = TRUE]
    /\ Goto(t, "retry")
    /\ UNCHANGED <<xQueue, xTicksToWait, xInheritanceOccurred>>

\* vTaskSwitchContext asserts that the list it takes the next task from has one.
SelectsReadyTask == ready.lists[Max(ready.top)].items # << >>

PendSV ==
    /\ pendSV /\ SelectsReadyTask
    /\ LET p == Max(ready.top)
           l == listGET_OWNER_OF_NEXT_ENTRY(ready.lists[p])
       IN  ready' = [ready EXCEPT !.lists[p] = l] /\ pxCurrentTCB' = l.items[l.idx]
    /\ pendSV' = FALSE
    /\ UNCHANGED <<mutexes, xTasksWaitingToReceive, priorities, uxMutexesHeld, pc, call>>

\* The priority u runs at when its own becomes p: an inherited one stays.
NewPriority(u, p) == IF uxBasePriority[u] = uxPriority[u] THEN p ELSE uxPriority[u]

\* The application gives no new priority to a task that waits for a mutex.
vTaskPrioritySet(t, u, p) ==
    /\ At(t, "run") /\ t # Idle /\ p # uxBasePriority[u] /\ pc[u] # "blocked"
    /\ uxPriority' = [uxPriority EXCEPT ![u] = NewPriority(u, p)]
    /\ uxBasePriority' = [uxBasePriority EXCEPT ![u] = p]
    /\ xEventValue' = [xEventValue EXCEPT ![u] = EventValueOf(p)]
    /\ ready' = Moved(ready, u, uxPriority[u], NewPriority(u, p), uxPriority[u])
    /\ pendSV' = IF p > uxBasePriority[u] THEN u # t /\ p >= uxPriority[t] ELSE u = t
    /\ UNCHANGED <<mutexes, xTasksWaitingToReceive, pxCurrentTCB, uxMutexesHeld, pc, call>>
-----------------------------------------------------------------------------
Continue(t) ==
    TimesOut(t) \/ Blocks(t) \/ NeedNotBlock(t) \/ TryAgain(t) \/ IsEmpty(t) \/ DisinheritAfterTimeout(t)

Next ==
    \/ \E t \in Tasks :
          \/ \E m \in Mutexes : \/ \E ticks \in BlockTimes : Take(t, m, ticks)
                                \/ xQueueTakeMutexRecursive(t, m)
                                \/ Give(t, m) \/ xQueueGiveMutexRecursive(t, m)
          \/ Continue(t)
          \/ Delay(t) \/ DelayEnds(t) \/ WaitEnds(t)
          \/ \E u \in Victims, p \in NewPriorities : vTaskPrioritySet(t, u, p)
    \/ PendSV

Spec == Init /\ [][Next]_vars

GivesLast(t) == uxMutexesHeld[t] = 1 /\ \E m \in Mutexes : Give(t, m)

\* The processor runs the task it has chosen, delays end, and a task does not go
\* on for ever without giving mutexes, as often as it took them and to the last.
Fairness ==
    /\ WF_vars(PendSV)
    /\ \A t \in Tasks :
          /\ SF_vars(Continue(t) \/ GivesLast(t)) /\ WF_vars(DelayEnds(t))
          /\ SF_vars(\E m \in Mutexes : Give(t, m))
          /\ SF_vars(\E m \in Mutexes : xQueueGiveMutexRecursive(t, m))

FairSpec == Spec /\ Fairness
-----------------------------------------------------------------------------
(* Properties. *)

TypeOK ==
    /\ uxMessagesWaiting \in [Mutexes -> 0..1]
    /\ xMutexHolder \in [Mutexes -> Tasks \cup {NoTask}]
    /\ uxRecursiveCallCount \in [Mutexes -> 0..RecursionBound]
    /\ xTasksWaitingToReceive \in [Mutexes -> Seq(Tasks)]
    /\ ready \in [lists : [Priorities -> [items : Seq(AllTasks), idx : Nat]], top : SUBSET Priorities]
    /\ pxCurrentTCB \in AllTasks /\ pendSV \in BOOLEAN
    /\ uxPriority \in [AllTasks -> Priorities] /\ uxBasePriority \in [AllTasks -> Priorities]
    /\ xEventValue \in [AllTasks -> -MaxPriority..0]
    /\ uxMutexesHeld \in [AllTasks -> 0..Cardinality(Mutexes)]
    /\ pc \in [AllTasks -> PCs]
    /\ xQueue \in [Tasks -> Mutexes] /\ xTicksToWait \in [Tasks -> BlockTimes]
    /\ xInheritanceOccurred \in [Tasks -> BOOLEAN] /\ over \in [Tasks -> BOOLEAN]

\* A mutex is there to take exactly when no task holds it; a task's count is that
\* of the mutexes it holds, and a recursive mutex is held while it is counted.
HoldersAreCounted ==
    /\ \A m \in Mutexes :
          /\ uxMessagesWaiting[m] = (IF xMutexHolder[m] = NoTask THEN 1 ELSE 0)
          /\ m \in Recursive => (uxRecursiveCallCount[m] = 0 <=> xMutexHolder[m] = NoTask)
    /\ \A t \in AllTasks : uxMutexesHeld[t] = Cardinality({m \in Mutexes : xMutexHolder[m] = t})

\* A task that holds a mutex has at least the priority of every task that waits
\* for it, whatever other waiting tasks timed out and other mutexes were given.
HolderInherits ==
    \A m \in Mutexes : \A t \in ToSet(xTasksWaitingToReceive[m]) :
        xMutexHolder[m] # NoTask => uxPriority[xMutexHolder[m]] >= uxBasePriority[t]

\* A task that holds no mutex has its own priority again.
PriorityIsReturned ==
    \A t \in AllTasks : uxMutexesHeld[t] = 0 => uxPriority[t] = uxBasePriority[t]

\* Priorities are lent while tasks wait, and returned: neither too early, when one
\* of several waiters times out, nor too late, when the last mutex is given.
PriorityFollowsWaiters == HolderInherits /\ PriorityIsReturned

\* Every task that can run is in the ready list of its priority and no other, and
\* the bit of a priority is set exactly while its list has a task.
ReadyListsAreExact ==
    /\ \A t \in AllTasks, p \in Priorities :
          t \in ToSet(ready.lists[p].items)
          <=> p = uxPriority[t] /\ pc[t] \notin {"blocked", "delayed"}
    /\ \A p \in Priorities : p \in ready.top <=> ready.lists[p].items # << >>

\* The task that runs is of the highest priority, after every change of priority.
RunningIsHighest ==
    ~pendSV => \A t \in AllTasks : InReadyList(t) => uxPriority[t] <= uxPriority[pxCurrentTCB]

\* Lending and returning a priority moves a ready task between the lists and
\* leaves the scheduler with the task it would choose from them.
RunsByPriority == ReadyListsAreExact /\ RunningIsHighest

\* The assertion of xQueueSemaphoreTake: a call that finds the mutex taken with no
\* block time left did not cause a priority to be inherited.
NoInheritanceWithoutTimeOut ==
    \A t \in Tasks : At(t, "retry") /\ ~Available(xQueue[t]) /\ xTicksToWait[t] = "none"
                     => ~xInheritanceOccurred[t]

\* Tasks above every other, whatever priorities the others are given.
TopTasks == {t \in Tasks \ Victims :
                \A p \in NewPriorities \cup {InitPrio[u] : u \in AllTasks \ {t}} : p < InitPrio[t]}

\* A task of the highest priority does not wait for a mutex for ever: tasks of a
\* priority in between do not keep the holder from giving it.
InversionEnds == \A t \in TopTasks : pc[t] = "blocked" ~> pc[t] # "blocked"
=============================================================================
