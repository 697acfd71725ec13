------------------------------- MODULE Queue -------------------------------
(***************************************************************************)
(* One kernel queue (queue.c): the ring buffer, the two event lists, the   *)
(* queue lock, and the control points of the blocking calls, run by tasks  *)
(* that block, time out and are preempted, with interrupts in between.     *)
(* Every action is one critical section (or one step with the scheduler    *)
(* suspended) of the code, so interrupts and other tasks come between any  *)
(* two of them.  With uxItemSize = 0 it is a counting semaphore.           *)
(*                                                                         *)
(* The scheduler is kept to what the queue depends on: the task that       *)
(* suspended it, the tasks that are not in a ready list, and the pending   *)
(* ready list.  Time is kept to whether a call's block time has elapsed.   *)
(***************************************************************************)
EXTENDS KernelLists

CONSTANTS Tasks,        \* the tasks that use the queue
          Items,        \* the values sent
          NoItem,       \* no value
          NoTask,
          uxLength,     \* items the queue holds
          uxItemSize,   \* 1 for a queue, 0 for a semaphore
          Prio,         \* the priority of each task
          OpsOf,        \* the operations each task may call
          WaitsOf,      \* the block times each task may pass
          IsrOps,       \* the operations interrupts may call
          INT8_MAX,     \* the largest value of the lock counters
          IsrBound      \* bound: an interrupt may count in a lock up to this

BlockingSend == {"back", "front"}
SendOps      == BlockingSend \cup {"overwrite"}
ReceiveOps   == {"receive", "peek"}
Waits        == {"none", "finite", "forever"}

ASSUME QueueAssumption ==
    /\ NoTask \notin Tasks /\ NoItem \notin Items
    /\ IsFiniteSet(Tasks)
    /\ uxLength \in Nat \ {0} /\ uxItemSize \in {0, 1}
    /\ Prio \in [Tasks -> Nat]
    /\ OpsOf \in [Tasks -> SUBSET (SendOps \cup ReceiveOps \cup {"reset"})]
    /\ WaitsOf \in [Tasks -> SUBSET Waits]
    /\ IsrOps \subseteq SendOps \cup {"receive"}
    /\ INT8_MAX \in Nat \ {0} /\ IsrBound \in Nat

\* configASSERT of xQueueGenericSend and of xQueueGenericSendFromISR; peeking
\* and sending to the front or over an item are for queues that hold data.
ASSUME OperationAssumption ==
    \A ops \in {OpsOf[t] : t \in Tasks} \cup {IsrOps} :
        /\ "overwrite" \in ops => uxLength = 1
        /\ uxItemSize = 0 => ops \subseteq {"back", "receive", "reset"}

VARIABLES
    storage, pcWriteTo, pcReadFrom, uxMessagesWaiting,     \* the ring
    cRxLock, cTxLock,                                      \* the lock
    xTasksWaitingToSend, xTasksWaitingToReceive,           \* event lists
    last,            \* history: the last operation that succeeded
    pc, op, xTicksToWait,                                  \* calls
    xSuspender,      \* the task that suspended the scheduler
    blocked,         \* the tasks that are in no ready list
    xPendingReadyList

ring    == <<storage, pcWriteTo, pcReadFrom, uxMessagesWaiting>>
locks   == <<cRxLock, cTxLock>>
lists   == <<xTasksWaitingToSend, xTasksWaitingToReceive>>
calls   == <<pc, op, xTicksToWait>>
kernel  == <<xSuspender, blocked, xPendingReadyList>>
vars    == <<ring, locks, lists, last, calls, kernel>>

queueUNLOCKED          == -1
queueLOCKED_UNMODIFIED == 0

Slots == 0 .. uxLength - 1
PCs   == {"idle", "try", "suspend", "lock", "check", "place",
          "unlockTx", "unlockRx", "resume", "recheck"}

\* xQueueGenericReset with xNewQueue, as prvInitialiseNewQueue calls it.
Init ==
    /\ storage \in [Slots -> Items]
    /\ pcWriteTo = 0 /\ pcReadFrom = uxLength - 1 /\ uxMessagesWaiting = 0
    /\ cRxLock = queueUNLOCKED /\ cTxLock = queueUNLOCKED
    /\ xTasksWaitingToSend = << >> /\ xTasksWaitingToReceive = << >>
    /\ last = <<"reset", NoItem>>
    /\ pc = [t \in Tasks |-> "idle"]
    /\ op = [t \in Tasks |-> "receive"]
    /\ xTicksToWait = [t \in Tasks |-> "none"]
    /\ xSuspender = NoTask /\ blocked = {} /\ xPendingReadyList = {}
-----------------------------------------------------------------------------
(* The ring buffer. *)

Next1(slot) == IF slot + 1 >= uxLength THEN 0 ELSE slot + 1

\* Mutant: wraps to the place after the last slot.
Prev1Past(slot) == IF slot - 1 < 0 THEN uxLength ELSE slot - 1

\* Mutant: wraps one slot early.
Prev1Early(slot) == IF slot - 1 <= 0 THEN uxLength - 1 ELSE slot - 1

Prev1(slot) == IF slot - 1 < 0 THEN uxLength - 1 ELSE slot - 1

prvIsQueueEmpty == uxMessagesWaiting = 0
prvIsQueueFull  == uxMessagesWaiting = uxLength

\* Mutant: does not ask whether there is an item to write over.
CountInUnasked(where) ==
    uxMessagesWaiting' = IF where = "overwrite" THEN uxMessagesWaiting ELSE uxMessagesWaiting + 1

CountIn(where) ==
    uxMessagesWaiting' =
        IF uxItemSize # 0 /\ where = "overwrite" /\ uxMessagesWaiting > 0
        THEN uxMessagesWaiting ELSE uxMessagesWaiting + 1

prvCopyDataToQueue(x, where) ==
    /\ CountIn(where)
    /\ \/ /\ uxItemSize = 0
          /\ UNCHANGED <<storage, pcWriteTo, pcReadFrom>>
       \/ /\ uxItemSize # 0 /\ where = "back"
          /\ storage' = [storage EXCEPT ![pcWriteTo] = x]
          /\ pcWriteTo' = Next1(pcWriteTo)
          /\ UNCHANGED pcReadFrom
       \/ /\ uxItemSize # 0 /\ where # "back"
          /\ storage' = [storage EXCEPT ![pcReadFrom] = x]
          /\ pcReadFrom' = Prev1(pcReadFrom)
          /\ UNCHANGED pcWriteTo
    /\ last' = <<where, x>>

\* Hand out the item after pcReadFrom: a receive takes it out, a peek puts
\* pcReadFrom back.
prvCopyDataFromQueue(o) ==
    /\ UNCHANGED <<storage, pcWriteTo>>
    /\ uxMessagesWaiting' = IF o = "receive" THEN uxMessagesWaiting - 1 ELSE uxMessagesWaiting
    /\ pcReadFrom' = IF uxItemSize # 0 /\ o = "receive" THEN Next1(pcReadFrom) ELSE pcReadFrom
    /\ last' = <<o, IF uxItemSize # 0 THEN storage[Next1(pcReadFrom)] ELSE NoItem>>
-----------------------------------------------------------------------------
(* What the queue asks of the scheduler. *)

\* A task of the highest priority among those that can run in the queue code;
\* a task at "idle" runs other code, or is blocked elsewhere.
Runs(t) ==
    IF xSuspender # NoTask THEN t = xSuspender
    ELSE /\ t \notin blocked
         /\ \A u \in Tasks \ blocked : pc[u] # "idle" => Prio[u] <= Prio[t]

\* The value of an event list item: the higher the priority the lower.
EventValue == [t \in Tasks |-> -Prio[t]]

\* Mutant: event lists in order of arrival.
PlaceLast(list, t) == Append(list, t)

vTaskPlaceOnEventList(list, t) == vListInsert(list, t, EventValue)

\* xTaskRemoveFromEventList on the head of an event list, if there is one.
Woken(list)     == IF list = << >> THEN {} ELSE {Head(list)}
AfterWake(list) == IF list = << >> THEN << >> ELSE Tail(list)

MakeReady(W) ==
    IF xSuspender = NoTask
    THEN blocked' = blocked \ W /\ UNCHANGED xPendingReadyList
    ELSE xPendingReadyList' = xPendingReadyList \cup W /\ UNCHANGED blocked

WakeReceiver ==
    /\ xTasksWaitingToReceive' = AfterWake(xTasksWaitingToReceive)
    /\ MakeReady(Woken(xTasksWaitingToReceive))
    /\ UNCHANGED <<xTasksWaitingToSend, xSuspender>>

WakeSender ==
    /\ xTasksWaitingToSend' = AfterWake(xTasksWaitingToSend)
    /\ MakeReady(Woken(xTasksWaitingToSend))
    /\ UNCHANGED <<xTasksWaitingToReceive, xSuspender>>

\* Mutant: a call under the lock is not counted.
NotIncremented(lock) == lock

\* Increment of an int8_t: past INT8_MAX it wraps.
Incremented(lock) == IF lock = INT8_MAX THEN -INT8_MAX - 1 ELSE lock + 1
-----------------------------------------------------------------------------
(* A call of a task. *)

Goto(t, place) == pc' = [pc EXCEPT ![t] = place]

Call(t) ==
    /\ pc[t] = "idle" /\ Runs(t)
    /\ \E o \in OpsOf[t] \ {"reset"}, w \in WaitsOf[t] :
          /\ op' = [op EXCEPT ![t] = o]
          /\ xTicksToWait' = [xTicksToWait EXCEPT ![t] = w]
    /\ Goto(t, "try")
    /\ UNCHANGED <<ring, locks, lists, last, kernel>>

\* The call returns; what it leaves on the stack is forgotten.
EndCall(t) ==
    /\ Goto(t, "idle")
    /\ op' = [op EXCEPT ![t] = "receive"]
    /\ xTicksToWait' = [xTicksToWait EXCEPT ![t] = "none"]

\* First critical section of xQueueGenericSend, with room for the item.
TrySend(t) ==
    /\ pc[t] = "try" /\ op[t] \in SendOps /\ Runs(t)
    /\ uxMessagesWaiting < uxLength \/ op[t] = "overwrite"
    /\ \E x \in Items : prvCopyDataToQueue(x, op[t])
    /\ WakeReceiver
    /\ EndCall(t)
    /\ UNCHANGED locks

\* First critical section of xQueueReceive, with an item to take.
TryReceive(t) ==
    /\ pc[t] = "try" /\ op[t] = "receive" /\ Runs(t)
    /\ uxMessagesWaiting > 0
    /\ prvCopyDataFromQueue("receive")
    /\ WakeSender
    /\ EndCall(t)
    /\ UNCHANGED locks

\* The same of xQueuePeek: the item stays, so another reader is woken.
TryPeek(t) ==
    /\ pc[t] = "try" /\ op[t] = "peek" /\ Runs(t)
    /\ uxMessagesWaiting > 0
    /\ prvCopyDataFromQueue("peek")
    /\ WakeReceiver
    /\ EndCall(t)
    /\ UNCHANGED locks

Refused(t) == IF op[t] \in SendOps
              THEN uxMessagesWaiting >= uxLength /\ op[t] # "overwrite"
              ELSE uxMessagesWaiting = 0

\* No room or no item: return if no block time is left, else prepare to wait.
TryFails(t) ==
    /\ pc[t] = "try" /\ Runs(t) /\ Refused(t)
    /\ IF xTicksToWait[t] = "none"
       THEN EndCall(t)
       ELSE Goto(t, "suspend") /\ UNCHANGED <<op, xTicksToWait>>
    /\ UNCHANGED <<ring, locks, lists, last, kernel>>

vTaskSuspendAll(t) ==
    /\ pc[t] = "suspend" /\ Runs(t)
    /\ xSuspender' = t
    /\ Goto(t, "lock")
    /\ UNCHANGED <<ring, locks, lists, last, op, xTicksToWait, blocked, xPendingReadyList>>

Locked(lock) == IF lock = queueUNLOCKED THEN queueLOCKED_UNMODIFIED ELSE lock

prvLockQueue(t) ==
    /\ pc[t] = "lock" /\ Runs(t)
    /\ cRxLock' = Locked(cRxLock) /\ cTxLock' = Locked(cTxLock)
    /\ Goto(t, "check")
    /\ UNCHANGED <<ring, lists, last, op, xTicksToWait, kernel>>

\* Mutant: only a block time set to 0 counts as elapsed.
TimedOutAtZero(t) == xTicksToWait[t] = "none"

TimedOut(t) == xTicksToWait[t] \in {"elapsed", "none"}

\* xTaskCheckForTimeOut: an elapsed block time is set to 0, unless the tick
\* count has wrapped past the time of entry.
xTaskCheckForTimeOut(t) ==
    IF xTicksToWait[t] = "elapsed"
    THEN \E w \in {"none", "elapsed"} : xTicksToWait' = [xTicksToWait EXCEPT ![t] = w]
    ELSE UNCHANGED xTicksToWait

MustWait(t) == IF op[t] \in SendOps THEN prvIsQueueFull ELSE prvIsQueueEmpty

\* Mutant: after a timeout the queue is not unlocked.
CheckForTimeOutKeepsLock(t) ==
    /\ pc[t] = "check" /\ Runs(t)
    /\ xTaskCheckForTimeOut(t)
    /\ Goto(t, IF TimedOut(t) THEN "resume" ELSE IF MustWait(t) THEN "place" ELSE "unlockTx")
    /\ UNCHANGED <<ring, locks, lists, last, op, kernel>>

CheckForTimeOut(t) ==
    /\ pc[t] = "check" /\ Runs(t)
    /\ xTaskCheckForTimeOut(t)
    /\ Goto(t, IF ~TimedOut(t) /\ MustWait(t) THEN "place" ELSE "unlockTx")
    /\ UNCHANGED <<ring, locks, lists, last, op, kernel>>

\* The test above and this step are two critical sections.
Place(t) ==
    /\ pc[t] = "place" /\ Runs(t)
    /\ IF op[t] \in SendOps
       THEN /\ xTasksWaitingToSend' = vTaskPlaceOnEventList(xTasksWaitingToSend, t)
            /\ UNCHANGED xTasksWaitingToReceive
       ELSE /\ xTasksWaitingToReceive' = vTaskPlaceOnEventList(xTasksWaitingToReceive, t)
            /\ UNCHANGED xTasksWaitingToSend
    /\ blocked' = blocked \cup {t}
    /\ Goto(t, "unlockTx")
    /\ UNCHANGED <<ring, locks, last, op, xTicksToWait, xSuspender, xPendingReadyList>>

\* Mutant: one task is woken however many calls were counted.
ReleasedOne(lock, list) == IF lock > 0 /\ list # << >> THEN 1 ELSE 0

\* The tasks at the front of list that prvUnlockQueue wakes: one for each
\* count of the lock, as far as there are any.
Released(lock, list) == LET k == IF lock < Len(list) THEN lock ELSE Len(list)
                        IN  IF lock > queueLOCKED_UNMODIFIED THEN k ELSE 0

UnlockTx(t) ==
    /\ pc[t] = "unlockTx" /\ Runs(t)
    /\ LET k == Released(cTxLock, xTasksWaitingToReceive) IN
          /\ xPendingReadyList' = xPendingReadyList \cup {xTasksWaitingToReceive[i] : i \in 1..k}
          /\ xTasksWaitingToReceive' =
                SubSeq(xTasksWaitingToReceive, k + 1, Len(xTasksWaitingToReceive))
    /\ cTxLock' = queueUNLOCKED
    /\ Goto(t, "unlockRx")
    /\ UNCHANGED <<ring, cRxLock, xTasksWaitingToSend, last, op, xTicksToWait, xSuspender, blocked>>

UnlockRx(t) ==
    /\ pc[t] = "unlockRx" /\ Runs(t)
    /\ LET k == Released(cRxLock, xTasksWaitingToSend) IN
          /\ xPendingReadyList' = xPendingReadyList \cup {xTasksWaitingToSend[i] : i \in 1..k}
          /\ xTasksWaitingToSend' =
                SubSeq(xTasksWaitingToSend, k + 1, Len(xTasksWaitingToSend))
    /\ cRxLock' = queueUNLOCKED
    /\ Goto(t, "resume")
    /\ UNCHANGED <<ring, cTxLock, xTasksWaitingToReceive, last, op, xTicksToWait, xSuspender, blocked>>

\* A task that placed itself on an event list continues, when it runs again,
\* at the top of the loop.
xTaskResumeAll(t) ==
    /\ pc[t] = "resume" /\ Runs(t)
    /\ xSuspender' = NoTask
    /\ blocked' = blocked \ xPendingReadyList
    /\ xPendingReadyList' = {}
    /\ Goto(t, IF TimedOut(t) THEN "recheck" ELSE "try")
    /\ UNCHANGED <<ring, locks, lists, last, op, xTicksToWait>>

\* After a timeout a send gives up; a receive or a peek looks once more.
Recheck(t) ==
    /\ pc[t] = "recheck" /\ Runs(t)
    /\ IF op[t] \in SendOps \/ prvIsQueueEmpty
       THEN EndCall(t)
       ELSE Goto(t, "try") /\ UNCHANGED <<op, xTicksToWait>>
    /\ UNCHANGED <<ring, locks, lists, last, kernel>>

\* xQueueGenericReset of a queue in use: one waiting sender is woken.
Reset(t) ==
    /\ pc[t] = "idle" /\ Runs(t) /\ "reset" \in OpsOf[t]
    /\ uxMessagesWaiting' = 0 /\ pcWriteTo' = 0 /\ pcReadFrom' = uxLength - 1
    /\ cRxLock' = queueUNLOCKED /\ cTxLock' = queueUNLOCKED
    /\ WakeSender
    /\ last' = <<"reset", NoItem>>
    /\ UNCHANGED <<storage, calls>>
-----------------------------------------------------------------------------
(* Time and interrupts. *)

\* The block time of a call runs out; ticks are pended while the scheduler is
\* suspended.
Elapse(t) ==
    /\ xSuspender = NoTask /\ pc[t] # "idle"
    /\ xTicksToWait[t] = "finite"
    /\ xTicksToWait' = [xTicksToWait EXCEPT ![t] = "elapsed"]
    /\ UNCHANGED <<ring, locks, lists, last, pc, op, kernel>>

\* Mutant: a task that timed out stays in the event list.
NotWithout(list, t) == list

Without(list, t) == IF t \in ToSet(list) THEN uxListRemove(list, t) ELSE list

\* xTaskIncrementTick takes a task whose block time is over out of the delayed
\* list and of the event list.
TickWakes(t) ==
    /\ xSuspender = NoTask /\ t \in blocked /\ xTicksToWait[t] = "elapsed"
    /\ blocked' = blocked \ {t}
    /\ xTasksWaitingToSend' = Without(xTasksWaitingToSend, t)
    /\ xTasksWaitingToReceive' = Without(xTasksWaitingToReceive, t)
    /\ UNCHANGED <<ring, locks, last, calls, xSuspender, xPendingReadyList>>

\* xQueueGenericSendFromISR, and xQueueGiveFromISR for a semaphore.  While the
\* queue is locked the event list is left alone and the call is counted.
SendFromISR(where) ==
    /\ where \in IsrOps
    /\ uxMessagesWaiting < uxLength \/ where = "overwrite"
    /\ cTxLock < IsrBound
    /\ \E x \in Items : prvCopyDataToQueue(x, where)
    /\ IF cTxLock = queueUNLOCKED
       THEN WakeReceiver /\ UNCHANGED cTxLock
       ELSE cTxLock' = Incremented(cTxLock) /\ UNCHANGED <<lists, kernel>>
    /\ UNCHANGED <<cRxLock, calls>>

ReceiveFromISR ==
    /\ "receive" \in IsrOps
    /\ uxMessagesWaiting > 0
    /\ cRxLock < IsrBound
    /\ prvCopyDataFromQueue("receive")
    /\ IF cRxLock = queueUNLOCKED
       THEN WakeSender /\ UNCHANGED cRxLock
       ELSE cRxLock' = Incremented(cRxLock) /\ UNCHANGED <<lists, kernel>>
    /\ UNCHANGED <<cTxLock, calls>>
-----------------------------------------------------------------------------
Step(t) ==
    \/ TrySend(t) \/ TryReceive(t) \/ TryPeek(t) \/ TryFails(t)
    \/ vTaskSuspendAll(t) \/ prvLockQueue(t) \/ CheckForTimeOut(t) \/ Place(t)
    \/ UnlockTx(t) \/ UnlockRx(t) \/ xTaskResumeAll(t) \/ Recheck(t)

Next ==
    \/ \E t \in Tasks : Step(t) \/ Call(t) \/ Reset(t) \/ Elapse(t) \/ TickWakes(t)
    \/ \E where \in SendOps : SendFromISR(where)
    \/ ReceiveFromISR

Spec == Init /\ [][Next]_vars

\* The running task keeps running, and the tick interrupt is served; nobody has
\* to call anything.  Ticks held back while the scheduler is suspended are made
\* up for on resumption: what a tick can do again and again it does.
Fairness == \A t \in Tasks : WF_vars(Step(t)) /\ SF_vars(Elapse(t)) /\ SF_vars(TickWakes(t))

FairSpec == Spec /\ Fairness
-----------------------------------------------------------------------------
(* Properties. *)

TypeOK ==
    /\ storage \in [Slots -> Items]
    /\ pcWriteTo \in Slots /\ pcReadFrom \in Slots /\ uxMessagesWaiting \in 0..uxLength
    /\ cRxLock \in -1..INT8_MAX /\ cTxLock \in -1..INT8_MAX
    /\ xTasksWaitingToSend \in Seq(Tasks) /\ xTasksWaitingToReceive \in Seq(Tasks)
    /\ last \in (SendOps \cup ReceiveOps \cup {"reset"}) \X (Items \cup {NoItem})
    /\ pc \in [Tasks -> PCs]
    /\ op \in [Tasks -> SendOps \cup ReceiveOps]
    /\ xTicksToWait \in [Tasks -> Waits \cup {"elapsed"}]
    /\ xSuspender \in Tasks \cup {NoTask}
    /\ blocked \subseteq Tasks /\ xPendingReadyList \subseteq blocked

\* The items in the ring, in the order a receiver meets them.
Contents ==
    [i \in 1..uxMessagesWaiting |->
        storage[IF pcReadFrom + i >= uxLength THEN pcReadFrom + i - uxLength ELSE pcReadFrom + i]]

\* The ring buffer, with its two wrapping pointers and front insertion, is a
\* bounded FIFO: every call takes effect at one step, and every item handed to
\* a task or an interrupt is the one at the front.
Fifo == INSTANCE BoundedFifo WITH buf <- Contents, Capacity <- uxLength
FifoSpec == Fifo!Spec

Counted(lock) == IF lock > queueLOCKED_UNMODIFIED THEN lock ELSE 0

\* The tasks of the given calls that will look at the queue before they wait.
Looking(ops) == {t \in Tasks : /\ op[t] \in ops
                               /\ \/ pc[t] = "try" /\ t \notin blocked
                                  \/ t \in xPendingReadyList}

\* No lost wakeup of a reader: while a task waits for an item, every item in
\* the queue has a task woken for it, or is counted in the lock, whatever
\* interrupts did between the test for an empty queue and the unlocking.
EveryItemHasAReader ==
    xTasksWaitingToReceive # << >> =>
        uxMessagesWaiting <= Cardinality(Looking(ReceiveOps)) + Counted(cTxLock)

\* No lost wakeup of a writer: while a task waits for room, every free place
\* has a task woken for it, or is counted in the lock.  Not so once the queue
\* is reset, which wakes one writer however many places become free.
EveryPlaceHasAWriter ==
    xTasksWaitingToSend # << >> =>
        uxLength - uxMessagesWaiting <= Cardinality(Looking(SendOps)) + Counted(cRxLock)

\* A task out of the ready lists is in exactly one list that someone will take
\* it from, once, and no list holds a task that is ready: a wake is neither lost
\* nor delivered twice, even to a task that is still on its way to sleep.
BlockedIsListed ==
    LET S == ToSet(xTasksWaitingToSend)  R == ToSet(xTasksWaitingToReceive) IN
    /\ blocked = S \cup R \cup xPendingReadyList
    /\ S \cap R = {} /\ S \cap xPendingReadyList = {} /\ R \cap xPendingReadyList = {}
    /\ NoDuplicates(xTasksWaitingToSend) /\ NoDuplicates(xTasksWaitingToReceive)
    /\ xPendingReadyList # {} => xSuspender # NoTask

\* The queue is locked only by the task that suspended the scheduler, between
\* prvLockQueue and the two halves of prvUnlockQueue.
LockIsHeld ==
    /\ cTxLock # queueUNLOCKED => xSuspender # NoTask /\ pc[xSuspender] \in {"check", "place", "unlockTx"}
    /\ cRxLock # queueUNLOCKED =>
          xSuspender # NoTask /\ pc[xSuspender] \in {"check", "place", "unlockTx", "unlockRx"}

Leaves(t, list, next) == t \in ToSet(list) /\ t \notin ToSet(next)

Overtakes(t, list, next) == \E u \in ToSet(next) : Leaves(t, list, next) /\ Prio[u] > Prio[t]

\* An item or a place goes to the waiting task of the highest priority: a task
\* leaves an event list before one of higher priority only by its timeout.
WakesInPriorityOrder ==
    [][\A t \in Tasks :
          \/ Overtakes(t, xTasksWaitingToReceive, xTasksWaitingToReceive')
          \/ Overtakes(t, xTasksWaitingToSend, xTasksWaitingToSend')
          => TimedOut(t)]_vars

TopTasks == {t \in Tasks : \A u \in Tasks \ {t} : Prio[u] < Prio[t]}

\* A call with a block time returns, to a task no other can starve: it is
\* never left in an event list, in the pending list or going round the loop.
TimedCallReturns ==
    \A t \in TopTasks : (pc[t] # "idle" /\ xTicksToWait[t] # "forever") ~> pc[t] = "idle"
=============================================================================
