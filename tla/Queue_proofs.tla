---------------------------- MODULE Queue_proofs ----------------------------
(***************************************************************************)
(* Proofs about Queue, for every number of tasks, length, priority         *)
(* assignment and mix of operations, as long as no interrupt counts past   *)
(* the width of a lock counter.                                            *)
(***************************************************************************)
EXTENDS Queue, KernelLists_proofs

Holding == {"lock", "check", "place", "unlockTx", "unlockRx", "resume"}

\* The scheduler is suspended exactly while one task is between
\* vTaskSuspendAll and xTaskResumeAll.
HolderInv ==
    /\ \A t \in Tasks : pc[t] \in Holding <=> xSuspender = t
    /\ \A t \in Tasks : pc[t] \in {"suspend", "lock", "check", "place"} => t \notin blocked
    /\ \A t \in Tasks : op[t] = "overwrite" => "overwrite" \in OpsOf[t]

\* The inductive invariant.
IInv == TypeOK /\ BlockedIsListed /\ HolderInv /\ LockIsHeld

\* The parts of TypeOK, by the variables the actions change together.
RingType ==
    /\ storage \in [Slots -> Items]
    /\ pcWriteTo \in Slots /\ pcReadFrom \in Slots /\ uxMessagesWaiting \in 0..uxLength
    /\ last \in (SendOps \cup ReceiveOps \cup {"reset"}) \X (Items \cup {NoItem})

LockType == cRxLock \in -1..INT8_MAX /\ cTxLock \in -1..INT8_MAX

CallType ==
    /\ pc \in [Tasks -> PCs]
    /\ op \in [Tasks -> SendOps \cup ReceiveOps]
    /\ xTicksToWait \in [Tasks -> Waits \cup {"elapsed"}]

ListsType ==
    /\ xTasksWaitingToSend \in Seq(Tasks) /\ xTasksWaitingToReceive \in Seq(Tasks)
    /\ xSuspender \in Tasks \cup {NoTask}
    /\ blocked \subseteq Tasks /\ xPendingReadyList \subseteq blocked

ListsInv == ListsType /\ BlockedIsListed

LEMMA WokenProperties ==
    ASSUME NEW s \in Seq(Tasks)
    PROVE  /\ AfterWake(s) \in Seq(Tasks) /\ Woken(s) \subseteq Tasks
           /\ ToSet(s) = Woken(s) \cup ToSet(AfterWake(s))
           /\ NoDuplicates(s) =>
                 NoDuplicates(AfterWake(s)) /\ Woken(s) \cap ToSet(AfterWake(s)) = {}
<1>1. CASE s = << >>
  BY <1>1 DEF Woken, AfterWake, ToSet, NoDuplicates
<1>2. CASE s # << >>
  <2>1. Woken(s) = {Head(s)} /\ AfterWake(s) = Tail(s)
    BY <1>2 DEF Woken, AfterWake
  <2> QED BY <1>2, <2>1, HeadProperties
<1> QED BY <1>1, <1>2

\* Waking a reader or a writer, with the scheduler running or suspended, moves
\* the head of the event list to one place.
LEMMA WakeReceiverKeeps ==
    ASSUME ListsInv, WakeReceiver
    PROVE  ListsInv'
<1> DEFINE W == Woken(xTasksWaitingToReceive)
<1>1. /\ xTasksWaitingToReceive' \in Seq(Tasks) /\ W \subseteq Tasks
      /\ ToSet(xTasksWaitingToReceive) = W \cup ToSet(xTasksWaitingToReceive')
      /\ NoDuplicates(xTasksWaitingToReceive') /\ W \cap ToSet(xTasksWaitingToReceive') = {}
  BY WokenProperties DEF ListsInv, ListsType, BlockedIsListed, WakeReceiver
<1>2. UNCHANGED <<xTasksWaitingToSend, xSuspender>>
  BY DEF WakeReceiver
<1> HIDE DEF W
<1>3. CASE xSuspender = NoTask
  <2>1. blocked' = blocked \ W /\ xPendingReadyList' = xPendingReadyList
    BY <1>3 DEF WakeReceiver, MakeReady, W
  <2>2. xPendingReadyList = {}
    BY <1>3 DEF ListsInv, BlockedIsListed
  <2> QED BY <1>1, <1>2, <2>1, <2>2 DEF ListsInv, ListsType, BlockedIsListed
<1>4. CASE xSuspender # NoTask
  <2>1. xPendingReadyList' = xPendingReadyList \cup W /\ blocked' = blocked
    BY <1>4 DEF WakeReceiver, MakeReady, W
  <2> QED BY <1>1, <1>2, <1>4, <2>1 DEF ListsInv, ListsType, BlockedIsListed
<1> QED BY <1>3, <1>4

LEMMA WakeSenderKeeps ==
    ASSUME ListsInv, WakeSender
    PROVE  ListsInv'
<1> DEFINE W == Woken(xTasksWaitingToSend)
<1>1. /\ xTasksWaitingToSend' \in Seq(Tasks) /\ W \subseteq Tasks
      /\ ToSet(xTasksWaitingToSend) = W \cup ToSet(xTasksWaitingToSend')
      /\ NoDuplicates(xTasksWaitingToSend') /\ W \cap ToSet(xTasksWaitingToSend') = {}
  BY WokenProperties DEF ListsInv, ListsType, BlockedIsListed, WakeSender
<1>2. UNCHANGED <<xTasksWaitingToReceive, xSuspender>>
  BY DEF WakeSender
<1> HIDE DEF W
<1>3. CASE xSuspender = NoTask
  <2>1. blocked' = blocked \ W /\ xPendingReadyList' = xPendingReadyList
    BY <1>3 DEF WakeSender, MakeReady, W
  <2>2. xPendingReadyList = {}
    BY <1>3 DEF ListsInv, BlockedIsListed
  <2> QED BY <1>1, <1>2, <2>1, <2>2 DEF ListsInv, ListsType, BlockedIsListed
<1>4. CASE xSuspender # NoTask
  <2>1. xPendingReadyList' = xPendingReadyList \cup W /\ blocked' = blocked
    BY <1>4 DEF WakeSender, MakeReady, W
  <2> QED BY <1>1, <1>2, <1>4, <2>1 DEF ListsInv, ListsType, BlockedIsListed
<1> QED BY <1>3, <1>4

LEMMA TypeParts == TypeOK <=> RingType /\ LockType /\ CallType /\ ListsType
BY DEF TypeOK, RingType, LockType, CallType, ListsType

LEMMA NextTypeParts == TypeOK' <=> RingType' /\ LockType' /\ CallType' /\ ListsType'
BY DEF TypeOK, RingType, LockType, CallType, ListsType

LEMMA SlotType == \A s \in Slots : Next1(s) \in Slots /\ Prev1(s) \in Slots
BY QueueAssumption DEF Slots, Next1, Prev1

\* An item that fits goes to a slot, and the count stays within the length.
LEMMA CopyInType ==
    ASSUME RingType, NEW x \in Items, NEW where \in SendOps,
           uxMessagesWaiting < uxLength \/ (where = "overwrite" /\ uxLength = 1 /\ uxItemSize # 0),
           prvCopyDataToQueue(x, where)
    PROVE  RingType'
<1>1. uxMessagesWaiting' \in 0..uxLength
  BY QueueAssumption DEF RingType, prvCopyDataToQueue, CountIn
<1>2. storage' \in [Slots -> Items] /\ pcWriteTo' \in Slots /\ pcReadFrom' \in Slots
  BY SlotType DEF RingType, prvCopyDataToQueue
<1>3. last' = <<where, x>>
  BY DEF prvCopyDataToQueue
<1> QED BY <1>1, <1>2, <1>3 DEF RingType

LEMMA CopyOutType ==
    ASSUME RingType, NEW o \in ReceiveOps, uxMessagesWaiting > 0, prvCopyDataFromQueue(o)
    PROVE  RingType'
<1>1. uxMessagesWaiting' \in 0..uxLength
  BY QueueAssumption DEF RingType, prvCopyDataFromQueue
<1>2. storage' \in [Slots -> Items] /\ pcWriteTo' \in Slots /\ pcReadFrom' \in Slots
  BY SlotType DEF RingType, prvCopyDataFromQueue
<1>3. last' \in ReceiveOps \X (Items \cup {NoItem})
  BY SlotType DEF RingType, prvCopyDataFromQueue
<1> QED BY <1>1, <1>2, <1>3 DEF RingType

\* Outside the queue's own critical stretch the scheduler runs and the queue is
\* not locked.
LEMMA RunsFree ==
    ASSUME IInv, NEW t \in Tasks, Runs(t), pc[t] \notin Holding
    PROVE  /\ xSuspender = NoTask /\ t \notin blocked
           /\ cTxLock = queueUNLOCKED /\ cRxLock = queueUNLOCKED
BY QueueAssumption DEF IInv, HolderInv, LockIsHeld, Runs

LEMMA RunsHolding ==
    ASSUME IInv, NEW t \in Tasks, Runs(t), pc[t] \in Holding
    PROVE  xSuspender = t
BY DEF IInv, HolderInv

\* A call that returns, or goes on, without holding the scheduler.
LEMMA EndCallKeeps ==
    ASSUME IInv, NEW t \in Tasks, Runs(t), pc[t] \notin Holding, EndCall(t),
           UNCHANGED locks, UNCHANGED xSuspender, blocked' \subseteq blocked
    PROVE  CallType' /\ LockType' /\ HolderInv' /\ LockIsHeld'
<1>1. CallType'
  BY DEF IInv, TypeOK, CallType, EndCall, Goto, PCs, Waits, SendOps, ReceiveOps
<1>2. LockType'
  BY DEF IInv, TypeOK, LockType, locks
<1>3. HolderInv'
  BY DEF IInv, TypeOK, HolderInv, EndCall, Goto, Holding
<1>4. LockIsHeld'
  BY RunsFree DEF LockIsHeld, locks
<1> QED BY <1>1, <1>2, <1>3, <1>4

LEMMA TrySendKeeps ==
    ASSUME IInv, NEW t \in Tasks, TrySend(t)
    PROVE  IInv'
<1>1. PICK x \in Items : prvCopyDataToQueue(x, op[t])
  BY DEF TrySend
<1>2. RingType'
  <2>1. op[t] = "overwrite" => uxLength = 1 /\ uxItemSize # 0
    BY OperationAssumption DEF IInv, HolderInv
  <2> QED BY <1>1, <2>1, CopyInType, TypeParts DEF IInv, TrySend
<1>3. /\ Runs(t) /\ pc[t] \notin Holding /\ EndCall(t) /\ UNCHANGED locks
      /\ WakeReceiver /\ UNCHANGED xSuspender
  BY DEF TrySend, Holding, WakeReceiver
<1>4. ListsInv'
  BY <1>3, TypeParts, WakeReceiverKeeps DEF IInv, ListsInv
<1>5. blocked' \subseteq blocked
  BY <1>3, RunsFree DEF WakeReceiver, MakeReady
<1> QED
  BY <1>2, <1>3, <1>4, <1>5, EndCallKeeps, NextTypeParts DEF IInv, ListsInv

LEMMA TryReceiveKeeps ==
    ASSUME IInv, NEW t \in Tasks, TryReceive(t)
    PROVE  IInv'
<1>1. RingType'
  BY CopyOutType, TypeParts DEF IInv, TryReceive, ReceiveOps
<1>2. /\ Runs(t) /\ pc[t] \notin Holding /\ EndCall(t) /\ UNCHANGED locks
      /\ WakeSender /\ UNCHANGED xSuspender
  BY DEF TryReceive, Holding, WakeSender
<1>3. ListsInv'
  BY <1>2, TypeParts, WakeSenderKeeps DEF IInv, ListsInv
<1>4. blocked' \subseteq blocked
  BY <1>2, RunsFree DEF WakeSender, MakeReady
<1> QED
  BY <1>1, <1>2, <1>3, <1>4, EndCallKeeps, NextTypeParts DEF IInv, ListsInv

LEMMA TryPeekKeeps ==
    ASSUME IInv, NEW t \in Tasks, TryPeek(t)
    PROVE  IInv'
<1>1. RingType'
  BY CopyOutType, TypeParts DEF IInv, TryPeek, ReceiveOps
<1>2. /\ Runs(t) /\ pc[t] \notin Holding /\ EndCall(t) /\ UNCHANGED locks
      /\ WakeReceiver /\ UNCHANGED xSuspender
  BY DEF TryPeek, Holding, WakeReceiver
<1>3. ListsInv'
  BY <1>2, TypeParts, WakeReceiverKeeps DEF IInv, ListsInv
<1>4. blocked' \subseteq blocked
  BY <1>2, RunsFree DEF WakeReceiver, MakeReady
<1> QED
  BY <1>1, <1>2, <1>3, <1>4, EndCallKeeps, NextTypeParts DEF IInv, ListsInv

\* Steps that leave the ring, the lists and the scheduler alone keep their
\* part of the invariant.
LEMMA QuietKeeps ==
    ASSUME IInv, UNCHANGED <<ring, last>>, UNCHANGED <<lists, kernel>>
    PROVE  RingType' /\ ListsInv'
BY DEF IInv, TypeOK, RingType, ListsInv, ListsType, BlockedIsListed, ring, lists, kernel

LEMMA TryFailsKeeps ==
    ASSUME IInv, NEW t \in Tasks, TryFails(t)
    PROVE  IInv'
<1>1. RingType' /\ ListsInv'
  BY QuietKeeps DEF TryFails
<1>2. /\ Runs(t) /\ pc[t] \notin Holding /\ UNCHANGED locks
      /\ UNCHANGED xSuspender /\ blocked' \subseteq blocked
  BY DEF TryFails, Holding, kernel
<1>3. CASE EndCall(t)
  BY <1>1, <1>2, <1>3, EndCallKeeps, NextTypeParts DEF IInv, ListsInv
<1>4. CASE Goto(t, "suspend") /\ UNCHANGED <<op, xTicksToWait>>
  <2>1. CallType' /\ LockType'
    BY <1>2, <1>4 DEF IInv, TypeOK, CallType, LockType, Goto, PCs, locks
  <2>2. HolderInv'
    BY <1>2, <1>4, RunsFree DEF IInv, TypeOK, HolderInv, Goto, Holding
  <2>3. LockIsHeld'
    BY <1>2, RunsFree DEF LockIsHeld, locks
  <2> QED BY <1>1, <2>1, <2>2, <2>3, NextTypeParts DEF IInv, ListsInv
<1> QED BY <1>3, <1>4 DEF TryFails

LEMMA CallKeeps ==
    ASSUME IInv, NEW t \in Tasks, Call(t)
    PROVE  IInv'
<1>1. RingType' /\ ListsInv'
  BY QuietKeeps DEF Call
<1>2. PICK o \in OpsOf[t] \ {"reset"}, w \in WaitsOf[t] :
          /\ op' = [op EXCEPT ![t] = o] /\ xTicksToWait' = [xTicksToWait EXCEPT ![t] = w]
  BY DEF Call
<1>3. o \in SendOps \cup ReceiveOps /\ w \in Waits
  BY QueueAssumption
<1>4. CallType' /\ LockType'
  BY <1>2, <1>3 DEF IInv, TypeOK, CallType, LockType, Call, Goto, PCs, locks
<1>5. HolderInv'
  BY <1>2 DEF IInv, TypeOK, HolderInv, Call, Goto, Holding, kernel
<1>6. LockIsHeld'
  BY RunsFree DEF Call, LockIsHeld, locks, Holding
<1> QED BY <1>1, <1>4, <1>5, <1>6, NextTypeParts DEF IInv, ListsInv

LEMMA SuspendAllKeeps ==
    ASSUME IInv, NEW t \in Tasks, vTaskSuspendAll(t)
    PROVE  IInv'
<1>1. RingType' /\ CallType' /\ LockType'
  BY DEF IInv, TypeOK, RingType, CallType, LockType, vTaskSuspendAll, Goto, PCs, ring, locks
<1>2. xSuspender = NoTask /\ t \notin blocked /\ cTxLock = queueUNLOCKED /\ cRxLock = queueUNLOCKED
  BY RunsFree DEF vTaskSuspendAll, Holding
<1>3. ListsInv'
  BY <1>2 DEF IInv, TypeOK, ListsInv, ListsType, BlockedIsListed, vTaskSuspendAll, lists
<1>4. HolderInv'
  BY <1>2, QueueAssumption DEF IInv, TypeOK, HolderInv, vTaskSuspendAll, Goto, Holding
<1>5. LockIsHeld'
  BY <1>2 DEF vTaskSuspendAll, LockIsHeld, locks
<1> QED BY <1>1, <1>3, <1>4, <1>5, NextTypeParts DEF IInv, ListsInv

LEMMA LockQueueKeeps ==
    ASSUME IInv, NEW t \in Tasks, prvLockQueue(t)
    PROVE  IInv'
<1>1. RingType' /\ ListsInv'
  BY DEF IInv, TypeOK, RingType, ListsInv, ListsType, BlockedIsListed, prvLockQueue, ring, lists, kernel
<1>2. xSuspender = t
  BY RunsHolding DEF prvLockQueue, Holding
<1>3. CallType' /\ LockType'
  BY QueueAssumption
     DEF IInv, TypeOK, CallType, LockType, prvLockQueue, Goto, PCs, Locked, queueLOCKED_UNMODIFIED
<1>4. HolderInv'
  BY <1>2 DEF IInv, TypeOK, HolderInv, prvLockQueue, Goto, Holding, kernel
<1>5. LockIsHeld'
  BY <1>2, QueueAssumption DEF IInv, TypeOK, LockIsHeld, prvLockQueue, Goto, kernel
<1> QED BY <1>1, <1>3, <1>4, <1>5, NextTypeParts DEF IInv, ListsInv

LEMMA CheckForTimeOutKeeps ==
    ASSUME IInv, NEW t \in Tasks, CheckForTimeOut(t)
    PROVE  IInv'
<1>1. RingType' /\ ListsInv'
  BY QuietKeeps DEF CheckForTimeOut
<1>2. xSuspender = t
  BY RunsHolding DEF CheckForTimeOut, Holding
<1>3. CallType' /\ LockType'
  BY DEF IInv, TypeOK, CallType, LockType, CheckForTimeOut, xTaskCheckForTimeOut, Goto, PCs, locks, Waits
<1>4. HolderInv'
  BY <1>2 DEF IInv, TypeOK, HolderInv, CheckForTimeOut, Goto, Holding, kernel
<1>5. LockIsHeld'
  BY <1>2, QueueAssumption DEF IInv, TypeOK, LockIsHeld, CheckForTimeOut, Goto, kernel, locks
<1> QED BY <1>1, <1>3, <1>4, <1>5, NextTypeParts DEF IInv, ListsInv

LEMMA PlaceKeeps ==
    ASSUME IInv, NEW t \in Tasks, Place(t)
    PROVE  IInv'
<1>1. RingType' /\ CallType' /\ LockType'
  BY DEF IInv, TypeOK, RingType, CallType, LockType, Place, Goto, PCs, ring, locks
<1>2. xSuspender = t /\ t \notin blocked
  BY RunsHolding DEF Place, Holding, IInv, HolderInv
<1>3. /\ t \notin ToSet(xTasksWaitingToSend) /\ t \notin ToSet(xTasksWaitingToReceive)
      /\ t \notin xPendingReadyList
  BY <1>2 DEF IInv, BlockedIsListed
<1>4. ListsInv'
  <2>1. ListsInv
    BY TypeParts DEF IInv, ListsInv
  <2>2. /\ blocked' = blocked \cup {t}
        /\ UNCHANGED <<xSuspender, xPendingReadyList>>
    BY DEF Place
  <2>3. CASE op[t] \in SendOps
    <3>1. xTasksWaitingToSend' = vListInsert(xTasksWaitingToSend, t, EventValue)
          /\ UNCHANGED xTasksWaitingToReceive
      BY <2>3 DEF Place, vTaskPlaceOnEventList
    <3>2. /\ xTasksWaitingToSend' \in Seq(Tasks)
          /\ ToSet(xTasksWaitingToSend') = ToSet(xTasksWaitingToSend) \cup {t}
          /\ NoDuplicates(xTasksWaitingToSend')
      BY <1>3, <2>1, <3>1, vListInsertProperties DEF ListsInv, ListsType, BlockedIsListed
    <3> QED BY <1>3, <2>1, <2>2, <3>1, <3>2 DEF ListsInv, ListsType, BlockedIsListed
  <2>4. CASE op[t] \notin SendOps
    <3>1. xTasksWaitingToReceive' = vListInsert(xTasksWaitingToReceive, t, EventValue)
          /\ UNCHANGED xTasksWaitingToSend
      BY <2>4 DEF Place, vTaskPlaceOnEventList
    <3>2. /\ xTasksWaitingToReceive' \in Seq(Tasks)
          /\ ToSet(xTasksWaitingToReceive') = ToSet(xTasksWaitingToReceive) \cup {t}
          /\ NoDuplicates(xTasksWaitingToReceive')
      BY <1>3, <2>1, <3>1, vListInsertProperties DEF ListsInv, ListsType, BlockedIsListed
    <3> QED BY <1>3, <2>1, <2>2, <3>1, <3>2 DEF ListsInv, ListsType, BlockedIsListed
  <2> QED BY <2>3, <2>4
<1>5. HolderInv'
  BY <1>2 DEF IInv, TypeOK, HolderInv, Place, Goto, Holding
<1>6. LockIsHeld'
  BY <1>2, QueueAssumption DEF IInv, TypeOK, LockIsHeld, Place, Goto, locks
<1> QED BY <1>1, <1>4, <1>5, <1>6, NextTypeParts DEF IInv, ListsInv

LEMMA ReleasedType ==
    ASSUME NEW lock \in Int, NEW s \in Seq(Tasks)
    PROVE  Released(lock, s) \in 0 .. Len(s)
BY LenProperties DEF Released, queueLOCKED_UNMODIFIED

LEMMA UnlockTxKeeps ==
    ASSUME IInv, NEW t \in Tasks, UnlockTx(t)
    PROVE  IInv'
<1>1. RingType' /\ CallType' /\ LockType'
  BY QueueAssumption
     DEF IInv, TypeOK, RingType, CallType, LockType, UnlockTx, Goto, PCs, ring, queueUNLOCKED
<1>2. xSuspender = t /\ t # NoTask
  BY RunsHolding, QueueAssumption DEF UnlockTx, Holding
<1>3. ListsInv'
  <2> DEFINE k == Released(cTxLock, xTasksWaitingToReceive)
             s == xTasksWaitingToReceive
  <2>1. ListsInv
    BY TypeParts DEF IInv, ListsInv
  <2>2. k \in 0 .. Len(s)
    <3>1. cTxLock \in Int /\ s \in Seq(Tasks)
      BY QueueAssumption DEF IInv, TypeOK
    <3> QED BY <3>1, ReleasedType
  <2>3. /\ xPendingReadyList' = xPendingReadyList \cup {s[i] : i \in 1..k}
        /\ xTasksWaitingToReceive' = SubSeq(s, k + 1, Len(s))
        /\ UNCHANGED <<xTasksWaitingToSend, xSuspender, blocked>>
    BY DEF UnlockTx
  <2> HIDE DEF k
  <2>4. /\ xTasksWaitingToReceive' \in Seq(Tasks)
        /\ ToSet(s) = {s[i] : i \in 1..k} \cup ToSet(xTasksWaitingToReceive')
        /\ NoDuplicates(xTasksWaitingToReceive')
        /\ {s[i] : i \in 1..k} \cap ToSet(xTasksWaitingToReceive') = {}
    BY <2>1, <2>2, <2>3, DropProperties DEF ListsInv, ListsType, BlockedIsListed
  <2> QED BY <1>2, <2>1, <2>3, <2>4 DEF ListsInv, ListsType, BlockedIsListed
<1>4. HolderInv'
  BY <1>2 DEF IInv, TypeOK, HolderInv, UnlockTx, Goto, Holding
<1>5. LockIsHeld'
  BY <1>2 DEF IInv, TypeOK, LockIsHeld, UnlockTx, Goto
<1> QED BY <1>1, <1>3, <1>4, <1>5, NextTypeParts DEF IInv, ListsInv

LEMMA UnlockRxKeeps ==
    ASSUME IInv, NEW t \in Tasks, UnlockRx(t)
    PROVE  IInv'
<1>1. RingType' /\ CallType' /\ LockType'
  BY QueueAssumption
     DEF IInv, TypeOK, RingType, CallType, LockType, UnlockRx, Goto, PCs, ring, queueUNLOCKED
<1>2. xSuspender = t /\ t # NoTask
  BY RunsHolding, QueueAssumption DEF UnlockRx, Holding
<1>3. ListsInv'
  <2> DEFINE k == Released(cRxLock, xTasksWaitingToSend)
             s == xTasksWaitingToSend
  <2>1. ListsInv
    BY TypeParts DEF IInv, ListsInv
  <2>2. k \in 0 .. Len(s)
    <3>1. cRxLock \in Int /\ s \in Seq(Tasks)
      BY QueueAssumption DEF IInv, TypeOK
    <3> QED BY <3>1, ReleasedType
  <2>3. /\ xPendingReadyList' = xPendingReadyList \cup {s[i] : i \in 1..k}
        /\ xTasksWaitingToSend' = SubSeq(s, k + 1, Len(s))
        /\ UNCHANGED <<xTasksWaitingToReceive, xSuspender, blocked>>
    BY DEF UnlockRx
  <2> HIDE DEF k
  <2>4. /\ xTasksWaitingToSend' \in Seq(Tasks)
        /\ ToSet(s) = {s[i] : i \in 1..k} \cup ToSet(xTasksWaitingToSend')
        /\ NoDuplicates(xTasksWaitingToSend')
        /\ {s[i] : i \in 1..k} \cap ToSet(xTasksWaitingToSend') = {}
    BY <2>1, <2>2, <2>3, DropProperties DEF ListsInv, ListsType, BlockedIsListed
  <2> QED BY <1>2, <2>1, <2>3, <2>4 DEF ListsInv, ListsType, BlockedIsListed
<1>4. HolderInv'
  BY <1>2 DEF IInv, TypeOK, HolderInv, UnlockRx, Goto, Holding
<1>5. LockIsHeld'
  BY <1>2 DEF IInv, TypeOK, LockIsHeld, UnlockRx, Goto
<1> QED BY <1>1, <1>3, <1>4, <1>5, NextTypeParts DEF IInv, ListsInv

LEMMA ResumeAllKeeps ==
    ASSUME IInv, NEW t \in Tasks, xTaskResumeAll(t)
    PROVE  IInv'
<1>1. RingType' /\ CallType' /\ LockType'
  BY DEF IInv, TypeOK, RingType, CallType, LockType, xTaskResumeAll, Goto, PCs, ring, locks
<1>2. xSuspender = t /\ cTxLock = queueUNLOCKED /\ cRxLock = queueUNLOCKED
  BY RunsHolding DEF xTaskResumeAll, Holding, IInv, LockIsHeld
<1>3. ListsInv'
  BY DEF IInv, TypeOK, ListsInv, ListsType, BlockedIsListed, xTaskResumeAll, lists
<1>4. HolderInv'
  BY <1>2, QueueAssumption DEF IInv, TypeOK, HolderInv, xTaskResumeAll, Goto, Holding
<1>5. LockIsHeld'
  BY <1>2 DEF LockIsHeld, xTaskResumeAll, locks
<1> QED BY <1>1, <1>3, <1>4, <1>5, NextTypeParts DEF IInv, ListsInv

LEMMA RecheckKeeps ==
    ASSUME IInv, NEW t \in Tasks, Recheck(t)
    PROVE  IInv'
<1>1. RingType' /\ ListsInv'
  BY QuietKeeps DEF Recheck
<1>2. /\ Runs(t) /\ pc[t] \notin Holding /\ UNCHANGED locks
      /\ UNCHANGED xSuspender /\ blocked' \subseteq blocked
  BY DEF Recheck, Holding, kernel
<1>3. CASE EndCall(t)
  BY <1>1, <1>2, <1>3, EndCallKeeps, NextTypeParts DEF IInv, ListsInv
<1>4. CASE Goto(t, "try") /\ UNCHANGED <<op, xTicksToWait>>
  <2>1. CallType' /\ LockType'
    BY <1>2, <1>4 DEF IInv, TypeOK, CallType, LockType, Goto, PCs, locks
  <2>2. HolderInv'
    BY <1>2, <1>4 DEF IInv, TypeOK, HolderInv, Goto, Holding
  <2>3. LockIsHeld'
    BY <1>2, RunsFree DEF LockIsHeld, locks
  <2> QED BY <1>1, <2>1, <2>2, <2>3, NextTypeParts DEF IInv, ListsInv
<1> QED BY <1>3, <1>4 DEF Recheck

LEMMA ResetKeeps ==
    ASSUME IInv, NEW t \in Tasks, Reset(t)
    PROVE  IInv'
<1>1. RingType' /\ CallType' /\ LockType'
  BY QueueAssumption
     DEF IInv, TypeOK, RingType, CallType, LockType, Reset, calls, Slots, queueUNLOCKED
<1>2. WakeSender /\ xSuspender = NoTask
  BY RunsFree DEF Reset, Holding
<1>3. ListsInv'
  BY <1>2, TypeParts, WakeSenderKeeps DEF IInv, ListsInv
<1>4. blocked' \subseteq blocked /\ UNCHANGED xSuspender
  BY <1>2 DEF WakeSender, MakeReady
<1>5. HolderInv'
  BY <1>4 DEF IInv, HolderInv, Reset, calls
<1>6. LockIsHeld'
  BY DEF LockIsHeld, Reset
<1> QED BY <1>1, <1>3, <1>5, <1>6, NextTypeParts DEF IInv, ListsInv

LEMMA ElapseKeeps ==
    ASSUME IInv, NEW t \in Tasks, Elapse(t)
    PROVE  IInv'
<1>1. RingType' /\ ListsInv'
  BY QuietKeeps DEF Elapse
<1>2. CallType' /\ LockType'
  BY DEF IInv, TypeOK, CallType, LockType, Elapse, locks
<1>3. HolderInv' /\ LockIsHeld'
  BY DEF IInv, HolderInv, LockIsHeld, Elapse, kernel, locks
<1> QED BY <1>1, <1>2, <1>3, NextTypeParts DEF IInv, ListsInv

LEMMA WithoutProperties ==
    ASSUME NEW s \in Seq(Tasks), NoDuplicates(s), NEW t
    PROVE  /\ Without(s, t) \in Seq(Tasks)
           /\ ToSet(Without(s, t)) = ToSet(s) \ {t}
           /\ NoDuplicates(Without(s, t))
<1>1. CASE t \in ToSet(s)
  BY <1>1, uxListRemoveProperties DEF Without
<1>2. CASE t \notin ToSet(s)
  BY <1>2 DEF Without
<1> QED BY <1>1, <1>2

LEMMA TickWakesKeeps ==
    ASSUME IInv, NEW t \in Tasks, TickWakes(t)
    PROVE  IInv'
<1>1. RingType' /\ CallType' /\ LockType'
  BY DEF IInv, TypeOK, RingType, CallType, LockType, TickWakes, ring, locks, calls
<1>2. xPendingReadyList = {} /\ xSuspender = NoTask
  BY DEF IInv, BlockedIsListed, TickWakes
<1>3. ListsInv'
  <2>1. ListsInv
    BY TypeParts DEF IInv, ListsInv
  <2>2. /\ xTasksWaitingToSend' \in Seq(Tasks)
        /\ ToSet(xTasksWaitingToSend') = ToSet(xTasksWaitingToSend) \ {t}
        /\ NoDuplicates(xTasksWaitingToSend')
        /\ xTasksWaitingToReceive' \in Seq(Tasks)
        /\ ToSet(xTasksWaitingToReceive') = ToSet(xTasksWaitingToReceive) \ {t}
        /\ NoDuplicates(xTasksWaitingToReceive')
    BY <2>1, WithoutProperties DEF TickWakes, ListsInv, ListsType, BlockedIsListed
  <2>3. blocked' = blocked \ {t} /\ UNCHANGED <<xSuspender, xPendingReadyList>>
    BY DEF TickWakes
  <2> QED BY <1>2, <2>1, <2>2, <2>3 DEF ListsInv, ListsType, BlockedIsListed
<1>4. HolderInv' /\ LockIsHeld'
  BY DEF IInv, HolderInv, LockIsHeld, TickWakes, calls, locks
<1> QED BY <1>1, <1>3, <1>4, NextTypeParts DEF IInv, ListsInv

LEMMA SendFromISRKeeps ==
    ASSUME IInv, IsrBound <= INT8_MAX, NEW where \in SendOps, SendFromISR(where)
    PROVE  IInv'
<1>1. PICK x \in Items : prvCopyDataToQueue(x, where)
  BY DEF SendFromISR
<1>2. RingType'
  <2>1. where = "overwrite" => uxLength = 1 /\ uxItemSize # 0
    BY OperationAssumption DEF SendFromISR
  <2> QED BY <1>1, <2>1, CopyInType, TypeParts DEF IInv, SendFromISR
<1>3. CallType' /\ UNCHANGED cRxLock /\ UNCHANGED xSuspender
  BY DEF IInv, TypeOK, CallType, SendFromISR, calls, kernel, WakeReceiver
<1>4. ListsInv /\ LockType
  BY TypeParts DEF IInv, ListsInv
<1>5. CASE cTxLock = queueUNLOCKED
  <2>1. WakeReceiver /\ UNCHANGED cTxLock
    BY <1>5 DEF SendFromISR
  <2>2. ListsInv' /\ LockType'
    BY <1>3, <1>4, <2>1, WakeReceiverKeeps DEF LockType
  <2>3. HolderInv' /\ LockIsHeld'
    BY <1>3, <2>1 DEF IInv, HolderInv, LockIsHeld, SendFromISR, calls, WakeReceiver, MakeReady
  <2> QED BY <1>2, <1>3, <2>2, <2>3, NextTypeParts DEF IInv, ListsInv
<1>6. CASE cTxLock # queueUNLOCKED
  <2>1. cTxLock' = Incremented(cTxLock) /\ UNCHANGED <<lists, kernel>>
    BY <1>6 DEF SendFromISR
  <2>2. LockType'
    BY <1>3, <1>4, <2>1, QueueAssumption DEF LockType, Incremented, SendFromISR
  <2>3. ListsInv'
    BY <1>4, <2>1 DEF ListsInv, ListsType, BlockedIsListed, lists, kernel
  <2>4. HolderInv' /\ LockIsHeld'
    BY <1>3, <1>6, <2>1 DEF IInv, HolderInv, LockIsHeld, SendFromISR, calls, kernel
  <2> QED BY <1>2, <1>3, <2>2, <2>3, <2>4, NextTypeParts DEF IInv, ListsInv
<1> QED BY <1>5, <1>6

LEMMA ReceiveFromISRKeeps ==
    ASSUME IInv, IsrBound <= INT8_MAX, ReceiveFromISR
    PROVE  IInv'
<1>1. RingType'
  BY CopyOutType, TypeParts DEF IInv, ReceiveFromISR, ReceiveOps
<1>2. CallType' /\ UNCHANGED cTxLock /\ UNCHANGED xSuspender
  BY DEF IInv, TypeOK, CallType, ReceiveFromISR, calls, kernel, WakeSender
<1>3. ListsInv /\ LockType
  BY TypeParts DEF IInv, ListsInv
<1>4. CASE cRxLock = queueUNLOCKED
  <2>1. WakeSender /\ UNCHANGED cRxLock
    BY <1>4 DEF ReceiveFromISR
  <2>2. ListsInv' /\ LockType'
    BY <1>2, <1>3, <2>1, WakeSenderKeeps DEF LockType
  <2>3. HolderInv' /\ LockIsHeld'
    BY <1>2, <2>1 DEF IInv, HolderInv, LockIsHeld, ReceiveFromISR, calls, WakeSender, MakeReady
  <2> QED BY <1>1, <1>2, <2>2, <2>3, NextTypeParts DEF IInv, ListsInv
<1>5. CASE cRxLock # queueUNLOCKED
  <2>1. cRxLock' = Incremented(cRxLock) /\ UNCHANGED <<lists, kernel>>
    BY <1>5 DEF ReceiveFromISR
  <2>2. LockType'
    BY <1>2, <1>3, <2>1, QueueAssumption DEF LockType, Incremented, ReceiveFromISR
  <2>3. ListsInv'
    BY <1>3, <2>1 DEF ListsInv, ListsType, BlockedIsListed, lists, kernel
  <2>4. HolderInv' /\ LockIsHeld'
    BY <1>2, <1>5, <2>1 DEF IInv, HolderInv, LockIsHeld, ReceiveFromISR, calls, kernel
  <2> QED BY <1>1, <1>2, <2>2, <2>3, <2>4, NextTypeParts DEF IInv, ListsInv
<1> QED BY <1>4, <1>5
-----------------------------------------------------------------------------
LEMMA InitIInv == Init => IInv
<1> SUFFICES ASSUME Init PROVE IInv
  OBVIOUS
<1>1. TypeOK
  BY QueueAssumption
     DEF Init, TypeOK, Slots, PCs, SendOps, ReceiveOps, BlockingSend, Waits, queueUNLOCKED
<1>2. BlockedIsListed
  BY DEF Init, BlockedIsListed, ToSet, NoDuplicates
<1>3. HolderInv /\ LockIsHeld
  BY QueueAssumption DEF Init, HolderInv, LockIsHeld, Holding
<1> QED BY <1>1, <1>2, <1>3 DEF IInv

LEMMA NextIInv ==
    ASSUME IsrBound <= INT8_MAX, IInv, [Next]_vars
    PROVE  IInv'
<1>1. CASE UNCHANGED vars
  BY <1>1 DEF IInv, TypeOK, BlockedIsListed, HolderInv, LockIsHeld,
              vars, ring, locks, lists, calls, kernel
<1>2. ASSUME NEW t \in Tasks, Step(t) PROVE IInv'
  BY <1>2, TrySendKeeps, TryReceiveKeeps, TryPeekKeeps, TryFailsKeeps, SuspendAllKeeps,
     LockQueueKeeps, CheckForTimeOutKeeps, PlaceKeeps, UnlockTxKeeps, UnlockRxKeeps,
     ResumeAllKeeps, RecheckKeeps DEF Step
<1>3. ASSUME NEW t \in Tasks, Call(t) \/ Reset(t) \/ Elapse(t) \/ TickWakes(t) PROVE IInv'
  BY <1>3, CallKeeps, ResetKeeps, ElapseKeeps, TickWakesKeeps
<1>4. ASSUME NEW where \in SendOps, SendFromISR(where) PROVE IInv'
  BY <1>4, SendFromISRKeeps
<1>5. CASE ReceiveFromISR
  BY <1>5, ReceiveFromISRKeeps
<1> QED BY <1>1, <1>2, <1>3, <1>4, <1>5 DEF Next

THEOREM Invariance ==
    ASSUME IsrBound <= INT8_MAX
    PROVE  Spec => []IInv
<1>1. Init => IInv
  BY InitIInv
<1>2. IInv /\ [Next]_vars => IInv'
  BY NextIInv
<1> QED BY <1>1, <1>2, PTL DEF Spec

\* Pointers, counts, locks and lists keep their ranges: no write outside the
\* storage area, no count above uxLength, whatever tasks and interrupts do.
THEOREM TypeCorrect ==
    ASSUME IsrBound <= INT8_MAX
    PROVE  Spec => []TypeOK
<1>1. IInv => TypeOK
  BY DEF IInv
<1> QED BY <1>1, Invariance, PTL

\* Every blocked task is in exactly one list, for every set of tasks.
THEOREM BlockedTasksAreListed ==
    ASSUME IsrBound <= INT8_MAX
    PROVE  Spec => []BlockedIsListed
<1>1. IInv => BlockedIsListed
  BY DEF IInv
<1> QED BY <1>1, Invariance, PTL

\* The queue is locked only inside the critical stretch of the task that
\* suspended the scheduler.
THEOREM QueueLockIsHeld ==
    ASSUME IsrBound <= INT8_MAX
    PROVE  Spec => []LockIsHeld
<1>1. IInv => LockIsHeld
  BY DEF IInv
<1> QED BY <1>1, Invariance, PTL
-----------------------------------------------------------------------------
(* An event list hands its tasks out by priority. *)

ListsOrdered == Ascending(xTasksWaitingToSend, EventValue) /\ Ascending(xTasksWaitingToReceive, EventValue)

\* What a step may do to an event list.
InOrder(list, next) ==
    /\ Ascending(next, EventValue)
    /\ \A t \in Tasks : Overtakes(t, list, next) => TimedOut(t)

LEMMA EventValueType == EventValue \in [Tasks -> Int] /\ \A t \in Tasks : EventValue[t] = -Prio[t] /\ Prio[t] \in Nat
BY QueueAssumption DEF EventValue

LEMMA SameInOrder ==
    ASSUME NEW s \in Seq(Tasks), Ascending(s, EventValue)
    PROVE  InOrder(s, s)
BY DEF InOrder, Overtakes, Leaves

LEMMA DropInOrder ==
    ASSUME NEW s \in Seq(Tasks), Ascending(s, EventValue), NEW k \in 0 .. Len(s)
    PROVE  InOrder(s, SubSeq(s, k + 1, Len(s)))
<1> DEFINE r == SubSeq(s, k + 1, Len(s))
<1>1. /\ Ascending(r, EventValue)
      /\ \A i \in 1 .. k, u \in ToSet(r) : EventValue[s[i]] <= EventValue[u]
  BY DropKeepsOrder
<1>2. r \in Seq(Tasks) /\ ToSet(s) = {s[i] : i \in 1..k} \cup ToSet(r)
  BY DropProperties
<1> HIDE DEF r
<1>3. ASSUME NEW t \in Tasks, NEW u \in ToSet(r), Leaves(t, s, r)
      PROVE  ~(Prio[u] > Prio[t])
  <2>1. PICK i \in 1..k : t = s[i]
    BY <1>2, <1>3 DEF Leaves
  <2>2. EventValue[t] <= EventValue[u]
    BY <1>1, <2>1
  <2>3. u \in Tasks
    BY <1>2, ElementOfSeq, LenProperties DEF ToSet
  <2> QED BY <2>2, <2>3, EventValueType
<1> QED BY <1>1, <1>3 DEF InOrder, Overtakes, r

LEMMA WakeInOrder ==
    ASSUME NEW s \in Seq(Tasks), Ascending(s, EventValue)
    PROVE  InOrder(s, AfterWake(s))
<1>1. CASE s = << >>
  BY <1>1, SameInOrder DEF AfterWake
<1>2. CASE s # << >>
  <2>1. AfterWake(s) = SubSeq(s, 1 + 1, Len(s))
    BY <1>2, TailIsSubSeq DEF AfterWake
  <2>2. 1 \in 0 .. Len(s)
    BY <1>2, EmptySeq, LenProperties
  <2> QED BY <2>1, <2>2, DropInOrder
<1> QED BY <1>1, <1>2

LEMMA InsertInOrder ==
    ASSUME NEW s \in Seq(Tasks), Ascending(s, EventValue), NEW t \in Tasks
    PROVE  InOrder(s, vTaskPlaceOnEventList(s, t))
<1>1. Ascending(vTaskPlaceOnEventList(s, t), EventValue)
  BY EventValueType, InsertKeepsOrder DEF vTaskPlaceOnEventList
<1>2. ToSet(s) \subseteq ToSet(vTaskPlaceOnEventList(s, t))
  BY vListInsertProperties DEF vTaskPlaceOnEventList
<1> QED BY <1>1, <1>2 DEF InOrder, Overtakes, Leaves

LEMMA WithoutInOrder ==
    ASSUME NEW s \in Seq(Tasks), Ascending(s, EventValue), NoDuplicates(s),
           NEW t \in Tasks, TimedOut(t)
    PROVE  InOrder(s, Without(s, t))
<1>1. Ascending(Without(s, t), EventValue)
  BY RemoveKeepsOrder DEF Without
<1>2. ToSet(Without(s, t)) = ToSet(s) \ {t}
  BY WithoutProperties
<1> QED BY <1>1, <1>2 DEF InOrder, Overtakes, Leaves

\* Every step takes tasks from the front of the event lists, or one that timed
\* out, or inserts one.
LEMMA NextInOrder ==
    ASSUME IInv, ListsOrdered, [Next]_vars
    PROVE  /\ InOrder(xTasksWaitingToSend, xTasksWaitingToSend')
           /\ InOrder(xTasksWaitingToReceive, xTasksWaitingToReceive')
<1> DEFINE S == xTasksWaitingToSend
           R == xTasksWaitingToReceive
           Goal == InOrder(S, S') /\ InOrder(R, R')
<1>1. /\ S \in Seq(Tasks) /\ R \in Seq(Tasks) /\ NoDuplicates(S) /\ NoDuplicates(R)
      /\ Ascending(S, EventValue) /\ Ascending(R, EventValue)
      /\ cTxLock \in Int /\ cRxLock \in Int
  BY QueueAssumption DEF IInv, TypeOK, BlockedIsListed, ListsOrdered
<1>2. CASE UNCHANGED lists
  BY <1>1, <1>2, SameInOrder DEF lists
<1>3. CASE WakeReceiver
  BY <1>1, <1>3, SameInOrder, WakeInOrder DEF WakeReceiver
<1>4. CASE WakeSender
  BY <1>1, <1>4, SameInOrder, WakeInOrder DEF WakeSender
<1>5. ASSUME NEW t \in Tasks, Step(t)  PROVE Goal
  <2>1. CASE Place(t)
    <3>1. CASE op[t] \in SendOps
      BY <1>1, <2>1, <3>1, SameInOrder, InsertInOrder DEF Place
    <3>2. CASE op[t] \notin SendOps
      BY <1>1, <2>1, <3>2, SameInOrder, InsertInOrder DEF Place
    <3> QED BY <3>1, <3>2
  <2>2. CASE UnlockTx(t)
    BY <1>1, <2>2, SameInOrder, DropInOrder, ReleasedType DEF UnlockTx
  <2>3. CASE UnlockRx(t)
    BY <1>1, <2>3, SameInOrder, DropInOrder, ReleasedType DEF UnlockRx
  <2>4. CASE TrySend(t) \/ TryReceive(t) \/ TryPeek(t)
    BY <1>3, <1>4, <2>4 DEF TrySend, TryReceive, TryPeek
  <2>5. CASE \/ TryFails(t) \/ vTaskSuspendAll(t) \/ prvLockQueue(t) \/ CheckForTimeOut(t)
             \/ xTaskResumeAll(t) \/ Recheck(t)
    BY <1>2, <2>5 DEF TryFails, vTaskSuspendAll, prvLockQueue, CheckForTimeOut, xTaskResumeAll, Recheck
  <2> QED BY <1>5, <2>1, <2>2, <2>3, <2>4, <2>5 DEF Step
<1>6. ASSUME NEW t \in Tasks, Call(t) \/ Reset(t) \/ Elapse(t)  PROVE Goal
  BY <1>2, <1>4, <1>6 DEF Call, Reset, Elapse
<1>7. ASSUME NEW t \in Tasks, TickWakes(t)  PROVE Goal
  BY <1>1, <1>7, WithoutInOrder DEF TickWakes, TimedOut
<1>8. ASSUME NEW where \in SendOps, SendFromISR(where)  PROVE Goal
  BY <1>2, <1>3, <1>8 DEF SendFromISR
<1>9. CASE ReceiveFromISR
  BY <1>2, <1>4, <1>9 DEF ReceiveFromISR
<1>10. CASE UNCHANGED vars
  BY <1>2, <1>10 DEF vars
<1> QED BY <1>5, <1>6, <1>7, <1>8, <1>9, <1>10 DEF Next

\* A waiting task is never passed over for one of lower priority, however
\* wakes, timeouts, interrupts and insertions interleave.
THEOREM WakesFollowPriority ==
    ASSUME IsrBound <= INT8_MAX
    PROVE  Spec => WakesInPriorityOrder
<1> DEFINE Step1 == \A t \in Tasks :
              \/ Overtakes(t, xTasksWaitingToReceive, xTasksWaitingToReceive')
              \/ Overtakes(t, xTasksWaitingToSend, xTasksWaitingToSend')
              => TimedOut(t)
<1>1. Init => ListsOrdered
  BY DEF Init, ListsOrdered, Ascending
<1>2. IInv /\ ListsOrdered /\ [Next]_vars => ListsOrdered' /\ Step1
  <2> SUFFICES ASSUME IInv, ListsOrdered, [Next]_vars  PROVE ListsOrdered' /\ Step1
    OBVIOUS
  <2>1. /\ InOrder(xTasksWaitingToSend, xTasksWaitingToSend')
        /\ InOrder(xTasksWaitingToReceive, xTasksWaitingToReceive')
    BY NextInOrder
  <2>2. EventValue' = EventValue
    BY DEF EventValue
  <2> QED BY <2>1, <2>2 DEF InOrder, ListsOrdered, Ascending
<1>3. IInv /\ ListsOrdered /\ [Next]_vars => [Step1]_vars
  BY <1>2
<1> QED BY <1>1, <1>2, <1>3, Invariance, PTL DEF Spec, WakesInPriorityOrder
-----------------------------------------------------------------------------
(* Where the tasks are that the event lists hold, and who has locked.  A task *)
(* that placed itself is on its way out of the call until the scheduler is    *)
(* resumed, and from then on at the top of the loop.                          *)

Locking == {"check", "place", "unlockTx"}

ListedInv ==
    /\ \A t \in ToSet(xTasksWaitingToReceive) : op[t] \in ReceiveOps
    /\ \A t \in ToSet(xTasksWaitingToSend) : op[t] \in SendOps
    /\ \A t \in blocked : \/ pc[t] = "try"
                          \/ pc[t] \in {"unlockTx", "unlockRx", "resume"} /\ ~TimedOut(t)

LockingInv ==
    /\ \A t \in Tasks : pc[t] \in Locking => cTxLock # queueUNLOCKED
    /\ \A t \in Tasks : pc[t] \in Locking \cup {"unlockRx"} => cRxLock # queueUNLOCKED
    /\ \A t \in Tasks : pc[t] = "place" => ~TimedOut(t)

WaitersInv == ListedInv /\ LockingInv

\* All the tasks that any list holds are blocked.
LEMMA ListedAreBlocked ==
    ASSUME IInv
    PROVE  /\ ToSet(xTasksWaitingToReceive) \subseteq blocked
           /\ ToSet(xTasksWaitingToSend) \subseteq blocked
           /\ xPendingReadyList \subseteq blocked /\ blocked \subseteq Tasks
           /\ NoTask \notin blocked
BY QueueAssumption DEF IInv, TypeOK, BlockedIsListed

LEMMA NobodyHolds ==
    ASSUME IInv, xSuspender = NoTask
    PROVE  /\ \A t \in Tasks : pc[t] \notin Holding
           /\ xPendingReadyList = {} /\ cTxLock = queueUNLOCKED /\ cRxLock = queueUNLOCKED
BY QueueAssumption DEF IInv, HolderInv, BlockedIsListed, LockIsHeld

LEMMA NobodyHoldsNext ==
    ASSUME IInv', xSuspender' = NoTask
    PROVE  /\ \A t \in Tasks : pc'[t] \notin Holding
           /\ xPendingReadyList' = {} /\ cTxLock' = queueUNLOCKED /\ cRxLock' = queueUNLOCKED
BY QueueAssumption DEF IInv, HolderInv, BlockedIsListed, LockIsHeld

\* Only tasks leave the lists, and only t, which is not blocked, goes on.
LEMMA ShrinkKeepsListed ==
    ASSUME IInv, IInv', ListedInv, NEW t, t \notin blocked,
           ToSet(xTasksWaitingToReceive') \subseteq ToSet(xTasksWaitingToReceive),
           ToSet(xTasksWaitingToSend') \subseteq ToSet(xTasksWaitingToSend),
           blocked' \subseteq blocked,
           \A u \in Tasks \ {t} : /\ pc'[u] = pc[u] /\ op'[u] = op[u]
                                  /\ xTicksToWait'[u] = xTicksToWait[u]
    PROVE  ListedInv'
BY ListedAreBlocked DEF ListedInv, TimedOut

LEMMA WakeShrinks ==
    ASSUME IInv
    PROVE  /\ WakeReceiver => /\ ToSet(xTasksWaitingToReceive') \subseteq ToSet(xTasksWaitingToReceive)
                              /\ ToSet(xTasksWaitingToSend') \subseteq ToSet(xTasksWaitingToSend)
                              /\ blocked' \subseteq blocked /\ xSuspender' = xSuspender
           /\ WakeSender =>   /\ ToSet(xTasksWaitingToReceive') \subseteq ToSet(xTasksWaitingToReceive)
                              /\ ToSet(xTasksWaitingToSend') \subseteq ToSet(xTasksWaitingToSend)
                              /\ blocked' \subseteq blocked /\ xSuspender' = xSuspender
<1>1. xTasksWaitingToReceive \in Seq(Tasks) /\ xTasksWaitingToSend \in Seq(Tasks)
  BY DEF IInv, TypeOK
<1>2. /\ ToSet(AfterWake(xTasksWaitingToReceive)) \subseteq ToSet(xTasksWaitingToReceive)
      /\ ToSet(AfterWake(xTasksWaitingToSend)) \subseteq ToSet(xTasksWaitingToSend)
  BY <1>1, WokenProperties
<1> QED BY <1>2 DEF WakeReceiver, WakeSender, MakeReady

LEMMA EndCallChanges ==
    ASSUME IInv, NEW t \in Tasks, EndCall(t)
    PROVE  /\ pc'[t] = "idle" /\ op'[t] = "receive"
           /\ \A u \in Tasks \ {t} : /\ pc'[u] = pc[u] /\ op'[u] = op[u]
                                     /\ xTicksToWait'[u] = xTicksToWait[u]
BY DEF EndCall, Goto, IInv, TypeOK

LEMMA GotoChanges ==
    ASSUME IInv, NEW t \in Tasks, NEW place, Goto(t, place)
    PROVE  pc'[t] = place /\ \A u \in Tasks \ {t} : pc'[u] = pc[u]
BY DEF Goto, IInv, TypeOK

\* A step of a task outside the stretch, or of the tick.
LEMMA FreeKeepsWaiters ==
    ASSUME IInv, IInv', WaitersInv, NEW t, t \notin blocked, xSuspender' = NoTask,
           ToSet(xTasksWaitingToReceive') \subseteq ToSet(xTasksWaitingToReceive),
           ToSet(xTasksWaitingToSend') \subseteq ToSet(xTasksWaitingToSend),
           blocked' \subseteq blocked,
           \A u \in Tasks \ {t} : /\ pc'[u] = pc[u] /\ op'[u] = op[u]
                                  /\ xTicksToWait'[u] = xTicksToWait[u]
    PROVE  WaitersInv'
<1>1. ListedInv'
  BY ShrinkKeepsListed DEF WaitersInv
<1>2. LockingInv'
  BY NobodyHoldsNext DEF LockingInv, Locking, Holding
<1> QED BY <1>1, <1>2 DEF WaitersInv

LEMMA StepKeepsWaiters ==
    ASSUME IInv, IInv', WaitersInv, NEW t \in Tasks, Step(t)
    PROVE  WaitersInv'
<1>1. CASE TrySend(t) \/ TryReceive(t) \/ TryPeek(t)
  <2>1. EndCall(t) /\ Runs(t) /\ pc[t] = "try" /\ (WakeReceiver \/ WakeSender)
    BY <1>1 DEF TrySend, TryReceive, TryPeek
  <2>2. t \notin blocked /\ xSuspender = NoTask
    BY <2>1, RunsFree DEF Holding
  <2> QED BY <2>1, <2>2, EndCallChanges, WakeShrinks, FreeKeepsWaiters
<1>2. CASE TryFails(t) \/ Recheck(t)
  <2>1. Runs(t) /\ pc[t] \notin Holding /\ UNCHANGED lists /\ UNCHANGED kernel
    BY <1>2 DEF TryFails, Recheck, Holding
  <2>2. t \notin blocked /\ xSuspender = NoTask
    BY <2>1, RunsFree
  <2>3. \A u \in Tasks \ {t} : pc'[u] = pc[u] /\ op'[u] = op[u] /\ xTicksToWait'[u] = xTicksToWait[u]
    BY <1>2, EndCallChanges, GotoChanges DEF TryFails, Recheck
  <2> QED BY <2>1, <2>2, <2>3, FreeKeepsWaiters DEF lists, kernel
<1>3. CASE vTaskSuspendAll(t)
  <2>1. Runs(t) /\ pc[t] \notin Holding /\ UNCHANGED <<lists, blocked, locks, op, xTicksToWait>> /\ xSuspender' = t
    BY <1>3 DEF vTaskSuspendAll, Holding
  <2>2. t \notin blocked /\ pc'[t] = "lock" /\ \A u \in Tasks \ {t} : pc'[u] = pc[u]
    BY <1>3, <2>1, RunsFree, GotoChanges DEF vTaskSuspendAll
  <2>3. ListedInv'
    BY <2>1, <2>2, ShrinkKeepsListed DEF lists, WaitersInv
  <2>4. LockingInv'
    BY <2>1, <2>2 DEF LockingInv, WaitersInv, Locking, locks, TimedOut
  <2> QED BY <2>3, <2>4 DEF WaitersInv
<1>4. CASE prvLockQueue(t)
  <2>1. Runs(t) /\ pc[t] = "lock" /\ UNCHANGED <<lists, kernel, op, xTicksToWait>>
    BY <1>4 DEF prvLockQueue
  <2>2. t \notin blocked /\ pc'[t] = "check" /\ \A u \in Tasks \ {t} : pc'[u] = pc[u]
    BY <1>4, <2>1, GotoChanges DEF prvLockQueue, IInv, HolderInv
  <2>3. ListedInv'
    BY <2>1, <2>2, ShrinkKeepsListed DEF lists, kernel, WaitersInv
  <2>4. cTxLock' # queueUNLOCKED /\ cRxLock' # queueUNLOCKED
    BY <1>4 DEF prvLockQueue, Locked, queueUNLOCKED, queueLOCKED_UNMODIFIED
  <2>5. LockingInv'
    BY <2>1, <2>2, <2>4 DEF LockingInv, WaitersInv, TimedOut
  <2> QED BY <2>3, <2>5 DEF WaitersInv
<1>5. CASE CheckForTimeOut(t)
  <2>1. Runs(t) /\ pc[t] = "check" /\ UNCHANGED <<lists, kernel, locks, op>>
    BY <1>5 DEF CheckForTimeOut
  <2>2. t \notin blocked /\ pc'[t] \in {"place", "unlockTx"} /\ (pc'[t] = "place" => ~TimedOut(t))
    BY <1>5, <2>1, GotoChanges DEF CheckForTimeOut, IInv, HolderInv
  <2>3. /\ xTicksToWait \in [Tasks -> Waits \cup {"elapsed"}]
        /\ \A u \in Tasks \ {t} : pc'[u] = pc[u] /\ xTicksToWait'[u] = xTicksToWait[u]
        /\ ~TimedOut(t) => xTicksToWait'[t] = xTicksToWait[t]
    <3>1. xTicksToWait \in [Tasks -> Waits \cup {"elapsed"}]
      BY DEF IInv, TypeOK
    <3>2. \A u \in Tasks \ {t} : pc'[u] = pc[u]
      BY <1>5, GotoChanges DEF CheckForTimeOut
    <3> QED BY <1>5, <3>1, <3>2 DEF CheckForTimeOut, xTaskCheckForTimeOut, TimedOut
  <2>4. ListedInv'
    BY <2>1, <2>2, <2>3, ShrinkKeepsListed DEF lists, kernel, WaitersInv
  <2>5. LockingInv'
    BY <2>1, <2>2, <2>3 DEF LockingInv, WaitersInv, Locking, locks, TimedOut
  <2> QED BY <2>4, <2>5 DEF WaitersInv
<1>6. CASE Place(t)
  <2>1. /\ pc[t] = "place" /\ UNCHANGED <<locks, op, xTicksToWait>> /\ blocked' = blocked \cup {t}
        /\ pc'[t] = "unlockTx" /\ \A u \in Tasks \ {t} : pc'[u] = pc[u]
    BY <1>6, GotoChanges DEF Place
  <2>2. /\ op[t] \in SendOps \cup ReceiveOps
        /\ xTasksWaitingToReceive \in Seq(Tasks) /\ xTasksWaitingToSend \in Seq(Tasks)
    BY DEF IInv, TypeOK
  <2>3. /\ ToSet(xTasksWaitingToReceive') \subseteq
              ToSet(xTasksWaitingToReceive) \cup (IF op[t] \in ReceiveOps THEN {t} ELSE {})
        /\ ToSet(xTasksWaitingToSend') \subseteq
              ToSet(xTasksWaitingToSend) \cup (IF op[t] \in SendOps THEN {t} ELSE {})
    BY <1>6, <2>2, vListInsertProperties DEF Place, vTaskPlaceOnEventList
  <2>4. ListedInv'
    BY <2>1, <2>3, ListedAreBlocked DEF WaitersInv, ListedInv, LockingInv, TimedOut
  <2>5. LockingInv'
    BY <2>1 DEF WaitersInv, LockingInv, Locking, locks, TimedOut
  <2> QED BY <2>4, <2>5 DEF WaitersInv
<1>7. CASE UnlockTx(t)
  <2>1. /\ pc[t] = "unlockTx" /\ UNCHANGED <<cRxLock, xTasksWaitingToSend, blocked, xSuspender, op, xTicksToWait>>
        /\ pc'[t] = "unlockRx" /\ \A u \in Tasks \ {t} : pc'[u] = pc[u]
    BY <1>7, GotoChanges DEF UnlockTx
  <2>2. ToSet(xTasksWaitingToReceive') \subseteq ToSet(xTasksWaitingToReceive)
    <3>1. xTasksWaitingToReceive \in Seq(Tasks) /\ cTxLock \in Int
      BY QueueAssumption DEF IInv, TypeOK
    <3> QED BY <1>7, <3>1, ReleasedType, DropProperties DEF UnlockTx
  <2>3. ListedInv'
    BY <2>1, <2>2, ListedAreBlocked DEF WaitersInv, ListedInv, TimedOut
  <2>4. \A u \in Tasks \ {t} : pc[u] \notin Holding
    BY <2>1 DEF IInv, HolderInv, Holding
  <2>5. LockingInv'
    BY <2>1, <2>4 DEF WaitersInv, LockingInv, Locking, Holding
  <2> QED BY <2>3, <2>5 DEF WaitersInv
<1>8. CASE UnlockRx(t)
  <2>1. /\ pc[t] = "unlockRx" /\ UNCHANGED <<cTxLock, xTasksWaitingToReceive, blocked, xSuspender, op, xTicksToWait>>
        /\ pc'[t] = "resume" /\ \A u \in Tasks \ {t} : pc'[u] = pc[u]
    BY <1>8, GotoChanges DEF UnlockRx
  <2>2. ToSet(xTasksWaitingToSend') \subseteq ToSet(xTasksWaitingToSend)
    <3>1. xTasksWaitingToSend \in Seq(Tasks) /\ cRxLock \in Int
      BY QueueAssumption DEF IInv, TypeOK
    <3> QED BY <1>8, <3>1, ReleasedType, DropProperties DEF UnlockRx
  <2>3. ListedInv'
    BY <2>1, <2>2, ListedAreBlocked DEF WaitersInv, ListedInv, TimedOut
  <2>4. \A u \in Tasks \ {t} : pc[u] \notin Holding
    BY <2>1 DEF IInv, HolderInv, Holding
  <2>5. LockingInv'
    BY <2>1, <2>4 DEF WaitersInv, LockingInv, Locking, Holding
  <2> QED BY <2>3, <2>5 DEF WaitersInv
<1>9. CASE xTaskResumeAll(t)
  <2>1. /\ pc[t] = "resume" /\ UNCHANGED <<lists, op, xTicksToWait>> /\ blocked' \subseteq blocked
        /\ xSuspender' = NoTask
        /\ pc'[t] = IF TimedOut(t) THEN "recheck" ELSE "try"
        /\ \A u \in Tasks \ {t} : pc'[u] = pc[u]
    BY <1>9, GotoChanges DEF xTaskResumeAll
  <2>2. ListedInv'
    BY <2>1, ListedAreBlocked DEF WaitersInv, ListedInv, TimedOut, lists
  <2>3. LockingInv'
    BY <2>1, NobodyHoldsNext DEF LockingInv, Locking, Holding
  <2> QED BY <2>2, <2>3 DEF WaitersInv
<1> QED BY <1>1, <1>2, <1>3, <1>4, <1>5, <1>6, <1>7, <1>8, <1>9 DEF Step

LEMMA NextKeepsWaiters ==
    ASSUME IsrBound <= INT8_MAX, IInv, IInv', WaitersInv, [Next]_vars
    PROVE  WaitersInv'
<1>1. CASE UNCHANGED vars
  BY <1>1 DEF WaitersInv, ListedInv, LockingInv, TimedOut, vars, locks, lists, calls, kernel
<1>2. ASSUME NEW t \in Tasks, Step(t) PROVE WaitersInv'
  BY <1>2, StepKeepsWaiters
<1>3. ASSUME NEW t \in Tasks, Call(t) PROVE WaitersInv'
  <2>1. Runs(t) /\ pc[t] \notin Holding /\ UNCHANGED <<lists, kernel>>
    BY <1>3 DEF Call, Holding
  <2>2. t \notin blocked /\ xSuspender = NoTask
    BY <2>1, RunsFree
  <2>3. \A u \in Tasks \ {t} : pc'[u] = pc[u] /\ op'[u] = op[u] /\ xTicksToWait'[u] = xTicksToWait[u]
    BY <1>3, GotoChanges DEF Call, IInv, TypeOK
  <2> QED BY <2>1, <2>2, <2>3, FreeKeepsWaiters DEF lists, kernel
<1>4. ASSUME NEW t \in Tasks, Reset(t) PROVE WaitersInv'
  <2>1. Runs(t) /\ pc[t] \notin Holding /\ UNCHANGED calls /\ WakeSender
    BY <1>4 DEF Reset, Holding
  <2>2. t \notin blocked /\ xSuspender = NoTask
    BY <2>1, RunsFree
  <2> QED BY <2>1, <2>2, WakeShrinks, FreeKeepsWaiters DEF calls
<1>5. ASSUME NEW t \in Tasks, Elapse(t) PROVE WaitersInv'
  <2>1. xSuspender = NoTask /\ xSuspender' = NoTask /\ UNCHANGED <<lists, blocked, pc, op>>
    BY <1>5 DEF Elapse, kernel
  <2>2. ListedInv'
    BY <2>1, NobodyHolds, ListedAreBlocked DEF WaitersInv, ListedInv, lists, Holding
  <2>3. LockingInv'
    BY <2>1, NobodyHoldsNext DEF LockingInv, Locking, Holding
  <2> QED BY <2>2, <2>3 DEF WaitersInv
<1>6. ASSUME NEW t \in Tasks, TickWakes(t) PROVE WaitersInv'
  <2>1. xSuspender' = NoTask /\ UNCHANGED calls /\ blocked' \subseteq blocked
    BY <1>6 DEF TickWakes
  <2>2. /\ ToSet(xTasksWaitingToReceive') \subseteq ToSet(xTasksWaitingToReceive)
        /\ ToSet(xTasksWaitingToSend') \subseteq ToSet(xTasksWaitingToSend)
    BY <1>6, WithoutProperties DEF TickWakes, IInv, TypeOK, BlockedIsListed
  <2> QED BY <2>1, <2>2, ListedAreBlocked, FreeKeepsWaiters DEF calls
<1>7. ASSUME \/ \E where \in SendOps : SendFromISR(where)
             \/ ReceiveFromISR
      PROVE  WaitersInv'
  <2>1. /\ UNCHANGED calls
        /\ ToSet(xTasksWaitingToReceive') \subseteq ToSet(xTasksWaitingToReceive)
        /\ ToSet(xTasksWaitingToSend') \subseteq ToSet(xTasksWaitingToSend)
        /\ blocked' \subseteq blocked
    BY <1>7, WakeShrinks DEF SendFromISR, ReceiveFromISR, lists, kernel
  <2>2. ListedInv'
    BY <2>1, ListedAreBlocked, ShrinkKeepsListed DEF calls, WaitersInv
  <2>3. /\ cTxLock # queueUNLOCKED => cTxLock' # queueUNLOCKED
        /\ cRxLock # queueUNLOCKED => cRxLock' # queueUNLOCKED
    <3>1. cTxLock \in -1..INT8_MAX /\ cRxLock \in -1..INT8_MAX
      BY DEF IInv, TypeOK
    <3> QED BY <1>7, <3>1, QueueAssumption DEF SendFromISR, ReceiveFromISR, Incremented, queueUNLOCKED
  <2>4. LockingInv'
    BY <2>1, <2>3 DEF WaitersInv, LockingInv, calls, TimedOut
  <2> QED BY <2>2, <2>4 DEF WaitersInv
<1> QED BY <1>1, <1>2, <1>3, <1>4, <1>5, <1>6, <1>7 DEF Next
-----------------------------------------------------------------------------
(* No lost wakeup.  What a waiting task could have, an item or a place, is    *)
(* matched by the tasks on their way to look and the calls counted in the     *)
(* lock, from the moment a task decides to wait.                              *)

Demand(list, ops) == list # << >> \/ \E t \in Tasks : pc[t] = "place" /\ op[t] \in ops

ReadersInv ==
    Demand(xTasksWaitingToReceive, ReceiveOps) =>
        uxMessagesWaiting <= Cardinality(Looking(ReceiveOps)) + Counted(cTxLock)

WritersInv ==
    Demand(xTasksWaitingToSend, SendOps) =>
        uxLength - uxMessagesWaiting <= Cardinality(Looking(SendOps)) + Counted(cRxLock)

\* n items for the tasks of X and d counted calls are n2 items for the tasks of
\* Y and d2 counted calls: when no task stops looking, when t has taken an item,
\* when u looks instead of t, when u is woken for one more, and when those of F
\* are.
LEMMA TaskSets ==
    ASSUME NEW X \in SUBSET Tasks, NEW Y \in SUBSET Tasks
    PROVE  /\ IsFiniteSet(X) /\ Cardinality(X) \in Nat /\ Cardinality(Y) \in Nat
           /\ X \subseteq Y => Cardinality(X) <= Cardinality(Y)
<1>1. IsFiniteSet(X) /\ IsFiniteSet(Y)
  BY QueueAssumption, FS_Subset
<1> QED BY <1>1, FS_Subset, FS_CardinalityType

LEMMA SupplyKept ==
    ASSUME NEW X \in SUBSET Tasks, NEW Y \in SUBSET Tasks, X \subseteq Y,
           NEW n \in Int, NEW n2 \in Int, NEW d \in Nat, NEW d2 \in Nat,
           n <= Cardinality(X) + d, n2 + d <= n + d2
    PROVE  n2 <= Cardinality(Y) + d2
BY TaskSets

LEMMA SupplyTaken ==
    ASSUME NEW X \in SUBSET Tasks, NEW Y \in SUBSET Tasks, NEW t, X \ {t} \subseteq Y,
           NEW n \in Int, NEW n2 \in Int, NEW d \in Nat, NEW d2 \in Nat,
           n <= Cardinality(X) + d, n2 + d + 1 <= n + d2
    PROVE  n2 <= Cardinality(Y) + d2
<1>1. Cardinality(X \ {t}) = IF t \in X THEN Cardinality(X) - 1 ELSE Cardinality(X)
  BY TaskSets, FS_RemoveElement
<1>2. Cardinality(X \ {t}) <= Cardinality(Y) /\ Cardinality(X) \in Nat /\ Cardinality(Y) \in Nat
  BY TaskSets
<1> QED BY <1>1, <1>2

LEMMA SupplyPassed ==
    ASSUME NEW X \in SUBSET Tasks, NEW Y \in SUBSET Tasks, NEW t, X \ {t} \subseteq Y,
           NEW u \in Y, u \notin X,
           NEW n \in Int, NEW n2 \in Int, NEW d \in Nat, NEW d2 \in Nat,
           n <= Cardinality(X) + d, n2 + d <= n + d2
    PROVE  n2 <= Cardinality(Y) + d2
<1>1. /\ IsFiniteSet(X \ {t})
      /\ Cardinality(X \ {t}) = IF t \in X THEN Cardinality(X) - 1 ELSE Cardinality(X)
  BY TaskSets, FS_RemoveElement
<1>2. Cardinality((X \ {t}) \cup {u}) = Cardinality(X \ {t}) + 1
  BY <1>1, FS_AddElement
<1>3. Cardinality((X \ {t}) \cup {u}) <= Cardinality(Y)
  BY TaskSets
<1>4. Cardinality(X) \in Nat /\ Cardinality(Y) \in Nat
  BY TaskSets
<1> QED BY <1>1, <1>2, <1>3, <1>4

LEMMA SupplyReleased ==
    ASSUME NEW X \in SUBSET Tasks, NEW Y \in SUBSET Tasks, NEW F \in SUBSET Tasks,
           F \cap X = {}, X \cup F \subseteq Y,
           NEW n \in Int, NEW n2 \in Int, NEW d \in Nat, NEW d2 \in Nat,
           n <= Cardinality(X) + d, n2 + d <= n + d2 + Cardinality(F)
    PROVE  n2 <= Cardinality(Y) + d2
<1>1. /\ IsFiniteSet(X) /\ IsFiniteSet(F)
      /\ Cardinality(X) \in Nat /\ Cardinality(Y) \in Nat /\ Cardinality(F) \in Nat
  BY TaskSets
<1>2. Cardinality(X \cup F) = Cardinality(X) + Cardinality(F) - Cardinality(X \cap F)
  BY <1>1, FS_Union
<1>3. Cardinality(X \cap F) = 0
  BY FS_EmptySet
<1>4. Cardinality(X \cup F) <= Cardinality(Y)
  BY TaskSets
<1> QED BY <1>1, <1>2, <1>3, <1>4

LEMMA SupplyWoken ==
    ASSUME NEW X \in SUBSET Tasks, NEW Y \in SUBSET Tasks, X \subseteq Y, NEW u \in Y, u \notin X,
           NEW n \in Int, NEW n2 \in Int, NEW d \in Nat, NEW d2 \in Nat,
           n <= Cardinality(X) + d, n2 + d <= n + d2 + 1
    PROVE  n2 <= Cardinality(Y) + d2
<1>1. Cardinality({u}) = 1
  BY FS_Singleton
<1> QED BY <1>1, SupplyReleased

LEMMA NoSupply ==
    ASSUME NEW Y \in SUBSET Tasks, NEW n2 \in Int, NEW d2 \in Nat, n2 <= 0
    PROVE  n2 <= Cardinality(Y) + d2
<1>1. Cardinality(Y) \in Nat
  BY QueueAssumption, FS_Subset, FS_CardinalityType
<1> QED BY <1>1

LEMMA SupplyTypes ==
    ASSUME IInv, IInv'
    PROVE  /\ uxLength \in Nat /\ uxMessagesWaiting \in Int /\ uxMessagesWaiting' \in Int
           /\ uxLength - uxMessagesWaiting \in Int /\ uxLength - uxMessagesWaiting' \in Int
           /\ Counted(cTxLock) \in Nat /\ Counted(cTxLock)' \in Nat
           /\ Counted(cRxLock) \in Nat /\ Counted(cRxLock)' \in Nat
           /\ Counted(queueUNLOCKED) = 0
<1>1. /\ uxMessagesWaiting \in 0..uxLength /\ uxMessagesWaiting' \in 0..uxLength
      /\ cTxLock \in -1..INT8_MAX /\ cRxLock \in -1..INT8_MAX
      /\ cTxLock' \in -1..INT8_MAX /\ cRxLock' \in -1..INT8_MAX
  BY DEF IInv, TypeOK
<1> QED BY <1>1, QueueAssumption DEF Counted, queueLOCKED_UNMODIFIED, queueUNLOCKED

LEMMA LookingType ==
    /\ \A ops : Looking(ops) \in SUBSET Tasks
    /\ Looking(ReceiveOps)' \in SUBSET Tasks /\ Looking(SendOps)' \in SUBSET Tasks
BY DEF Looking

OpsKinds == {ReceiveOps, SendOps}

LEMMA KindsDiffer ==
    /\ ReceiveOps \in OpsKinds /\ SendOps \in OpsKinds
    /\ \A o : ~(o \in ReceiveOps /\ o \in SendOps)
BY DEF OpsKinds, ReceiveOps, SendOps, BlockingSend

\* The tasks that look, t aside, still look if they are ready and at the top of
\* the loop, or are on their way there.
LEMMA LookingStays ==
    ASSUME NEW ops, NEW t,
           \A u \in Tasks \ {t} :
              /\ op'[u] = op[u]
              /\ pc[u] = "try" /\ u \notin blocked => pc'[u] = "try" /\ u \notin blocked'
              /\ u \in xPendingReadyList =>
                    u \in xPendingReadyList' \/ (pc'[u] = "try" /\ u \notin blocked')
    PROVE  Looking(ops) \ {t} \subseteq Looking(ops)'
BY DEF Looking

\* A task that is woken looks, and it did not before.
LEMMA ReceiverLooks ==
    ASSUME IInv, WaitersInv, WakeReceiver, NEW t, t \notin blocked, NEW ops,
           \A u \in Tasks \ {t} : pc'[u] = pc[u] /\ op'[u] = op[u]
    PROVE  /\ Looking(ops) \ {t} \subseteq Looking(ops)'
           /\ xTasksWaitingToReceive' # << >> =>
                 /\ xTasksWaitingToReceive # << >>
                 /\ \E u : u \in Looking(ReceiveOps)' /\ u \notin Looking(ReceiveOps)
<1>1. xTasksWaitingToReceive \in Seq(Tasks) /\ Woken(xTasksWaitingToReceive) \subseteq ToSet(xTasksWaitingToReceive)
  BY WokenProperties DEF IInv, TypeOK
<1>2. /\ Woken(xTasksWaitingToReceive) \subseteq blocked \ xPendingReadyList
      /\ \A u \in Woken(xTasksWaitingToReceive) : op[u] \in ReceiveOps
      /\ xPendingReadyList \subseteq blocked /\ blocked \subseteq Tasks
  BY <1>1, ListedAreBlocked DEF IInv, BlockedIsListed, WaitersInv, ListedInv
<1>3. xSuspender = NoTask => /\ blocked' = blocked \ Woken(xTasksWaitingToReceive)
                             /\ UNCHANGED xPendingReadyList /\ \A u \in blocked : pc[u] = "try"
  BY <1>2, NobodyHolds DEF WakeReceiver, MakeReady, WaitersInv, ListedInv, Holding
<1>4. xSuspender # NoTask => /\ blocked' = blocked
                             /\ xPendingReadyList' = xPendingReadyList \cup Woken(xTasksWaitingToReceive)
  BY DEF WakeReceiver, MakeReady
<1>5. Looking(ops) \ {t} \subseteq Looking(ops)'
  BY <1>2, <1>3, <1>4 DEF Looking
<1>6. ASSUME xTasksWaitingToReceive' # << >>
      PROVE  /\ xTasksWaitingToReceive # << >>
             /\ \E u : u \in Looking(ReceiveOps)' /\ u \notin Looking(ReceiveOps)
  <2>1. xTasksWaitingToReceive # << >>
    BY <1>6 DEF WakeReceiver, AfterWake
  <2>2. Head(xTasksWaitingToReceive) \in Woken(xTasksWaitingToReceive)
    BY <2>1 DEF Woken
  <2>3. PICK u \in Woken(xTasksWaitingToReceive) : TRUE
    BY <2>2
  <2>4. u \notin Looking(ReceiveOps) /\ u \in Tasks \ {t} /\ op[u] \in ReceiveOps
    BY <1>2 DEF Looking
  <2>5. u \in Looking(ReceiveOps)'
    BY <1>2, <1>3, <1>4, <2>4 DEF Looking
  <2> QED BY <2>1, <2>4, <2>5
<1> QED BY <1>5, <1>6

LEMMA SenderLooks ==
    ASSUME IInv, WaitersInv, WakeSender, NEW t, t \notin blocked, NEW ops,
           \A u \in Tasks \ {t} : pc'[u] = pc[u] /\ op'[u] = op[u]
    PROVE  /\ Looking(ops) \ {t} \subseteq Looking(ops)'
           /\ xTasksWaitingToSend' # << >> =>
                 /\ xTasksWaitingToSend # << >>
                 /\ \E u : u \in Looking(SendOps)' /\ u \notin Looking(SendOps)
<1>1. xTasksWaitingToSend \in Seq(Tasks) /\ Woken(xTasksWaitingToSend) \subseteq ToSet(xTasksWaitingToSend)
  BY WokenProperties DEF IInv, TypeOK
<1>2. /\ Woken(xTasksWaitingToSend) \subseteq blocked \ xPendingReadyList
      /\ \A u \in Woken(xTasksWaitingToSend) : op[u] \in SendOps
      /\ xPendingReadyList \subseteq blocked /\ blocked \subseteq Tasks
  BY <1>1, ListedAreBlocked DEF IInv, BlockedIsListed, WaitersInv, ListedInv
<1>3. xSuspender = NoTask => /\ blocked' = blocked \ Woken(xTasksWaitingToSend)
                             /\ UNCHANGED xPendingReadyList /\ \A u \in blocked : pc[u] = "try"
  BY <1>2, NobodyHolds DEF WakeSender, MakeReady, WaitersInv, ListedInv, Holding
<1>4. xSuspender # NoTask => /\ blocked' = blocked
                             /\ xPendingReadyList' = xPendingReadyList \cup Woken(xTasksWaitingToSend)
  BY DEF WakeSender, MakeReady
<1>5. Looking(ops) \ {t} \subseteq Looking(ops)'
  BY <1>2, <1>3, <1>4 DEF Looking
<1>6. ASSUME xTasksWaitingToSend' # << >>
      PROVE  /\ xTasksWaitingToSend # << >>
             /\ \E u : u \in Looking(SendOps)' /\ u \notin Looking(SendOps)
  <2>1. xTasksWaitingToSend # << >>
    BY <1>6 DEF WakeSender, AfterWake
  <2>2. Head(xTasksWaitingToSend) \in Woken(xTasksWaitingToSend)
    BY <2>1 DEF Woken
  <2>3. PICK u \in Woken(xTasksWaitingToSend) : TRUE
    BY <2>2
  <2>4. u \notin Looking(SendOps) /\ u \in Tasks \ {t} /\ op[u] \in SendOps
    BY <1>2 DEF Looking
  <2>5. u \in Looking(SendOps)'
    BY <1>2, <1>3, <1>4, <2>4 DEF Looking
  <2> QED BY <2>1, <2>4, <2>5
<1> QED BY <1>5, <1>6

\* With the scheduler running nobody is about to place itself, and no call is
\* counted.
LEMMA FreeDemand ==
    ASSUME IInv, xSuspender = NoTask
    PROVE  /\ \A list, ops : Demand(list, ops) <=> list # << >>
           /\ Counted(cTxLock) = 0 /\ Counted(cRxLock) = 0
BY NobodyHolds DEF Demand, Holding, Counted, queueUNLOCKED, queueLOCKED_UNMODIFIED

LEMMA FreeDemandNext ==
    ASSUME IInv', xSuspender' = NoTask
    PROVE  /\ Demand(xTasksWaitingToReceive, ReceiveOps)' => xTasksWaitingToReceive' # << >>
           /\ Demand(xTasksWaitingToSend, SendOps)' => xTasksWaitingToSend' # << >>
           /\ Counted(cTxLock)' = 0 /\ Counted(cRxLock)' = 0
BY NobodyHoldsNext DEF Demand, Holding, Counted, queueUNLOCKED, queueLOCKED_UNMODIFIED

\* A call that looked, found what it wanted and returns.
LEMMA TryKeepsSupply ==
    ASSUME IInv, IInv', WaitersInv, NEW t \in Tasks,
           TrySend(t) \/ TryReceive(t) \/ TryPeek(t)
    PROVE  (ReadersInv => ReadersInv') /\ (WritersInv => WritersInv')
<1> DEFINE R  == Looking(ReceiveOps)
           R2 == Looking(ReceiveOps)'
           S  == Looking(SendOps)
           S2 == Looking(SendOps)'
<1>1. /\ EndCall(t) /\ Runs(t) /\ pc[t] = "try" /\ xSuspender = NoTask /\ t \notin blocked
      /\ xSuspender' = NoTask
  <2>1. EndCall(t) /\ Runs(t) /\ pc[t] = "try" /\ (WakeReceiver \/ WakeSender)
    BY DEF TrySend, TryReceive, TryPeek
  <2>2. t \notin blocked /\ xSuspender = NoTask
    BY <2>1, RunsFree DEF Holding
  <2> QED BY <2>1, <2>2, WakeShrinks
<1>2. \A u \in Tasks \ {t} : pc'[u] = pc[u] /\ op'[u] = op[u]
  BY <1>1, EndCallChanges
<1>3. R \in SUBSET Tasks /\ R2 \in SUBSET Tasks /\ S \in SUBSET Tasks /\ S2 \in SUBSET Tasks
  BY LookingType
<1>4. /\ Counted(cTxLock) = 0 /\ Counted(cRxLock) = 0 /\ Counted(cTxLock)' = 0 /\ Counted(cRxLock)' = 0
      /\ uxMessagesWaiting \in 0..uxLength /\ uxMessagesWaiting' \in 0..uxLength
      /\ uxLength \in Nat
  BY <1>1, FreeDemand, FreeDemandNext, SupplyTypes DEF IInv, TypeOK
<1>5. t \notin xPendingReadyList
  BY <1>1, ListedAreBlocked
<1>a. ASSUME xTasksWaitingToReceive # << >>, ReadersInv  PROVE uxMessagesWaiting <= Cardinality(R) + 0
  BY <1>a, <1>4 DEF ReadersInv, Demand
<1>b. ASSUME xTasksWaitingToSend # << >>, WritersInv  PROVE uxLength - uxMessagesWaiting <= Cardinality(S) + 0
  BY <1>b, <1>4 DEF WritersInv, Demand
<1>c. ASSUME xTasksWaitingToReceive' # << >> => uxMessagesWaiting' <= Cardinality(R2) + 0
      PROVE  ReadersInv'
  BY <1>c, <1>1, <1>4, FreeDemandNext DEF ReadersInv
<1>d. ASSUME xTasksWaitingToSend' # << >> => uxLength - uxMessagesWaiting' <= Cardinality(S2) + 0
      PROVE  WritersInv'
  BY <1>d, <1>1, <1>4, FreeDemandNext DEF WritersInv
<1>6. CASE TrySend(t)
  <2>1. /\ op[t] \in SendOps /\ WakeReceiver
        /\ \/ uxMessagesWaiting' = uxMessagesWaiting + 1
           \/ uxMessagesWaiting' = uxMessagesWaiting /\ uxMessagesWaiting > 0 /\ op[t] = "overwrite"
    <3>1. PICK x \in Items : prvCopyDataToQueue(x, op[t])
      BY <1>6 DEF TrySend
    <3> QED BY <1>6, <3>1 DEF TrySend, prvCopyDataToQueue, CountIn
  <2>2. op[t] = "overwrite" => uxLength = 1
    BY OperationAssumption DEF IInv, HolderInv
  <2>a. /\ uxMessagesWaiting' + 0 <= uxMessagesWaiting + 0 + 1
        /\ uxLength - uxMessagesWaiting' + 0 + 1 <= uxLength - uxMessagesWaiting + 0 \/ uxLength - uxMessagesWaiting' <= 0
    <3>1. PICK n \in Nat, n2 \in Nat : uxMessagesWaiting = n /\ uxMessagesWaiting' = n2 /\ n <= uxLength
      BY <1>4
    <3>2. n2 = n + 1 \/ (n2 = n /\ n > 0 /\ uxLength = 1)
      BY <2>1, <2>2, <3>1
    <3> QED BY <1>4, <3>1, <3>2
  <2>3. t \notin R
    BY <2>1, KindsDiffer DEF Looking
  <2>4. /\ R \ {t} \subseteq R2 /\ S \ {t} \subseteq S2 /\ xTasksWaitingToSend' = xTasksWaitingToSend
        /\ xTasksWaitingToReceive' # << >> => xTasksWaitingToReceive # << >> /\ \E u : u \in R2 /\ u \notin R
    BY <1>1, <1>2, <2>1, ReceiverLooks DEF WakeReceiver
  <2> HIDE DEF R, R2, S, S2
  <2>5. ASSUME xTasksWaitingToReceive' # << >>, ReadersInv
        PROVE  uxMessagesWaiting' <= Cardinality(R2) + 0
    <3>1. uxMessagesWaiting <= Cardinality(R) + 0 /\ R \subseteq R2
      BY <1>a, <2>3, <2>4, <2>5
    <3>2. PICK u : u \in R2 /\ u \notin R
      BY <2>4, <2>5
    <3>3. uxMessagesWaiting \in Int /\ uxMessagesWaiting' \in Int /\ 0 \in Nat
      BY <1>4
    <3>4. uxMessagesWaiting' + 0 <= uxMessagesWaiting + 0 + 1
      BY <2>a
    <3> QED BY <1>3, <3>1, <3>2, <3>3, <3>4, SupplyWoken
  <2>6. ASSUME xTasksWaitingToSend' # << >>, WritersInv
        PROVE  uxLength - uxMessagesWaiting' <= Cardinality(S2) + 0
    <3>1. uxLength - uxMessagesWaiting <= Cardinality(S) + 0
      BY <1>b, <2>4, <2>6
    <3>2. uxLength - uxMessagesWaiting \in Int /\ uxLength - uxMessagesWaiting' \in Int /\ 0 \in Nat
      BY <1>4
    <3>3. CASE uxLength - uxMessagesWaiting' <= 0
      BY <1>3, <3>2, <3>3, NoSupply
    <3>4. CASE uxLength - uxMessagesWaiting' + 0 + 1 <= uxLength - uxMessagesWaiting + 0
      BY <1>3, <2>4, <3>1, <3>2, <3>4, SupplyTaken, ZenonT(40)
    <3> QED BY <2>a, <3>3, <3>4
  <2> QED BY <1>c, <1>d, <2>5, <2>6
<1>7. CASE TryReceive(t)
  <2>1. op[t] = "receive" /\ WakeSender /\ uxMessagesWaiting' = uxMessagesWaiting - 1
    BY <1>7 DEF TryReceive, prvCopyDataFromQueue
  <2>3. t \notin S
    BY <2>1, KindsDiffer DEF Looking, ReceiveOps
  <2>4. /\ R \ {t} \subseteq R2 /\ S \ {t} \subseteq S2 /\ xTasksWaitingToReceive' = xTasksWaitingToReceive
        /\ xTasksWaitingToSend' # << >> => xTasksWaitingToSend # << >> /\ \E u : u \in S2 /\ u \notin S
    BY <1>1, <1>2, <2>1, SenderLooks DEF WakeSender
  <2> HIDE DEF R, R2, S, S2
  <2>5. ASSUME xTasksWaitingToSend' # << >>, WritersInv
        PROVE  uxLength - uxMessagesWaiting' <= Cardinality(S2) + 0
    <3>1. uxLength - uxMessagesWaiting <= Cardinality(S) + 0 /\ S \subseteq S2
      BY <1>b, <2>3, <2>4, <2>5
    <3>2. PICK u : u \in S2 /\ u \notin S
      BY <2>4, <2>5
    <3>3. /\ uxLength - uxMessagesWaiting \in Int /\ uxLength - uxMessagesWaiting' \in Int /\ 0 \in Nat
          /\ uxLength - uxMessagesWaiting' + 0 <= uxLength - uxMessagesWaiting + 0 + 1
      BY <1>4, <2>1
    <3> QED BY <1>3, <3>1, <3>2, <3>3, SupplyWoken
  <2>6. ASSUME xTasksWaitingToReceive' # << >>, ReadersInv
        PROVE  uxMessagesWaiting' <= Cardinality(R2) + 0
    <3>1. uxMessagesWaiting <= Cardinality(R) + 0
      BY <1>a, <2>4, <2>6
    <3>2. /\ uxMessagesWaiting \in Int /\ uxMessagesWaiting' \in Int /\ 0 \in Nat
          /\ uxMessagesWaiting' + 0 + 1 <= uxMessagesWaiting + 0
      BY <1>4, <2>1
    <3> QED BY <1>3, <2>4, <3>1, <3>2, SupplyTaken
  <2> QED BY <1>c, <1>d, <2>5, <2>6
<1>8. CASE TryPeek(t)
  <2>1. op[t] = "peek" /\ WakeReceiver /\ uxMessagesWaiting' = uxMessagesWaiting
    BY <1>8 DEF TryPeek, prvCopyDataFromQueue
  <2>3. t \notin S
    BY <2>1, KindsDiffer DEF Looking, ReceiveOps
  <2>4. /\ R \ {t} \subseteq R2 /\ S \ {t} \subseteq S2 /\ xTasksWaitingToSend' = xTasksWaitingToSend
        /\ xTasksWaitingToReceive' # << >> => xTasksWaitingToReceive # << >> /\ \E u : u \in R2 /\ u \notin R
    BY <1>1, <1>2, <2>1, ReceiverLooks DEF WakeReceiver
  <2> HIDE DEF R, R2, S, S2
  <2>5. ASSUME xTasksWaitingToReceive' # << >>, ReadersInv
        PROVE  uxMessagesWaiting' <= Cardinality(R2) + 0
    <3>1. uxMessagesWaiting <= Cardinality(R) + 0
      BY <1>a, <2>4, <2>5
    <3>2. PICK u : u \in R2 /\ u \notin R
      BY <2>4, <2>5
    <3>3. uxMessagesWaiting \in Int /\ uxMessagesWaiting' \in Int /\ uxMessagesWaiting' + 0 <= uxMessagesWaiting + 0 /\ 0 \in Nat
      BY <1>4, <2>1
    <3>4. R \in SUBSET Tasks /\ R2 \in SUBSET Tasks /\ R \ {t} \subseteq R2
      BY <1>3, <2>4
    <3> QED BY <3>1, <3>2, <3>3, <3>4, SupplyPassed, ZenonT(40)
  <2>6. ASSUME xTasksWaitingToSend' # << >>, WritersInv
        PROVE  uxLength - uxMessagesWaiting' <= Cardinality(S2) + 0
    <3>1. uxLength - uxMessagesWaiting <= Cardinality(S) + 0 /\ S \subseteq S2
      BY <1>b, <2>3, <2>4, <2>6
    <3>2. /\ uxLength - uxMessagesWaiting \in Int /\ uxLength - uxMessagesWaiting' \in Int /\ 0 \in Nat
          /\ uxLength - uxMessagesWaiting' + 0 <= uxLength - uxMessagesWaiting + 0
      BY <1>4, <2>1
    <3> QED BY <1>3, <3>1, <3>2, SupplyKept
  <2> QED BY <1>c, <1>d, <2>5, <2>6
<1> QED BY <1>6, <1>7, <1>8

LEMMA ReadersKept ==
    ASSUME IInv, IInv', ReadersInv,
           Demand(xTasksWaitingToReceive, ReceiveOps)' => Demand(xTasksWaitingToReceive, ReceiveOps),
           Looking(ReceiveOps) \subseteq Looking(ReceiveOps)',
           uxMessagesWaiting' + Counted(cTxLock) <= uxMessagesWaiting + Counted(cTxLock)'
    PROVE  ReadersInv'
<1> SUFFICES ASSUME Demand(xTasksWaitingToReceive, ReceiveOps)'
             PROVE  uxMessagesWaiting' <= Cardinality(Looking(ReceiveOps)') + Counted(cTxLock)'
  BY DEF ReadersInv
<1>1. uxMessagesWaiting <= Cardinality(Looking(ReceiveOps)) + Counted(cTxLock)
  BY DEF ReadersInv
<1> QED BY <1>1, SupplyTypes, LookingType, SupplyKept

LEMMA WritersKept ==
    ASSUME IInv, IInv', WritersInv,
           Demand(xTasksWaitingToSend, SendOps)' => Demand(xTasksWaitingToSend, SendOps),
           Looking(SendOps) \subseteq Looking(SendOps)',
           uxLength - uxMessagesWaiting' + Counted(cRxLock) <= uxLength - uxMessagesWaiting + Counted(cRxLock)'
    PROVE  WritersInv'
<1> SUFFICES ASSUME Demand(xTasksWaitingToSend, SendOps)'
             PROVE  uxLength - uxMessagesWaiting' <= Cardinality(Looking(SendOps)') + Counted(cRxLock)'
  BY DEF WritersInv
<1>1. uxLength - uxMessagesWaiting <= Cardinality(Looking(SendOps)) + Counted(cRxLock)
  BY DEF WritersInv
<1> QED BY <1>1, SupplyTypes, LookingType, SupplyKept

LEMMA NothingToTake ==
    ASSUME IInv, IInv'
    PROVE  /\ uxMessagesWaiting' = 0 => ReadersInv'
           /\ uxMessagesWaiting' = uxLength => WritersInv'
<1>1. ASSUME uxMessagesWaiting' = 0  PROVE uxMessagesWaiting' <= Cardinality(Looking(ReceiveOps)') + Counted(cTxLock)'
  BY <1>1, SupplyTypes, LookingType, NoSupply
<1>2. ASSUME uxMessagesWaiting' = uxLength
      PROVE  uxLength - uxMessagesWaiting' <= Cardinality(Looking(SendOps)') + Counted(cRxLock)'
  <2>1. uxLength - uxMessagesWaiting' <= 0
    BY <1>2, SupplyTypes
  <2> QED BY <2>1, SupplyTypes, LookingType, NoSupply
<1> QED BY <1>1, <1>2 DEF ReadersInv, WritersInv

\* The ring and the lock as they were.
LEMMA SupplyUnchanged ==
    ASSUME IInv, IInv', UNCHANGED uxMessagesWaiting
    PROVE  /\ Counted(cTxLock)' = Counted(cTxLock) =>
                uxMessagesWaiting' + Counted(cTxLock) <= uxMessagesWaiting + Counted(cTxLock)'
           /\ Counted(cRxLock)' = Counted(cRxLock) =>
                uxLength - uxMessagesWaiting' + Counted(cRxLock)
                   <= uxLength - uxMessagesWaiting + Counted(cRxLock)'
BY SupplyTypes

\* A task outside the stretch goes on without touching queue or lists; if it
\* was looking, there was nothing for it.
LEMMA FreeKeepsSupply ==
    ASSUME IInv, IInv', NEW t \in Tasks, Runs(t), pc[t] \notin Holding,
           UNCHANGED <<ring, locks, lists, kernel>>,
           \A u \in Tasks \ {t} : pc'[u] = pc[u] /\ op'[u] = op[u],
           pc[t] = "try" => Refused(t)
    PROVE  (ReadersInv => ReadersInv') /\ (WritersInv => WritersInv')
<1>1. xSuspender = NoTask /\ xSuspender' = NoTask /\ t \notin blocked /\ t \notin xPendingReadyList
  BY RunsFree, ListedAreBlocked DEF kernel
<1>2. Looking(ReceiveOps) \ {t} \subseteq Looking(ReceiveOps)' /\ Looking(SendOps) \ {t} \subseteq Looking(SendOps)'
  BY LookingStays DEF kernel
<1>3. /\ Demand(xTasksWaitingToReceive, ReceiveOps)' => Demand(xTasksWaitingToReceive, ReceiveOps)
      /\ Demand(xTasksWaitingToSend, SendOps)' => Demand(xTasksWaitingToSend, SendOps)
  BY <1>1, FreeDemandNext DEF Demand, lists
<1>4. UNCHANGED uxMessagesWaiting /\ Counted(cTxLock)' = Counted(cTxLock) /\ Counted(cRxLock)' = Counted(cRxLock)
  BY DEF ring, locks, Counted
<1>5. uxMessagesWaiting \in 0..uxLength /\ uxLength \in Nat
  BY QueueAssumption DEF IInv, TypeOK
<1>6. ASSUME ReadersInv  PROVE ReadersInv'
  <2>1. CASE t \in Looking(ReceiveOps)
    <3>1. op[t] \in ReceiveOps /\ pc[t] = "try"
      BY <1>1, <2>1 DEF Looking
    <3>2. uxMessagesWaiting' = 0
      BY <1>4, <3>1, KindsDiffer DEF Refused
    <3> QED BY <3>2, NothingToTake
  <2>2. CASE t \notin Looking(ReceiveOps)
    BY <1>2, <1>3, <1>4, <1>6, <2>2, SupplyUnchanged, ReadersKept
  <2> QED BY <2>1, <2>2
<1>7. ASSUME WritersInv  PROVE WritersInv'
  <2>1. CASE t \in Looking(SendOps)
    <3>1. op[t] \in SendOps /\ pc[t] = "try"
      BY <1>1, <2>1 DEF Looking
    <3>2. uxMessagesWaiting' = uxLength
      BY <1>4, <1>5, <3>1 DEF Refused
    <3> QED BY <3>2, NothingToTake
  <2>2. CASE t \notin Looking(SendOps)
    BY <1>2, <1>3, <1>4, <1>7, <2>2, SupplyUnchanged, WritersKept
  <2> QED BY <2>1, <2>2
<1> QED BY <1>6, <1>7

\* The stretch: suspend, lock, check, place, unlock, resume.
LEMMA SuspendLockKeepsSupply ==
    ASSUME IInv, IInv', NEW t \in Tasks, vTaskSuspendAll(t) \/ prvLockQueue(t)
    PROVE  (ReadersInv => ReadersInv') /\ (WritersInv => WritersInv')
<1>1. /\ pc[t] \in {"suspend", "lock"} /\ pc'[t] \in {"lock", "check"}
      /\ \A u \in Tasks \ {t} : pc'[u] = pc[u]
      /\ UNCHANGED <<uxMessagesWaiting, lists, op, blocked, xPendingReadyList>>
  BY GotoChanges DEF vTaskSuspendAll, prvLockQueue, ring, kernel
<1>2. Counted(cTxLock)' = Counted(cTxLock) /\ Counted(cRxLock)' = Counted(cRxLock)
  BY DEF vTaskSuspendAll, prvLockQueue, locks, Locked, Counted, queueUNLOCKED, queueLOCKED_UNMODIFIED
<1>3. t \notin blocked /\ t \notin xPendingReadyList
  BY <1>1, ListedAreBlocked DEF IInv, HolderInv
<1>4. Looking(ReceiveOps) \subseteq Looking(ReceiveOps)' /\ Looking(SendOps) \subseteq Looking(SendOps)'
  <2>1. t \notin Looking(ReceiveOps) /\ t \notin Looking(SendOps)
    BY <1>1, <1>3 DEF Looking
  <2> QED BY <1>1, <2>1, LookingStays
<1>5. /\ Demand(xTasksWaitingToReceive, ReceiveOps)' => Demand(xTasksWaitingToReceive, ReceiveOps)
      /\ Demand(xTasksWaitingToSend, SendOps)' => Demand(xTasksWaitingToSend, SendOps)
  BY <1>1 DEF Demand, lists
<1> QED BY <1>1, <1>2, <1>4, <1>5, SupplyUnchanged, ReadersKept, WritersKept

\* A task that decides to wait has just seen that there is nothing for it.
LEMMA CheckKeepsSupply ==
    ASSUME IInv, IInv', NEW t \in Tasks, CheckForTimeOut(t)
    PROVE  (ReadersInv => ReadersInv') /\ (WritersInv => WritersInv')
<1>1. /\ pc[t] = "check" /\ pc'[t] \in {"place", "unlockTx"} /\ (pc'[t] = "place" => MustWait(t))
      /\ \A u \in Tasks \ {t} : pc'[u] = pc[u]
      /\ UNCHANGED <<uxMessagesWaiting, lists, locks, op, blocked, xPendingReadyList>>
  BY GotoChanges DEF CheckForTimeOut, ring, kernel
<1>2. Counted(cTxLock)' = Counted(cTxLock) /\ Counted(cRxLock)' = Counted(cRxLock)
  BY <1>1 DEF locks, Counted
<1>3. t \notin blocked /\ t \notin xPendingReadyList
  BY <1>1, ListedAreBlocked DEF IInv, HolderInv
<1>4. Looking(ReceiveOps) \subseteq Looking(ReceiveOps)' /\ Looking(SendOps) \subseteq Looking(SendOps)'
  <2>1. t \notin Looking(ReceiveOps) /\ t \notin Looking(SendOps)
    BY <1>1, <1>3 DEF Looking
  <2> QED BY <1>1, <2>1, LookingStays
<1>5. ASSUME ReadersInv  PROVE ReadersInv'
  <2>1. CASE pc'[t] = "place" /\ op[t] \in ReceiveOps
    <3>1. uxMessagesWaiting' = 0
      BY <1>1, <2>1, KindsDiffer DEF MustWait, prvIsQueueEmpty
    <3> QED BY <3>1, NothingToTake
  <2>2. CASE ~(pc'[t] = "place" /\ op[t] \in ReceiveOps)
    <3>1. Demand(xTasksWaitingToReceive, ReceiveOps)' => Demand(xTasksWaitingToReceive, ReceiveOps)
      BY <1>1, <2>2 DEF Demand, lists
    <3> QED BY <1>1, <1>2, <1>4, <1>5, <3>1, SupplyUnchanged, ReadersKept
  <2> QED BY <2>1, <2>2
<1>6. ASSUME WritersInv  PROVE WritersInv'
  <2>1. CASE pc'[t] = "place" /\ op[t] \in SendOps
    <3>1. uxMessagesWaiting' = uxLength
      BY <1>1, <2>1 DEF MustWait, prvIsQueueFull
    <3> QED BY <3>1, NothingToTake
  <2>2. CASE ~(pc'[t] = "place" /\ op[t] \in SendOps)
    <3>1. Demand(xTasksWaitingToSend, SendOps)' => Demand(xTasksWaitingToSend, SendOps)
      BY <1>1, <2>2 DEF Demand, lists
    <3> QED BY <1>1, <1>2, <1>4, <1>6, <3>1, SupplyUnchanged, WritersKept
  <2> QED BY <2>1, <2>2
<1> QED BY <1>5, <1>6

\* Placing itself turns the decision to wait into a place in the list.
LEMMA PlaceKeepsSupply ==
    ASSUME IInv, IInv', NEW t \in Tasks, Place(t)
    PROVE  (ReadersInv => ReadersInv') /\ (WritersInv => WritersInv')
<1>1. /\ pc[t] = "place" /\ pc'[t] = "unlockTx" /\ \A u \in Tasks \ {t} : pc'[u] = pc[u]
      /\ UNCHANGED <<uxMessagesWaiting, locks, op, xPendingReadyList>>
      /\ blocked' = blocked \cup {t}
      /\ op[t] \in SendOps => UNCHANGED xTasksWaitingToReceive
      /\ op[t] \notin SendOps => UNCHANGED xTasksWaitingToSend
  BY GotoChanges DEF Place, ring
<1>2. Counted(cTxLock)' = Counted(cTxLock) /\ Counted(cRxLock)' = Counted(cRxLock)
  BY <1>1 DEF locks, Counted
<1>3. t \notin blocked /\ t \notin xPendingReadyList /\ op[t] \in SendOps \cup ReceiveOps
  BY <1>1, ListedAreBlocked DEF IInv, HolderInv, TypeOK
<1>4. Looking(ReceiveOps) \subseteq Looking(ReceiveOps)' /\ Looking(SendOps) \subseteq Looking(SendOps)'
  <2>1. t \notin Looking(ReceiveOps) /\ t \notin Looking(SendOps)
    BY <1>1, <1>3 DEF Looking
  <2> QED BY <1>1, <2>1, LookingStays
<1>5. /\ Demand(xTasksWaitingToReceive, ReceiveOps)' => Demand(xTasksWaitingToReceive, ReceiveOps)
      /\ Demand(xTasksWaitingToSend, SendOps)' => Demand(xTasksWaitingToSend, SendOps)
  BY <1>1, <1>3 DEF Demand
<1> QED BY <1>1, <1>2, <1>4, <1>5, SupplyUnchanged, ReadersKept, WritersKept

\* Unlocking wakes one task for each call that was counted, as far as there are
\* any.
LEMMA ReleasedAll ==
    ASSUME NEW lock \in Int, NEW s \in Seq(Tasks), NoDuplicates(s),
           SubSeq(s, Released(lock, s) + 1, Len(s)) # << >>
    PROVE  LET k == Released(lock, s) IN
           /\ k = Counted(lock)
           /\ IsFiniteSet({s[i] : i \in 1..k}) /\ Cardinality({s[i] : i \in 1..k}) = k
<1> DEFINE k == Released(lock, s)
<1>0. Len(s) \in Nat /\ DOMAIN s = 1 .. Len(s)
  BY LenProperties
<1>1. k \in 0 .. Len(s)
  BY ReleasedType
<1>2. k # Len(s)
  <2> SUFFICES ASSUME k = Len(s)  PROVE FALSE
    OBVIOUS
  <2> HIDE DEF k
  <2>1. SubSeq(s, k + 1, Len(s)) \in Seq(Tasks) /\ Len(SubSeq(s, k + 1, Len(s))) = 0
    BY <1>0, <1>1, SubSeqProperties
  <2>2. SubSeq(s, k + 1, Len(s)) = << >>
    BY <2>1, EmptySeq
  <2> QED BY <2>2 DEF k
<1>3. k = Counted(lock)
  BY <1>0, <1>1, <1>2 DEF Released, Counted, queueLOCKED_UNMODIFIED
<1>4. k \in Nat /\ 1 .. k \subseteq DOMAIN s
  BY <1>0, <1>1
<1> HIDE DEF k
<1>5. IsFiniteSet({s[i] : i \in 1..k}) /\ Cardinality({s[i] : i \in 1..k}) = k
  BY <1>4, FrontCardinality
<1> QED BY <1>3, <1>5 DEF k

LEMMA UnlockTxKeepsSupply ==
    ASSUME IInv, IInv', WaitersInv, NEW t \in Tasks, UnlockTx(t)
    PROVE  (ReadersInv => ReadersInv') /\ (WritersInv => WritersInv')
<1> DEFINE s == xTasksWaitingToReceive
           k == Released(cTxLock, s)
           F == {s[i] : i \in 1..k}
<1>1. /\ pc[t] = "unlockTx" /\ pc'[t] = "unlockRx" /\ \A u \in Tasks \ {t} : pc'[u] = pc[u]
      /\ UNCHANGED <<uxMessagesWaiting, cRxLock, op, blocked, xTasksWaitingToSend>>
      /\ cTxLock' = queueUNLOCKED
      /\ xPendingReadyList' = xPendingReadyList \cup F
      /\ xTasksWaitingToReceive' = SubSeq(s, k + 1, Len(s))
  BY GotoChanges DEF UnlockTx, ring
<1>2. /\ s \in Seq(Tasks) /\ NoDuplicates(s) /\ cTxLock \in Int /\ k \in 0 .. Len(s)
      /\ uxMessagesWaiting \in Int
  BY QueueAssumption, ReleasedType DEF IInv, TypeOK, BlockedIsListed
<1>3. Counted(cRxLock)' = Counted(cRxLock) /\ Counted(cTxLock)' = 0
  BY <1>1, SupplyTypes DEF Counted, queueLOCKED_UNMODIFIED, queueUNLOCKED
<1>4. Looking(ReceiveOps) \subseteq Looking(ReceiveOps)' /\ Looking(SendOps) \subseteq Looking(SendOps)'
  BY <1>1 DEF Looking
<1>5. /\ Demand(xTasksWaitingToReceive, ReceiveOps)' => xTasksWaitingToReceive' # << >>
      /\ Demand(xTasksWaitingToSend, SendOps)' => Demand(xTasksWaitingToSend, SendOps)
  <2>1. \A u \in Tasks : pc'[u] # "place"
    BY <1>1 DEF IInv, HolderInv, Holding
  <2> QED BY <1>1, <2>1 DEF Demand
<1>6. ASSUME WritersInv  PROVE WritersInv'
  BY <1>1, <1>3, <1>4, <1>5, <1>6, SupplyUnchanged, WritersKept
<1>7. ASSUME ReadersInv, xTasksWaitingToReceive' # << >>
      PROVE  uxMessagesWaiting' <= Cardinality(Looking(ReceiveOps)') + Counted(cTxLock)'
  <2>1. s # << >>
    <3> SUFFICES ASSUME s = << >>  PROVE FALSE
      OBVIOUS
    <3>1. Len(s) = 0 /\ k = 0
      BY <1>2
    <3>2. xTasksWaitingToReceive' = SubSeq(<< >>, 1, 0)
      BY <1>1, <3>1
    <3> QED BY <1>7, <3>2, SubSeqEmpty
  <2>2. uxMessagesWaiting <= Cardinality(Looking(ReceiveOps)) + Counted(cTxLock)
    BY <1>7, <2>1 DEF ReadersInv, Demand
  <2>3. k = Counted(cTxLock) /\ Cardinality(F) = k
    BY <1>1, <1>2, <1>7, ReleasedAll
  <2>4. F \subseteq ToSet(s)
    BY <1>2, DropProperties
  <2> HIDE DEF s, k, F
  <2>5. /\ F \subseteq blocked \ xPendingReadyList /\ \A u \in F : op[u] \in ReceiveOps
        /\ F \in SUBSET Tasks
    BY <2>4, ListedAreBlocked DEF IInv, BlockedIsListed, WaitersInv, ListedInv, s
  <2>6. F \cap Looking(ReceiveOps) = {} /\ F \subseteq Looking(ReceiveOps)'
    BY <1>1, <2>5 DEF Looking
  <2>7. uxMessagesWaiting' + Counted(cTxLock) <= uxMessagesWaiting + Counted(cTxLock)' + Cardinality(F)
    BY <1>1, <1>3, <2>3, SupplyTypes
  <2> QED BY <1>4, <2>2, <2>5, <2>6, <2>7, SupplyTypes, LookingType, SupplyReleased
<1>8. ASSUME ReadersInv  PROVE ReadersInv'
  BY <1>5, <1>7, <1>8 DEF ReadersInv
<1> QED BY <1>6, <1>8

LEMMA UnlockRxKeepsSupply ==
    ASSUME IInv, IInv', WaitersInv, NEW t \in Tasks, UnlockRx(t)
    PROVE  (ReadersInv => ReadersInv') /\ (WritersInv => WritersInv')
<1> DEFINE s == xTasksWaitingToSend
           k == Released(cRxLock, s)
           F == {s[i] : i \in 1..k}
<1>1. /\ pc[t] = "unlockRx" /\ pc'[t] = "resume" /\ \A u \in Tasks \ {t} : pc'[u] = pc[u]
      /\ UNCHANGED <<uxMessagesWaiting, cTxLock, op, blocked, xTasksWaitingToReceive>>
      /\ cRxLock' = queueUNLOCKED
      /\ xPendingReadyList' = xPendingReadyList \cup F
      /\ xTasksWaitingToSend' = SubSeq(s, k + 1, Len(s))
  BY GotoChanges DEF UnlockRx, ring
<1>2. /\ s \in Seq(Tasks) /\ NoDuplicates(s) /\ cRxLock \in Int /\ k \in 0 .. Len(s)
      /\ uxMessagesWaiting \in Int
  BY QueueAssumption, ReleasedType DEF IInv, TypeOK, BlockedIsListed
<1>3. Counted(cTxLock)' = Counted(cTxLock) /\ Counted(cRxLock)' = 0
  BY <1>1, SupplyTypes DEF Counted, queueLOCKED_UNMODIFIED, queueUNLOCKED
<1>4. Looking(ReceiveOps) \subseteq Looking(ReceiveOps)' /\ Looking(SendOps) \subseteq Looking(SendOps)'
  BY <1>1 DEF Looking
<1>5. /\ Demand(xTasksWaitingToSend, SendOps)' => xTasksWaitingToSend' # << >>
      /\ Demand(xTasksWaitingToReceive, ReceiveOps)' => Demand(xTasksWaitingToReceive, ReceiveOps)
  <2>1. \A u \in Tasks : pc'[u] # "place"
    BY <1>1 DEF IInv, HolderInv, Holding
  <2> QED BY <1>1, <2>1 DEF Demand
<1>6. ASSUME ReadersInv  PROVE ReadersInv'
  BY <1>1, <1>3, <1>4, <1>5, <1>6, SupplyUnchanged, ReadersKept
<1>7. ASSUME WritersInv, xTasksWaitingToSend' # << >>
      PROVE  uxLength - uxMessagesWaiting' <= Cardinality(Looking(SendOps)') + Counted(cRxLock)'
  <2>1. s # << >>
    <3> SUFFICES ASSUME s = << >>  PROVE FALSE
      OBVIOUS
    <3>1. Len(s) = 0 /\ k = 0
      BY <1>2
    <3>2. xTasksWaitingToSend' = SubSeq(<< >>, 1, 0)
      BY <1>1, <3>1
    <3> QED BY <1>7, <3>2, SubSeqEmpty
  <2>2. uxLength - uxMessagesWaiting <= Cardinality(Looking(SendOps)) + Counted(cRxLock)
    BY <1>7, <2>1 DEF WritersInv, Demand
  <2>3. k = Counted(cRxLock) /\ Cardinality(F) = k
    BY <1>1, <1>2, <1>7, ReleasedAll
  <2>4. F \subseteq ToSet(s)
    BY <1>2, DropProperties
  <2> HIDE DEF s, k, F
  <2>5. /\ F \subseteq blocked \ xPendingReadyList /\ \A u \in F : op[u] \in SendOps
        /\ F \in SUBSET Tasks
    BY <2>4, ListedAreBlocked DEF IInv, BlockedIsListed, WaitersInv, ListedInv, s
  <2>6. F \cap Looking(SendOps) = {} /\ F \subseteq Looking(SendOps)'
    BY <1>1, <2>5 DEF Looking
  <2>7. uxLength - uxMessagesWaiting' + Counted(cRxLock)
           <= uxLength - uxMessagesWaiting + Counted(cRxLock)' + Cardinality(F)
    BY <1>1, <1>3, <2>3, SupplyTypes
  <2> QED BY <1>4, <2>2, <2>5, <2>6, <2>7, SupplyTypes, LookingType, SupplyReleased
<1>8. ASSUME WritersInv  PROVE WritersInv'
  BY <1>5, <1>7, <1>8 DEF WritersInv
<1> QED BY <1>6, <1>8

\* The tasks of the pending list are made ready at the top of the loop.
LEMMA ResumeKeepsSupply ==
    ASSUME IInv, IInv', WaitersInv, NEW t \in Tasks, xTaskResumeAll(t)
    PROVE  (ReadersInv => ReadersInv') /\ (WritersInv => WritersInv')
<1>1. /\ pc[t] = "resume" /\ pc'[t] = (IF TimedOut(t) THEN "recheck" ELSE "try")
      /\ \A u \in Tasks \ {t} : pc'[u] = pc[u]
      /\ UNCHANGED <<uxMessagesWaiting, locks, lists, op>>
      /\ blocked' = blocked \ xPendingReadyList /\ xSuspender' = NoTask
  BY GotoChanges DEF xTaskResumeAll, ring
<1>2. Counted(cTxLock)' = Counted(cTxLock) /\ Counted(cRxLock)' = Counted(cRxLock)
  BY <1>1 DEF locks, Counted
<1>3. \A u \in xPendingReadyList : u \in blocked /\ (u # t => pc[u] = "try") /\ (u = t => ~TimedOut(t))
  <2>1. \A u \in Tasks \ {t} : pc[u] \notin Holding
    BY <1>1 DEF IInv, HolderInv, Holding
  <2> QED BY <1>1, <2>1, ListedAreBlocked DEF WaitersInv, ListedInv, Holding
<1>4. Looking(ReceiveOps) \subseteq Looking(ReceiveOps)' /\ Looking(SendOps) \subseteq Looking(SendOps)'
  BY <1>1, <1>3 DEF Looking
<1>5. /\ Demand(xTasksWaitingToReceive, ReceiveOps)' => Demand(xTasksWaitingToReceive, ReceiveOps)
      /\ Demand(xTasksWaitingToSend, SendOps)' => Demand(xTasksWaitingToSend, SendOps)
  BY <1>1, FreeDemandNext DEF Demand, lists
<1> QED BY <1>1, <1>2, <1>4, <1>5, SupplyUnchanged, ReadersKept, WritersKept

\* A task whose wait timed out looks once more.
LEMMA TickKeepsSupply ==
    ASSUME IInv, IInv', WaitersInv, NEW t \in Tasks, Elapse(t) \/ TickWakes(t)
    PROVE  (ReadersInv => ReadersInv') /\ (WritersInv => WritersInv')
<1>1. /\ UNCHANGED <<pc, op, uxMessagesWaiting, locks, xPendingReadyList>>
      /\ blocked' \subseteq blocked /\ xSuspender = NoTask /\ xSuspender' = NoTask
  BY DEF Elapse, TickWakes, ring, kernel, calls
<1>2. Counted(cTxLock)' = Counted(cTxLock) /\ Counted(cRxLock)' = Counted(cRxLock)
  BY <1>1 DEF locks, Counted
<1>3. xTasksWaitingToReceive' # << >> => xTasksWaitingToReceive # << >>
  BY DEF Elapse, TickWakes, lists, Without, ToSet
<1>4. xTasksWaitingToSend' # << >> => xTasksWaitingToSend # << >>
  BY DEF Elapse, TickWakes, lists, Without, ToSet
<1>5. Looking(ReceiveOps) \subseteq Looking(ReceiveOps)' /\ Looking(SendOps) \subseteq Looking(SendOps)'
  BY <1>1 DEF Looking
<1>6. /\ Demand(xTasksWaitingToReceive, ReceiveOps)' => Demand(xTasksWaitingToReceive, ReceiveOps)
      /\ Demand(xTasksWaitingToSend, SendOps)' => Demand(xTasksWaitingToSend, SendOps)
  BY <1>1, <1>3, <1>4, FreeDemandNext DEF Demand
<1> QED BY <1>1, <1>2, <1>5, <1>6, SupplyUnchanged, ReadersKept, WritersKept

\* An unlocked queue has no task that has decided to wait and is not in a list.
LEMMA UnlockedDemand ==
    ASSUME IInv, WaitersInv
    PROVE  /\ cTxLock = queueUNLOCKED => \A t \in Tasks : pc[t] # "place"
           /\ cRxLock = queueUNLOCKED => \A t \in Tasks : pc[t] # "place"
BY DEF WaitersInv, LockingInv, Locking

\* A step of an interrupt, or of a reset, on an unlocked queue: the task that is
\* woken makes up for the item, or the place, that is new.
LEMMA WakeReceiverSupplies ==
    ASSUME IInv, IInv', WaitersInv, ReadersInv, WakeReceiver, UNCHANGED calls,
           cTxLock = queueUNLOCKED, cTxLock' = queueUNLOCKED,
           uxMessagesWaiting' <= uxMessagesWaiting + 1
    PROVE  ReadersInv'
<1>1. /\ Looking(ReceiveOps) \subseteq Looking(ReceiveOps)'
      /\ xTasksWaitingToReceive' # << >> =>
            /\ xTasksWaitingToReceive # << >>
            /\ \E u : u \in Looking(ReceiveOps)' /\ u \notin Looking(ReceiveOps)
  <2>1. NoTask \notin blocked /\ NoTask \notin Looking(ReceiveOps)
    BY ListedAreBlocked, QueueAssumption DEF Looking
  <2> QED BY <2>1, ReceiverLooks DEF calls
<1>2. Demand(xTasksWaitingToReceive, ReceiveOps)' => xTasksWaitingToReceive' # << >>
  BY UnlockedDemand DEF Demand, calls
<1>3. ASSUME xTasksWaitingToReceive' # << >>
      PROVE  uxMessagesWaiting' <= Cardinality(Looking(ReceiveOps)') + Counted(cTxLock)'
  <2>1. uxMessagesWaiting <= Cardinality(Looking(ReceiveOps)) + Counted(cTxLock)
    BY <1>1, <1>3 DEF ReadersInv, Demand
  <2>2. PICK u : u \in Looking(ReceiveOps)' /\ u \notin Looking(ReceiveOps)
    BY <1>1, <1>3
  <2>3. uxMessagesWaiting' + Counted(cTxLock) <= uxMessagesWaiting + Counted(cTxLock)' + 1
    BY SupplyTypes DEF Counted
  <2> QED BY <1>1, <2>1, <2>2, <2>3, SupplyTypes, LookingType, SupplyWoken
<1> QED BY <1>2, <1>3 DEF ReadersInv

LEMMA WakeSenderSupplies ==
    ASSUME IInv, IInv', WaitersInv, WritersInv, WakeSender, UNCHANGED calls,
           cRxLock = queueUNLOCKED, cRxLock' = queueUNLOCKED,
           uxMessagesWaiting' >= uxMessagesWaiting - 1
    PROVE  WritersInv'
<1>1. /\ Looking(SendOps) \subseteq Looking(SendOps)'
      /\ xTasksWaitingToSend' # << >> =>
            /\ xTasksWaitingToSend # << >>
            /\ \E u : u \in Looking(SendOps)' /\ u \notin Looking(SendOps)
  <2>1. NoTask \notin blocked /\ NoTask \notin Looking(SendOps)
    BY ListedAreBlocked, QueueAssumption DEF Looking
  <2> QED BY <2>1, SenderLooks DEF calls
<1>2. Demand(xTasksWaitingToSend, SendOps)' => xTasksWaitingToSend' # << >>
  BY UnlockedDemand DEF Demand, calls
<1>3. ASSUME xTasksWaitingToSend' # << >>
      PROVE  uxLength - uxMessagesWaiting' <= Cardinality(Looking(SendOps)') + Counted(cRxLock)'
  <2>1. uxLength - uxMessagesWaiting <= Cardinality(Looking(SendOps)) + Counted(cRxLock)
    BY <1>1, <1>3 DEF WritersInv, Demand
  <2>2. PICK u : u \in Looking(SendOps)' /\ u \notin Looking(SendOps)
    BY <1>1, <1>3
  <2>3. uxLength - uxMessagesWaiting' + Counted(cRxLock)
           <= uxLength - uxMessagesWaiting + Counted(cRxLock)' + 1
    BY SupplyTypes DEF Counted
  <2> QED BY <1>1, <2>1, <2>2, <2>3, SupplyTypes, LookingType, SupplyWoken
<1> QED BY <1>2, <1>3 DEF WritersInv

\* Waking the readers, or the writers, takes nothing from the other side.
LEMMA WakeKeepsOthers ==
    ASSUME IInv, IInv', WaitersInv, UNCHANGED calls
    PROVE  /\ WakeReceiver => /\ Looking(SendOps) \subseteq Looking(SendOps)'
                              /\ UNCHANGED xTasksWaitingToSend
           /\ WakeSender =>   /\ Looking(ReceiveOps) \subseteq Looking(ReceiveOps)'
                              /\ UNCHANGED xTasksWaitingToReceive
<1>1. NoTask \notin blocked /\ NoTask \notin Looking(ReceiveOps) /\ NoTask \notin Looking(SendOps)
  BY ListedAreBlocked, QueueAssumption DEF Looking
<1>2. ASSUME WakeReceiver
      PROVE  Looking(SendOps) \subseteq Looking(SendOps)' /\ UNCHANGED xTasksWaitingToSend
  BY <1>1, <1>2, ReceiverLooks DEF calls, WakeReceiver
<1>3. ASSUME WakeSender
      PROVE  Looking(ReceiveOps) \subseteq Looking(ReceiveOps)' /\ UNCHANGED xTasksWaitingToReceive
  BY <1>1, <1>3, SenderLooks DEF calls, WakeSender
<1> QED BY <1>2, <1>3

\* A count of the lock below the bound does not wrap.
LEMMA IncrementedCounts ==
    ASSUME IsrBound <= INT8_MAX, IInv
    PROVE  /\ cTxLock # queueUNLOCKED /\ cTxLock < IsrBound =>
                 Counted(Incremented(cTxLock)) = Counted(cTxLock) + 1
           /\ cRxLock # queueUNLOCKED /\ cRxLock < IsrBound =>
                 Counted(Incremented(cRxLock)) = Counted(cRxLock) + 1
<1>1. cTxLock \in -1..INT8_MAX /\ cRxLock \in -1..INT8_MAX
  BY DEF IInv, TypeOK
<1>2. ASSUME NEW lock \in -1..INT8_MAX, lock # queueUNLOCKED, lock < IsrBound
      PROVE  Counted(Incremented(lock)) = Counted(lock) + 1
  BY <1>2, QueueAssumption DEF Counted, Incremented, queueUNLOCKED, queueLOCKED_UNMODIFIED
<1> QED BY <1>1, <1>2

LEMMA SendFromISRKeepsSupply ==
    ASSUME IsrBound <= INT8_MAX, IInv, IInv', WaitersInv, NEW where \in SendOps, SendFromISR(where)
    PROVE  (ReadersInv => ReadersInv') /\ (WritersInv => WritersInv')
<1>1. /\ uxMessagesWaiting' = uxMessagesWaiting + 1 \/ uxMessagesWaiting' = uxMessagesWaiting
      /\ UNCHANGED <<cRxLock, calls>>
  <2>1. PICK x \in Items : prvCopyDataToQueue(x, where)
    BY DEF SendFromISR
  <2> QED BY <2>1 DEF SendFromISR, prvCopyDataToQueue, CountIn
<1>2. Counted(cRxLock)' = Counted(cRxLock)
  BY <1>1 DEF Counted
<1>3. /\ uxMessagesWaiting' <= uxMessagesWaiting + 1
      /\ uxLength - uxMessagesWaiting' + Counted(cRxLock)
            <= uxLength - uxMessagesWaiting + Counted(cRxLock)'
  BY <1>1, <1>2, SupplyTypes
<1>4. CASE cTxLock = queueUNLOCKED
  <2>1. WakeReceiver /\ UNCHANGED cTxLock
    BY <1>4 DEF SendFromISR
  <2>2. ReadersInv => ReadersInv'
    BY <1>1, <1>3, <1>4, <2>1, WakeReceiverSupplies
  <2>3. /\ Looking(SendOps) \subseteq Looking(SendOps)'
        /\ Demand(xTasksWaitingToSend, SendOps)' => Demand(xTasksWaitingToSend, SendOps)
    BY <1>1, <2>1, WakeKeepsOthers DEF Demand, calls
  <2>4. WritersInv => WritersInv'
    BY <1>3, <2>3, WritersKept
  <2> QED BY <2>2, <2>4
<1>5. CASE cTxLock # queueUNLOCKED
  <2>1. cTxLock' = Incremented(cTxLock) /\ UNCHANGED <<lists, kernel>> /\ cTxLock < IsrBound
    BY <1>5 DEF SendFromISR
  <2>2. Looking(ReceiveOps) \subseteq Looking(ReceiveOps)' /\ Looking(SendOps) \subseteq Looking(SendOps)'
    BY <1>1, <2>1 DEF Looking, calls, kernel
  <2>3. /\ Demand(xTasksWaitingToReceive, ReceiveOps)' => Demand(xTasksWaitingToReceive, ReceiveOps)
        /\ Demand(xTasksWaitingToSend, SendOps)' => Demand(xTasksWaitingToSend, SendOps)
    BY <1>1, <2>1 DEF Demand, calls, lists
  <2>4. Counted(cTxLock)' = Counted(cTxLock) + 1
    BY <1>5, <2>1, IncrementedCounts DEF Counted
  <2>5. uxMessagesWaiting' + Counted(cTxLock) <= uxMessagesWaiting + Counted(cTxLock)'
    BY <1>3, <2>4, SupplyTypes
  <2> QED BY <1>3, <2>2, <2>3, <2>5, ReadersKept, WritersKept
<1> QED BY <1>4, <1>5

LEMMA ReceiveFromISRKeepsSupply ==
    ASSUME IsrBound <= INT8_MAX, IInv, IInv', WaitersInv, ReceiveFromISR
    PROVE  (ReadersInv => ReadersInv') /\ (WritersInv => WritersInv')
<1>1. uxMessagesWaiting' = uxMessagesWaiting - 1 /\ UNCHANGED <<cTxLock, calls>>
  BY DEF ReceiveFromISR, prvCopyDataFromQueue
<1>2. Counted(cTxLock)' = Counted(cTxLock)
  BY <1>1 DEF Counted
<1>3. /\ uxMessagesWaiting' >= uxMessagesWaiting - 1
      /\ uxMessagesWaiting' + Counted(cTxLock) <= uxMessagesWaiting + Counted(cTxLock)'
  BY <1>1, <1>2, SupplyTypes
<1>4. CASE cRxLock = queueUNLOCKED
  <2>1. WakeSender /\ UNCHANGED cRxLock
    BY <1>4 DEF ReceiveFromISR
  <2>2. WritersInv => WritersInv'
    BY <1>1, <1>3, <1>4, <2>1, WakeSenderSupplies
  <2>3. /\ Looking(ReceiveOps) \subseteq Looking(ReceiveOps)'
        /\ Demand(xTasksWaitingToReceive, ReceiveOps)' => Demand(xTasksWaitingToReceive, ReceiveOps)
    BY <1>1, <2>1, WakeKeepsOthers DEF Demand, calls
  <2>4. ReadersInv => ReadersInv'
    BY <1>3, <2>3, ReadersKept
  <2> QED BY <2>2, <2>4
<1>5. CASE cRxLock # queueUNLOCKED
  <2>1. cRxLock' = Incremented(cRxLock) /\ UNCHANGED <<lists, kernel>> /\ cRxLock < IsrBound
    BY <1>5 DEF ReceiveFromISR
  <2>2. Looking(ReceiveOps) \subseteq Looking(ReceiveOps)' /\ Looking(SendOps) \subseteq Looking(SendOps)'
    BY <1>1, <2>1 DEF Looking, calls, kernel
  <2>3. /\ Demand(xTasksWaitingToReceive, ReceiveOps)' => Demand(xTasksWaitingToReceive, ReceiveOps)
        /\ Demand(xTasksWaitingToSend, SendOps)' => Demand(xTasksWaitingToSend, SendOps)
    BY <1>1, <2>1 DEF Demand, calls, lists
  <2>4. Counted(cRxLock)' = Counted(cRxLock) + 1
    BY <1>5, <2>1, IncrementedCounts DEF Counted
  <2>5. uxLength - uxMessagesWaiting' + Counted(cRxLock)
           <= uxLength - uxMessagesWaiting + Counted(cRxLock)'
    BY <1>1, <2>4, SupplyTypes
  <2> QED BY <1>3, <2>2, <2>3, <2>5, ReadersKept, WritersKept
<1> QED BY <1>4, <1>5

\* A step of a task.
LEMMA StepKeepsSupply ==
    ASSUME IInv, IInv', WaitersInv, NEW t \in Tasks, Step(t) \/ Call(t)
    PROVE  (ReadersInv => ReadersInv') /\ (WritersInv => WritersInv')
<1> DEFINE Goal == (ReadersInv => ReadersInv') /\ (WritersInv => WritersInv')
<1>1. CASE TrySend(t) \/ TryReceive(t) \/ TryPeek(t)
  BY <1>1, TryKeepsSupply
<1>2. CASE vTaskSuspendAll(t) \/ prvLockQueue(t)
  BY <1>2, SuspendLockKeepsSupply
<1>3. CASE CheckForTimeOut(t)
  BY <1>3, CheckKeepsSupply
<1>4. CASE Place(t)
  BY <1>4, PlaceKeepsSupply
<1>5. CASE UnlockTx(t)
  BY <1>5, UnlockTxKeepsSupply
<1>6. CASE UnlockRx(t)
  BY <1>6, UnlockRxKeepsSupply
<1>7. CASE xTaskResumeAll(t)
  BY <1>7, ResumeKeepsSupply
<1>8. CASE TryFails(t) \/ Recheck(t) \/ Call(t)
  <2>1. /\ Runs(t) /\ pc[t] \notin Holding /\ UNCHANGED <<ring, locks, lists, kernel>>
        /\ pc[t] = "try" => Refused(t)
    BY <1>8 DEF TryFails, Recheck, Call, Holding
  <2>2. \A u \in Tasks \ {t} : pc'[u] = pc[u] /\ op'[u] = op[u]
    <3>1. CASE TryFails(t) \/ Recheck(t)
      BY <3>1, EndCallChanges, GotoChanges DEF TryFails, Recheck
    <3>2. CASE Call(t)
      BY <3>2, GotoChanges DEF Call, IInv, TypeOK
    <3> QED BY <1>8, <3>1, <3>2
  <2> QED BY <2>1, <2>2, FreeKeepsSupply
<1> QED BY <1>1, <1>2, <1>3, <1>4, <1>5, <1>6, <1>7, <1>8 DEF Step

LEMMA NextKeepsSupply ==
    ASSUME IsrBound <= INT8_MAX, IInv, IInv', WaitersInv, [Next]_vars
    PROVE  /\ ReadersInv => ReadersInv'
           /\ (\A t \in Tasks : "reset" \notin OpsOf[t]) => (WritersInv => WritersInv')
<1>1. CASE UNCHANGED vars
  BY <1>1 DEF ReadersInv, WritersInv, Demand, Looking, Counted, vars, ring, locks, lists, calls, kernel
<1>2. ASSUME NEW t \in Tasks, Step(t) \/ Call(t)
      PROVE  (ReadersInv => ReadersInv') /\ (WritersInv => WritersInv')
  BY <1>2, StepKeepsSupply
<1>3. ASSUME NEW t \in Tasks, Elapse(t) \/ TickWakes(t)
      PROVE  (ReadersInv => ReadersInv') /\ (WritersInv => WritersInv')
  BY <1>3, TickKeepsSupply
<1>4. ASSUME NEW t \in Tasks, Reset(t)  PROVE ReadersInv' /\ "reset" \in OpsOf[t]
  BY <1>4, NothingToTake DEF Reset
<1>5. ASSUME NEW where \in SendOps, SendFromISR(where)
      PROVE  (ReadersInv => ReadersInv') /\ (WritersInv => WritersInv')
  BY <1>5, SendFromISRKeepsSupply
<1>6. CASE ReceiveFromISR
  BY <1>6, ReceiveFromISRKeepsSupply
<1> QED BY <1>1, <1>2, <1>3, <1>4, <1>5, <1>6 DEF Next

LEMMA InitSupply == Init => WaitersInv /\ ReadersInv /\ WritersInv
<1> SUFFICES ASSUME Init  PROVE WaitersInv /\ ReadersInv /\ WritersInv
  OBVIOUS
<1>1. WaitersInv
  BY DEF Init, WaitersInv, ListedInv, LockingInv, Locking, ToSet
<1>2. ReadersInv /\ WritersInv
  BY DEF Init, ReadersInv, WritersInv, Demand
<1> QED BY <1>1, <1>2

\* No reader sleeps over an item, for every set of tasks and whatever interrupts
\* do between the test for an empty queue and the unlocking.
THEOREM NoReaderMissesAnItem ==
    ASSUME IsrBound <= INT8_MAX
    PROVE  Spec => []EveryItemHasAReader
<1>1. Init => WaitersInv /\ ReadersInv
  BY InitSupply
<1>2. IInv /\ IInv' /\ WaitersInv /\ ReadersInv /\ [Next]_vars => WaitersInv' /\ ReadersInv'
  BY NextKeepsWaiters, NextKeepsSupply
<1>3. ReadersInv => EveryItemHasAReader
  BY DEF ReadersInv, EveryItemHasAReader, Demand
<1> QED BY <1>1, <1>2, <1>3, Invariance, PTL DEF Spec

\* No writer sleeps over a free place, unless the queue is reset.
THEOREM NoWriterMissesAPlace ==
    ASSUME IsrBound <= INT8_MAX, \A t \in Tasks : "reset" \notin OpsOf[t]
    PROVE  Spec => []EveryPlaceHasAWriter
<1>1. Init => WaitersInv /\ WritersInv
  BY InitSupply
<1>2. IInv /\ IInv' /\ WaitersInv /\ WritersInv /\ [Next]_vars => WaitersInv' /\ WritersInv'
  BY NextKeepsWaiters, NextKeepsSupply
<1>3. WritersInv => EveryPlaceHasAWriter
  BY DEF WritersInv, EveryPlaceHasAWriter, Demand
<1> QED BY <1>1, <1>2, <1>3, Invariance, PTL DEF Spec
-----------------------------------------------------------------------------
(* The ring is a bounded FIFO. *)

\* The slot of the i-th item when r is the slot before the first.
At(r, i) == IF r + i >= uxLength THEN r + i - uxLength ELSE r + i

InRing(s, r, m) == [i \in 1..m |-> s[At(r, i)]]

\* The write pointer is behind the last item.
RingInv ==
    uxItemSize # 0 =>
        pcWriteTo = At(pcReadFrom, IF uxMessagesWaiting = uxLength THEN 1 ELSE uxMessagesWaiting + 1)

LEMMA AtProperties ==
    ASSUME NEW r \in Slots
    PROVE  /\ \A i \in 1..uxLength : At(r, i) \in Slots
           /\ At(r, 1) = Next1(r) /\ At(r, uxLength) = r /\ At(Prev1(r), 1) = r
           /\ \A i, j \in 1..uxLength : At(r, i) = At(r, j) => i = j
           /\ \A i \in 1..uxLength - 1 : /\ Next1(At(r, i)) = At(r, i + 1)
                                         /\ At(Next1(r), i) = At(r, i + 1)
                                         /\ At(Prev1(r), i + 1) = At(r, i)
<1>1. r \in Nat /\ r < uxLength /\ uxLength \in Nat \ {0}
  BY QueueAssumption DEF Slots
<1>2. \A i \in 1..uxLength : At(r, i) \in Slots
  BY <1>1 DEF At, Slots
<1>3. At(r, 1) = Next1(r) /\ At(r, uxLength) = r
  BY <1>1 DEF At, Next1
<1>4. At(Prev1(r), 1) = r
  BY <1>1 DEF At, Prev1
<1>5. \A i, j \in 1..uxLength : At(r, i) = At(r, j) => i = j
  BY <1>1 DEF At
<1>6. \A i \in 1..uxLength - 1 : Next1(At(r, i)) = At(r, i + 1)
  BY <1>1 DEF At, Next1
<1>7. \A i \in 1..uxLength - 1 : At(Next1(r), i) = At(r, i + 1)
  BY <1>1 DEF At, Next1
<1>8. \A i \in 1..uxLength - 1 : At(Prev1(r), i + 1) = At(r, i)
  BY <1>1 DEF At, Prev1
<1> QED BY <1>2, <1>3, <1>4, <1>5, <1>6, <1>7, <1>8

LEMMA InRingType ==
    ASSUME NEW s \in [Slots -> Items], NEW r \in Slots, NEW m \in 0..uxLength
    PROVE  /\ InRing(s, r, m) \in Seq(Items) /\ Len(InRing(s, r, m)) = m
           /\ \A i \in 1..m : InRing(s, r, m)[i] = s[At(r, i)] /\ At(r, i) \in Slots
<1>1. \A i \in 1..m : At(r, i) \in Slots
  BY AtProperties, QueueAssumption
<1> QED BY <1>1, QueueAssumption DEF InRing

LEMMA ContentsInRing ==
    /\ Contents = InRing(storage, pcReadFrom, uxMessagesWaiting)
    /\ Contents' = InRing(storage', pcReadFrom', uxMessagesWaiting')
BY DEF Contents, InRing, At

\* What the two copies do to the ring.
LEMMA BackAppends ==
    ASSUME NEW s \in [Slots -> Items], NEW r \in Slots, NEW m \in 0..uxLength - 1, NEW x \in Items
    PROVE  LET s2 == [s EXCEPT ![At(r, m + 1)] = x] IN
           InRing(s2, r, m + 1) = Append(InRing(s, r, m), x)
<1> DEFINE s2 == [s EXCEPT ![At(r, m + 1)] = x]
           a == InRing(s2, r, m + 1)
           b == Append(InRing(s, r, m), x)
<1>0. m \in 0..uxLength /\ m + 1 \in 0..uxLength /\ m \in Nat /\ m + 1 \in 1..uxLength
  BY QueueAssumption
<1>1. At(r, m + 1) \in Slots
  BY <1>0, AtProperties
<1>2. s2 \in [Slots -> Items] /\ s2[At(r, m + 1)] = x
      /\ \A i \in 1..m : s2[At(r, i)] = s[At(r, i)]
  <2>1. \A i \in 1..m : i \in 1..uxLength /\ At(r, i) \in Slots /\ At(r, i) # At(r, m + 1)
    <3>1. \A i \in 1..m : i \in 1..uxLength /\ i # m + 1
      BY QueueAssumption
    <3>2. \A i \in 1..uxLength : At(r, i) \in Slots
      BY AtProperties
    <3>3. \A i \in 1..uxLength : At(r, i) = At(r, m + 1) => i = m + 1
      BY <1>0, AtProperties
    <3> QED BY <3>1, <3>2, <3>3
  <2> QED BY <1>1, <2>1
<1> HIDE DEF s2
<1>3. /\ a \in Seq(Items) /\ Len(a) = m + 1 /\ \A i \in 1..m + 1 : a[i] = s2[At(r, i)]
      /\ InRing(s, r, m) \in Seq(Items) /\ Len(InRing(s, r, m)) = m
      /\ \A i \in 1..m : InRing(s, r, m)[i] = s[At(r, i)]
  <2>1. s2 \in [Slots -> Items]
    BY <1>2
  <2> QED BY <1>0, <2>1, InRingType
<1> HIDE DEF a
<1>4. /\ b \in Seq(Items) /\ Len(b) = m + 1 /\ b[m + 1] = x
      /\ \A i \in 1..m : b[i] = s[At(r, i)]
  BY <1>3, AppendProperties
<1> HIDE DEF b
<1>5. \A i \in 1..m + 1 : i \in 1..m \/ i = m + 1
  BY <1>0
<1>6. \A i \in 1..m + 1 : a[i] = b[i]
  BY <1>2, <1>3, <1>4, <1>5
<1>7. a = b
  BY <1>3, <1>4, <1>6, SeqEqual
<1> QED BY <1>7 DEF a, b, s2

LEMMA FrontPrepends ==
    ASSUME NEW s \in [Slots -> Items], NEW r \in Slots, NEW m \in 0..uxLength - 1, NEW x \in Items
    PROVE  LET s2 == [s EXCEPT ![r] = x] IN
           InRing(s2, Prev1(r), m + 1) = <<x>> \o InRing(s, r, m)
<1> DEFINE s2 == [s EXCEPT ![r] = x]
           a == InRing(s2, Prev1(r), m + 1)
           c == InRing(s, r, m)
           b == <<x>> \o c
<1>0. m \in 0..uxLength /\ m + 1 \in 0..uxLength /\ m \in Nat /\ uxLength \in 1..uxLength
  BY QueueAssumption
<1>1. Prev1(r) \in Slots /\ At(Prev1(r), 1) = r
  BY SlotType, AtProperties
<1>2. \A i \in 1..m : At(Prev1(r), i + 1) = At(r, i) /\ At(r, i) \in Slots /\ At(r, i) # r
  <2>1. \A i \in 1..m : i \in 1..uxLength - 1 /\ i \in 1..uxLength /\ i # uxLength
    BY QueueAssumption
  <2>2. \A i \in 1..uxLength - 1 : At(Prev1(r), i + 1) = At(r, i)
    BY AtProperties
  <2>3. At(r, uxLength) = r /\ \A i \in 1..uxLength : At(r, i) \in Slots
    BY AtProperties
  <2>4. \A i \in 1..uxLength : At(r, i) = At(r, uxLength) => i = uxLength
    BY <1>0, AtProperties
  <2> QED BY <2>1, <2>2, <2>3, <2>4
<1>3. s2 \in [Slots -> Items] /\ s2[r] = x /\ \A i \in 1..m : s2[At(r, i)] = s[At(r, i)]
  BY <1>2
<1> HIDE DEF s2
<1>4. /\ a \in Seq(Items) /\ Len(a) = m + 1 /\ \A i \in 1..m + 1 : a[i] = s2[At(Prev1(r), i)]
      /\ c \in Seq(Items) /\ Len(c) = m /\ \A i \in 1..m : c[i] = s[At(r, i)]
  BY <1>0, <1>1, <1>3, InRingType
<1> HIDE DEF a, c
<1>5. <<x>> \in Seq(Items) /\ Len(<<x>>) = 1 /\ <<x>>[1] = x
  OBVIOUS
<1>6. /\ b \in Seq(Items) /\ Len(b) = m + 1
      /\ \A i \in 1..m + 1 : b[i] = IF i <= 1 THEN x ELSE c[i - 1]
  <2>1. /\ b \in Seq(Items) /\ Len(b) = 1 + m
        /\ \A i \in 1..1 + m : b[i] = IF i <= 1 THEN <<x>>[i] ELSE c[i - 1]
    BY <1>4, <1>5, ConcatProperties
  <2>2. \A i \in 1..m + 1 : i <= 1 => i = 1
    BY <1>0
  <2> HIDE DEF b
  <2> QED BY <1>0, <1>5, <2>1, <2>2
<1> HIDE DEF b
<1>7. ASSUME NEW i \in 1..m + 1  PROVE a[i] = b[i]
  <2>1. CASE i = 1
    BY <1>0, <1>1, <1>3, <1>4, <1>6, <2>1
  <2>2. CASE i # 1
    <3>1. PICK j \in 1..m : i = j + 1
      <4>1. i - 1 \in 1..m /\ i = (i - 1) + 1
        BY <1>0, <2>2
      <4> QED BY <4>1
    <3>2. a[i] = s[At(r, j)]
      BY <1>2, <1>3, <1>4, <3>1
    <3>3. b[i] = c[j]
      BY <1>0, <1>6, <3>1
    <3> QED BY <1>4, <3>2, <3>3
  <2> QED BY <2>1, <2>2
<1>8. a = b
  BY <1>4, <1>6, <1>7, SeqEqual
<1> QED BY <1>8 DEF a, b, c, s2

LEMMA ReceiveTakesFirst ==
    ASSUME NEW s \in [Slots -> Items], NEW r \in Slots, NEW m \in 1..uxLength
    PROVE  LET c == InRing(s, r, m) IN
           c # << >> /\ Head(c) = s[Next1(r)] /\ Tail(c) = InRing(s, Next1(r), m - 1)
<1> DEFINE c == InRing(s, r, m)
           a == InRing(s, Next1(r), m - 1)
<1>0. m \in 0..uxLength /\ m - 1 \in 0..uxLength /\ m \in Nat \ {0} /\ Next1(r) \in Slots
  BY QueueAssumption, SlotType
<1>1. /\ c \in Seq(Items) /\ Len(c) = m /\ \A i \in 1..m : c[i] = s[At(r, i)]
      /\ a \in Seq(Items) /\ Len(a) = m - 1 /\ \A i \in 1..m - 1 : a[i] = s[At(Next1(r), i)]
  BY <1>0, InRingType
<1> HIDE DEF a, c
<1>2. c # << >> /\ Head(c) = c[1]
  BY <1>0, <1>1, EmptySeq
<1>3. Head(c) = s[Next1(r)]
  BY <1>0, <1>1, <1>2, AtProperties
<1>4. /\ Tail(c) \in Seq(Items) /\ Len(Tail(c)) = m - 1
      /\ \A i \in 1..m - 1 : Tail(c)[i] = c[i + 1]
  BY <1>1, <1>2, HeadTailProperties
<1>5. ASSUME NEW i \in 1..m - 1  PROVE a[i] = Tail(c)[i]
  <2>1. i \in 1..uxLength - 1 /\ i + 1 \in 1..m
    BY <1>0, QueueAssumption
  <2>2. At(Next1(r), i) = At(r, i + 1)
    BY <2>1, AtProperties
  <2> QED BY <1>1, <1>4, <2>1, <2>2
<1>6. Tail(c) = a
  BY <1>1, <1>4, <1>5, SeqEqual
<1> QED BY <1>2, <1>3, <1>6 DEF a, c

\* An item that is put in.
LEMMA CopyInImplements ==
    ASSUME RingType, RingInv, uxItemSize # 0, NEW x \in Items, NEW where \in SendOps,
           uxMessagesWaiting < uxLength \/ (where = "overwrite" /\ uxLength = 1),
           where = "overwrite" => uxLength = 1,
           prvCopyDataToQueue(x, where)
    PROVE  RingInv' /\ (Fifo!PushBack(x) \/ Fifo!PushFront(x) \/ Fifo!Overwrite(x))
<1>1. /\ storage \in [Slots -> Items] /\ pcWriteTo \in Slots /\ pcReadFrom \in Slots
      /\ uxMessagesWaiting \in 0..uxLength /\ uxLength \in Nat \ {0}
      /\ last' = <<where, x>>
  BY QueueAssumption DEF RingType, prvCopyDataToQueue
<1> DEFINE r == pcReadFrom
           m == uxMessagesWaiting
<1>a. Contents = InRing(storage, r, m) /\ Len(Contents) = m
  BY <1>1, ContentsInRing, InRingType
<1>2. CASE where = "back"
  <2>1. /\ m \in 0..uxLength - 1 /\ uxMessagesWaiting' = m + 1
        /\ m + 1 \in 1..uxLength
        /\ pcWriteTo = At(r, m + 1) /\ pcReadFrom' = r
        /\ storage' = [storage EXCEPT ![At(r, m + 1)] = x] /\ pcWriteTo' = Next1(At(r, m + 1))
    <3>1. m < uxLength
      BY <1>2
    <3>2. m \in 0..uxLength - 1 /\ m + 1 \in 1..uxLength /\ pcWriteTo = At(r, m + 1)
      BY <1>1, <3>1 DEF RingInv
    <3> QED BY <1>2, <3>2 DEF prvCopyDataToQueue, CountIn
  <2>2. Contents' = Append(Contents, x)
    <3>1. InRing([storage EXCEPT ![At(r, m + 1)] = x], r, m + 1) = Append(InRing(storage, r, m), x)
      BY <1>1, <2>1, BackAppends
    <3> QED BY <1>a, <2>1, <3>1, ContentsInRing
  <2>3. Fifo!PushBack(x)
    BY <1>1, <1>2, <1>a, <2>1, <2>2 DEF Fifo!PushBack
  <2>4. RingInv'
    <3>1. CASE m + 1 = uxLength
      <4>1. pcWriteTo' = At(r, 1)
        BY <1>1, <2>1, <3>1, AtProperties
      <4> QED BY <2>1, <3>1, <4>1 DEF RingInv
    <3>2. CASE m + 1 # uxLength
      <4>1. m + 1 \in 1..uxLength - 1
        BY <1>1, <2>1, <3>2
      <4>2. pcWriteTo' = At(r, m + 1 + 1)
        BY <1>1, <2>1, <4>1, AtProperties
      <4> QED BY <2>1, <3>2, <4>2 DEF RingInv
    <3> QED BY <3>1, <3>2
  <2> QED BY <2>3, <2>4
<1>3. CASE where = "front"
  <2>1. /\ m \in 0..uxLength - 1 /\ uxMessagesWaiting' = m + 1
        /\ m + 1 \in 1..uxLength
        /\ pcWriteTo = At(r, m + 1) /\ pcReadFrom' = Prev1(r) /\ pcWriteTo' = pcWriteTo
        /\ storage' = [storage EXCEPT ![r] = x]
    <3>1. m < uxLength
      BY <1>3
    <3>2. m \in 0..uxLength - 1 /\ m + 1 \in 1..uxLength /\ pcWriteTo = At(r, m + 1)
      BY <1>1, <3>1 DEF RingInv
    <3> QED BY <1>3, <3>2 DEF prvCopyDataToQueue, CountIn
  <2>2. Contents' = <<x>> \o Contents
    <3>1. InRing([storage EXCEPT ![r] = x], Prev1(r), m + 1) = <<x>> \o InRing(storage, r, m)
      BY <1>1, <2>1, FrontPrepends
    <3> QED BY <1>a, <2>1, <3>1, ContentsInRing
  <2>3. Fifo!PushFront(x)
    BY <1>1, <1>3, <1>a, <2>1, <2>2 DEF Fifo!PushFront
  <2>4. RingInv'
    <3>1. CASE m + 1 = uxLength
      <4>1. pcWriteTo' = At(Prev1(r), 1)
        BY <1>1, <2>1, <3>1, AtProperties
      <4> QED BY <2>1, <3>1, <4>1 DEF RingInv
    <3>2. CASE m + 1 # uxLength
      <4>1. m + 1 \in 1..uxLength - 1
        BY <1>1, <2>1, <3>2
      <4>2. pcWriteTo' = At(Prev1(r), m + 1 + 1)
        BY <1>1, <2>1, <4>1, AtProperties
      <4> QED BY <2>1, <3>2, <4>2 DEF RingInv
    <3> QED BY <3>1, <3>2
  <2> QED BY <2>3, <2>4
<1>4. CASE where = "overwrite"
  <2>1. uxLength = 1 /\ r = 0 /\ pcWriteTo = 0 /\ Slots = {0} /\ m \in {0, 1} /\ Prev1(0) = 0
    BY <1>1, <1>4 DEF Slots, Prev1
  <2>2. /\ uxMessagesWaiting' = 1 /\ pcReadFrom' = 0 /\ pcWriteTo' = 0
        /\ storage' = [storage EXCEPT ![0] = x]
    BY <1>4, <2>1 DEF prvCopyDataToQueue, CountIn
  <2>3. Contents' = <<x>>
    <3>1. Contents' = InRing(storage', 0, 1) /\ storage' \in [Slots -> Items] /\ storage'[0] = x
      BY <1>1, <2>1, <2>2, ContentsInRing
    <3>2. Contents' \in Seq(Items) /\ Len(Contents') = 1 /\ Contents'[1] = x
      <4>1. 0 \in Slots /\ 1 \in 0..uxLength /\ At(0, 1) = 0
        BY <2>1 DEF At
      <4>2. /\ InRing(storage', 0, 1) \in Seq(Items) /\ Len(InRing(storage', 0, 1)) = 1
            /\ \A i \in 1..1 : InRing(storage', 0, 1)[i] = storage'[At(0, i)]
        BY <3>1, <4>1, InRingType
      <4> QED BY <3>1, <4>1, <4>2
    <3> QED BY <3>2
  <2>4. RingInv'
    BY <2>1, <2>2 DEF RingInv, At
  <2>5. Fifo!Overwrite(x)
    BY <1>1, <1>4, <2>1, <2>3 DEF Fifo!Overwrite
  <2> QED BY <2>4, <2>5
<1> QED BY <1>2, <1>3, <1>4 DEF SendOps, BlockingSend

\* An item that is taken out or looked at.
LEMMA CopyOutImplements ==
    ASSUME RingType, RingInv, uxItemSize # 0, NEW o \in ReceiveOps, uxMessagesWaiting > 0,
           prvCopyDataFromQueue(o)
    PROVE  RingInv' /\ (Fifo!Pop \/ Fifo!Peek)
<1> DEFINE r == pcReadFrom
           m == uxMessagesWaiting
<1>1. /\ storage \in [Slots -> Items] /\ pcReadFrom \in Slots /\ m \in 1..uxLength
      /\ uxLength \in Nat \ {0} /\ UNCHANGED <<storage, pcWriteTo>>
      /\ last' = <<o, storage[Next1(r)]>>
  BY QueueAssumption DEF RingType, prvCopyDataFromQueue
<1>2. /\ Contents # << >> /\ Head(Contents) = storage[Next1(r)]
      /\ Tail(Contents) = InRing(storage, Next1(r), m - 1)
  BY <1>1, ContentsInRing, ReceiveTakesFirst
<1>3. CASE o = "receive"
  <2>1. uxMessagesWaiting' = m - 1 /\ pcReadFrom' = Next1(r)
    BY <1>3 DEF prvCopyDataFromQueue
  <2>2. Contents' = Tail(Contents)
    BY <1>1, <1>2, <2>1, ContentsInRing
  <2>3. RingInv'
    <3>1. Next1(r) \in Slots /\ m - 1 # uxLength
      BY <1>1, SlotType
    <3>2. pcWriteTo = At(Next1(r), m)
      <4>1. CASE m = uxLength
        <5>1. pcWriteTo = At(r, 1)
          BY <4>1 DEF RingInv
        <5> QED BY <1>1, <3>1, <4>1, <5>1, AtProperties
      <4>2. CASE m # uxLength
        <5>1. pcWriteTo = At(r, m + 1) /\ m \in 1..uxLength - 1
          BY <1>1, <4>2 DEF RingInv
        <5> QED BY <1>1, <5>1, AtProperties
      <4> QED BY <4>1, <4>2
    <3>3. (m - 1) + 1 = m
      BY <1>1
    <3> QED BY <1>1, <2>1, <3>1, <3>2, <3>3 DEF RingInv
  <2> QED BY <1>1, <1>2, <1>3, <2>2, <2>3 DEF Fifo!Pop
<1>4. CASE o = "peek"
  <2>1. UNCHANGED <<uxMessagesWaiting, pcReadFrom>>
    BY <1>4 DEF prvCopyDataFromQueue
  <2>2. Contents' = Contents /\ RingInv'
    BY <1>1, <2>1, ContentsInRing DEF RingInv
  <2> QED BY <1>1, <1>2, <1>4, <2>2 DEF Fifo!Peek
<1> QED BY <1>3, <1>4 DEF ReceiveOps

\* A queue that is made empty.
LEMMA ClearImplements ==
    ASSUME uxMessagesWaiting' = 0, pcWriteTo' = 0, pcReadFrom' = uxLength - 1,
           last' = <<"reset", NoItem>>
    PROVE  RingInv' /\ Fifo!Clear
<1>1. uxLength \in Nat \ {0}
  BY QueueAssumption
<1>2. Contents' = << >>
  BY DEF Contents
<1>3. At(uxLength - 1, 1) = 0
  BY <1>1 DEF At
<1>4. RingInv'
  BY <1>1, <1>3 DEF RingInv
<1> QED BY <1>2, <1>4 DEF Fifo!Clear

LEMMA NextImplements ==
    ASSUME uxItemSize # 0, IInv, RingInv, [Next]_vars
    PROVE  RingInv' /\ [Fifo!Next]_<<Contents, last>>
<1> DEFINE Goal == RingInv' /\ [Fifo!Next]_<<Contents, last>>
<1>1. RingType
  BY TypeParts DEF IInv
<1>2. ASSUME UNCHANGED <<ring, last>>  PROVE Goal
  BY <1>2 DEF RingInv, Contents, ring
<1>3. ASSUME NEW where \in SendOps, NEW x \in Items, prvCopyDataToQueue(x, where),
             uxMessagesWaiting < uxLength \/ where = "overwrite",
             where = "overwrite" => uxLength = 1
      PROVE  Goal
  <2>1. RingInv' /\ (Fifo!PushBack(x) \/ Fifo!PushFront(x) \/ Fifo!Overwrite(x))
    BY <1>1, <1>3, CopyInImplements
  <2> QED BY <2>1 DEF Fifo!Next
<1>4. ASSUME NEW o \in ReceiveOps, prvCopyDataFromQueue(o), uxMessagesWaiting > 0
      PROVE  Goal
  <2>1. RingInv' /\ (Fifo!Pop \/ Fifo!Peek)
    BY <1>1, <1>4, CopyOutImplements
  <2> QED BY <2>1 DEF Fifo!Next
<1>5. ASSUME NEW t \in Tasks, Step(t)  PROVE Goal
  <2>1. CASE TrySend(t)
    <3>1. PICK x \in Items : prvCopyDataToQueue(x, op[t])
      BY <2>1 DEF TrySend
    <3>2. op[t] = "overwrite" => uxLength = 1
      BY OperationAssumption DEF IInv, HolderInv
    <3> QED BY <1>3, <2>1, <3>1, <3>2 DEF TrySend
  <2>2. CASE TryReceive(t) \/ TryPeek(t)
    BY <1>4, <2>2 DEF TryReceive, TryPeek, ReceiveOps
  <2>3. CASE \/ TryFails(t) \/ vTaskSuspendAll(t) \/ prvLockQueue(t) \/ CheckForTimeOut(t) \/ Place(t)
             \/ UnlockTx(t) \/ UnlockRx(t) \/ xTaskResumeAll(t) \/ Recheck(t)
    BY <1>2, <2>3 DEF TryFails, vTaskSuspendAll, prvLockQueue, CheckForTimeOut, Place,
                      UnlockTx, UnlockRx, xTaskResumeAll, Recheck
  <2> QED BY <1>5, <2>1, <2>2, <2>3 DEF Step
<1>6. ASSUME NEW t \in Tasks, Call(t) \/ Elapse(t) \/ TickWakes(t)  PROVE Goal
  BY <1>2, <1>6 DEF Call, Elapse, TickWakes
<1>7. ASSUME NEW t \in Tasks, Reset(t)  PROVE Goal
  <2>1. RingInv' /\ Fifo!Clear
    BY <1>7, ClearImplements DEF Reset
  <2> QED BY <2>1 DEF Fifo!Next
<1>8. ASSUME NEW where \in SendOps, SendFromISR(where)  PROVE Goal
  <2>1. PICK x \in Items : prvCopyDataToQueue(x, where)
    BY <1>8 DEF SendFromISR
  <2>2. where = "overwrite" => uxLength = 1
    BY <1>8, OperationAssumption DEF SendFromISR
  <2> QED BY <1>3, <1>8, <2>1, <2>2 DEF SendFromISR
<1>9. CASE ReceiveFromISR
  BY <1>4, <1>9 DEF ReceiveFromISR, ReceiveOps
<1>10. CASE UNCHANGED vars
  BY <1>2, <1>10 DEF vars
<1> QED BY <1>5, <1>6, <1>7, <1>8, <1>9, <1>10 DEF Next

\* A queue that holds data is a bounded FIFO, for every length, set of tasks and
\* mix of operations: each call takes effect at one step, on the item it should.
THEOREM QueueIsAFifo ==
    ASSUME IsrBound <= INT8_MAX, uxItemSize # 0
    PROVE  Spec => FifoSpec
<1>1. Init => RingInv /\ Fifo!Init
  <2> SUFFICES ASSUME Init  PROVE RingInv /\ Fifo!Init
    OBVIOUS
  <2>1. Contents = << >>
    BY DEF Init, Contents
  <2>2. RingInv
    BY QueueAssumption DEF Init, RingInv, At
  <2> QED BY <2>1, <2>2 DEF Init, Fifo!Init
<1>2. IInv /\ RingInv /\ [Next]_vars => RingInv' /\ [Fifo!Next]_<<Contents, last>>
  BY NextImplements
<1> QED BY <1>1, <1>2, Invariance, PTL DEF Spec, FifoSpec, Fifo!Spec
=============================================================================
