-------------------------- MODULE MqttAgent_proofs --------------------------
(***************************************************************************)
(* Proofs about the MQTT agent: every call that waits is kept, success is  *)
(* told to whom it is due, neither buffers nor the socket are lost, and a  *)
(* granted subscription stays.                                             *)
(* As in the run, the tasks are notified by the agent only, and an         *)
(* identifier in use is not given again: Faults = {}.                      *)
(***************************************************************************)
EXTENDS MqttAgent, FiniteSetTheorems, SequenceTheorems, TLAPS

Results == {"Success", "Failure", "Timeout"}

\* The types of what the callers and the agent share.
CallType ==
    /\ call \in [Tasks -> [phase : {"send", "wait"}, op : Ops, id : Identifiers] \cup {NoCall}]
    /\ notice \in [Tasks -> [id : Identifiers, result : Results] \cup {NoNotice}]
    /\ xCommandQueue \in Seq(Commands \cup {Service})
    /\ xWaitingTasks \in [Slots -> [task : Tasks, id : Identifiers] \cup {NoTask}]
    /\ xTxBufferList \subseteq [op : Ops, id : Identifiers, topic : Topics]

\* The types of the rest.
CoreType ==
    /\ ulQueueMessageIdentifier \in Identifiers
    /\ xConnectionState \in {"NotConnected", "ConnectionInProgress", "Connected"}
    /\ xRxBuffer \in {"none", "store", "drop"}
    /\ xSocket \in BOOLEAN /\ refused \in BOOLEAN
    /\ IsFiniteSet(xTxBufferList)
    /\ pool \in Nat /\ taken \in Nat
    /\ atBroker \subseteq Commands

InQueue(t) == \E k \in DOMAIN xCommandQueue :
    xCommandQueue[k] # Service /\ xCommandQueue[k].task = t

InSlot(t) == \E x \in Slots : xWaitingTasks[x] # NoTask /\ xWaitingTasks[x].task = t

\* The identifiers of calls are different.
IdInv == \A t, v \in Tasks : t # v /\ call[t] # NoCall => call[t].id # call[v].id

\* A notification is for the call that waits.
NoticeInv == \A t \in Tasks : notice[t] # NoNotice =>
    call[t].phase = "wait" /\ notice[t].id = call[t].id

\* A command is of a call that waits and was not told.
QueueInv == \A k \in DOMAIN xCommandQueue :
    LET m == xCommandQueue[k]
    IN  m # Service => /\ call[m.task] = [phase |-> "wait", op |-> m.op, id |-> m.id]
                       /\ notice[m.task] = NoNotice

QueueOnce == \A k, l \in DOMAIN xCommandQueue :
    k # l /\ xCommandQueue[k] # Service /\ xCommandQueue[l] # Service =>
        xCommandQueue[k].task # xCommandQueue[l].task

\* A slot is of a call that waits, was not told and has a request.
SlotInv == \A x \in Slots :
    LET w == xWaitingTasks[x]
    IN  w # NoTask => /\ call[w.task].phase = "wait" /\ call[w.task].id = w.id
                      /\ notice[w.task] = NoNotice
                      /\ \E p \in xTxBufferList : p.op = call[w.task].op /\ p.id = w.id

QueueOrSlot == \A t \in Tasks : ~(InQueue(t) /\ InSlot(t))

SlotOnce == \A x, y \in Slots :
    x # y /\ xWaitingTasks[x] # NoTask /\ xWaitingTasks[y] # NoTask =>
        xWaitingTasks[x].task # xWaitingTasks[y].task

\* A request has a slot; their identifiers are different.
TxInv == \A p \in xTxBufferList : \E x \in Slots :
    xWaitingTasks[x] # NoTask /\ xWaitingTasks[x].id = p.id

TxOnce == \A p, r \in xTxBufferList : p # r => p.id # r.id

\* A call that waits has a command, a slot or a notification.
WaitInv == \A t \in Tasks : call[t].phase = "wait" =>
    InQueue(t) \/ InSlot(t) \/ notice[t] # NoNotice

CallsInv ==
    /\ IdInv /\ NoticeInv /\ QueueInv /\ QueueOnce
    /\ SlotInv /\ QueueOrSlot /\ SlotOnce /\ TxInv /\ TxOnce /\ WaitInv

\* Requests that the broker has keep their identifiers from other tasks' calls.
BrokerInv == \A r \in atBroker, t \in Tasks : call[t].id = r.id => t = r.task

\* What there is in each state of the connection.
ConnectionInv ==
    /\ xConnectionState = "NotConnected" =>
           xTxBufferList = {} /\ atBroker = {} /\ xRxBuffer = "none"
    /\ xConnectionState = "ConnectionInProgress" =>
           \E m \in Commands : m.op = "CONNECT" /\ xTxBufferList = {Packet(m)} /\ atBroker \subseteq {m}
    /\ xConnectionState = "Connected" =>
           \A r \in xTxBufferList \cup atBroker : r.op # "CONNECT"

\* The buffers are all there; a socket that is open without a connection is the one
\* whose last option was refused, and then there is no connection any more.
LeakInv ==
    /\ pool + Cardinality(xTxBufferList) + RxBuffers + taken = NumBuffers
    /\ xSocket <=> xConnectionState # "NotConnected" \/ refused
    /\ refused => xConnectionState = "NotConnected"

IInv ==
    /\ CallType /\ CoreType /\ CallsInv
    /\ BrokerInv /\ ConnectionInv /\ LeakInv /\ SuccessIsDeserved
-----------------------------------------------------------------------------
(* What the agent does for the callers. *)

\* A shorter queue is one without its first element, or the same (d = 0).
Shifted(d) ==
    /\ \A k \in DOMAIN xCommandQueue' : k + d \in DOMAIN xCommandQueue
                                        /\ xCommandQueue'[k] = xCommandQueue[k + d]
    /\ \A k \in DOMAIN xCommandQueue : k > d =>
           k - d \in DOMAIN xCommandQueue' /\ xCommandQueue'[k - d] = xCommandQueue[k]

\* The first element is of a task of S, and no other is.
FirstIsOf(d, S) ==
    /\ d = 1 => xCommandQueue[1] = Service \/ xCommandQueue[1].task \in S
    /\ \A k \in DOMAIN xCommandQueue :
           k > d /\ xCommandQueue[k] # Service => xCommandQueue[k].task \notin S

\* A queue is a function on its positions.
LEMMA QueueShape ==
    ASSUME CallType
    PROVE  /\ DOMAIN xCommandQueue \subseteq Nat \ {0}
           /\ \A k \in DOMAIN xCommandQueue : xCommandQueue[k] \in Commands \cup {Service}
BY LenProperties, ElementOfSeq DEF CallType

\* Tasks S that wait are told; their slots are freed, and their requests dropped.
LEMMA Telling ==
    ASSUME CallType, CallsInv, CallType',
           NEW S \in SUBSET Tasks, NEW d \in {0, 1},
           UNCHANGED call, Shifted(d), FirstIsOf(d, S),
           \A t \in S : /\ call[t].phase = "wait" /\ notice[t] = NoNotice
                        /\ notice'[t].id = call[t].id,
           \A t \in Tasks \ S : notice'[t] = notice[t],
           \A x \in Slots : xWaitingTasks'[x] =
               IF xWaitingTasks[x] # NoTask /\ xWaitingTasks[x].task \in S
               THEN NoTask ELSE xWaitingTasks[x],
           xTxBufferList' = {p \in xTxBufferList : \A t \in S : p.id # call[t].id}
    PROVE  CallsInv'
<1>1. \A k \in DOMAIN xCommandQueue : k \in Nat \ {0} /\ xCommandQueue[k] \in Commands \cup {Service}
  BY QueueShape
<1>2. \A k \in DOMAIN xCommandQueue' : k \in Nat \ {0} /\ xCommandQueue'[k] \in Commands \cup {Service}
  BY LenProperties, ElementOfSeq DEF CallType
<1>3. IdInv'
  BY DEF CallsInv, IdInv
<1>4. NoticeInv'
  BY DEF CallsInv, NoticeInv
<1>5. QueueInv'
  BY <1>1, <1>2 DEF CallsInv, QueueInv, Shifted, FirstIsOf, Commands
<1>6. QueueOnce'
  BY <1>1, <1>2 DEF CallsInv, QueueOnce, Shifted
<1>7. ASSUME NEW t \in Tasks, InQueue(t)' PROVE t \notin S /\ InQueue(t)
  BY <1>1, <1>2, <1>7 DEF InQueue, Shifted, FirstIsOf
<1>8. SlotInv'
  <2> SUFFICES ASSUME NEW x \in Slots, xWaitingTasks'[x] # NoTask
               PROVE  LET w == xWaitingTasks'[x]
                      IN  /\ call[w.task].phase = "wait" /\ call[w.task].id = w.id
                          /\ notice'[w.task] = NoNotice
                          /\ \E p \in xTxBufferList' : p.op = call[w.task].op /\ p.id = w.id
    BY DEF SlotInv
  <2> DEFINE w == xWaitingTasks[x]
  <2>1. xWaitingTasks'[x] = w /\ w # NoTask /\ w.task \in Tasks \ S
    BY DEF CallType
  <2>2. call[w.task].phase = "wait" /\ call[w.task].id = w.id /\ notice[w.task] = NoNotice
    BY <2>1 DEF CallsInv, SlotInv
  <2>3. PICK p \in xTxBufferList : p.op = call[w.task].op /\ p.id = w.id
    BY <2>1 DEF CallsInv, SlotInv
  <2>4. \A t \in S : call[t] # NoCall
    BY DEF NoCall
  <2>5. \A t \in S : p.id # call[t].id
    BY <2>1, <2>2, <2>3, <2>4 DEF CallsInv, IdInv
  <2> QED
    BY <2>1, <2>2, <2>3, <2>5
<1>9. SlotOnce'
  BY DEF CallsInv, SlotOnce
<1>10. TxInv'
  <2> SUFFICES ASSUME NEW p \in xTxBufferList'
               PROVE  \E x \in Slots : xWaitingTasks'[x] # NoTask /\ xWaitingTasks'[x].id = p.id
    BY DEF TxInv
  <2>1. PICK x \in Slots : xWaitingTasks[x] # NoTask /\ xWaitingTasks[x].id = p.id
    BY DEF CallsInv, TxInv
  <2>2. call[xWaitingTasks[x].task].id = p.id
    BY <2>1 DEF CallsInv, SlotInv
  <2> QED
    BY <2>1, <2>2
<1>11. TxOnce'
  BY DEF CallsInv, TxOnce
<1>12. WaitInv'
  <2> SUFFICES ASSUME NEW t \in Tasks, call[t].phase = "wait"
               PROVE  InQueue(t)' \/ InSlot(t)' \/ notice'[t] # NoNotice
    BY DEF WaitInv
  <2>1. CASE t \in S
    <3>1. call[t].id \in Identifiers
      BY DEF CallType, NoCall
    <3> QED
      BY <2>1, <3>1 DEF NoNotice, Identifiers
  <2>2. CASE t \notin S /\ InQueue(t)
    BY <1>1, <2>2 DEF InQueue, Shifted, FirstIsOf
  <2>3. CASE t \notin S /\ InSlot(t)
    BY <2>3 DEF InSlot
  <2>4. CASE t \notin S /\ notice[t] # NoNotice
    BY <2>4
  <2> QED
    BY <2>1, <2>2, <2>3, <2>4 DEF CallsInv, WaitInv
<1>13. ASSUME NEW t \in Tasks, InSlot(t)' PROVE InSlot(t)
  BY <1>13 DEF InSlot
<1>14. QueueOrSlot'
  BY <1>7, <1>13 DEF CallsInv, QueueOrSlot
<1> QED
  BY <1>3, <1>4, <1>5, <1>6, <1>8, <1>9, <1>10, <1>11, <1>12, <1>14 DEF CallsInv

\* The tasks that records N are for, those of slots X and of the command M taken from
\* the queue, are notified.
IsFor(N, X, M) ==
    /\ \A n \in N : /\ n.result \in Results
                    /\ \/ \E x \in X : n.task = xWaitingTasks[x].task /\ n.id = xWaitingTasks[x].id
                       \/ \E m \in M : n.task = m.task /\ n.id = m.id
    /\ \A x \in X : \E n \in N : n.task = xWaitingTasks[x].task
    /\ \A m \in M : \E n \in N : n.task = m.task

\* The command that is taken from the queue, if one is.
Taken(d, M) ==
    /\ d = 0 => M = {}
    /\ d = 1 => 1 \in DOMAIN xCommandQueue /\ M = {xCommandQueue[1]} \ {Service}

\* Each task is told its record.
LEMMA NotifiedAre ==
    ASSUME CallType, NEW N, Notify(N)
    PROVE  \A t \in Tasks : notice[t] = NoNotice /\ (\E n \in N : n.task = t) =>
               \E n \in N : n.task = t /\ notice'[t] = [id |-> n.id, result |-> n.result]
<1> SUFFICES ASSUME NEW t \in Tasks, notice[t] = NoNotice, \E n \in N : n.task = t
             PROVE  \E n \in N : n.task = t /\ notice'[t] = [id |-> n.id, result |-> n.result]
  OBVIOUS
<1> DEFINE mine == {n \in N : n.task = t}
           n == CHOOSE k \in mine : TRUE
<1>1. n \in mine
  OBVIOUS
<1>2. notice'[t] = [id |-> n.id, result |-> n.result]
  BY DEF Notify
<1> QED
  BY <1>1, <1>2

\* The tasks of slots X and of command M are told; the slots are freed.
LEMMA Notifying ==
    ASSUME CallType, CallsInv, NEW X \in SUBSET (Slots \ FreeSlots), NEW M \in SUBSET Commands,
           NEW N, NEW d \in {0, 1}, UNCHANGED call, Shifted(d), Taken(d, M),
           xCommandQueue' \in Seq(Commands \cup {Service}),
           IsFor(N, X, M), Notify(N),
           xWaitingTasks' = [x \in Slots |-> IF x \in X THEN NoTask ELSE xWaitingTasks[x]],
           xTxBufferList' = {p \in xTxBufferList : \A x \in X : p.id # xWaitingTasks[x].id}
    PROVE  CallType' /\ CallsInv'
<1> DEFINE S == {n.task : n \in N}
<1>1. \A k \in DOMAIN xCommandQueue : k \in Nat \ {0} /\ xCommandQueue[k] \in Commands \cup {Service}
  BY QueueShape
<1>2. \A x \in X : /\ xWaitingTasks[x] # NoTask /\ xWaitingTasks[x].task \in Tasks
                   /\ InSlot(xWaitingTasks[x].task)
                   /\ call[xWaitingTasks[x].task].phase = "wait"
                   /\ call[xWaitingTasks[x].task].id = xWaitingTasks[x].id
                   /\ notice[xWaitingTasks[x].task] = NoNotice
  BY DEF CallType, CallsInv, SlotInv, FreeSlots, InSlot
<1>3. \A m \in M : /\ d = 1 /\ 1 \in DOMAIN xCommandQueue /\ m = xCommandQueue[1] /\ m # Service
                   /\ m.task \in Tasks /\ InQueue(m.task)
                   /\ call[m.task].phase = "wait" /\ call[m.task].id = m.id
                   /\ notice[m.task] = NoNotice
  <2> SUFFICES ASSUME NEW m \in M
               PROVE  /\ d = 1 /\ 1 \in DOMAIN xCommandQueue /\ m = xCommandQueue[1] /\ m # Service
                      /\ m.task \in Tasks /\ InQueue(m.task)
                      /\ call[m.task].phase = "wait" /\ call[m.task].id = m.id
                      /\ notice[m.task] = NoNotice
    OBVIOUS
  <2>1. d = 1 /\ 1 \in DOMAIN xCommandQueue /\ m = xCommandQueue[1] /\ m # Service
    BY DEF Taken
  <2>2. m.task \in Tasks
    BY DEF Commands
  <2>3. call[m.task] = [phase |-> "wait", op |-> m.op, id |-> m.id] /\ notice[m.task] = NoNotice
    BY <2>1 DEF CallsInv, QueueInv
  <2> QED
    BY <2>1, <2>2, <2>3 DEF InQueue
<1>4. \A n \in N : /\ n.task \in Tasks /\ call[n.task].phase = "wait" /\ call[n.task].id = n.id
                   /\ notice[n.task] = NoNotice
  BY <1>2, <1>3 DEF IsFor
<1>5. S \in SUBSET Tasks /\ \A t \in S : call[t].phase = "wait" /\ notice[t] = NoNotice
  BY <1>4
<1>6. \A t \in S : \E n \in N : n.task = t /\ notice'[t] = [id |-> n.id, result |-> n.result]
  BY <1>5, NotifiedAre, SMTT(30)
<1>7. \A t \in Tasks \ S : notice'[t] = notice[t]
  BY DEF Notify
<1>8. \A t \in S : \E r \in Results : notice'[t] = [id |-> call[t].id, result |-> r]
  <2> SUFFICES ASSUME NEW t \in S
               PROVE  \E r \in Results : notice'[t] = [id |-> call[t].id, result |-> r]
    OBVIOUS
  <2>1. PICK n \in N : n.task = t /\ notice'[t] = [id |-> n.id, result |-> n.result]
    BY <1>6
  <2>2. n.result \in Results /\ n.id = call[t].id
    BY <1>4, <2>1 DEF IsFor
  <2> QED
    BY <2>1, <2>2
<1>9. \A t \in S : call[t].id \in Identifiers
  BY <1>5 DEF CallType, NoCall
<1>10. notice' \in [Tasks -> [id : Identifiers, result : Results] \cup {NoNotice}]
  <2>1. \A t \in Tasks : notice'[t] \in [id : Identifiers, result : Results] \cup {NoNotice}
    <3> SUFFICES ASSUME NEW t \in Tasks
                 PROVE  notice'[t] \in [id : Identifiers, result : Results] \cup {NoNotice}
      OBVIOUS
    <3>1. CASE t \in S
      <4>1. PICK c \in Results : notice'[t] = [id |-> call[t].id, result |-> c]
        BY <1>8, <3>1
      <4>2. call[t].id \in Identifiers
        BY <1>9, <3>1
      <4> HIDE DEF S
      <4> QED
        BY <4>1, <4>2
    <3>2. CASE t \notin S
      BY <1>7, <3>2 DEF CallType
    <3> QED
      BY <3>1, <3>2
  <2>2. notice' = [t \in Tasks |-> notice'[t]]
    BY DEF Notify
  <2> QED
    BY <2>1, <2>2
<1>11. CallType'
  BY <1>10 DEF CallType
<1>12. \A x \in Slots \ FreeSlots : xWaitingTasks[x].task \in S => x \in X
  <2> SUFFICES ASSUME NEW x \in Slots \ FreeSlots, xWaitingTasks[x].task \in S
               PROVE  x \in X
    OBVIOUS
  <2>1. xWaitingTasks[x] # NoTask /\ InSlot(xWaitingTasks[x].task) /\ xWaitingTasks[x].task \in Tasks
    BY DEF CallType, FreeSlots, InSlot
  <2>2. ~InQueue(xWaitingTasks[x].task)
    BY <2>1 DEF CallsInv, QueueOrSlot
  <2>3. PICK y \in X : xWaitingTasks[x].task = xWaitingTasks[y].task
    BY <1>3, <2>2 DEF IsFor
  <2> QED
    BY <1>2, <2>1, <2>3 DEF CallsInv, SlotOnce, FreeSlots
<1>13. \A x \in Slots : xWaitingTasks'[x] =
           IF xWaitingTasks[x] # NoTask /\ xWaitingTasks[x].task \in S
           THEN NoTask ELSE xWaitingTasks[x]
  BY <1>2, <1>12 DEF IsFor, FreeSlots
<1>14. \A m \in M, p \in xTxBufferList : p.id # call[m.task].id
  <2> SUFFICES ASSUME NEW m \in M, NEW p \in xTxBufferList, p.id = call[m.task].id
               PROVE  FALSE
    OBVIOUS
  <2>1. PICK x \in Slots : xWaitingTasks[x] # NoTask /\ xWaitingTasks[x].id = p.id
    BY DEF CallsInv, TxInv
  <2>2. /\ xWaitingTasks[x].task \in Tasks /\ InSlot(xWaitingTasks[x].task)
        /\ call[xWaitingTasks[x].task].phase = "wait"
        /\ call[xWaitingTasks[x].task].id = p.id
    BY <2>1 DEF CallType, InSlot, CallsInv, SlotInv
  <2>3. xWaitingTasks[x].task = m.task
    BY <1>3, <2>2 DEF CallsInv, IdInv, NoCall
  <2> QED
    BY <1>3, <2>2, <2>3 DEF CallsInv, QueueOrSlot
<1>15. xTxBufferList' = {p \in xTxBufferList : \A t \in S : p.id # call[t].id}
  <2>1. \A p \in xTxBufferList :
            (\A x \in X : p.id # xWaitingTasks[x].id) <=> (\A t \in S : p.id # call[t].id)
    BY <1>2, <1>4, <1>14 DEF IsFor
  <2> QED
    BY <2>1
<1>16. FirstIsOf(d, S)
  <2>1. d = 1 => xCommandQueue[1] = Service \/ xCommandQueue[1].task \in S
    BY DEF Taken, IsFor
  <2>2. ASSUME NEW k \in DOMAIN xCommandQueue, k > d, xCommandQueue[k] # Service
        PROVE  xCommandQueue[k].task \notin S
    <3>1. \A m \in M : xCommandQueue[k].task # m.task
      BY <1>1, <1>3, <2>2 DEF CallsInv, QueueOnce
    <3>2. InQueue(xCommandQueue[k].task)
      BY <2>2 DEF InQueue
    <3>3. \A x \in X : xCommandQueue[k].task # xWaitingTasks[x].task
      BY <1>2, <3>2 DEF CallsInv, QueueOrSlot
    <3> QED
      BY <3>1, <3>3 DEF IsFor
  <2> QED
    BY <2>1, <2>2 DEF FirstIsOf
<1> HIDE DEF S
<1>17. ASSUME NEW t \in S PROVE notice'[t].id = call[t].id
  <2>1. PICK c \in Results : notice'[t] = [id |-> call[t].id, result |-> c]
    BY <1>8
  <2> QED
    BY <2>1
<1>18. CallsInv'
  BY <1>5, <1>7, <1>11, <1>13, <1>15, <1>16, <1>17, Telling
<1> QED
  BY <1>11, <1>18

\* The command that is taken becomes a request with a slot.
LEMMA Storing ==
    ASSUME CallType, CallsInv, CallType', UNCHANGED <<call, notice>>,
           Shifted(1), 1 \in DOMAIN xCommandQueue,
           NEW m \in Commands, m = xCommandQueue[1],
           NEW x \in Slots, xWaitingTasks[x] = NoTask,
           xWaitingTasks' = [xWaitingTasks EXCEPT ![x] = [task |-> m.task, id |-> m.id]],
           NEW p, p.op = m.op, p.id = m.id, xTxBufferList' = xTxBufferList \cup {p}
    PROVE  CallsInv'
<1>1. \A k \in DOMAIN xCommandQueue : k \in Nat \ {0} /\ xCommandQueue[k] \in Commands \cup {Service}
  BY QueueShape
<1>2. \A k \in DOMAIN xCommandQueue' : k \in Nat \ {0} /\ xCommandQueue'[k] \in Commands \cup {Service}
  BY LenProperties, ElementOfSeq DEF CallType
<1>3. m # Service /\ m.task \in Tasks /\ m.id \in Identifiers /\ InQueue(m.task)
  BY DEF Commands, Ops, Requests, Service, InQueue
<1>4. /\ call[m.task].phase = "wait" /\ call[m.task].op = m.op /\ call[m.task].id = m.id
      /\ notice[m.task] = NoNotice
  <2>1. call[m.task] = [phase |-> "wait", op |-> m.op, id |-> m.id] /\ notice[m.task] = NoNotice
    BY <1>3 DEF CallsInv, QueueInv
  <2> QED
    BY <2>1
<1>5. /\ xWaitingTasks'[x].task = m.task /\ xWaitingTasks'[x].id = m.id /\ xWaitingTasks'[x] # NoTask
      /\ \A y \in Slots \ {x} : xWaitingTasks'[y] = xWaitingTasks[y]
  BY <1>3 DEF CallType, NoTask, Identifiers
<1>6. IdInv' /\ NoticeInv'
  BY DEF CallsInv, IdInv, NoticeInv
<1>7. QueueInv' /\ QueueOnce'
  BY <1>1, <1>2 DEF CallsInv, QueueInv, QueueOnce, Shifted
<1>8. SlotInv'
  BY <1>4, <1>5 DEF CallsInv, SlotInv
<1>9. ASSUME NEW t \in Tasks, InQueue(t)' PROVE t # m.task /\ InQueue(t)
  BY <1>1, <1>2, <1>3, <1>9 DEF InQueue, Shifted, CallsInv, QueueOnce
<1>10. ASSUME NEW t \in Tasks, InSlot(t)' PROVE t = m.task \/ InSlot(t)
  BY <1>5, <1>10 DEF InSlot
<1>11. QueueOrSlot'
  BY <1>9, <1>10 DEF CallsInv, QueueOrSlot
<1>12. SlotOnce'
  <2>1. \A y \in Slots \ {x} : xWaitingTasks[y] # NoTask => xWaitingTasks[y].task # m.task
    BY <1>3 DEF CallsInv, QueueOrSlot, InSlot
  <2> QED
    BY <1>5, <2>1 DEF CallsInv, SlotOnce
<1>13. TxInv'
  BY <1>5 DEF CallsInv, TxInv
<1>14. TxOnce'
  <2>1. ASSUME NEW r \in xTxBufferList, r.id = m.id PROVE FALSE
    <3>1. PICK y \in Slots : xWaitingTasks[y] # NoTask /\ xWaitingTasks[y].id = r.id
      BY DEF CallsInv, TxInv
    <3>2. /\ xWaitingTasks[y].task \in Tasks /\ InSlot(xWaitingTasks[y].task)
          /\ call[xWaitingTasks[y].task].phase = "wait"
          /\ call[xWaitingTasks[y].task].id = m.id
      BY <2>1, <3>1 DEF CallType, InSlot, CallsInv, SlotInv
    <3>3. xWaitingTasks[y].task = m.task
      BY <1>3, <1>4, <3>2 DEF CallsInv, IdInv, NoCall
    <3> QED
      BY <1>3, <3>2, <3>3 DEF CallsInv, QueueOrSlot
  <2> QED
    BY <2>1 DEF CallsInv, TxOnce
<1>15. WaitInv'
  <2> SUFFICES ASSUME NEW t \in Tasks, call[t].phase = "wait"
               PROVE  InQueue(t)' \/ InSlot(t)' \/ notice'[t] # NoNotice
    BY DEF WaitInv
  <2>1. CASE t = m.task
    BY <1>5, <2>1 DEF InSlot
  <2>2. CASE t # m.task /\ InQueue(t)
    BY <1>1, <2>2 DEF InQueue, Shifted
  <2>3. CASE InSlot(t)
    BY <1>5, <2>3 DEF InSlot
  <2> QED
    BY <2>1, <2>2, <2>3 DEF CallsInv, WaitInv
<1> QED
  BY <1>6, <1>7, <1>8, <1>11, <1>12, <1>13, <1>14, <1>15 DEF CallsInv
-----------------------------------------------------------------------------
(* What the callers do. *)

\* A new call has an identifier that no other has.
LEMMA NewCall ==
    ASSUME CallType, CallsInv, NEW t \in Tasks, call[t] = NoCall,
           UNCHANGED <<xCommandQueue, xWaitingTasks, xTxBufferList, notice>>,
           NEW op \in Ops, NEW i \in Identifiers, \A v \in Tasks : call[v].id # i,
           call' = [call EXCEPT ![t] = [phase |-> "send", op |-> op, id |-> i]]
    PROVE  CallType' /\ CallsInv'
<1>1. CallType'
  BY DEF CallType
<1>2. call'[t].phase = "send" /\ call'[t].id = i /\ \A v \in Tasks \ {t} : call'[v] = call[v]
  BY DEF CallType
<1>3. call[t].phase # "wait"
  BY DEF NoCall
<1>4. IdInv' /\ NoticeInv' /\ WaitInv'
  BY <1>2, <1>3 DEF CallsInv, IdInv, NoticeInv, WaitInv, InQueue, InSlot
<1>5. QueueInv' /\ QueueOnce' /\ SlotOnce' /\ TxInv' /\ TxOnce' /\ QueueOrSlot'
  BY <1>2, <1>3, QueueShape
     DEF CallsInv, QueueInv, QueueOnce, SlotOnce, TxInv, TxOnce, QueueOrSlot, InQueue, InSlot, Commands
<1>6. SlotInv'
  BY <1>2, <1>3 DEF CallsInv, SlotInv, CallType
<1> QED
  BY <1>1, <1>4, <1>5, <1>6 DEF CallsInv

\* A call ends that has neither a command nor a slot.
LEMMA Ending ==
    ASSUME CallType, CallsInv, NEW t \in Tasks, ~InQueue(t), ~InSlot(t),
           UNCHANGED <<xCommandQueue, xWaitingTasks, xTxBufferList>>,
           call' = [call EXCEPT ![t] = NoCall], notice' = [notice EXCEPT ![t] = NoNotice]
    PROVE  CallType' /\ CallsInv'
<1>1. CallType'
  BY DEF CallType
<1>2. /\ call'[t] = NoCall /\ notice'[t] = NoNotice
      /\ \A v \in Tasks \ {t} : call'[v] = call[v] /\ notice'[v] = notice[v]
  BY DEF CallType
<1>3. \A v \in Tasks : call[v] = NoCall \/ call[v].id # 0
  BY DEF CallType, NoCall, Identifiers
<1>4. IdInv' /\ NoticeInv' /\ WaitInv'
  BY <1>2, <1>3 DEF CallsInv, IdInv, NoticeInv, WaitInv, InQueue, InSlot, NoCall
<1>5. QueueInv' /\ QueueOnce' /\ SlotOnce' /\ TxInv' /\ TxOnce' /\ QueueOrSlot'
  BY <1>2, QueueShape
     DEF CallsInv, QueueInv, QueueOnce, SlotOnce, TxInv, TxOnce, QueueOrSlot, InQueue, InSlot, Commands
<1>6. SlotInv'
  BY <1>2 DEF CallsInv, SlotInv, CallType, InSlot
<1> QED
  BY <1>1, <1>4, <1>5, <1>6 DEF CallsInv

\* The queue gets an element more.
LEMMA Appended ==
    ASSUME CallType, NEW e \in Commands \cup {Service}, xCommandQueue' = Append(xCommandQueue, e)
    PROVE  /\ xCommandQueue' \in Seq(Commands \cup {Service})
           /\ \E n \in DOMAIN xCommandQueue' :
                  /\ n \notin DOMAIN xCommandQueue /\ xCommandQueue'[n] = e
                  /\ DOMAIN xCommandQueue' = DOMAIN xCommandQueue \cup {n}
           /\ \A k \in DOMAIN xCommandQueue : xCommandQueue'[k] = xCommandQueue[k]
<1>1. xCommandQueue \in Seq(Commands \cup {Service})
  BY DEF CallType
<1>2. Len(xCommandQueue) \in Nat /\ DOMAIN xCommandQueue = 1 .. Len(xCommandQueue)
  BY <1>1, LenProperties
<1>3. /\ xCommandQueue' \in Seq(Commands \cup {Service})
      /\ Len(xCommandQueue') = Len(xCommandQueue) + 1
      /\ \A k \in 1 .. Len(xCommandQueue) : xCommandQueue'[k] = xCommandQueue[k]
      /\ xCommandQueue'[Len(xCommandQueue) + 1] = e
  BY <1>1, AppendProperties
<1>4. DOMAIN xCommandQueue' = 1 .. Len(xCommandQueue) + 1
  BY <1>3, LenProperties
<1> QED
  BY <1>2, <1>3, <1>4

\* A call that is sent has a command.
LEMMA Sending ==
    ASSUME CallType, CallsInv, NEW t \in Tasks, call[t].phase = "send",
           UNCHANGED <<xWaitingTasks, xTxBufferList, notice>>,
           xCommandQueue' = Append(xCommandQueue, [task |-> t, op |-> call[t].op, id |-> call[t].id]),
           call' = [call EXCEPT ![t].phase = "wait"]
    PROVE  CallType' /\ CallsInv'
<1> DEFINE e == [task |-> t, op |-> call[t].op, id |-> call[t].id]
<1>1. call[t] \in [phase : {"send", "wait"}, op : Ops, id : Identifiers]
  BY DEF CallType, NoCall
<1>2. e \in Commands /\ e # Service /\ e.task = t
  BY <1>1 DEF Commands, Ops, Requests, Service
<1>3. /\ call'[t] = [phase |-> "wait", op |-> call[t].op, id |-> call[t].id]
      /\ \A v \in Tasks \ {t} : call'[v] = call[v]
  BY <1>1 DEF CallType
<1>4. PICK n \in DOMAIN xCommandQueue' :
          /\ n \notin DOMAIN xCommandQueue /\ xCommandQueue'[n] = e
          /\ DOMAIN xCommandQueue' = DOMAIN xCommandQueue \cup {n}
          /\ \A k \in DOMAIN xCommandQueue : xCommandQueue'[k] = xCommandQueue[k]
          /\ xCommandQueue' \in Seq(Commands \cup {Service})
  BY <1>2, Appended
<1>5. CallType'
  BY <1>1, <1>3, <1>4 DEF CallType
<1>6. notice[t] = NoNotice /\ ~InQueue(t) /\ ~InSlot(t)
  <2>1. notice[t] = NoNotice
    BY DEF CallsInv, NoticeInv
  <2>2. ASSUME NEW k \in DOMAIN xCommandQueue, xCommandQueue[k] # Service, xCommandQueue[k].task = t
        PROVE  FALSE
    <3>1. call[t] = [phase |-> "wait", op |-> xCommandQueue[k].op, id |-> xCommandQueue[k].id]
      BY <2>2 DEF CallsInv, QueueInv
    <3> QED
      BY <3>1
  <2>3. ~InSlot(t)
    BY DEF CallsInv, SlotInv, InSlot
  <2> QED
    BY <2>1, <2>2, <2>3 DEF InQueue
<1> HIDE DEF e
<1>7. IdInv' /\ NoticeInv'
  BY <1>1, <1>3, <1>6 DEF CallsInv, IdInv, NoticeInv, NoCall
<1>8. QueueInv'
  <2> SUFFICES ASSUME NEW k \in DOMAIN xCommandQueue', xCommandQueue'[k] # Service
               PROVE  LET m == xCommandQueue'[k]
                      IN  /\ call'[m.task] = [phase |-> "wait", op |-> m.op, id |-> m.id]
                          /\ notice'[m.task] = NoNotice
    BY DEF QueueInv
  <2>1. CASE k = n
    BY <1>2, <1>3, <1>4, <1>6, <2>1 DEF e
  <2>2. CASE k # n
    <3>1. k \in DOMAIN xCommandQueue /\ xCommandQueue'[k] = xCommandQueue[k]
      BY <1>4, <2>2
    <3>2. xCommandQueue[k].task \in Tasks /\ xCommandQueue[k].task # t
      BY <1>6, <3>1, QueueShape DEF InQueue, Commands
    <3> QED
      BY <1>3, <3>1, <3>2 DEF CallsInv, QueueInv
  <2> QED
    BY <2>1, <2>2
<1>9. QueueOnce'
  BY <1>2, <1>4, <1>6 DEF CallsInv, QueueOnce, InQueue
<1>10. SlotInv' /\ SlotOnce' /\ TxInv' /\ TxOnce'
  BY <1>3, <1>6 DEF CallsInv, SlotInv, SlotOnce, TxInv, TxOnce, CallType, InSlot
<1>11. \A v \in Tasks : (InQueue(v)' <=> InQueue(v) \/ v = t) /\ (InSlot(v)' <=> InSlot(v))
  BY <1>2, <1>4 DEF InQueue, InSlot
<1>12. QueueOrSlot'
  BY <1>6, <1>11 DEF CallsInv, QueueOrSlot
<1>13. WaitInv'
  BY <1>3, <1>11 DEF CallsInv, WaitInv
<1> QED
  BY <1>5, <1>7, <1>8, <1>9, <1>10, <1>12, <1>13 DEF CallsInv

\* The command for the socket is of no call.
LEMMA Waking ==
    ASSUME CallType, CallsInv, UNCHANGED <<call, notice, xWaitingTasks, xTxBufferList>>,
           xCommandQueue' = Append(xCommandQueue, Service)
    PROVE  CallType' /\ CallsInv'
<1>1. PICK n \in DOMAIN xCommandQueue' :
          /\ n \notin DOMAIN xCommandQueue /\ xCommandQueue'[n] = Service
          /\ DOMAIN xCommandQueue' = DOMAIN xCommandQueue \cup {n}
          /\ \A k \in DOMAIN xCommandQueue : xCommandQueue'[k] = xCommandQueue[k]
          /\ xCommandQueue' \in Seq(Commands \cup {Service})
  BY Appended
<1>2. CallType'
  BY <1>1 DEF CallType
<1>3. \A v \in Tasks : (InQueue(v)' <=> InQueue(v)) /\ (InSlot(v)' <=> InSlot(v))
  BY <1>1 DEF InQueue, InSlot
<1>4. QueueInv' /\ QueueOnce'
  BY <1>1 DEF CallsInv, QueueInv, QueueOnce
<1>5. IdInv' /\ NoticeInv' /\ SlotInv' /\ SlotOnce' /\ TxInv' /\ TxOnce'
  BY DEF CallsInv, IdInv, NoticeInv, SlotInv, SlotOnce, TxInv, TxOnce
<1>6. QueueOrSlot' /\ WaitInv'
  BY <1>3 DEF CallsInv, QueueOrSlot, WaitInv
<1> QED
  BY <1>2, <1>4, <1>5, <1>6 DEF CallsInv
-----------------------------------------------------------------------------
(* What the agent does. *)

\* The queue as it was.
LEMMA SameQueue ==
    ASSUME CallType, UNCHANGED xCommandQueue
    PROVE  Shifted(0) /\ Taken(0, {}) /\ xCommandQueue' \in Seq(Commands \cup {Service})
<1>1. \A k \in DOMAIN xCommandQueue : k \in Nat
  BY QueueShape
<1> QED
  BY <1>1 DEF Shifted, Taken, CallType

\* The queue without its first command.
LEMMA ShorterQueue ==
    ASSUME CallType, xCommandQueue # << >>, xCommandQueue' = Tail(xCommandQueue)
    PROVE  /\ Shifted(1) /\ 1 \in DOMAIN xCommandQueue
           /\ Head(xCommandQueue) = xCommandQueue[1]
           /\ Head(xCommandQueue) \in Commands \cup {Service}
           /\ xCommandQueue' \in Seq(Commands \cup {Service})
<1>1. xCommandQueue \in Seq(Commands \cup {Service})
  BY DEF CallType
<1>2. Len(xCommandQueue) \in Nat /\ DOMAIN xCommandQueue = 1 .. Len(xCommandQueue)
  BY <1>1, LenProperties
<1>3. /\ Head(xCommandQueue) = xCommandQueue[1] /\ Len(xCommandQueue) # 0
      /\ Head(xCommandQueue) \in Commands \cup {Service}
      /\ xCommandQueue' \in Seq(Commands \cup {Service})
      /\ Len(xCommandQueue') = Len(xCommandQueue) - 1
      /\ \A k \in 1 .. Len(xCommandQueue) - 1 : xCommandQueue'[k] = xCommandQueue[k + 1]
  BY <1>1, HeadTailProperties, EmptySeq
<1>4. DOMAIN xCommandQueue' = 1 .. Len(xCommandQueue) - 1
  BY <1>3, LenProperties
<1>5. Shifted(1)
  BY <1>2, <1>3, <1>4 DEF Shifted
<1> QED
  BY <1>2, <1>3, <1>5

\* The records for slots X, of result r, and for commands M, of result s.
OfSlots(X, r)    == UNION {Told(xWaitingTasks[x], r) : x \in X}
OfCommands(M, s) == UNION {Told(m, s) : m \in M}
Records(X, r, M, s) == OfSlots(X, r) \cup OfCommands(M, s)

\* They are for the tasks of X and M, and have these results.
LEMMA RecordsAreFor ==
    ASSUME NEW X, NEW M, NEW r \in Results, NEW s \in Results
    PROVE  /\ IsFor(Records(X, r, M, s), X, M)
           /\ \A n \in Records(X, r, M, s) :
                  \/ \E x \in X : n.task = xWaitingTasks[x].task /\ n.result = r
                  \/ \E m \in M : n.task = m.task /\ n.result = s
<1> DEFINE N == Records(X, r, M, s)
<1>1. \A w, q : \A n \in Told(w, q) : n.task = w.task /\ n.id = w.id /\ n.result = q
  BY DEF Told
<1>2. \A w, q : [task |-> w.task, id |-> w.id, result |-> q] \in Told(w, q)
  BY DEF Told
<1>3. ASSUME NEW n
      PROVE  n \in N <=> \/ \E x \in X : n \in Told(xWaitingTasks[x], r)
                         \/ \E m \in M : n \in Told(m, s)
  <2>1. n \in OfSlots(X, r) <=> \E x \in X : n \in Told(xWaitingTasks[x], r)
    BY DEF OfSlots
  <2>2. n \in OfCommands(M, s) <=> \E m \in M : n \in Told(m, s)
    BY DEF OfCommands
  <2> QED
    BY <2>1, <2>2 DEF Records
<1> HIDE DEF N
<1>4. \A n \in N : \/ \E x \in X : n.task = xWaitingTasks[x].task /\ n.id = xWaitingTasks[x].id /\ n.result = r
                   \/ \E m \in M : n.task = m.task /\ n.id = m.id /\ n.result = s
  BY <1>1, <1>3
<1>5. ASSUME NEW x \in X PROVE \E n \in N : n.task = xWaitingTasks[x].task
  <2>1. [task |-> xWaitingTasks[x].task, id |-> xWaitingTasks[x].id, result |-> r] \in N
    BY <1>2, <1>3
  <2> QED
    BY <2>1
<1>6. ASSUME NEW m \in M PROVE \E n \in N : n.task = m.task
  <2>1. [task |-> m.task, id |-> m.id, result |-> s] \in N
    BY <1>2, <1>3
  <2> QED
    BY <2>1
<1>7. IsFor(N, X, M)
  BY <1>4, <1>5, <1>6 DEF IsFor
<1> QED
  BY <1>4, <1>7 DEF N

\* A step of the agent that tells tasks keeps what holds of the calls, if success is
\* told where it is due.
LEMMA TellStep ==
    ASSUME CallType, CallsInv, SuccessIsDeserved,
           NEW X \in SUBSET (Slots \ FreeSlots), NEW M \in SUBSET Commands,
           NEW r \in Results, NEW s \in Results, NEW d \in {0, 1},
           UNCHANGED call, Shifted(d), Taken(d, M), xCommandQueue' \in Seq(Commands \cup {Service}),
           Notify(Records(X, r, M, s)),
           xWaitingTasks' = [x \in Slots |-> IF x \in X THEN NoTask ELSE xWaitingTasks[x]],
           xTxBufferList' = {p \in xTxBufferList : \A x \in X : p.id # xWaitingTasks[x].id},
           answered \subseteq answered',
           r = "Success" => \A x \in X : xWaitingTasks[x].task \in answered',
           s = "Success" => \A m \in M : m.task \in answered' \/ m.op = "DISCONNECT"
    PROVE  CallType' /\ CallsInv' /\ SuccessIsDeserved'
<1> DEFINE N == Records(X, r, M, s)
<1>1. IsFor(N, X, M)
  BY RecordsAreFor
<1>2. \A n \in N : \/ \E x \in X : n.task = xWaitingTasks[x].task /\ n.result = r
                   \/ \E m \in M : n.task = m.task /\ n.result = s
  BY RecordsAreFor
<1> HIDE DEF N
<1>3. Notify(N)
  BY DEF N
<1>4. CallType' /\ CallsInv'
  BY <1>1, <1>3, Notifying
<1>5. ASSUME NEW m \in M PROVE call[m.task].op = m.op
  <2>1. 1 \in DOMAIN xCommandQueue /\ m = xCommandQueue[1] /\ m # Service
    BY DEF Taken
  <2>2. call[m.task] = [phase |-> "wait", op |-> m.op, id |-> m.id]
    BY <2>1 DEF CallsInv, QueueInv
  <2> QED
    BY <2>2
<1>6. ASSUME NEW t \in Tasks, notice'[t].result = "Success", call[t].op # "DISCONNECT"
      PROVE  t \in answered'
  <2>1. CASE notice'[t] = notice[t]
    BY <1>6, <2>1 DEF SuccessIsDeserved
  <2>2. CASE notice'[t] # notice[t]
    <3>1. notice[t] = NoNotice /\ \E n \in N : n.task = t
      BY <1>3, <2>2 DEF Notify
    <3>2. PICK n \in N : n.task = t /\ notice'[t] = [id |-> n.id, result |-> n.result]
      BY <1>3, <3>1, NotifiedAre
    <3>3. n.result = "Success"
      BY <1>6, <3>2
    <3> QED
      BY <1>2, <1>5, <1>6, <3>2, <3>3
  <2> QED
    BY <2>1, <2>2
<1> QED
  BY <1>4, <1>6 DEF SuccessIsDeserved

\* A request has one slot at the most, so the first is the one.
LEMMA SlotOf ==
    ASSUME CallType, CallsInv, NEW i
    PROVE  prvRetrieveNotificationData(i) = {x \in Slots \ FreeSlots : xWaitingTasks[x].id = i}
<1>1. ASSUME NEW x \in Slots \ FreeSlots, NEW y \in Slots \ FreeSlots,
             xWaitingTasks[x].id = xWaitingTasks[y].id
      PROVE  x = y
  <2>1. /\ xWaitingTasks[x] # NoTask /\ xWaitingTasks[x].task \in Tasks
        /\ xWaitingTasks[y] # NoTask /\ xWaitingTasks[y].task \in Tasks
    BY DEF FreeSlots, CallType
  <2>2. /\ call[xWaitingTasks[x].task].phase = "wait"
        /\ call[xWaitingTasks[x].task].id = call[xWaitingTasks[y].task].id
    BY <1>1, <2>1 DEF CallsInv, SlotInv
  <2>3. xWaitingTasks[x].task = xWaitingTasks[y].task
    BY <2>1, <2>2 DEF CallsInv, IdInv, NoCall
  <2> QED
    BY <2>1, <2>3 DEF CallsInv, SlotOnce
<1>2. \A x \in Slots : x \in Int
  BY DEF Slots
<1> QED
  BY <1>1, <1>2 DEF prvRetrieveNotificationData, First

\* The records of the agent's steps.
LEMMA RecordsOf ==
    ASSUME NEW X, NEW m, NEW r \in Results, NEW s \in Results
    PROVE  /\ Records({}, r, {}, s) = {}
           /\ Records(X, r, {}, s) = UNION {Told(xWaitingTasks[x], r) : x \in X}
           /\ Records({}, r, {m}, s) = Told(m, s)
           /\ Records(X, r, {m}, s) = Told(m, s) \cup UNION {Told(xWaitingTasks[x], r) : x \in X}
<1>1. OfSlots({}, r) = {} /\ OfCommands({}, s) = {}
  BY DEF OfSlots, OfCommands
<1>2. OfCommands({m}, s) = Told(m, s)
  BY DEF OfCommands
<1>3. OfSlots(X, r) = UNION {Told(xWaitingTasks[x], r) : x \in X}
  BY DEF OfSlots
<1> QED
  BY <1>1, <1>2, <1>3 DEF Records

\* What the calls do not see.
LEMMA CallsSame ==
    ASSUME CallType, CallsInv, UNCHANGED <<call, notice, xCommandQueue, xWaitingTasks, xTxBufferList>>
    PROVE  CallType' /\ CallsInv'
BY DEF CallType, CallsInv, IdInv, NoticeInv, QueueInv, QueueOnce, SlotInv, QueueOrSlot, SlotOnce,
       TxInv, TxOnce, WaitInv, InQueue, InSlot

\* What the broker and the core library have is the same.
rest == <<xConnectionState, xRxBuffer, xTxBufferList, pool, taken, xSocket, refused, atBroker,
          ulQueueMessageIdentifier>>

LEMMA RestSame ==
    ASSUME IInv, UNCHANGED <<rest, call>>
    PROVE  CoreType' /\ BrokerInv' /\ ConnectionInv' /\ LeakInv'
BY DEF IInv, rest, CoreType, BrokerInv, ConnectionInv, LeakInv, RxBuffers

\* The agent takes a command.
Takes(m) == /\ xCommandQueue # << >> /\ m = Head(xCommandQueue)
            /\ xCommandQueue' = Tail(xCommandQueue)
            /\ UNCHANGED <<call, ulQueueMessageIdentifier>>

\* The command taken is of a call that waits.
LEMMA TakenCommand ==
    ASSUME IInv, NEW m, Takes(m), m # Service
    PROVE  /\ m \in Commands /\ Shifted(1) /\ Taken(1, {m}) /\ 1 \in DOMAIN xCommandQueue
           /\ m = xCommandQueue[1]
           /\ call[m.task] = [phase |-> "wait", op |-> m.op, id |-> m.id]
           /\ xCommandQueue' \in Seq(Commands \cup {Service})
<1>1. /\ Shifted(1) /\ 1 \in DOMAIN xCommandQueue /\ m = xCommandQueue[1]
      /\ m \in Commands \cup {Service} /\ xCommandQueue' \in Seq(Commands \cup {Service})
  BY ShorterQueue DEF Takes, IInv
<1>2. Taken(1, {m})
  BY <1>1 DEF Taken
<1> QED
  BY <1>1, <1>2 DEF IInv, CallsInv, QueueInv

\* The command for the socket is taken.
LEMMA ServiceTaken ==
    ASSUME IInv, Takes(Service), ServiceCommand
    PROVE  IInv'
<1>1. Shifted(1) /\ Taken(1, {}) /\ xCommandQueue' \in Seq(Commands \cup {Service})
  <2>1. /\ Shifted(1) /\ 1 \in DOMAIN xCommandQueue /\ Service = xCommandQueue[1]
        /\ xCommandQueue' \in Seq(Commands \cup {Service})
    BY ShorterQueue DEF Takes, IInv
  <2> QED
    BY <2>1 DEF Taken
<1>2. Notify({})
  BY DEF Notify, ServiceCommand, IInv, CallType
<1>3. Records({}, "Failure", {}, "Failure") = {}
  BY RecordsOf DEF Results
<1>4. xWaitingTasks' = [x \in Slots |-> IF x \in {} THEN NoTask ELSE xWaitingTasks[x]]
  BY DEF ServiceCommand, IInv, CallType
<1>5. xTxBufferList' = {p \in xTxBufferList : \A x \in {} : p.id # xWaitingTasks[x].id}
  BY DEF ServiceCommand, core
<1>6. CallType' /\ CallsInv' /\ SuccessIsDeserved'
  <2>1. "Failure" \in Results /\ {} \in SUBSET Commands /\ {} \in SUBSET (Slots \ FreeSlots)
    BY DEF Results
  <2>2. UNCHANGED <<call, answered>> /\ CallType /\ CallsInv /\ SuccessIsDeserved
    BY DEF Takes, ServiceCommand, history, IInv
  <2>3. Notify(Records({}, "Failure", {}, "Failure"))
    BY <1>2, <1>3
  <2> QED
    BY <1>1, <1>4, <1>5, <2>1, <2>2, <2>3, TellStep
<1>7. CoreType' /\ BrokerInv' /\ ConnectionInv' /\ LeakInv'
  BY RestSame DEF Takes, ServiceCommand, core, rest, history
<1> QED
  BY <1>6, <1>7 DEF IInv

\* The caller of the command taken is told, and that is all.
LEMMA CommandToldOf ==
    ASSUME IInv, NEW m, Takes(m), m # Service, NEW s \in Results, Notify(Told(m, s)),
           UNCHANGED <<xWaitingTasks, xTxBufferList>>, answered \subseteq answered',
           s = "Success" => m.task \in answered' \/ m.op = "DISCONNECT"
    PROVE  CallType' /\ CallsInv' /\ SuccessIsDeserved'
<1>1. /\ m \in Commands /\ Shifted(1) /\ Taken(1, {m})
      /\ xCommandQueue' \in Seq(Commands \cup {Service})
  BY TakenCommand
<1>2. Notify(Records({}, "Failure", {m}, s)) /\ "Failure" \in Results
  BY RecordsOf DEF Results
<1>3. xWaitingTasks' = [x \in Slots |-> IF x \in {} THEN NoTask ELSE xWaitingTasks[x]]
  BY DEF IInv, CallType
<1>4. xTxBufferList' = {p \in xTxBufferList : \A x \in {} : p.id # xWaitingTasks[x].id}
  OBVIOUS
<1>5. {m} \in SUBSET Commands /\ {} \in SUBSET (Slots \ FreeSlots) /\ 1 \in {0, 1}
  BY <1>1
<1>6. UNCHANGED call /\ CallType /\ CallsInv /\ SuccessIsDeserved
  BY DEF Takes, IInv
<1> QED
  BY <1>1, <1>2, <1>3, <1>4, <1>5, <1>6, TellStep

LEMMA CommandTold ==
    ASSUME IInv, NEW m, Takes(m), m # Service, NEW s \in Results, Notify(Told(m, s)),
           UNCHANGED <<xWaitingTasks, rest>>, answered \subseteq answered',
           s = "Success" => m.task \in answered' \/ m.op = "DISCONNECT"
    PROVE  IInv'
<1>1. CallType' /\ CallsInv' /\ SuccessIsDeserved'
  BY CommandToldOf DEF rest
<1>2. CoreType' /\ BrokerInv' /\ ConnectionInv' /\ LeakInv'
  BY RestSame DEF Takes
<1> QED
  BY <1>1, <1>2 DEF IInv

\* The socket that is left open when its last option is refused.
LEMMA SetupFailed ==
    ASSUME IInv, NEW m, Takes(m), m # Service, ~xSocket, SetupFails(m)
    PROVE  IInv'
<1>1. PICK open \in BOOLEAN :
          /\ Notify(Told(m, "Failure"))
          /\ xSocket' = open /\ refused' = (refused \/ open)
          /\ UNCHANGED <<core, xWaitingTasks, atBroker, answered>>
  BY DEF SetupFails
<1>2. /\ UNCHANGED <<xConnectionState, xTxBufferList, xRxBuffer, pool, taken, call,
                     ulQueueMessageIdentifier>>
      /\ "Failure" \in Results /\ "Failure" # "Success"
  BY <1>1 DEF core, Takes, Results
<1>3. CallType' /\ CallsInv' /\ SuccessIsDeserved'
  BY <1>1, <1>2, CommandToldOf
<1>4. xConnectionState = "NotConnected" /\ ~refused
  BY DEF IInv, LeakInv
<1>5. refused' \in BOOLEAN /\ xSocket' \in BOOLEAN /\ (xSocket' <=> refused')
  BY <1>1, <1>4 DEF IInv, CoreType
<1>6. CoreType'
  BY <1>1, <1>2, <1>5 DEF IInv, CoreType
<1>7. LeakInv'
  BY <1>2, <1>4, <1>5 DEF IInv, LeakInv, RxBuffers
<1>8. BrokerInv' /\ ConnectionInv'
  BY <1>1, <1>2, <1>4 DEF IInv, BrokerInv, ConnectionInv
<1> QED
  BY <1>3, <1>6, <1>7, <1>8 DEF IInv

\* A request is made only in its state of the connection and with a free buffer.
LEMMA MadeWhen ==
    ASSUME NEW p, NEW sent, ReturnCode(p, sent) = "Success"
    PROVE  /\ p.op = "CONNECT" => xConnectionState = "NotConnected"
           /\ p.op # "CONNECT" => xConnectionState = "Connected"
           /\ pool # 0
BY DEF ReturnCode

\* A request that is not kept leaves the client as it was, but for its subscriptions.
LEMMA NotKept ==
    ASSUME NEW p, NEW sent, Request(p, sent),
           ReturnCode(p, sent) # "Success" \/ p.op = "PUBLISH0"
    PROVE  UNCHANGED <<xConnectionState, xTxBufferList, xRxBuffer, pool, taken>>
BY DEF Request

\* A request that is kept takes a buffer and a slot.
LEMMA RequestKept ==
    ASSUME IInv, NEW m, Takes(m), m # Service, m.op # "PUBLISH0", m.op # "DISCONNECT",
           m.op = "CONNECT" => ~xSocket,
           FreeSlots # {}, NEW sent \in BOOLEAN, RequestMade(m, sent),
           ReturnCode(Packet(m), sent) = "Success"
    PROVE  IInv'
<1> DEFINE p == Packet(m)
<1>1. /\ m \in Commands /\ Shifted(1) /\ 1 \in DOMAIN xCommandQueue /\ m = xCommandQueue[1]
      /\ call[m.task] = [phase |-> "wait", op |-> m.op, id |-> m.id]
      /\ xCommandQueue' \in Seq(Commands \cup {Service})
  BY TakenCommand
<1>2. m.task \in Tasks /\ m.op \in Ops /\ m.id \in Identifiers
  BY <1>1 DEF Commands
<1>3. p.op = m.op /\ p.id = m.id /\ p \in [op : Ops, id : Identifiers, topic : Topics]
  BY <1>2, AgentAssumption DEF Packet
<1>4. /\ m.op = "CONNECT" => xConnectionState = "NotConnected"
      /\ m.op # "CONNECT" => xConnectionState = "Connected"
      /\ pool # 0
  BY <1>3, MadeWhen
<1>5. /\ xConnectionState' = IF m.op = "CONNECT" THEN "ConnectionInProgress" ELSE xConnectionState
      /\ xTxBufferList' = xTxBufferList \cup {p} /\ pool' = pool - 1
      /\ UNCHANGED <<xRxBuffer, taken>>
  BY <1>3 DEF RequestMade, Request
<1>6. /\ prvStoreNotificationData(m) /\ UNCHANGED <<notice, answered, refused>>
      /\ xSocket' = (xSocket \/ m.op = "CONNECT") /\ atBroker' = atBroker \cup {m}
  BY DEF RequestMade
<1>7. PICK x \in Slots : xWaitingTasks[x] = NoTask
          /\ xWaitingTasks' = [xWaitingTasks EXCEPT ![x] = [task |-> m.task, id |-> m.id]]
  BY <1>6 DEF prvStoreNotificationData, First, FreeSlots
<1> HIDE DEF p
<1>8. CallType'
  BY <1>1, <1>2, <1>3, <1>5, <1>6, <1>7 DEF IInv, CallType, Takes
<1>9. CallsInv'
  BY <1>1, <1>3, <1>5, <1>6, <1>7, <1>8, Storing DEF IInv, Takes
<1>10. p \notin xTxBufferList
  <2> SUFFICES ASSUME p \in xTxBufferList PROVE FALSE
    OBVIOUS
  <2>1. PICK y \in Slots : xWaitingTasks[y] # NoTask /\ xWaitingTasks[y].id = m.id
    BY <1>3 DEF IInv, CallsInv, TxInv
  <2>2. /\ xWaitingTasks[y].task \in Tasks /\ InSlot(xWaitingTasks[y].task)
        /\ call[xWaitingTasks[y].task].phase = "wait"
        /\ call[xWaitingTasks[y].task].id = m.id
    BY <2>1 DEF IInv, CallType, InSlot, CallsInv, SlotInv
  <2>3. xWaitingTasks[y].task = m.task
    BY <1>1, <1>2, <2>2 DEF IInv, CallsInv, IdInv, NoCall
  <2>4. InQueue(m.task)
    BY <1>1 DEF InQueue
  <2> QED
    BY <1>2, <2>2, <2>3, <2>4 DEF IInv, CallsInv, QueueOrSlot
<1>11. /\ IsFiniteSet(xTxBufferList') /\ Cardinality(xTxBufferList) \in Nat
       /\ Cardinality(xTxBufferList') = Cardinality(xTxBufferList) + 1
  BY <1>5, <1>10, FS_AddElement, FS_CardinalityType DEF IInv, CoreType
<1>12. CoreType'
  BY <1>1, <1>4, <1>5, <1>6, <1>11 DEF IInv, CoreType, Takes
<1>13. RxBuffers' = RxBuffers /\ RxBuffers \in Nat
  BY <1>5 DEF RxBuffers
<1>14. LeakInv'
  <2>1. pool' + Cardinality(xTxBufferList') + RxBuffers' + taken' = NumBuffers
    BY <1>5, <1>11, <1>13 DEF IInv, LeakInv, CoreType
  <2>2. /\ xSocket' <=> xConnectionState' # "NotConnected" \/ refused'
        /\ refused' => xConnectionState' = "NotConnected"
    BY <1>4, <1>5, <1>6 DEF IInv, LeakInv
  <2> QED
    BY <2>1, <2>2 DEF LeakInv
<1>15. BrokerInv'
  <2>1. UNCHANGED call
    BY DEF Takes
  <2>2. \A t \in Tasks : call[t].id = m.id => t = m.task
    BY <1>1, <1>2 DEF IInv, CallsInv, IdInv, NoCall
  <2> QED
    BY <1>6, <2>1, <2>2 DEF IInv, BrokerInv
<1>16. ConnectionInv'
  <2>1. CASE m.op = "CONNECT"
    <3>1. xTxBufferList' = {p} /\ atBroker' = {m} /\ xConnectionState' = "ConnectionInProgress"
      BY <1>4, <1>5, <1>6, <2>1 DEF IInv, ConnectionInv
    <3>2. xTxBufferList' = {Packet(m)}
      BY <3>1 DEF p
    <3> QED
      BY <1>1, <2>1, <3>1, <3>2 DEF ConnectionInv
  <2>2. CASE m.op # "CONNECT"
    BY <1>3, <1>4, <1>5, <1>6, <2>2 DEF IInv, ConnectionInv
  <2> QED
    BY <2>1, <2>2
<1>17. SuccessIsDeserved'
  BY <1>6 DEF IInv, SuccessIsDeserved, Takes
<1> QED
  BY <1>8, <1>9, <1>12, <1>14, <1>15, <1>16, <1>17 DEF IInv

\* The connection is given up, and each waiting task told so.
LEMMA GivenUp ==
    ASSUME IInv, NEW M \in SUBSET Commands, NEW s \in Results, NEW d \in {0, 1},
           xConnectionState # "NotConnected", prvResetMQTTContext,
           prvProcessReceivedDisconnect(OfCommands(M, s)),
           UNCHANGED <<call, ulQueueMessageIdentifier>>,
           Shifted(d), Taken(d, M), xCommandQueue' \in Seq(Commands \cup {Service}),
           s = "Success" => \A m \in M : m.op = "DISCONNECT"
    PROVE  IInv'
<1> DEFINE X == Slots \ FreeSlots
<1>1. /\ Notify(Records(X, "Failure", M, s)) /\ "Failure" \in Results
      /\ xSocket' = FALSE /\ atBroker' = {} /\ UNCHANGED <<answered, refused>>
  <2>1. OfCommands(M, s) \cup OfSlots(X, "Failure") = Records(X, "Failure", M, s)
    BY DEF Records
  <2>2. Notify(OfCommands(M, s) \cup OfSlots(X, "Failure"))
    BY DEF prvProcessReceivedDisconnect, OfSlots
  <2> QED
    BY <2>1, <2>2 DEF prvProcessReceivedDisconnect, Results
<1>2. xWaitingTasks' = [x \in Slots |-> IF x \in X THEN NoTask ELSE xWaitingTasks[x]]
  BY DEF prvProcessReceivedDisconnect, FreeSlots
<1>3. xTxBufferList' = {p \in xTxBufferList : \A x \in X : p.id # xWaitingTasks[x].id}
  <2>1. \A p \in xTxBufferList : \E x \in X : p.id = xWaitingTasks[x].id
    BY DEF IInv, CallsInv, TxInv, FreeSlots
  <2>2. xTxBufferList' = {}
    BY DEF prvResetMQTTContext
  <2> QED
    BY <2>1, <2>2
<1>4. CallType' /\ CallsInv' /\ SuccessIsDeserved'
  <2>1. X \in SUBSET (Slots \ FreeSlots)
    OBVIOUS
  <2>2. CallType /\ CallsInv /\ SuccessIsDeserved
    BY DEF IInv
  <2> HIDE DEF X
  <2> QED
    BY <1>1, <1>2, <1>3, <2>1, <2>2, TellStep
<1>5. IsFiniteSet(xTxBufferList) /\ Cardinality(xTxBufferList) \in Nat
  BY FS_CardinalityType DEF IInv, CoreType
<1>6. /\ xConnectionState' = "NotConnected" /\ xTxBufferList' = {} /\ xRxBuffer' = "none"
      /\ pool' = pool + Cardinality(xTxBufferList) + RxBuffers /\ taken' = taken
  BY DEF prvResetMQTTContext
<1>7. RxBuffers' = 0 /\ RxBuffers \in Nat
  BY <1>6 DEF RxBuffers
<1>8. IsFiniteSet({}) /\ Cardinality({}) = 0
  BY FS_EmptySet
<1>9. CoreType'
  <2>1. pool' \in Nat
    BY <1>5, <1>6, <1>7 DEF IInv, CoreType
  <2>2. IsFiniteSet(xTxBufferList')
    BY <1>6, <1>8
  <2>3. atBroker' \subseteq Commands
    BY <1>1
  <2> QED
    BY <1>1, <1>6, <2>1, <2>2, <2>3 DEF IInv, CoreType
<1>10. LeakInv'
  <2>1. pool' + 0 + RxBuffers' + taken' = NumBuffers
    BY <1>5, <1>6, <1>7 DEF IInv, LeakInv, CoreType
  <2>2. Cardinality(xTxBufferList') = 0
    BY <1>6, <1>8
  <2>3. ~refused'
    BY <1>1 DEF IInv, LeakInv
  <2> QED
    BY <1>1, <1>6, <2>1, <2>2, <2>3 DEF LeakInv
<1>11. BrokerInv' /\ ConnectionInv'
  BY <1>1, <1>6 DEF BrokerInv, ConnectionInv
<1> QED
  BY <1>4, <1>9, <1>10, <1>11 DEF IInv

\* A client that is not connected is only reset, which changes nothing.
LEMMA ResetIsIdle ==
    ASSUME IInv, prvResetMQTTContext, xConnectionState = "NotConnected"
    PROVE  UNCHANGED <<xConnectionState, xTxBufferList, xRxBuffer, pool, taken>>
<1>1. xTxBufferList = {} /\ RxBuffers = 0 /\ xRxBuffer = "none"
  BY DEF IInv, ConnectionInv, RxBuffers
<1>2. Cardinality(xTxBufferList) = 0
  BY <1>1, FS_EmptySet
<1>3. pool' = pool
  BY <1>1, <1>2 DEF prvResetMQTTContext, IInv, CoreType
<1> QED
  BY <1>1, <1>3 DEF prvResetMQTTContext

\* The command to disconnect is done.
LEMMA DisconnectDone ==
    ASSUME IInv, NEW m, Takes(m), m # Service, m.op = "DISCONNECT",
           NEW s \in Results, MQTT_Disconnect(Told(m, s))
    PROVE  IInv'
<1>1. /\ m \in Commands /\ Shifted(1) /\ Taken(1, {m})
      /\ xCommandQueue' \in Seq(Commands \cup {Service})
  BY TakenCommand
<1>2. prvResetMQTTContext
  BY DEF MQTT_Disconnect
<1>3. CASE xConnectionState # "NotConnected"
  <2>1. OfCommands({m}, s) = Told(m, s)
    BY DEF OfCommands
  <2>2. prvProcessReceivedDisconnect(OfCommands({m}, s))
    BY <1>3, <2>1 DEF MQTT_Disconnect
  <2>3. {m} \in SUBSET Commands /\ 1 \in {0, 1} /\ \A c \in {m} : c.op = "DISCONNECT"
    BY <1>1
  <2>4. UNCHANGED <<call, ulQueueMessageIdentifier>>
    BY DEF Takes
  <2> QED
    BY <1>1, <1>2, <1>3, <2>2, <2>3, <2>4, GivenUp
<1>4. CASE xConnectionState = "NotConnected"
  <2>1. Notify(Told(m, s)) /\ UNCHANGED <<xWaitingTasks, xSocket, refused, atBroker, answered>>
    BY <1>4 DEF MQTT_Disconnect, history
  <2>2. UNCHANGED rest
    BY <1>2, <1>4, <2>1, ResetIsIdle DEF rest, Takes
  <2> QED
    BY <2>1, <2>2, CommandTold
<1> QED
  BY <1>3, <1>4

\* A request is made, or is not.
LEMMA RequestDone ==
    ASSUME IInv, NEW m, Takes(m), m # Service, m.op # "PUBLISH0", m.op # "DISCONNECT",
           m.op = "CONNECT" => ~xSocket,
           FreeSlots # {}, NEW sent \in BOOLEAN, RequestMade(m, sent)
    PROVE  IInv'
<1>1. CASE ReturnCode(Packet(m), sent) = "Success"
  BY <1>1, RequestKept
<1>2. CASE ReturnCode(Packet(m), sent) # "Success"
  <2>1. Request(Packet(m), sent) /\ Notify(Told(m, "Failure"))
        /\ UNCHANGED <<xWaitingTasks, xSocket, refused, atBroker, answered>>
    BY <1>2 DEF RequestMade, IInv, CoreType
  <2>2. UNCHANGED rest
    BY <1>2, <2>1, NotKept DEF rest, Takes
  <2> QED
    BY <2>1, <2>2, CommandTold DEF Results
<1> QED
  BY <1>1, <1>2

\* A command that fails before its request is made.
LEMMA CommandRefused ==
    ASSUME IInv, NEW m, Takes(m), m # Service, NEW s \in {"Failure", "Timeout"},
           Notify(Told(m, s)), UNCHANGED <<core, xWaitingTasks, xSocket, atBroker, history>>
    PROVE  IInv'
<1>1. UNCHANGED rest
  BY DEF core, rest, Takes, history
<1>2. UNCHANGED <<xWaitingTasks, answered>> /\ s \in Results /\ s # "Success"
  BY DEF history, Results
<1> QED
  BY <1>1, <1>2, CommandTold

\* Each command.
LEMMA Handled ==
    ASSUME IInv, Faults = {}, NEW m, Takes(m), m # Service, Handle(m)
    PROVE  IInv'
<1>1. ASSUME CommandFails(m) PROVE IInv'
  BY <1>1, CommandRefused DEF CommandFails
<1>2. CASE prvInitiateMQTTConnect(m)
  <2>1. ASSUME ~xSocket, SetupFails(m) PROVE IInv'
    BY <2>1, SetupFailed
  <2>2. m.op = "CONNECT"
    BY <1>2 DEF prvInitiateMQTTConnect
  <2>3. ASSUME ~xSocket, FreeSlots # {}, \E sent \in BOOLEAN : RequestMade(m, sent) PROVE IInv'
    BY <2>2, <2>3, RequestDone
  <2> QED
    BY <1>1, <1>2, <2>1, <2>3 DEF prvInitiateMQTTConnect
<1>3. CASE prvInitiateMQTTDisconnect(m)
  BY <1>3, DisconnectDone DEF prvInitiateMQTTDisconnect, Results
<1>4. CASE prvInitiateMQTTSubscribe(m)
  <2>1. m.op # "PUBLISH0" /\ m.op # "DISCONNECT" /\ m.op # "CONNECT"
    BY <1>4 DEF prvInitiateMQTTSubscribe
  <2> QED
    BY <1>1, <1>4, <2>1, RequestDone DEF prvInitiateMQTTSubscribe
<1>5. CASE prvInitiateMQTTPublish0(m)
  <2>1. PICK sent \in BOOLEAN :
            /\ m.op = "PUBLISH0" /\ Request(Packet(m), sent)
            /\ LET ok == ReturnCode(Packet(m), sent) = "Success"
               IN  /\ Notify(Told(m, IF ok THEN "Success" ELSE "Failure"))
                   /\ answered' = IF ok THEN answered \cup {m.task} ELSE answered
            /\ UNCHANGED <<xWaitingTasks, xSocket, refused, atBroker, granted>>
    BY <1>5 DEF prvInitiateMQTTPublish0
  <2>2. Packet(m).op = "PUBLISH0"
    BY <2>1 DEF Packet
  <2>3. UNCHANGED <<xWaitingTasks, rest>>
    BY <2>1, <2>2, NotKept DEF rest, Takes
  <2>4. PICK s \in {"Success", "Failure"} :
            Notify(Told(m, s)) /\ answered \subseteq answered' /\ (s = "Success" => m.task \in answered')
    <3>1. CASE ReturnCode(Packet(m), sent) = "Success"
      <4>1. Notify(Told(m, "Success")) /\ answered' = answered \cup {m.task}
        BY <2>1, <3>1
      <4> QED
        BY <4>1
    <3>2. CASE ReturnCode(Packet(m), sent) # "Success"
      <4>1. Notify(Told(m, "Failure")) /\ answered' = answered
        BY <2>1, <3>2
      <4> QED
        BY <4>1
    <3> QED
      BY <3>1, <3>2
  <2>5. s \in Results
    BY DEF Results
  <2> QED
    BY <2>3, <2>4, <2>5, CommandTold
<1> QED
  BY <1>2, <1>3, <1>4, <1>5 DEF Handle

LEMMA ReceiveCommandKeeps ==
    ASSUME IInv, Faults = {}, ReceiveCommand
    PROVE  IInv'
<1> DEFINE m == Head(xCommandQueue)
<1>1. Takes(m)
  BY DEF ReceiveCommand, Takes
<1>2. CASE m = Service
  <2>1. Takes(Service) /\ ServiceCommand
    BY <1>1, <1>2 DEF ReceiveCommand
  <2> QED
    BY <2>1, ServiceTaken
<1>3. CASE m # Service /\ m.id \in late
  <2>1. CommandTimedOut(m)
    BY <1>3 DEF ReceiveCommand
  <2> HIDE DEF m
  <2> QED
    BY <1>1, <1>3, <2>1, CommandRefused DEF CommandTimedOut
<1>4. CASE m # Service /\ m.id \notin late
  <2>1. Handle(m)
    BY <1>4 DEF ReceiveCommand
  <2> HIDE DEF m
  <2> QED
    BY <1>1, <1>4, <2>1, Handled
<1> QED
  BY <1>2, <1>3, <1>4

\* Requests E leave the client, and the tasks of their slots are told.
LEMMA RequestsLeave ==
    ASSUME IInv, NEW E \in SUBSET xTxBufferList, NEW r \in Results,
           prvNotifyRequestingTask(UNION {prvRetrieveNotificationData(p.id) : p \in E}, r),
           xTxBufferList' = xTxBufferList \ E, UNCHANGED <<call, xCommandQueue>>,
           answered \subseteq answered',
           r = "Success" => \A p \in E, x \in Slots \ FreeSlots :
               xWaitingTasks[x].id = p.id => xWaitingTasks[x].task \in answered'
    PROVE  /\ CallType' /\ CallsInv' /\ SuccessIsDeserved'
           /\ IsFiniteSet(xTxBufferList') /\ Cardinality(E) \in Nat
           /\ Cardinality(xTxBufferList') \in Nat
           /\ Cardinality(xTxBufferList) = Cardinality(xTxBufferList') + Cardinality(E)
<1> DEFINE X == UNION {prvRetrieveNotificationData(p.id) : p \in E}
<1>1. \A x : x \in X <=> \E p \in E : x \in prvRetrieveNotificationData(p.id)
  OBVIOUS
<1>2. \A p \in E : prvRetrieveNotificationData(p.id) = {x \in Slots \ FreeSlots : xWaitingTasks[x].id = p.id}
  BY SlotOf DEF IInv
<1>3. \A x : x \in X <=> x \in Slots \ FreeSlots /\ \E p \in E : xWaitingTasks[x].id = p.id
  BY <1>1, <1>2
<1>4. prvNotifyRequestingTask(X, r)
  OBVIOUS
<1> HIDE DEF X
<1>5. Notify(Records(X, r, {}, "Failure")) /\ "Failure" \in Results
  <2>1. Notify(OfSlots(X, r))
    BY <1>4 DEF prvNotifyRequestingTask, OfSlots
  <2>2. OfCommands({}, "Failure") = {}
    BY DEF OfCommands
  <2>3. Records(X, r, {}, "Failure") = OfSlots(X, r)
    BY <2>2 DEF Records
  <2> QED
    BY <2>1, <2>3 DEF Results
<1>6. xWaitingTasks' = [x \in Slots |-> IF x \in X THEN NoTask ELSE xWaitingTasks[x]]
  BY <1>4 DEF prvNotifyRequestingTask
<1>7. xTxBufferList' = {p \in xTxBufferList : \A x \in X : p.id # xWaitingTasks[x].id}
  <2>1. ASSUME NEW p \in E PROVE \E x \in X : p.id = xWaitingTasks[x].id
    BY <1>3 DEF IInv, CallsInv, TxInv, FreeSlots
  <2>2. ASSUME NEW q \in xTxBufferList \ E, NEW x \in X PROVE q.id # xWaitingTasks[x].id
    BY <1>3 DEF IInv, CallsInv, TxOnce
  <2> QED
    BY <2>1, <2>2
<1>8. CallType' /\ CallsInv' /\ SuccessIsDeserved'
  <2>1. X \in SUBSET (Slots \ FreeSlots) /\ {} \in SUBSET Commands /\ 0 \in {0, 1}
    BY <1>3
  <2>2. Shifted(0) /\ Taken(0, {}) /\ xCommandQueue' \in Seq(Commands \cup {Service})
    BY SameQueue DEF IInv
  <2>3. r = "Success" => \A x \in X : xWaitingTasks[x].task \in answered'
    BY <1>3
  <2>4. CallType /\ CallsInv /\ SuccessIsDeserved
    BY DEF IInv
  <2> QED
    BY <1>5, <1>6, <1>7, <2>1, <2>2, <2>3, <2>4, TellStep
<1>9. IsFiniteSet(xTxBufferList)
  BY DEF IInv, CoreType
<1>10. IsFiniteSet(E) /\ IsFiniteSet(xTxBufferList \ E)
  BY <1>9, FS_Subset
<1>11. Cardinality(xTxBufferList) \in Nat /\ Cardinality(E) \in Nat /\ Cardinality(xTxBufferList \ E) \in Nat
  BY <1>9, <1>10, FS_CardinalityType
<1>12. Cardinality(xTxBufferList \ E) = Cardinality(xTxBufferList) - Cardinality(xTxBufferList \cap E)
  BY <1>9, FS_Difference
<1>13. xTxBufferList \cap E = E /\ xTxBufferList' = xTxBufferList \ E
  OBVIOUS
<1>14. Cardinality(xTxBufferList) = Cardinality(xTxBufferList \ E) + Cardinality(E)
  <2> DEFINE all  == Cardinality(xTxBufferList)
             gone == Cardinality(E)
             left == Cardinality(xTxBufferList \ E)
  <2>1. left = all - gone
    BY <1>12, <1>13, Zenon
  <2>2. all \in Nat /\ gone \in Nat /\ left \in Nat
    BY <1>11
  <2> HIDE DEF all, gone, left
  <2>3. all = left + gone
    BY <2>1, <2>2
  <2> QED
    BY <2>3 DEF all, gone, left
<1> QED
  BY <1>8, <1>10, <1>11, <1>13, <1>14

\* One request leaves.
LEMMA RequestLeaves ==
    ASSUME IInv, NEW p \in xTxBufferList, NEW r \in Results,
           prvNotifyRequestingTask(prvRetrieveNotificationData(p.id), r),
           ReturnTxAndRxBuffer(p), xRxBuffer = "store",
           UNCHANGED <<call, xCommandQueue, taken>>,
           answered \subseteq answered',
           r = "Success" => \A x \in Slots \ FreeSlots :
               xWaitingTasks[x].id = p.id => xWaitingTasks[x].task \in answered'
    PROVE  /\ CallType' /\ CallsInv' /\ SuccessIsDeserved'
           /\ IsFiniteSet(xTxBufferList') /\ pool' \in Nat
           /\ pool' + Cardinality(xTxBufferList') + RxBuffers' + taken' = NumBuffers
<1> DEFINE E == {p}
<1>1. UNION {prvRetrieveNotificationData(q.id) : q \in E} = prvRetrieveNotificationData(p.id)
  OBVIOUS
<1>2. Cardinality(E) = 1
  BY FS_Singleton
<1>3. /\ CallType' /\ CallsInv' /\ SuccessIsDeserved'
      /\ IsFiniteSet(xTxBufferList') /\ Cardinality(E) \in Nat
      /\ Cardinality(xTxBufferList') \in Nat
      /\ Cardinality(xTxBufferList) = Cardinality(xTxBufferList') + Cardinality(E)
  <2>1. E \in SUBSET xTxBufferList
    OBVIOUS
  <2>2. prvNotifyRequestingTask(UNION {prvRetrieveNotificationData(q.id) : q \in E}, r)
    BY <1>1
  <2>3. xTxBufferList' = xTxBufferList \ E
    BY DEF ReturnTxAndRxBuffer
  <2>4. r = "Success" => \A q \in E, x \in Slots \ FreeSlots :
            xWaitingTasks[x].id = q.id => xWaitingTasks[x].task \in answered'
    OBVIOUS
  <2> HIDE DEF E
  <2> QED
    BY <2>1, <2>2, <2>3, <2>4, RequestsLeave
<1>4. RxBuffers = 1 /\ RxBuffers' = 0 /\ pool' = pool + 1 + RxBuffers
  BY DEF RxBuffers, ReturnTxAndRxBuffer
<1>5. /\ pool \in Nat /\ taken \in Nat
      /\ pool + Cardinality(xTxBufferList) + RxBuffers + taken = NumBuffers
  BY DEF IInv, CoreType, LeakInv
<1>6. pool' = pool + 2
  BY <1>4, <1>5
<1>7. pool' + Cardinality(xTxBufferList') + RxBuffers' + taken' = NumBuffers
  BY <1>2, <1>3, <1>4, <1>5, <1>6
<1> QED
  BY <1>3, <1>5, <1>6, <1>7

\* An answer with a yes is for the request of the task that made it.
LEMMA GrantReadKeeps ==
    ASSUME IInv, GrantRead
    PROVE  IInv'
<1>1. PICK a \in atBroker, p \in xTxBufferList :
          /\ Reads /\ xSocket /\ Granted(a, p)
          /\ prvNotifyRequestingTask(
                 prvRetrieveNotificationData(IF a.op = "CONNECT" THEN p.id ELSE a.id), "Success")
          /\ atBroker' = atBroker \ {a}
          /\ answered' = answered \cup {t \in {a.task} : call[t].id = a.id}
          /\ UNCHANGED <<xSocket, refused>>
  BY Zenon DEF GrantRead
<1>2. a \in Commands /\ p.op = a.op /\ (a.op = "CONNECT" \/ p.id = a.id) /\ xRxBuffer = "store"
  BY <1>1 DEF Granted, RequestsOf, IInv, CoreType
<1>3. prvNotifyRequestingTask(prvRetrieveNotificationData(p.id), "Success")
  <2>1. (IF a.op = "CONNECT" THEN p.id ELSE a.id) = p.id
    BY <1>2
  <2> QED
    BY <1>1, <2>1
<1>4. ASSUME a.op = "CONNECT"
      PROVE  p.id = a.id /\ xTxBufferList = {p} /\ atBroker = {a}
  <2>1. xConnectionState = "ConnectionInProgress"
    BY <1>2, <1>4 DEF IInv, ConnectionInv, CoreType
  <2>2. PICK m \in Commands : m.op = "CONNECT" /\ xTxBufferList = {Packet(m)} /\ atBroker \subseteq {m}
    BY <2>1 DEF IInv, ConnectionInv
  <2>3. a = m /\ p = Packet(m) /\ p.id = a.id
    BY <2>2 DEF Packet
  <2> QED
    BY <2>1, <2>2, <2>3
<1>5. p.id = a.id
  BY <1>2, <1>4
<1>6. ASSUME NEW x \in Slots \ FreeSlots, xWaitingTasks[x].id = p.id
      PROVE  xWaitingTasks[x].task \in answered'
  <2>1. xWaitingTasks[x] # NoTask /\ xWaitingTasks[x].task \in Tasks
    BY DEF FreeSlots, IInv, CallType
  <2>2. call[xWaitingTasks[x].task].id = a.id
    BY <1>5, <1>6, <2>1 DEF IInv, CallsInv, SlotInv
  <2>3. xWaitingTasks[x].task = a.task
    BY <2>1, <2>2 DEF IInv, BrokerInv
  <2> QED
    BY <1>1, <2>2, <2>3
<1>7. UNCHANGED <<call, ulQueueMessageIdentifier, xCommandQueue>>
  BY <1>1 DEF Reads
<1>8. /\ ReturnTxAndRxBuffer(p) /\ UNCHANGED taken
      /\ xConnectionState' = IF p.op = "CONNECT" THEN "Connected" ELSE xConnectionState
  BY <1>1 DEF Granted
<1>9. /\ CallType' /\ CallsInv' /\ SuccessIsDeserved'
      /\ IsFiniteSet(xTxBufferList') /\ pool' \in Nat
      /\ pool' + Cardinality(xTxBufferList') + RxBuffers' + taken' = NumBuffers
  <2>1. answered \subseteq answered' /\ "Success" \in Results
    BY <1>1 DEF Results
  <2> QED
    BY <1>2, <1>3, <1>6, <1>7, <1>8, <2>1, RequestLeaves
<1>10. xRxBuffer' = "none" /\ xTxBufferList' = xTxBufferList \ {p}
  BY <1>8 DEF ReturnTxAndRxBuffer
<1>11. xConnectionState # "NotConnected" /\ xConnectionState' # "NotConnected"
  BY <1>8 DEF IInv, ConnectionInv
<1>12. CoreType' /\ LeakInv'
  BY <1>1, <1>7, <1>8, <1>9, <1>10, <1>11 DEF IInv, CoreType, LeakInv
<1>13. BrokerInv'
  BY <1>1, <1>7 DEF IInv, BrokerInv
<1>14. ConnectionInv'
  <2>1. CASE a.op = "CONNECT"
    <3>1. xTxBufferList' = {} /\ atBroker' = {} /\ xConnectionState' = "Connected"
      BY <1>1, <1>2, <1>4, <1>8, <1>10, <2>1
    <3> QED
      BY <3>1 DEF ConnectionInv
  <2>2. CASE a.op # "CONNECT"
    <3>1. xConnectionState = "Connected" /\ xConnectionState' = "Connected"
      <4>1. ASSUME xConnectionState = "ConnectionInProgress" PROVE FALSE
        BY <2>2, <4>1 DEF IInv, ConnectionInv
      <4> QED
        BY <1>2, <1>8, <1>11, <2>2, <4>1 DEF IInv, CoreType
    <3> QED
      BY <1>1, <1>10, <3>1 DEF IInv, ConnectionInv
  <2> QED
    BY <2>1, <2>2
<1> QED
  BY <1>9, <1>12, <1>13, <1>14 DEF IInv

LEMMA RefusalReadKeeps ==
    ASSUME IInv, RefusalRead
    PROVE  IInv'
<1>1. PICK a \in atBroker, p \in xTxBufferList :
          /\ Reads /\ xSocket /\ SubscriptionRefused(a, p)
          /\ prvNotifyRequestingTask(prvRetrieveNotificationData(a.id), "Failure")
          /\ atBroker' = atBroker \ {a} /\ UNCHANGED <<xSocket, answered, refused>>
  BY Zenon DEF RefusalRead
<1>2. /\ p.op = "SUBSCRIBE" /\ a.op = "SUBSCRIBE" /\ p.id = a.id /\ xRxBuffer = "store"
      /\ ReturnTxAndRxBuffer(p) /\ UNCHANGED <<xConnectionState, taken>>
  BY <1>1 DEF SubscriptionRefused, RequestsOf
<1>3. UNCHANGED <<call, ulQueueMessageIdentifier, xCommandQueue>>
  BY <1>1 DEF Reads
<1>4. /\ CallType' /\ CallsInv' /\ SuccessIsDeserved'
      /\ IsFiniteSet(xTxBufferList') /\ pool' \in Nat
      /\ pool' + Cardinality(xTxBufferList') + RxBuffers' + taken' = NumBuffers
  <2>1. prvNotifyRequestingTask(prvRetrieveNotificationData(p.id), "Failure")
    BY <1>1, <1>2
  <2>2. answered \subseteq answered' /\ "Failure" \in Results /\ "Failure" # "Success"
    BY <1>1 DEF Results
  <2> QED
    BY <1>2, <1>3, <2>1, <2>2, RequestLeaves
<1>5. xRxBuffer' = "none" /\ xTxBufferList' = xTxBufferList \ {p}
  BY <1>2 DEF ReturnTxAndRxBuffer
<1>6. CoreType' /\ LeakInv'
  BY <1>1, <1>2, <1>3, <1>4, <1>5 DEF IInv, CoreType, LeakInv
<1>7. BrokerInv'
  BY <1>1, <1>3 DEF IInv, BrokerInv
<1>8. ConnectionInv'
  <2>1. xConnectionState = "Connected"
    <3>1. xConnectionState # "ConnectionInProgress"
      BY <1>2 DEF IInv, ConnectionInv
    <3>2. xConnectionState # "NotConnected"
      BY DEF IInv, ConnectionInv
    <3> QED
      BY <3>1, <3>2 DEF IInv, CoreType
  <2> QED
    BY <1>1, <1>2, <1>5, <2>1 DEF IInv, ConnectionInv
<1> QED
  BY <1>4, <1>6, <1>7, <1>8 DEF IInv

\* The connection is given up when no command was taken.
LEMMA ConnectionLost ==
    ASSUME IInv, xConnectionState # "NotConnected",
           prvResetMQTTContext, prvProcessReceivedDisconnect({}),
           UNCHANGED <<call, ulQueueMessageIdentifier, xCommandQueue>>
    PROVE  IInv'
<1>1. OfCommands({}, "Failure") = {}
  BY DEF OfCommands
<1>2. prvProcessReceivedDisconnect(OfCommands({}, "Failure"))
  BY <1>1
<1>3. /\ Shifted(0) /\ Taken(0, {}) /\ xCommandQueue' \in Seq(Commands \cup {Service})
      /\ {} \in SUBSET Commands /\ 0 \in {0, 1} /\ "Failure" \in Results /\ "Failure" # "Success"
  BY SameQueue DEF IInv, Results
<1> QED
  BY <1>2, <1>3, GivenUp

LEMMA LostReadsKeep ==
    ASSUME IInv, ReadFails \/ BreakRead
    PROVE  IInv'
<1>1. CASE ReadFails
  <2>1. CASE xConnectionState # "NotConnected"
    BY <1>1, <2>1, ConnectionLost DEF ReadFails, Reads, MQTT_Disconnect
  <2>2. CASE xConnectionState = "NotConnected"
    <3>1. /\ prvResetMQTTContext /\ Notify({})
          /\ UNCHANGED <<call, ulQueueMessageIdentifier, xCommandQueue, xWaitingTasks, xSocket,
                         atBroker, refused, answered>>
      BY <1>1, <2>2 DEF ReadFails, Reads, MQTT_Disconnect, history
    <3>2. UNCHANGED notice
      BY <3>1 DEF Notify, IInv, CallType
    <3>3. UNCHANGED rest
      BY <2>2, <3>1, ResetIsIdle DEF rest
    <3>4. CallType' /\ CallsInv'
      BY <3>1, <3>2, <3>3, CallsSame DEF IInv, rest
    <3>5. CoreType' /\ BrokerInv' /\ ConnectionInv' /\ LeakInv'
      BY <3>1, <3>3, RestSame
    <3>6. SuccessIsDeserved'
      BY <3>1, <3>2 DEF IInv, SuccessIsDeserved
    <3> QED
      BY <3>4, <3>5, <3>6 DEF IInv
  <2> QED
    BY <2>1, <2>2
<1>2. CASE BreakRead
  BY <1>2, ConnectionLost DEF BreakRead, Reads, BrokenOff
<1> QED
  BY <1>1, <1>2

LEMMA PeriodicKeeps ==
    ASSUME IInv, Periodic
    PROVE  IInv'
<1> DEFINE E == {p \in xTxBufferList : p.id \in late}
<1>1. UNCHANGED <<call, ulQueueMessageIdentifier, xCommandQueue>>
  BY DEF Periodic
<1>2. CASE ConnectTimedOut(E) /\ prvProcessReceivedDisconnect({})
  <2>1. xConnectionState # "NotConnected"
    BY <1>2 DEF ConnectTimedOut, IInv, ConnectionInv
  <2> QED
    BY <1>1, <1>2, <2>1, ConnectionLost DEF ConnectTimedOut
<1>3. CASE /\ RequestsTimedOut(E)
           /\ prvNotifyRequestingTask(UNION {prvRetrieveNotificationData(p.id) : p \in E}, "Timeout")
           /\ UNCHANGED <<xSocket, atBroker, history>>
  <2>1. E \in SUBSET xTxBufferList
    OBVIOUS
  <2> HIDE DEF E
  <2>2. /\ \A p \in E : p.op # "CONNECT"
        /\ xTxBufferList' = xTxBufferList \ E /\ pool' = pool + Cardinality(E)
        /\ UNCHANGED <<xConnectionState, xRxBuffer, taken>>
    BY <1>3 DEF RequestsTimedOut
  <2>3. /\ CallType' /\ CallsInv' /\ SuccessIsDeserved'
        /\ IsFiniteSet(xTxBufferList') /\ Cardinality(E) \in Nat
        /\ Cardinality(xTxBufferList') \in Nat
        /\ Cardinality(xTxBufferList) = Cardinality(xTxBufferList') + Cardinality(E)
    <3>1. answered \subseteq answered' /\ "Timeout" \in Results /\ "Timeout" # "Success"
      BY <1>3 DEF history, Results
    <3> QED
      BY <1>1, <1>3, <2>1, <2>2, <3>1, RequestsLeave
  <2>4. RxBuffers' = RxBuffers /\ RxBuffers \in Nat
    BY <2>2 DEF RxBuffers
  <2>5. /\ pool \in Nat /\ taken \in Nat
        /\ pool + Cardinality(xTxBufferList) + RxBuffers + taken = NumBuffers
    BY DEF IInv, CoreType, LeakInv
  <2>6. /\ pool' \in Nat
        /\ pool' + Cardinality(xTxBufferList') + RxBuffers' + taken' = NumBuffers
    BY <2>2, <2>3, <2>4, <2>5
  <2>7. CoreType' /\ LeakInv'
    BY <1>1, <1>3, <2>2, <2>3, <2>6 DEF IInv, CoreType, LeakInv, history
  <2>8. BrokerInv'
    BY <1>1, <1>3 DEF IInv, BrokerInv
  <2>9. ConnectionInv'
    <3>1. CASE xConnectionState = "ConnectionInProgress"
      <4>1. PICK m \in Commands : m.op = "CONNECT" /\ xTxBufferList = {Packet(m)} /\ atBroker \subseteq {m}
        BY <3>1 DEF IInv, ConnectionInv
      <4>2. Packet(m).op = "CONNECT"
        BY <4>1 DEF Packet
      <4>3. E = {}
        BY <2>1, <2>2, <4>1, <4>2
      <4>4. xTxBufferList' = {Packet(m)} /\ atBroker' \subseteq {m} /\ xConnectionState' = "ConnectionInProgress"
        BY <1>3, <2>2, <3>1, <4>1, <4>3
      <4>5. Packet(m)' = Packet(m)
        BY DEF Packet
      <4> QED
        BY <4>1, <4>4, <4>5 DEF ConnectionInv
    <3>2. CASE xConnectionState # "ConnectionInProgress"
      BY <1>3, <2>2, <3>2 DEF IInv, ConnectionInv
    <3> QED
      BY <3>1, <3>2
  <2> QED
    BY <2>3, <2>7, <2>8, <2>9 DEF IInv
<1> QED
  BY <1>2, <1>3 DEF Periodic

\* Buffers that change hands are still all of them.
LEMMA BuffersKept ==
    ASSUME IInv, xTxBufferList' = xTxBufferList, pool' \in Nat, taken' \in Nat,
           pool' + RxBuffers' + taken' = pool + RxBuffers + taken
    PROVE  pool' + Cardinality(xTxBufferList') + RxBuffers' + taken' = NumBuffers
<1>1. Cardinality(xTxBufferList) \in Nat
  BY FS_CardinalityType DEF IInv, CoreType
<1>2. RxBuffers \in Nat
  BY DEF RxBuffers
<1>3. RxBuffers' \in Nat
  BY DEF RxBuffers
<1>4. /\ pool \in Nat /\ taken \in Nat
      /\ pool + Cardinality(xTxBufferList) + RxBuffers + taken = NumBuffers
  BY DEF IInv, LeakInv, CoreType
<1>5. PICK a \in Nat, b \in Nat, c \in Nat, n \in Nat :
          a = pool /\ b = RxBuffers /\ c = taken /\ n = Cardinality(xTxBufferList)
  BY <1>1, <1>2, <1>4
<1>6. PICK e \in Nat, f \in Nat, g \in Nat : e = pool' /\ f = RxBuffers' /\ g = taken'
  BY <1>3
<1>7. a + n + b + c = NumBuffers
  BY <1>4, <1>5
<1>8. e + f + g = a + b + c
  BY <1>5, <1>6
<1>9. e + n + f + g = NumBuffers
  BY <1>7, <1>8
<1>10. Cardinality(xTxBufferList') = n
  BY <1>5
<1> QED
  BY <1>6, <1>9, <1>10

\* Steps that only change the packet that comes in, or whose buffer is kept.
LEMMA PacketSteps ==
    ASSUME IInv, UNCHANGED <<callers, xCommandQueue, xWaitingTasks, xSocket, answered, refused>>,
           UNCHANGED <<xConnectionState, xTxBufferList>>, atBroker' \subseteq atBroker,
           xRxBuffer' \in {"none", "store", "drop"},
           xConnectionState = "NotConnected" => xRxBuffer' = "none",
           pool' \in Nat, taken' \in Nat, pool' + RxBuffers' + taken' = pool + RxBuffers + taken
    PROVE  IInv'
<1>1. CallType' /\ CallsInv'
  BY CallsSame DEF IInv, callers
<1>2. SuccessIsDeserved' /\ BrokerInv'
  BY DEF IInv, SuccessIsDeserved, BrokerInv, callers
<1>3. CoreType'
  BY DEF IInv, CoreType, callers
<1>4. ConnectionInv'
  <2>1. \A m : Packet(m)' = Packet(m)
    BY DEF Packet
  <2> QED
    BY <2>1 DEF IInv, ConnectionInv
<1>5. LeakInv'
  <2>1. pool' + Cardinality(xTxBufferList') + RxBuffers' + taken' = NumBuffers
    BY BuffersKept
  <2> QED
    BY <2>1 DEF IInv, LeakInv
<1> QED
  BY <1>1, <1>2, <1>3, <1>4, <1>5 DEF IInv

LEMMA PacketReadsKeep ==
    ASSUME IInv, HeaderRead \/ PacketDropped \/ LateAnswerRead \/ PublishRead \/ ReturnBuffer
    PROVE  IInv'
<1>1. pool \in Nat /\ taken \in Nat /\ xRxBuffer \in {"none", "store", "drop"}
  BY DEF IInv, CoreType
<1>2. CASE HeaderRead
  <2>1. /\ xConnectionState # "NotConnected" /\ xRxBuffer = "none"
        /\ \/ pool > 0 /\ xRxBuffer' = "store" /\ pool' = pool - 1
           \/ xRxBuffer' = "drop" /\ pool' = pool
        /\ UNCHANGED <<xConnectionState, xTxBufferList, taken>>
    BY <1>2 DEF HeaderRead, ReceiveHeader
  <2>2. pool' \in Nat /\ pool' + RxBuffers' + taken' = pool + RxBuffers + taken
    BY <1>1, <2>1 DEF RxBuffers
  <2>3. /\ UNCHANGED <<callers, xCommandQueue, xWaitingTasks, xSocket, answered, refused>>
        /\ atBroker' \subseteq atBroker
    BY <1>2 DEF HeaderRead, Reads, history, callers
  <2> QED
    BY <1>1, <2>1, <2>2, <2>3, PacketSteps
<1>3. CASE PacketDropped
  <2>1. /\ xRxBuffer = "drop" /\ xRxBuffer' = "none" /\ pool' = pool + RxBuffers
        /\ UNCHANGED <<xConnectionState, xTxBufferList, taken>>
    BY <1>3 DEF PacketDropped, DropPacket, ReturnRxBuffer
  <2>2. pool' \in Nat /\ pool' + RxBuffers' + taken' = pool + RxBuffers + taken
    BY <1>1, <2>1 DEF RxBuffers
  <2>3. /\ UNCHANGED <<callers, xCommandQueue, xWaitingTasks, xSocket, answered, refused>>
        /\ atBroker' \subseteq atBroker
    BY <1>3 DEF PacketDropped, Reads, history, callers
  <2> QED
    BY <1>1, <2>1, <2>2, <2>3, PacketSteps
<1>4. CASE LateAnswerRead
  <2>1. /\ xRxBuffer = "store" /\ xRxBuffer' = "none" /\ pool' = pool + RxBuffers
        /\ UNCHANGED <<xConnectionState, xTxBufferList, taken>>
    BY <1>4 DEF LateAnswerRead, UnexpectedAnswer, ReturnRxBuffer
  <2>2. pool' \in Nat /\ pool' + RxBuffers' + taken' = pool + RxBuffers + taken
    BY <1>1, <2>1 DEF RxBuffers
  <2>3. /\ UNCHANGED <<callers, xCommandQueue, xWaitingTasks, xSocket, answered, refused>>
        /\ atBroker' \subseteq atBroker
    BY <1>4 DEF LateAnswerRead, Reads, history, callers
  <2> QED
    BY <1>1, <2>1, <2>2, <2>3, PacketSteps
<1>5. CASE PublishRead
  <2>1. /\ xRxBuffer = "store" /\ xRxBuffer' = "none"
        /\ \/ taken' = taken + 1 /\ pool' = pool
           \/ pool' = pool + 1 /\ taken' = taken
        /\ UNCHANGED <<xConnectionState, xTxBufferList>>
    BY <1>5 DEF PublishRead, PublishReceived
  <2>2. pool' \in Nat /\ taken' \in Nat /\ pool' + RxBuffers' + taken' = pool + RxBuffers + taken
    BY <1>1, <2>1 DEF RxBuffers
  <2>3. /\ UNCHANGED <<callers, xCommandQueue, xWaitingTasks, xSocket, answered, refused>>
        /\ atBroker' \subseteq atBroker
    BY <1>5 DEF PublishRead, Reads, history, callers
  <2> QED
    BY <1>1, <2>1, <2>2, <2>3, PacketSteps
<1>6. CASE ReturnBuffer
  <2>1. /\ taken > 0 /\ taken' = taken - 1 /\ pool' = pool + 1
        /\ UNCHANGED <<xConnectionState, xTxBufferList, xRxBuffer>>
    BY <1>6 DEF ReturnBuffer, MQTT_ReturnBuffer
  <2>2. pool' \in Nat /\ taken' \in Nat /\ pool' + RxBuffers' + taken' = pool + RxBuffers + taken
    BY <1>1, <2>1 DEF RxBuffers
  <2>3. /\ UNCHANGED <<callers, xCommandQueue, xWaitingTasks, xSocket, answered, refused>>
        /\ atBroker' \subseteq atBroker
    BY <1>6 DEF ReturnBuffer, agent, history
  <2>4. xConnectionState = "NotConnected" => xRxBuffer' = "none"
    BY <2>1 DEF IInv, ConnectionInv
  <2> QED
    BY <1>1, <2>1, <2>2, <2>3, <2>4, PacketSteps
<1> QED
  BY <1>2, <1>3, <1>4, <1>5, <1>6
-----------------------------------------------------------------------------
(* The calls. *)

\* The steps of the callers do not touch the agent's own state.
LEMMA CallersStep ==
    ASSUME IInv, CallType', CallsInv', SuccessIsDeserved', BrokerInv',
           ulQueueMessageIdentifier' \in Identifiers,
           UNCHANGED <<core, xWaitingTasks, xSocket, atBroker, refused>>
    PROVE  IInv'
<1>1. CoreType'
  BY DEF IInv, CoreType, core
<1>2. ConnectionInv'
  <2>1. \A m : Packet(m)' = Packet(m)
    BY DEF Packet
  <2> QED
    BY <2>1 DEF IInv, ConnectionInv, core
<1>3. LeakInv'
  BY DEF IInv, LeakInv, core, RxBuffers
<1> QED
  BY <1>1, <1>2, <1>3 DEF IInv

LEMMA CallKeeps ==
    ASSUME IInv, Faults = {}, NEW t \in Tasks, Call(t)
    PROVE  IInv'
<1> DEFINE i == ulQueueMessageIdentifier
<1>1. PICK op \in Ops :
          /\ MayCall(t, op)
          /\ call' = [call EXCEPT ![t] = [phase |-> "send", op |-> op, id |-> i]]
          /\ \E n \in Pending : notice' = [notice EXCEPT ![t] = n]
          /\ ulQueueMessageIdentifier' = IF i + 1 >= IdentifierMax THEN 1 ELSE i + 1
          /\ UNCHANGED <<core, agent, late, atBroker, history>>
  BY DEF Call
<1>2. i \in Identifiers /\ i # 0 /\ ulQueueMessageIdentifier' \in Identifiers
  BY <1>1, AgentAssumption DEF IInv, CoreType, Identifiers
<1> HIDE DEF i
<1>3. call[t] = NoCall /\ i \notin UsedIdentifiers
  <2>1. t \notin Calling /\ i \notin UsedIdentifiers
    BY <1>1 DEF MayCall, i
  <2> QED
    BY <2>1 DEF Calling, IInv, CallType, NoCall
<1>4. \A v \in Tasks : call[v].id # i
  <2>1. \A v \in Tasks : call[v] = NoCall \/ call[v].phase # "idle"
    BY DEF IInv, CallType
  <2>2. \A v \in Tasks : call[v] # NoCall => call[v].id # i
    BY <1>3, <2>1 DEF UsedIdentifiers, Calling
  <2> QED
    BY <1>2, <2>2 DEF NoCall
<1>5. notice[t] = NoNotice /\ notice' = notice
  <2>1. notice[t] = NoNotice
    BY <1>3 DEF IInv, CallsInv, NoticeInv, NoCall
  <2>2. \A n \in Pending : n = NoNotice
    BY DEF Pending
  <2>3. notice' = [notice EXCEPT ![t] = NoNotice]
    BY <1>1, <2>2
  <2> QED
    BY <2>1, <2>3 DEF IInv, CallType
<1>6. UNCHANGED <<xCommandQueue, xWaitingTasks, xTxBufferList, answered, atBroker>>
  BY <1>1 DEF core, agent, history
<1>7. CallType' /\ CallsInv'
  BY <1>1, <1>2, <1>3, <1>4, <1>5, <1>6, NewCall DEF IInv
<1>8. /\ call'[t].id = i /\ notice'[t].result # "Success"
      /\ \A v \in Tasks \ {t} : call'[v] = call[v]
  BY <1>1, <1>5 DEF IInv, CallType, NoNotice
<1>9. SuccessIsDeserved'
  BY <1>5, <1>6, <1>8 DEF IInv, SuccessIsDeserved
<1>10. BrokerInv'
  <2>1. \A r \in atBroker : r.id # i
    BY <1>3 DEF UsedIdentifiers
  <2> QED
    BY <1>6, <1>8, <2>1 DEF IInv, BrokerInv
<1> QED
  BY <1>1, <1>2, <1>7, <1>9, <1>10, CallersStep DEF agent, history

LEMMA SendKeeps ==
    ASSUME IInv, NEW t \in Tasks, Send(t)
    PROVE  IInv'
<1>1. CallType' /\ CallsInv'
  BY Sending DEF IInv, Send, core
<1>2. /\ UNCHANGED <<core, xWaitingTasks, xSocket, atBroker, answered, refused, notice,
                     ulQueueMessageIdentifier>>
      /\ call' = [call EXCEPT ![t].phase = "wait"]
  BY DEF Send, history
<1>3. \A v \in Tasks : call'[v].op = call[v].op /\ call'[v].id = call[v].id
  <2>1. \A v \in Tasks \ {t} : call'[v] = call[v]
    BY <1>2 DEF IInv, CallType
  <2>2. call'[t] = [call[t] EXCEPT !.phase = "wait"]
    BY <1>2 DEF IInv, CallType
  <2>3. call[t] \in [phase : {"send", "wait"}, op : Ops, id : Identifiers]
    BY DEF IInv, CallType, NoCall, Send
  <2>4. call'[t].op = call[t].op /\ call'[t].id = call[t].id
    BY <2>2, <2>3
  <2> QED
    BY <2>1, <2>4
<1>4. SuccessIsDeserved' /\ BrokerInv'
  BY <1>2, <1>3 DEF IInv, SuccessIsDeserved, BrokerInv
<1>5. ulQueueMessageIdentifier' \in Identifiers
  BY <1>2 DEF IInv, CoreType
<1> QED
  BY <1>1, <1>2, <1>4, <1>5, CallersStep

\* The call of a task ends, when nothing of it is left and its notification is taken.
LEMMA EndKeeps ==
    ASSUME IInv, NEW t \in Tasks, End(t), ~InQueue(t), ~InSlot(t),
           notice' = [notice EXCEPT ![t] = NoNotice]
    PROVE  IInv'
<1>1. /\ UNCHANGED <<core, xCommandQueue, xWaitingTasks, xSocket, atBroker, refused,
                     ulQueueMessageIdentifier>>
      /\ call' = [call EXCEPT ![t] = NoCall] /\ answered' = answered \ {t}
  BY DEF End, agent
<1>2. CallType' /\ CallsInv'
  BY <1>1, Ending DEF IInv, core
<1>3. /\ call'[t] = NoCall /\ notice'[t] = NoNotice
      /\ \A v \in Tasks \ {t} : call'[v] = call[v] /\ notice'[v] = notice[v]
  BY <1>1 DEF IInv, CallType
<1>4. SuccessIsDeserved'
  BY <1>1, <1>3 DEF IInv, SuccessIsDeserved, NoNotice
<1>5. BrokerInv'
  <2>1. \A r \in atBroker : r.id # 0
    BY DEF IInv, CoreType, Commands, Identifiers
  <2> QED
    BY <1>1, <1>3, <2>1 DEF IInv, BrokerInv, NoCall
<1>6. ulQueueMessageIdentifier' \in Identifiers
  BY <1>1 DEF IInv, CoreType
<1> QED
  BY <1>1, <1>2, <1>4, <1>5, <1>6, CallersStep

LEMMA SendFailsKeeps ==
    ASSUME IInv, NEW t \in Tasks, SendFails(t)
    PROVE  IInv'
<1>1. call[t].phase = "send" /\ End(t) /\ UNCHANGED notice
  BY DEF SendFails
<1>2. notice[t] = NoNotice
  BY <1>1 DEF IInv, CallsInv, NoticeInv
<1>3. notice' = [notice EXCEPT ![t] = NoNotice]
  BY <1>1, <1>2 DEF IInv, CallType
<1>4. ~InQueue(t)
  <2> SUFFICES ASSUME NEW k \in DOMAIN xCommandQueue,
                      xCommandQueue[k] # Service, xCommandQueue[k].task = t
               PROVE  FALSE
    BY DEF InQueue
  <2>1. call[t] = [phase |-> "wait", op |-> xCommandQueue[k].op, id |-> xCommandQueue[k].id]
    BY DEF IInv, CallsInv, QueueInv
  <2> QED
    BY <1>1, <2>1
<1>5. ~InSlot(t)
  BY <1>1 DEF IInv, CallsInv, SlotInv, InSlot
<1> QED
  BY <1>1, <1>3, <1>4, <1>5, EndKeeps

LEMMA NotifyWaitKeeps ==
    ASSUME IInv, NEW t \in Tasks, NotifyWait(t)
    PROVE  IInv'
<1>1. notice[t] # NoNotice /\ notice' = [notice EXCEPT ![t] = NoNotice]
  BY DEF NotifyWait
<1>2. notice[t].id = call[t].id
  BY <1>1 DEF IInv, CallsInv, NoticeInv
<1>3. End(t)
  BY <1>2 DEF NotifyWait
<1>4. ~InQueue(t)
  BY <1>1 DEF IInv, CallsInv, QueueInv, InQueue
<1>5. ~InSlot(t)
  BY <1>1 DEF IInv, CallsInv, SlotInv, InSlot
<1> QED
  BY <1>1, <1>3, <1>4, <1>5, EndKeeps

LEMMA SocketWakeupKeeps ==
    ASSUME IInv, SocketWakeup
    PROVE  IInv'
<1>1. CallType' /\ CallsInv'
  BY Waking DEF IInv, SocketWakeup, callers, core
<1>2. UNCHANGED <<core, callers, xWaitingTasks, xSocket, atBroker, answered, refused>>
  BY DEF SocketWakeup, history
<1>3. SuccessIsDeserved' /\ BrokerInv' /\ ulQueueMessageIdentifier' \in Identifiers
  BY <1>2 DEF IInv, SuccessIsDeserved, BrokerInv, CoreType, callers
<1> QED
  BY <1>1, <1>2, <1>3, CallersStep

\* Steps that nothing of the invariant sees.
LEMMA IdleSteps ==
    ASSUME IInv, UNCHANGED <<core, callers, xCommandQueue, xWaitingTasks, xSocket, atBroker,
                             answered, refused>>
    PROVE  IInv'
<1>1. CallType' /\ CallsInv'
  BY CallsSame DEF IInv, core, callers
<1>2. SuccessIsDeserved' /\ BrokerInv' /\ ulQueueMessageIdentifier' \in Identifiers
  BY DEF IInv, SuccessIsDeserved, BrokerInv, CoreType, callers
<1> QED
  BY <1>1, <1>2, CallersStep
-----------------------------------------------------------------------------
(* All steps. *)

LEMMA InitInv == Init => IInv
<1> SUFFICES ASSUME Init PROVE IInv
  OBVIOUS
<1> USE DEF Init, MQTT_Init
<1>1. CallType
  <2>1. << >> \in Seq(Commands \cup {Service})
    BY EmptySeq
  <2> QED
    BY <2>1 DEF CallType
<1>2. CoreType
  <2>1. 1 \in Identifiers
    BY AgentAssumption DEF Identifiers
  <2>2. IsFiniteSet({}) /\ NumBuffers \in Nat
    BY FS_EmptySet, CoreAssumption
  <2> QED
    BY <2>1, <2>2 DEF CoreType
<1>3. CallsInv
  <2>1. DOMAIN xCommandQueue = {}
    BY EmptySeq
  <2> QED
    BY <2>1 DEF CallsInv, IdInv, NoticeInv, QueueInv, QueueOnce, SlotInv, QueueOrSlot, SlotOnce,
                TxInv, TxOnce, WaitInv, InQueue, InSlot, NoCall
<1>4. BrokerInv /\ ConnectionInv /\ SuccessIsDeserved
  BY DEF BrokerInv, ConnectionInv, SuccessIsDeserved, NoNotice
<1>5. LeakInv
  BY FS_EmptySet, CoreAssumption DEF LeakInv, RxBuffers
<1> QED
  BY <1>1, <1>2, <1>3, <1>4, <1>5 DEF IInv

\* Every step but the failed assertion keeps the invariant of the program that runs.
LEMMA NextKeeps ==
    ASSUME Faults = {}, IInv, [Next]_vars, ~SetupAsserts
    PROVE  IInv'
<1>1. CASE \E t \in Tasks : Call(t) \/ Send(t) \/ SendFails(t) \/ NotifyWait(t)
  BY <1>1, CallKeeps, SendKeeps, SendFailsKeeps, NotifyWaitKeeps
<1>2. CASE ReceiveCommand
  BY <1>2, ReceiveCommandKeeps
<1>3. CASE NoCommand
  BY <1>3, IdleSteps DEF NoCommand, history
<1>4. CASE ReadFails \/ BreakRead
  BY <1>4, LostReadsKeep
<1>5. CASE HeaderRead \/ PacketDropped \/ LateAnswerRead \/ PublishRead \/ ReturnBuffer
  BY <1>5, PacketReadsKeep
<1>6. CASE GrantRead
  BY <1>6, GrantReadKeeps
<1>7. CASE RefusalRead
  BY <1>7, RefusalReadKeeps
<1>8. CASE Periodic
  BY <1>8, PeriodicKeeps
<1>9. CASE SocketWakeup
  BY <1>9, SocketWakeupKeeps
<1>10. CASE \E i \in Identifiers : TimePasses(i)
  BY <1>10, IdleSteps DEF TimePasses, agent, history
<1>11. CASE UNCHANGED vars
  BY <1>11, IdleSteps DEF vars, agent, history
<1> QED
  BY <1>1, <1>2, <1>3, <1>4, <1>5, <1>6, <1>7, <1>8, <1>9, <1>10, <1>11 DEF Next, AgentStep, Stopped
-----------------------------------------------------------------------------
(* The assertion of prvSetupConnection. *)

\* One task connects at a time, and there is no connection until its command is taken.
ConnectInv ==
    /\ \A t, u \in Tasks : call[t].op = "CONNECT" /\ call[u].op = "CONNECT" => t = u
    /\ \A t \in Tasks :
           call[t].op = "CONNECT" /\ (call[t].phase = "send" \/ InQueue(t)) =>
               xConnectionState = "NotConnected"

\* Steps that leave the calls alone, and do not begin a connection or end the wait for one.
LEMMA ConnectSame ==
    ASSUME ConnectInv, UNCHANGED call, \A t \in Tasks : InQueue(t)' => InQueue(t),
           xConnectionState = "NotConnected" => xConnectionState' = "NotConnected"
    PROVE  ConnectInv'
BY DEF ConnectInv

\* No command of another task is begun or put in the queue.
LEMMA QueueOfSame ==
    ASSUME UNCHANGED xCommandQueue
    PROVE  \A t : InQueue(t)' = InQueue(t)
BY DEF InQueue

\* A command that was taken is in the queue no more.
LEMMA TakenLeaves ==
    ASSUME IInv, NEW m, Takes(m)
    PROVE  /\ \A t \in Tasks : InQueue(t)' => InQueue(t)
           /\ m # Service => InQueue(m.task) /\ ~InQueue(m.task)' /\ m.task \in Tasks
                            /\ call[m.task].phase = "wait" /\ call[m.task].op = m.op
<1>1. /\ Shifted(1) /\ 1 \in DOMAIN xCommandQueue /\ m = xCommandQueue[1]
      /\ m \in Commands \cup {Service}
  BY ShorterQueue DEF Takes, IInv
<1>2. \A k \in DOMAIN xCommandQueue' : k + 1 # 1
  <2>1. xCommandQueue' \in Seq(Commands \cup {Service})
    BY ShorterQueue DEF Takes, IInv
  <2> QED
    BY <2>1, LenProperties
<1>3. \A t \in Tasks : InQueue(t)' => InQueue(t)
  BY <1>1 DEF InQueue, Shifted
<1>4. ASSUME m # Service
      PROVE  InQueue(m.task) /\ ~InQueue(m.task)' /\ m.task \in Tasks
             /\ call[m.task].phase = "wait" /\ call[m.task].op = m.op
  <2>1. InQueue(m.task) /\ m.task \in Tasks
    BY <1>1, <1>4 DEF InQueue, Commands
  <2>2. ~InQueue(m.task)'
    <3> SUFFICES ASSUME NEW k \in DOMAIN xCommandQueue', xCommandQueue'[k] # Service,
                        xCommandQueue'[k].task = m.task
                 PROVE  FALSE
      BY DEF InQueue
    <3>1. k + 1 \in DOMAIN xCommandQueue /\ xCommandQueue'[k] = xCommandQueue[k + 1]
      BY <1>1 DEF Shifted
    <3> QED
      BY <1>1, <1>2, <1>4, <3>1 DEF IInv, CallsInv, QueueOnce
  <2>3. call[m.task].phase = "wait" /\ call[m.task].op = m.op
    <3>1. call[m.task] = [phase |-> "wait", op |-> m.op, id |-> m.id]
      BY <1>4, TakenCommand
    <3> QED
      BY <3>1
  <2> QED
    BY <2>1, <2>2, <2>3
<1> QED
  BY <1>3, <1>4

LEMMA ReceiveCommandConnects ==
    ASSUME IInv, ConnectInv, ReceiveCommand
    PROVE  ConnectInv'
<1>1. PICK m : m = Head(xCommandQueue) /\ Takes(m) /\ UNCHANGED call
  BY DEF ReceiveCommand, Takes
<1>2. xConnectionState' \in {xConnectionState, "NotConnected"} \/ (m # Service /\ m.op = "CONNECT")
  <2>1. CASE m = Service \/ m.id \in late
    BY <1>1, <2>1 DEF ReceiveCommand, ServiceCommand, CommandTimedOut, core
  <2>2. CASE m # Service /\ m.id \notin late
    <3>1. Handle(m)
      BY <1>1, <2>2 DEF ReceiveCommand
    <3>2. CASE prvInitiateMQTTConnect(m)
      BY <2>2, <3>2 DEF prvInitiateMQTTConnect
    <3>3. CASE prvInitiateMQTTDisconnect(m)
      BY <3>3 DEF prvInitiateMQTTDisconnect, MQTT_Disconnect, prvResetMQTTContext
    <3>4. CASE prvInitiateMQTTSubscribe(m)
      BY <3>4 DEF prvInitiateMQTTSubscribe, CommandFails, RequestMade, Request, Packet, core
    <3>5. CASE prvInitiateMQTTPublish0(m)
      BY <3>5 DEF prvInitiateMQTTPublish0, Request, Packet
    <3> QED
      BY <3>1, <3>2, <3>3, <3>4, <3>5 DEF Handle
  <2> QED
    BY <2>1, <2>2
<1>3. CASE xConnectionState' \in {xConnectionState, "NotConnected"}
  BY <1>1, <1>3, TakenLeaves, ConnectSame
<1>4. CASE m # Service /\ m.op = "CONNECT"
  <2>1. /\ m.task \in Tasks /\ call[m.task].op = "CONNECT" /\ call[m.task].phase = "wait"
        /\ ~InQueue(m.task)'
    <3>1. /\ m.task \in Tasks /\ call[m.task].op = m.op /\ call[m.task].phase = "wait"
          /\ ~InQueue(m.task)'
      BY <1>1, <1>4, TakenLeaves
    <3> QED
      BY <1>4, <3>1
  <2> QED
    BY <1>1, <2>1 DEF ConnectInv
<1> QED
  BY <1>2, <1>3, <1>4

LEMMA CallersConnect ==
    ASSUME IInv, ConnectInv, NEW t \in Tasks,
           Call(t) \/ Send(t) \/ SendFails(t) \/ NotifyWait(t)
    PROVE  ConnectInv'
<1>1. UNCHANGED xConnectionState
  BY DEF Call, Send, SendFails, NotifyWait, End, core
<1>2. CASE Call(t)
  <2>1. PICK op \in Ops :
            /\ MayCall(t, op) /\ UNCHANGED xCommandQueue
            /\ call' = [call EXCEPT ![t] = [phase |-> "send", op |-> op, id |-> ulQueueMessageIdentifier]]
    BY <1>2 DEF Call, agent
  <2>2. /\ call'[t].op = op /\ \A u \in Tasks \ {t} : call'[u] = call[u]
        /\ op = "CONNECT" => xConnectionState = "NotConnected"
    BY <2>1 DEF IInv, CallType, MayCall
  <2>3. op = "CONNECT" => \A u \in Tasks : call[u].op # "CONNECT"
    BY <2>1 DEF MayCall, Calling, IInv, CallType, NoCall
  <2>4. \A u \in Tasks : InQueue(u)' = InQueue(u)
    BY <2>1, QueueOfSame
  <2> QED
    BY <1>1, <2>2, <2>3, <2>4 DEF ConnectInv
<1>3. CASE Send(t)
  <2>1. /\ call[t].phase = "send" /\ call' = [call EXCEPT ![t].phase = "wait"]
        /\ xCommandQueue' = Append(xCommandQueue, [task |-> t, op |-> call[t].op, id |-> call[t].id])
    BY <1>3 DEF Send
  <2>2. /\ \A u \in Tasks \ {t} : call'[u] = call[u]
        /\ call'[t].op = call[t].op
    BY <2>1 DEF IInv, CallType, NoCall
  <2>3. \A u \in Tasks \ {t} : InQueue(u)' => InQueue(u)
    <3>1. ASSUME NEW k \in DOMAIN xCommandQueue', k \notin DOMAIN xCommandQueue
          PROVE  xCommandQueue'[k].task = t
      BY <2>1, <3>1, AppendProperties, LenProperties DEF IInv, CallType
    <3>2. ASSUME NEW k \in DOMAIN xCommandQueue
          PROVE  xCommandQueue'[k] = xCommandQueue[k]
      BY <2>1, <3>2, AppendProperties, LenProperties DEF IInv, CallType
    <3> QED
      BY <3>1, <3>2 DEF InQueue
  <2> QED
    BY <1>1, <2>1, <2>2, <2>3 DEF ConnectInv
<1>4. CASE SendFails(t) \/ NotifyWait(t)
  <2>1. UNCHANGED xCommandQueue /\ (call' = [call EXCEPT ![t] = NoCall] \/ call' = call)
    BY <1>4 DEF SendFails, NotifyWait, End, agent
  <2>2. \A u \in Tasks : call'[u] = call[u] \/ call'[u].op = "none"
    BY <2>1 DEF IInv, CallType, NoCall
  <2>3. \A u \in Tasks : InQueue(u)' = InQueue(u)
    BY <2>1, QueueOfSame
  <2> QED
    BY <1>1, <2>2, <2>3 DEF ConnectInv
<1> QED
  BY <1>2, <1>3, <1>4

LEMMA NextConnects ==
    ASSUME IInv, ConnectInv, [Next]_vars, ~SetupAsserts
    PROVE  ConnectInv'
<1>1. CASE \E t \in Tasks : Call(t) \/ Send(t) \/ SendFails(t) \/ NotifyWait(t)
  BY <1>1, CallersConnect
<1>2. CASE ReceiveCommand
  BY <1>2, ReceiveCommandConnects
<1>3. CASE ReadFails \/ BreakRead \/ HeaderRead \/ PacketDropped \/ LateAnswerRead \/ PublishRead
           \/ GrantRead \/ RefusalRead \/ Periodic
  <2>1. UNCHANGED <<call, xCommandQueue>>
    BY <1>3 DEF ReadFails, BreakRead, HeaderRead, PacketDropped, LateAnswerRead, PublishRead,
                GrantRead, RefusalRead, Periodic, Reads
  <2>2. xConnectionState = "NotConnected" => xConnectionState' = "NotConnected"
    <3>1. CASE GrantRead
      BY <3>1 DEF GrantRead, Granted, RequestsOf, IInv, ConnectionInv
    <3>2. CASE ~GrantRead
      BY <1>3, <3>2
         DEF ReadFails, MQTT_Disconnect, BreakRead, BrokenOff, prvResetMQTTContext, HeaderRead,
             ReceiveHeader, PacketDropped, DropPacket, LateAnswerRead, UnexpectedAnswer, PublishRead,
             PublishReceived, RefusalRead, SubscriptionRefused, Periodic, ConnectTimedOut,
             RequestsTimedOut
    <3> QED
      BY <3>1, <3>2
  <2> QED
    BY <2>1, <2>2, QueueOfSame, ConnectSame
<1>4. CASE SocketWakeup
  <2>1. /\ UNCHANGED <<call, xConnectionState>>
        /\ xCommandQueue' = Append(xCommandQueue, Service)
    BY <1>4 DEF SocketWakeup, callers, core
  <2>2. \A t \in Tasks : InQueue(t)' => InQueue(t)
    <3>1. ASSUME NEW k \in DOMAIN xCommandQueue', k \notin DOMAIN xCommandQueue
          PROVE  xCommandQueue'[k] = Service
      BY <2>1, <3>1, AppendProperties, LenProperties DEF IInv, CallType
    <3>2. ASSUME NEW k \in DOMAIN xCommandQueue
          PROVE  xCommandQueue'[k] = xCommandQueue[k]
      BY <2>1, <3>2, AppendProperties, LenProperties DEF IInv, CallType
    <3> QED
      BY <3>1, <3>2 DEF InQueue
  <2> QED
    BY <2>1, <2>2, ConnectSame
<1>5. CASE NoCommand \/ ReturnBuffer \/ (\E i \in Identifiers : TimePasses(i)) \/ UNCHANGED vars
  <2>1. UNCHANGED <<call, xCommandQueue, xConnectionState>>
    BY <1>5 DEF NoCommand, ReturnBuffer, MQTT_ReturnBuffer, TimePasses, vars, core, callers, agent
  <2> QED
    BY <2>1, QueueOfSame, ConnectSame
<1> QED
  BY <1>1, <1>2, <1>3, <1>4, <1>5 DEF Next, AgentStep, Stopped

\* The invariant of the program, also when the assertion has stopped it.
Inv ==
    /\ Runs => IInv /\ ConnectInv
    /\ ~Runs => LeakInv /\ SuccessIsDeserved /\ refused

\* A program that has stopped does nothing.
LEMMA StoppedStays ==
    ASSUME ~Runs, [Next]_vars
    PROVE  UNCHANGED vars
BY DEF Runs, Next, AgentStep, Call, MayCall, Send, SendFails, NotifyWait, ReceiveCommand, SetupAsserts,
       NoCommand, Reads, ReadFails, HeaderRead, PacketDropped, LateAnswerRead, GrantRead, RefusalRead,
       BreakRead, PublishRead, Periodic, SocketWakeup, ReturnBuffer, TimePasses, Stopped

\* The assertion fails only when the last option of a socket was refused.
LEMMA AssertsWhenRefused ==
    ASSUME IInv, ConnectInv, SetupAsserts
    PROVE  LeakInv' /\ SuccessIsDeserved' /\ refused'
<1>1. PICK m : /\ Takes(m) /\ m.op = "CONNECT" /\ xSocket
               /\ UNCHANGED <<core, callers, xSocket, history>>
  BY DEF SetupAsserts, Takes, callers
<1>2. m # Service
  BY <1>1 DEF Service
<1>3. m.task \in Tasks /\ call[m.task].op = "CONNECT" /\ InQueue(m.task)
  <2>1. m.task \in Tasks /\ call[m.task].op = m.op /\ InQueue(m.task)
    BY <1>1, <1>2, TakenLeaves
  <2> QED
    BY <1>1, <2>1
<1>4. refused
  BY <1>1, <1>3 DEF ConnectInv, IInv, LeakInv
<1> QED
  BY <1>1, <1>4 DEF IInv, LeakInv, SuccessIsDeserved, RxBuffers, core, callers, history

LEMMA NextKeepsInv == Faults = {} /\ Inv /\ [Next]_vars => Inv'
<1> SUFFICES ASSUME Faults = {}, Inv, [Next]_vars PROVE Inv'
  OBVIOUS
<1>1. CASE ~Runs
  <2>1. UNCHANGED vars
    BY <1>1, StoppedStays
  <2> QED
    BY <1>1, <2>1
       DEF Inv, Runs, LeakInv, SuccessIsDeserved, RxBuffers, vars, core, callers, agent, history
<1>2. CASE Runs /\ SetupAsserts
  <2>1. ~Runs'
    BY <1>2 DEF SetupAsserts, Runs
  <2> QED
    BY <1>2, <2>1, AssertsWhenRefused DEF Inv
<1>3. CASE Runs /\ ~SetupAsserts
  <2>1. IInv' /\ ConnectInv'
    BY <1>3, NextKeeps, NextConnects DEF Inv
  <2>2. Runs'
    BY <1>3 DEF Runs, Next, AgentStep, Call, Send, SendFails, NotifyWait, End, ReceiveCommand,
                NoCommand, Reads, ReadFails, HeaderRead, PacketDropped, LateAnswerRead, GrantRead,
                RefusalRead, BreakRead, PublishRead, Periodic, SocketWakeup, ReturnBuffer,
                TimePasses, Stopped, agent, vars
  <2> QED
    BY <2>1, <2>2 DEF Inv
<1> QED
  BY <1>1, <1>2, <1>3
-----------------------------------------------------------------------------
(* The theorems. *)

\* The invariant holds in every state that the agent and its callers reach.
THEOREM Invariance ==
    ASSUME Faults = {}
    PROVE  Spec => []Inv
<1>1. Init => Inv
  <2>1. Init => Runs /\ ConnectInv
    BY DEF Init, Runs, ConnectInv, NoCall
  <2> QED
    BY <2>1, InitInv DEF Inv
<1>2. Inv /\ [Next]_vars => Inv'
  BY NextKeepsInv
<1> QED
  BY <1>1, <1>2, PTL DEF Spec

\* A call that waits has a command, a request and its slot, or a notification.
LEMMA InvKeepsCalls == IInv => EveryCallIsKept
<1> SUFFICES ASSUME IInv PROVE EveryCallIsKept
  OBVIOUS
<1>1. \A t \in Tasks : call[t].phase = "wait" =>
          call[t] \in [phase : {"send", "wait"}, op : Ops, id : Identifiers]
  BY DEF IInv, CallType, NoCall
<1>2. ASSUME NEW t \in Tasks, call[t].phase = "wait"
      PROVE  /\ InQueue(t) <=> Queued(t)
             /\ InSlot(t) <=> Requested(t)
             /\ notice[t] # NoNotice <=> Notified(t)
  <2>1. call[t].op \in Ops /\ call[t].id \in Identifiers
    BY <1>1, <1>2
  <2>2. ASSUME InQueue(t) PROVE Queued(t)
    <3>1. PICK k \in DOMAIN xCommandQueue : xCommandQueue[k] # Service /\ xCommandQueue[k].task = t
      BY <2>2 DEF InQueue
    <3>2. xCommandQueue[k] \in Commands
      BY <3>1, QueueShape DEF IInv
    <3>3. call[t] = [phase |-> "wait", op |-> xCommandQueue[k].op, id |-> xCommandQueue[k].id]
      BY <3>1 DEF IInv, CallsInv, QueueInv
    <3>4. call[t].op = xCommandQueue[k].op /\ call[t].id = xCommandQueue[k].id
      BY <3>3
    <3>5. xCommandQueue[k] = [task |-> t, op |-> call[t].op, id |-> call[t].id]
      BY <3>1, <3>2, <3>4 DEF Commands
    <3> QED
      BY <3>5 DEF Queued
  <2>3. ASSUME Queued(t) PROVE InQueue(t)
    <3>1. PICK k \in DOMAIN xCommandQueue :
              xCommandQueue[k] = [task |-> t, op |-> call[t].op, id |-> call[t].id]
      BY <2>3 DEF Queued
    <3>2. xCommandQueue[k].task = t /\ xCommandQueue[k].op \in Ops
      BY <2>1, <3>1
    <3>3. Service.op \notin Ops
      BY DEF Service, Ops, Requests
    <3> QED
      BY <3>2, <3>3 DEF InQueue
  <2>4. ASSUME InSlot(t) PROVE Requested(t)
    <3>1. PICK x \in Slots : xWaitingTasks[x] # NoTask /\ xWaitingTasks[x].task = t
      BY <2>4 DEF InSlot
    <3>2. xWaitingTasks[x] \in [task : Tasks, id : Identifiers] /\ xWaitingTasks[x].id = call[t].id
      BY <3>1 DEF IInv, CallType, CallsInv, SlotInv
    <3>3. xWaitingTasks[x] = [task |-> t, id |-> call[t].id]
      BY <3>1, <3>2
    <3>4. \E p \in xTxBufferList : p.op = call[t].op /\ p.id = call[t].id
      BY <3>1, <3>2 DEF IInv, CallsInv, SlotInv
    <3> QED
      BY <3>3, <3>4 DEF Requested
  <2>5. ASSUME Requested(t) PROVE InSlot(t)
    <3>1. PICK x \in Slots : xWaitingTasks[x] = [task |-> t, id |-> call[t].id]
      BY <2>5 DEF Requested
    <3>2. xWaitingTasks[x].task = t /\ xWaitingTasks[x].id # NoTask.id
      BY <2>1, <3>1 DEF NoTask, Identifiers
    <3> QED
      BY <3>2 DEF InSlot
  <2>6. notice[t] # NoNotice <=> Notified(t)
    BY <1>2, <2>1 DEF Notified, NoNotice, Identifiers, IInv, CallsInv, NoticeInv
  <2> QED
    BY <2>2, <2>3, <2>4, <2>5, <2>6
<1>3. ASSUME NEW t \in Tasks, call[t].phase = "wait"
      PROVE  /\ Queued(t) \/ Requested(t) \/ Notified(t)
             /\ ~(Queued(t) /\ Requested(t)) /\ ~(Notified(t) /\ (Queued(t) \/ Requested(t)))
  <2>1. InQueue(t) \/ InSlot(t) \/ notice[t] # NoNotice
    BY <1>3 DEF IInv, CallsInv, WaitInv
  <2>2. ~(InQueue(t) /\ InSlot(t))
    BY DEF IInv, CallsInv, QueueOrSlot
  <2>3. InQueue(t) \/ InSlot(t) => notice[t] = NoNotice
    BY DEF IInv, CallsInv, QueueInv, SlotInv, InQueue, InSlot
  <2> QED
    BY <1>2, <1>3, <2>1, <2>2, <2>3
<1>4. \A t \in Tasks : call[t].phase # "wait" => notice[t] = NoNotice
  BY DEF IInv, CallsInv, NoticeInv
<1>5. ASSUME NEW x \in Slots \ FreeSlots
      PROVE  \E t \in Tasks : call[t].phase = "wait" /\ xWaitingTasks[x] = [task |-> t, id |-> call[t].id]
  <2>1. xWaitingTasks[x] # NoTask /\ xWaitingTasks[x] \in [task : Tasks, id : Identifiers]
    BY DEF FreeSlots, IInv, CallType
  <2>2. call[xWaitingTasks[x].task].phase = "wait" /\ call[xWaitingTasks[x].task].id = xWaitingTasks[x].id
    BY <2>1 DEF IInv, CallsInv, SlotInv
  <2> QED
    BY <2>1, <2>2
<1>6. \A p \in xTxBufferList : \E x \in Slots : xWaitingTasks[x].id = p.id
  BY DEF IInv, CallsInv, TxInv
<1> QED
  BY <1>3, <1>4, <1>5, <1>6 DEF EveryCallIsKept

\* While the program runs, a task that waits in a call (aws_mqtt_agent.c:1702) always
\* waits for something that is there, and for one thing only; no slot and no request
\* outlives the call it was made for.
THEOREM CallsAreKept ==
    ASSUME Faults = {}
    PROVE  Spec => []EveryCallIsKept
<1>1. Inv => EveryCallIsKept
  BY InvKeepsCalls DEF Inv, EveryCallIsKept
<1> QED
  BY <1>1, Invariance, PTL

\* Success is told (aws_mqtt_agent.c:1256) only to a task whose own request was granted
\* or sent.
THEOREM SuccessIsTrue ==
    ASSUME Faults = {}
    PROVE  Spec => []SuccessIsDeserved
<1>1. Inv => SuccessIsDeserved
  BY DEF Inv, IInv
<1> QED
  BY <1>1, Invariance, PTL

\* On every way out of a request no buffer of the pool is lost (aws_mqtt_lib.c:875), and
\* the socket is closed, but for the one whose last option was refused
\* (aws_mqtt_agent.c:977); only that one makes the assertion for the next socket
\* (aws_mqtt_agent.c:864) fail.
THEOREM LeaksNothing ==
    ASSUME Faults = {}
    PROVE  Spec => []NothingLeaks
<1>1. Inv => NothingLeaks
  BY DEF Inv, IInv, LeakInv, NothingLeaks
<1> QED
  BY <1>1, Invariance, PTL
-----------------------------------------------------------------------------
(* Subscriptions. *)

\* A topic that a task subscribes to is no other task's to subscribe to or to drop.
TopicsAreOwn == \A t, u \in Tasks :
    /\ "SUBSCRIBE" \in OpsOf[t] /\ OpsOf[u] \cap {"SUBSCRIBE", "UNSUBSCRIBE"} # {}
    /\ TopicOf[t] = TopicOf[u]
    => t = u

\* A call, and the request made for it, are what the task may ask for.
AskedInv ==
    /\ \A t \in Tasks : call[t] # NoCall => call[t].op \in OpsOf[t]
    /\ \A p \in xTxBufferList, t \in Tasks : call[t].id = p.id => p.topic = TopicOf[t]

\* A subscription that waits for its answer is with the subscription manager, and is
\* not taken for one that was granted.
KeptInv ==
    /\ SubscriptionIsKept
    /\ xConnectionState # "Connected" => granted = {}
    /\ \A p \in xTxBufferList : p.op = "SUBSCRIBE" => p.topic \in xSubscriptions \ granted

SubscribersInv == AskedInv /\ KeptInv

\* The task a request was made for.
LEMMA Requester ==
    ASSUME IInv, AskedInv, NEW p \in xTxBufferList
    PROVE  \E t \in Tasks : /\ InSlot(t) /\ call[t] # NoCall /\ call[t].id = p.id
                            /\ p.op \in OpsOf[t] /\ p.topic = TopicOf[t]
<1>1. PICK x \in Slots : xWaitingTasks[x] # NoTask /\ xWaitingTasks[x].id = p.id
  BY DEF IInv, CallsInv, TxInv
<1> DEFINE t == xWaitingTasks[x].task
<1>2. t \in Tasks /\ call[t].phase = "wait" /\ call[t].id = p.id /\ InSlot(t)
  BY <1>1 DEF IInv, CallType, CallsInv, SlotInv, InSlot
<1>3. PICK r \in xTxBufferList : r.op = call[t].op /\ r.id = p.id
  BY <1>1 DEF IInv, CallsInv, SlotInv
<1>4. r = p
  BY <1>3 DEF IInv, CallsInv, TxOnce
<1>5. call[t] # NoCall
  BY <1>2 DEF NoCall
<1> HIDE DEF t
<1> QED
  BY <1>2, <1>3, <1>4, <1>5 DEF AskedInv

\* While a subscription waits for its answer no other request is for its topic.
LEMMA OneRequest ==
    ASSUME IInv, AskedInv, TopicsAreOwn, NEW p \in xTxBufferList, NEW r \in xTxBufferList,
           p.op = "SUBSCRIBE", r.op \in {"SUBSCRIBE", "UNSUBSCRIBE"}, p.topic = r.topic
    PROVE  p = r
<1>1. PICK t \in Tasks : call[t].id = p.id /\ p.op \in OpsOf[t] /\ p.topic = TopicOf[t]
  BY Requester
<1>2. PICK u \in Tasks : call[u].id = r.id /\ r.op \in OpsOf[u] /\ r.topic = TopicOf[u]
  BY Requester
<1>3. t = u
  BY <1>1, <1>2 DEF TopicsAreOwn
<1> QED
  BY <1>1, <1>2, <1>3 DEF IInv, CallsInv, TxOnce

\* Nor is there one when a task asks for it.
LEMMA NoneBefore ==
    ASSUME IInv, AskedInv, TopicsAreOwn, NEW m, Takes(m), m # Service, m.op = "SUBSCRIBE",
           NEW p \in xTxBufferList, p.op = "SUBSCRIBE"
    PROVE  p.topic # TopicOf[m.task]
<1> SUFFICES ASSUME p.topic = TopicOf[m.task] PROVE FALSE
  OBVIOUS
<1>1. /\ m \in Commands /\ 1 \in DOMAIN xCommandQueue /\ m = xCommandQueue[1]
      /\ call[m.task] = [phase |-> "wait", op |-> m.op, id |-> m.id]
  BY TakenCommand
<1>2. m.task \in Tasks /\ InQueue(m.task) /\ "SUBSCRIBE" \in OpsOf[m.task]
  BY <1>1 DEF Commands, InQueue, AskedInv, NoCall
<1>3. PICK t \in Tasks : InSlot(t) /\ p.op \in OpsOf[t] /\ p.topic = TopicOf[t]
  BY Requester
<1>4. t = m.task
  BY <1>2, <1>3 DEF TopicsAreOwn
<1> QED
  BY <1>2, <1>3, <1>4 DEF IInv, CallsInv, QueueOrSlot

\* What requests and subscriptions depend on.
LEMMA SubscribersSame ==
    ASSUME SubscribersInv,
           UNCHANGED <<call, xConnectionState, xTxBufferList, xSubscriptions, granted>>
    PROVE  SubscribersInv'
BY DEF SubscribersInv, AskedInv, KeptInv, SubscriptionIsKept

\* Requests that are still there are those they were.
LEMMA AskedKept ==
    ASSUME AskedInv, UNCHANGED call, xTxBufferList' \subseteq xTxBufferList
    PROVE  AskedInv'
BY DEF AskedInv

\* The connection is given up with all that was granted.
LEMMA LostSubscriptions ==
    ASSUME AskedInv, UNCHANGED call, xTxBufferList' = {}, granted' = {}
    PROVE  SubscribersInv'
BY AskedKept DEF SubscribersInv, KeptInv, SubscriptionIsKept

\* What a request does to the subscription manager.
LEMMA ManagerAfter ==
    ASSUME NEW p, NEW sent, Request(p, sent), NEW code, code = ReturnCode(p, sent)
    PROVE  /\ p.op # "SUBSCRIBE" \/ code = "SubscriptionManagerFull" => UNCHANGED xSubscriptions
           /\ p.op = "SUBSCRIBE" /\ code = "Success" =>
                  xSubscriptions' = xSubscriptions \cup {p.topic}
           /\ p.op = "SUBSCRIBE" /\ code \notin {"Success", "SubscriptionManagerFull"} =>
                  xSubscriptions' = xSubscriptions \ {p.topic}
BY DEF Request

\* A subscription asked for takes its topic out of those granted; its request, if it
\* is made, has it with the subscription manager.
LEMMA MadeSubscribes ==
    ASSUME IInv, SubscribersInv, TopicsAreOwn, NEW m, Takes(m), m # Service, m.op # "PUBLISH0",
           NEW sent \in BOOLEAN, RequestMade(m, sent)
    PROVE  SubscribersInv'
<1> DEFINE p    == Packet(m)
           code == ReturnCode(p, sent)
<1>1. m.task \in Tasks /\ call[m.task] = [phase |-> "wait", op |-> m.op, id |-> m.id] /\ UNCHANGED call
  BY TakenCommand DEF Commands, Takes
<1>2. p.op = m.op /\ p.id = m.id /\ p.topic = TopicOf[m.task]
  BY DEF Packet
<1>3. /\ m.op = "SUBSCRIBE" =>
             /\ code = "SubscriptionManagerFull" => xSubscriptions' = xSubscriptions /\ granted' = granted
             /\ code # "SubscriptionManagerFull" => granted' = granted \ {p.topic}
             /\ code = "Success" => xSubscriptions' = xSubscriptions \cup {p.topic}
             /\ code \notin {"Success", "SubscriptionManagerFull"} =>
                    xSubscriptions' = xSubscriptions \ {p.topic}
      /\ m.op # "SUBSCRIBE" => xSubscriptions' = xSubscriptions /\ granted' = granted
  <2>1. granted' = IF m.op = "SUBSCRIBE" /\ code # "SubscriptionManagerFull"
                   THEN granted \ {p.topic} ELSE granted
    BY DEF RequestMade
  <2>2. Request(p, sent) /\ code = ReturnCode(p, sent)
    BY DEF RequestMade
  <2> HIDE DEF p, code
  <2> QED
    BY <1>2, <2>1, <2>2, ManagerAfter
<1>4. CASE code = "Success"
  <2>1. /\ xTxBufferList' = xTxBufferList \cup {p}
        /\ m.op = "CONNECT" => xConnectionState = "NotConnected"
        /\ m.op # "CONNECT" => xConnectionState = "Connected" /\ UNCHANGED xConnectionState
    <3>1. xTxBufferList' = xTxBufferList \cup {p} /\ (m.op # "CONNECT" => UNCHANGED xConnectionState)
      BY <1>2, <1>4 DEF RequestMade, Request
    <3> QED
      BY <1>2, <1>4, <3>1, MadeWhen
  <2> HIDE DEF p, code
  <2>2. AskedInv'
    <3>1. \A t \in Tasks : call[t].id = p.id => t = m.task
      BY <1>1, <1>2 DEF IInv, CallsInv, IdInv, NoCall
    <3> QED
      BY <1>1, <1>2, <2>1, <3>1 DEF SubscribersInv, AskedInv
  <2>3. KeptInv'
    BY <1>2, <1>3, <1>4, <2>1 DEF SubscribersInv, KeptInv, SubscriptionIsKept
  <2> QED
    BY <2>2, <2>3 DEF SubscribersInv
<1>5. CASE code # "Success"
  <2>1. UNCHANGED <<xConnectionState, xTxBufferList>>
    BY <1>5, NotKept DEF RequestMade
  <2>2. m.op = "SUBSCRIBE" => \A r \in xTxBufferList : r.op = "SUBSCRIBE" => r.topic # p.topic
    BY <1>2, NoneBefore DEF SubscribersInv
  <2> HIDE DEF p, code
  <2>3. KeptInv'
    BY <1>3, <1>5, <2>1, <2>2 DEF SubscribersInv, KeptInv, SubscriptionIsKept
  <2> QED
    BY <1>1, <2>1, <2>3, AskedKept DEF SubscribersInv
<1> QED
  BY <1>4, <1>5

LEMMA DisconnectSubscribes ==
    ASSUME IInv, SubscribersInv, UNCHANGED call, NEW N, MQTT_Disconnect(N)
    PROVE  SubscribersInv'
<1>1. xTxBufferList' = {} /\ granted' = {}
  BY DEF MQTT_Disconnect, prvResetMQTTContext, prvProcessReceivedDisconnect, history,
         SubscribersInv, KeptInv
<1> QED
  BY <1>1, LostSubscriptions DEF SubscribersInv

LEMMA ReceiveCommandSubscribes ==
    ASSUME IInv, SubscribersInv, TopicsAreOwn, ReceiveCommand
    PROVE  SubscribersInv'
<1> DEFINE m == Head(xCommandQueue)
<1>1. Takes(m) /\ UNCHANGED call
  BY DEF ReceiveCommand, Takes
<1>2. CASE m = Service \/ m.id \in late
  BY <1>2, SubscribersSame DEF ReceiveCommand, ServiceCommand, CommandTimedOut, core, history
<1>3. CASE m # Service /\ m.id \notin late
  <2>1. Handle(m)
    BY <1>3 DEF ReceiveCommand
  <2> HIDE DEF m
  <2>2. ASSUME CommandFails(m) \/ SetupFails(m) PROVE SubscribersInv'
    BY <1>1, <2>2, SubscribersSame DEF CommandFails, SetupFails, core, history
  <2>3. CASE prvInitiateMQTTConnect(m)
    BY <1>1, <1>3, <2>2, <2>3, MadeSubscribes DEF prvInitiateMQTTConnect
  <2>4. CASE prvInitiateMQTTDisconnect(m)
    BY <1>1, <2>4, DisconnectSubscribes DEF prvInitiateMQTTDisconnect
  <2>5. CASE prvInitiateMQTTSubscribe(m)
    BY <1>1, <1>3, <2>2, <2>5, MadeSubscribes DEF prvInitiateMQTTSubscribe
  <2>6. CASE prvInitiateMQTTPublish0(m)
    <3>1. PICK sent \in BOOLEAN : m.op = "PUBLISH0" /\ Request(Packet(m), sent) /\ UNCHANGED granted
      BY <2>6 DEF prvInitiateMQTTPublish0
    <3>2. Packet(m).op = "PUBLISH0"
      BY <3>1 DEF Packet
    <3>3. UNCHANGED <<xConnectionState, xTxBufferList>>
      BY <3>1, <3>2, NotKept
    <3>4. UNCHANGED xSubscriptions
      BY <3>1, <3>2, ManagerAfter
    <3> QED
      BY <1>1, <3>1, <3>3, <3>4, SubscribersSame
  <2> QED
    BY <2>1, <2>3, <2>4, <2>5, <2>6 DEF Handle
<1> QED
  BY <1>2, <1>3

\* A granted subscription was with the subscription manager when it was asked for, and
\* nothing has taken it out since.
LEMMA GrantReadSubscribes ==
    ASSUME IInv, SubscribersInv, TopicsAreOwn, GrantRead
    PROVE  SubscribersInv'
<1>1. PICK a \in atBroker, p \in xTxBufferList :
          LET X == prvRetrieveNotificationData(IF a.op = "CONNECT" THEN p.id ELSE a.id)
          IN  /\ Reads /\ xSocket /\ Granted(a, p)
              /\ granted' = CASE a.op = "SUBSCRIBE"   -> granted \cup TopicsOf(X)
                              [] a.op = "UNSUBSCRIBE" -> granted \ {p.topic}
                              [] OTHER                -> granted
  BY Zenon DEF GrantRead
<1>2. /\ p.op = a.op /\ (a.op # "CONNECT" => p.id = a.id)
      /\ xTxBufferList' = xTxBufferList \ {p}
      /\ xConnectionState' = IF p.op = "CONNECT" THEN "Connected" ELSE xConnectionState
      /\ xSubscriptions' = IF p.op = "UNSUBSCRIBE" THEN xSubscriptions \ {p.topic} ELSE xSubscriptions
      /\ UNCHANGED call
  BY <1>1 DEF Granted, RequestsOf, ReturnTxAndRxBuffer, Reads
<1>3. xConnectionState = "Connected" \/ p.op = "CONNECT"
  <2>1. xConnectionState # "NotConnected"
    BY <1>2 DEF IInv, ConnectionInv
  <2>2. ASSUME xConnectionState = "ConnectionInProgress" PROVE p.op = "CONNECT"
    <3>1. PICK m \in Commands : m.op = "CONNECT" /\ xTxBufferList = {Packet(m)}
      BY <2>2 DEF IInv, ConnectionInv
    <3> QED
      BY <3>1 DEF Packet
  <2> QED
    BY <2>1, <2>2 DEF IInv, CoreType
<1>4. AskedInv'
  BY <1>2, AskedKept DEF SubscribersInv
<1>5. \A r \in xTxBufferList' : r.op = "SUBSCRIBE" /\ p.op \in {"SUBSCRIBE", "UNSUBSCRIBE"} =>
          r.topic # p.topic
  BY <1>2, OneRequest DEF SubscribersInv
<1>6. CASE p.op = "SUBSCRIBE"
  <2> DEFINE X == prvRetrieveNotificationData(p.id)
  <2>1. granted' = granted \cup TopicsOf(X)
    BY <1>1, <1>2, <1>6
  <2>2. \A x \in X : x \in Slots /\ xWaitingTasks[x] # NoTask /\ xWaitingTasks[x].id = p.id
    BY DEF prvRetrieveNotificationData, First, FreeSlots
  <2>3. \A x \in X : TopicOf[xWaitingTasks[x].task] = p.topic
    BY <2>2 DEF IInv, CallType, CallsInv, SlotInv, SubscribersInv, AskedInv
  <2>4. TopicsOf(X) \subseteq {p.topic}
    BY <2>3 DEF TopicsOf
  <2> HIDE DEF X
  <2>5. KeptInv'
    BY <1>2, <1>3, <1>5, <1>6, <2>1, <2>4 DEF SubscribersInv, KeptInv, SubscriptionIsKept
  <2> QED
    BY <1>4, <2>5 DEF SubscribersInv
<1>7. CASE p.op = "UNSUBSCRIBE"
  <2>1. granted' = granted \ {p.topic}
    BY <1>1, <1>2, <1>7
  <2>2. KeptInv'
    BY <1>2, <1>3, <1>5, <1>7, <2>1 DEF SubscribersInv, KeptInv, SubscriptionIsKept
  <2> QED
    BY <1>4, <2>2 DEF SubscribersInv
<1>8. CASE p.op \notin {"SUBSCRIBE", "UNSUBSCRIBE"}
  <2>1. granted' = granted
    BY <1>1, <1>2, <1>8
  <2>2. KeptInv'
    BY <1>2, <1>3, <1>8, <2>1 DEF SubscribersInv, KeptInv, SubscriptionIsKept
  <2> QED
    BY <1>4, <2>2 DEF SubscribersInv
<1> QED
  BY <1>6, <1>7, <1>8

LEMMA RefusalReadSubscribes ==
    ASSUME IInv, SubscribersInv, TopicsAreOwn, RefusalRead
    PROVE  SubscribersInv'
<1>1. PICK a \in atBroker, p \in xTxBufferList :
          Reads /\ SubscriptionRefused(a, p) /\ granted' = granted \ {p.topic}
  BY DEF RefusalRead
<1>2. /\ p.op = "SUBSCRIBE" /\ xTxBufferList' = xTxBufferList \ {p}
      /\ xSubscriptions' = xSubscriptions \ {p.topic} /\ UNCHANGED <<xConnectionState, call>>
  BY <1>1 DEF SubscriptionRefused, RequestsOf, ReturnTxAndRxBuffer, Reads
<1>3. \A r \in xTxBufferList' : r.op = "SUBSCRIBE" => r.topic # p.topic
  BY <1>2, OneRequest DEF SubscribersInv
<1>4. KeptInv'
  BY <1>1, <1>2, <1>3 DEF SubscribersInv, KeptInv, SubscriptionIsKept
<1> QED
  BY <1>2, <1>4, AskedKept DEF SubscribersInv

\* What is taken out by a timeout was not granted.
LEMMA PeriodicSubscribes ==
    ASSUME IInv, SubscribersInv, TopicsAreOwn, Periodic
    PROVE  SubscribersInv'
<1> DEFINE E == {p \in xTxBufferList : p.id \in late}
           T == {p.topic : p \in {q \in E : q.op = "SUBSCRIBE"}}
<1>1. UNCHANGED call
  BY DEF Periodic
<1>2. CASE ConnectTimedOut(E) /\ prvProcessReceivedDisconnect({})
  <2>1. xTxBufferList' = {} /\ granted' = {}
    BY <1>2 DEF ConnectTimedOut, prvResetMQTTContext, prvProcessReceivedDisconnect
  <2> QED
    BY <1>1, <2>1, LostSubscriptions DEF SubscribersInv
<1>3. CASE RequestsTimedOut(E) /\ UNCHANGED granted
  <2>1. /\ xTxBufferList' = xTxBufferList \ E /\ xSubscriptions' = xSubscriptions \ T
        /\ UNCHANGED xConnectionState
    BY <1>3 DEF RequestsTimedOut
  <2>2. T \cap granted = {}
    BY DEF SubscribersInv, KeptInv
  <2>3. \A r \in xTxBufferList \ E : r.op = "SUBSCRIBE" => r.topic \notin T
    <3> SUFFICES ASSUME NEW r \in xTxBufferList \ E, r.op = "SUBSCRIBE",
                        NEW p \in E, p.op = "SUBSCRIBE", p.topic = r.topic
                 PROVE  FALSE
      OBVIOUS
    <3> QED
      BY OneRequest DEF SubscribersInv
  <2> HIDE DEF E, T
  <2>4. KeptInv'
    BY <1>3, <2>1, <2>2, <2>3 DEF SubscribersInv, KeptInv, SubscriptionIsKept
  <2> QED
    BY <1>1, <2>1, <2>4, AskedKept DEF SubscribersInv
<1> QED
  BY <1>2, <1>3 DEF Periodic, history

\* A call that begins has an identifier of its own.
LEMMA CallersSubscribe ==
    ASSUME IInv, SubscribersInv, Faults = {}, NEW t \in Tasks,
           Call(t) \/ Send(t) \/ SendFails(t) \/ NotifyWait(t)
    PROVE  SubscribersInv'
<1>1. UNCHANGED <<xConnectionState, xTxBufferList, xSubscriptions, granted>>
  BY DEF Call, Send, SendFails, NotifyWait, End, core, history
<1>2. \A u \in Tasks : \/ call'[u].op = call[u].op /\ call'[u].id = call[u].id /\ call[u] # NoCall
                       \/ call'[u] = call[u] \/ call'[u] = NoCall
                       \/ /\ call'[u].op \in OpsOf[u]
                          /\ \A v \in Tasks : call[v] # NoCall => call[v].id # call'[u].id
  <2>1. CASE Call(t)
    <3>1. PICK op \in Ops :
              /\ MayCall(t, op)
              /\ call' = [call EXCEPT ![t] = [phase |-> "send", op |-> op, id |-> ulQueueMessageIdentifier]]
      BY <2>1 DEF Call
    <3>2. op \in OpsOf[t] /\ ulQueueMessageIdentifier \notin UsedIdentifiers
      BY <3>1 DEF MayCall
    <3>3. \A v \in Tasks : call[v] # NoCall => call[v].id # ulQueueMessageIdentifier
      <4>1. \A v \in Tasks : call[v] # NoCall => call[v].phase # "idle"
        BY DEF IInv, CallType
      <4> QED
        BY <3>2, <4>1 DEF UsedIdentifiers, Calling
    <3> QED
      BY <3>1, <3>2, <3>3 DEF IInv, CallType
  <2>2. CASE Send(t)
    BY <2>2 DEF Send, IInv, CallType, NoCall
  <2>3. CASE SendFails(t) \/ NotifyWait(t)
    BY <2>3 DEF SendFails, NotifyWait, End, IInv, CallType
  <2> QED
    BY <2>1, <2>2, <2>3
<1>3. AskedInv'
  <2>1. ASSUME NEW u \in Tasks, call'[u] # NoCall PROVE call'[u].op \in OpsOf[u]
    BY <1>2, <2>1 DEF SubscribersInv, AskedInv
  <2>2. ASSUME NEW p \in xTxBufferList, NEW u \in Tasks, call'[u].id = p.id
        PROVE  p.topic = TopicOf[u]
    <3>1. PICK v \in Tasks : call[v] # NoCall /\ call[v].id = p.id
      BY Requester DEF SubscribersInv
    <3>2. NoCall.id # p.id
      BY DEF NoCall, IInv, CallType, Identifiers
    <3> QED
      BY <1>2, <2>2, <3>1, <3>2 DEF SubscribersInv, AskedInv
  <2> QED
    BY <1>1, <2>1, <2>2 DEF AskedInv
<1>4. KeptInv'
  BY <1>1 DEF SubscribersInv, KeptInv, SubscriptionIsKept
<1> QED
  BY <1>3, <1>4 DEF SubscribersInv

LEMMA NextSubscribes ==
    ASSUME Faults = {}, TopicsAreOwn, Inv, SubscribersInv, [Next]_vars
    PROVE  SubscribersInv'
<1> SUFFICES ASSUME Runs PROVE SubscribersInv'
  <2>1. CASE ~Runs
    <3>1. UNCHANGED vars
      BY <2>1, StoppedStays
    <3> QED
      BY <3>1, SubscribersSame DEF vars, core, callers, history
  <2> QED
    BY <2>1
<1> USE DEF Inv
<1>1. CASE \E t \in Tasks : Call(t) \/ Send(t) \/ SendFails(t) \/ NotifyWait(t)
  BY <1>1, CallersSubscribe
<1>2. CASE ReceiveCommand
  BY <1>2, ReceiveCommandSubscribes
<1>3. CASE ReadFails
  BY <1>3, DisconnectSubscribes DEF ReadFails, Reads
<1>4. CASE BreakRead
  BY <1>4, LostSubscriptions
     DEF BreakRead, Reads, BrokenOff, prvResetMQTTContext, prvProcessReceivedDisconnect, SubscribersInv
<1>5. CASE HeaderRead \/ PacketDropped \/ LateAnswerRead \/ PublishRead \/ ReturnBuffer
  BY <1>5, SubscribersSame
     DEF HeaderRead, ReceiveHeader, PacketDropped, DropPacket, LateAnswerRead, UnexpectedAnswer,
         PublishRead, PublishReceived, ReturnBuffer, MQTT_ReturnBuffer, Reads, history, callers
<1>6. CASE GrantRead
  BY <1>6, GrantReadSubscribes
<1>7. CASE RefusalRead
  BY <1>7, RefusalReadSubscribes
<1>8. CASE Periodic
  BY <1>8, PeriodicSubscribes
<1>9. CASE \/ NoCommand \/ SetupAsserts \/ SocketWakeup
           \/ (\E i \in Identifiers : TimePasses(i)) \/ UNCHANGED vars
  BY <1>9, SubscribersSame
     DEF NoCommand, SetupAsserts, SocketWakeup, TimePasses, vars, core, callers, history
<1> QED
  BY <1>1, <1>2, <1>3, <1>4, <1>5, <1>6, <1>7, <1>8, <1>9 DEF Next, AgentStep, Stopped

\* Where the topic a task subscribes to is no other task's to
\* subscribe to or to drop, a granted subscription stays with the subscription manager
\* (aws_mqtt_lib.c:2103), through timeouts, refusals and failures of other requests and
\* answers to calls that have ended: what a timeout takes out by its topic
\* (aws_mqtt_lib.c:3669) was not granted.
THEOREM SubscriptionsAreKept ==
    ASSUME Faults = {}, TopicsAreOwn
    PROVE  Spec => []SubscriptionIsKept
<1>1. Init => SubscribersInv
  BY DEF Init, MQTT_Init, SubscribersInv, AskedInv, KeptInv, SubscriptionIsKept
<1>2. Inv /\ SubscribersInv /\ [Next]_vars => SubscribersInv'
  BY NextSubscribes
<1>3. SubscribersInv => SubscriptionIsKept
  BY DEF SubscribersInv, KeptInv
<1> QED
  BY <1>1, <1>2, <1>3, Invariance, PTL DEF Spec
=============================================================================
