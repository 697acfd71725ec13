----------------------------- MODULE MqttAgent -----------------------------
(***************************************************************************)
(* The MQTT agent (aws_mqtt_agent.c): tasks send commands to the agent's   *)
(* task and wait for its notification; the agent's task makes the request  *)
(* with the core library, reads the socket and looks after timeouts.  One  *)
(* connection.                                                             *)
(*                                                                         *)
(* A command, a read and a look at the timeouts is one action each: the    *)
(* callers meet the agent only at the queue and at their notification.     *)
(* The time of a call is only whether it is over; it is one span, from the *)
(* call's start, first for the queue, then the agent, then the answer.     *)
(***************************************************************************)
EXTENDS MqttCore, Sequences

CONSTANTS Tasks,
          OpsOf,            \* what each task calls
          TopicOf,          \* the topic each task subscribes to
          QueueLength,      \* mqttCOMMAND_QUEUE_LENGTH
          MaxParallelOps,   \* mqttconfigMAX_PARALLEL_OPS
          IdentifierMax,    \* mqttMESSAGE_IDENTIFIER_MAX: the identifiers are below
          Faults            \* "stray": a task that calls is notified by others;
                              \* "wrap": the identifiers wrap on to one still used

Ops == Requests \cup {"DISCONNECT"}
Identifiers == 1..IdentifierMax - 1
Slots == 1..MaxParallelOps

ASSUME AgentAssumption ==
    /\ OpsOf \in [Tasks -> SUBSET Ops] /\ TopicOf \in [Tasks -> Topics]
    /\ QueueLength \in Nat \ {0} /\ MaxParallelOps \in Nat \ {0}
    /\ IdentifierMax \in Nat \ {0, 1}
    /\ Faults \subseteq {"stray", "wrap"}

VARIABLES
    call,                       \* [phase, op, id] of each task
    notice,                     \* [id, result] of each task's pending notification
    ulQueueMessageIdentifier,
    xCommandQueue,
    xWaitingTasks,              \* [task, id] of each slot
    xSocket,                    \* TRUE: open
    pc,                         \* where the agent's task is in its loop, or "asserted"
    late,                       \* the identifiers of the calls whose time is over
    atBroker,                   \* requests the broker has and did not answer
    answered,                   \* history: requests answered with a yes, or sent
                                \* if there is no answer
    granted,                    \* history: topics whose last subscription was granted
    refused                     \* history: the last option of a socket was refused

callers == <<call, notice, ulQueueMessageIdentifier>>
agent   == <<xCommandQueue, xWaitingTasks, xSocket, pc>>
history == <<answered, granted, refused>>
vars    == <<core, callers, agent, late, atBroker, history>>

NoCall   == [phase |-> "idle", op |-> "none", id |-> 0]
NoNotice == [id |-> 0, result |-> "none"]
NoTask   == [task |-> "none", id |-> 0]
Service  == [task |-> "none", op |-> "SERVICE", id |-> 0]

Init ==
    /\ MQTT_Init
    /\ call = [t \in Tasks |-> NoCall] /\ notice = [t \in Tasks |-> NoNotice]
    /\ ulQueueMessageIdentifier = 1
    /\ xCommandQueue = << >> /\ xWaitingTasks = [x \in Slots |-> NoTask]
    /\ xSocket = FALSE /\ pc = "receive"
    /\ late = {} /\ atBroker = {} /\ answered = {} /\ granted = {}
    /\ refused = FALSE

\* A failed assertion stops the program.
Runs == pc # "asserted"
-----------------------------------------------------------------------------
(* The callers: prvSendCommandToMQTTTask. *)

Calling == {t \in Tasks : call[t].phase # "idle"}

UsedIdentifiers == {call[t].id : t \in Calling} \cup {p.id : p \in atBroker}

\* A task connects only when it was told that there is no connection.
MayCall(t, op) ==
    /\ Runs /\ op \in OpsOf[t] /\ t \notin Calling
    /\ op = "CONNECT" => /\ xConnectionState = "NotConnected"
                         /\ \A u \in Calling : call[u].op # "CONNECT"
    /\ ulQueueMessageIdentifier \in UsedIdentifiers => "wrap" \in Faults

\* Notifications a task may have when it has cleared its own.
Pending == {NoNotice} \cup [id : {0}, result : {"stray"} \cap Faults]

\* The identifier is taken and a pending notification cleared.
Call(t) == \E op \in Ops :
    /\ MayCall(t, op)
    /\ call' = [call EXCEPT ![t] = [phase |-> "send", op |-> op,
                                    id |-> ulQueueMessageIdentifier]]
    /\ \E n \in Pending : notice' = [notice EXCEPT ![t] = n]
    /\ ulQueueMessageIdentifier' = IF ulQueueMessageIdentifier + 1 >= IdentifierMax
                                   THEN 1 ELSE ulQueueMessageIdentifier + 1
    /\ UNCHANGED <<core, agent, late, atBroker, history>>

Send(t) ==
    /\ Runs /\ call[t].phase = "send" /\ Len(xCommandQueue) < QueueLength
    /\ xCommandQueue' = Append(xCommandQueue,
                               [task |-> t, op |-> call[t].op, id |-> call[t].id])
    /\ call' = [call EXCEPT ![t].phase = "wait"]
    /\ UNCHANGED <<core, notice, ulQueueMessageIdentifier, xWaitingTasks, xSocket, pc,
                   late, atBroker, history>>

End(t) ==
    /\ call' = [call EXCEPT ![t] = NoCall]
    /\ late' = late \ {call[t].id} /\ answered' = answered \ {t}
    /\ UNCHANGED <<core, ulQueueMessageIdentifier, agent, atBroker, granted, refused>>

\* The queue was full for the time of the call.
SendFails(t) ==
    /\ Runs /\ call[t].phase = "send" /\ call[t].id \in late
    /\ Len(xCommandQueue) = QueueLength
    /\ End(t) /\ UNCHANGED notice

\* xTaskNotifyWait: a notification with another identifier is passed over.
NotifyWait(t) ==
    /\ Runs /\ call[t].phase = "wait" /\ notice[t] # NoNotice
    /\ notice' = [notice EXCEPT ![t] = NoNotice]
    /\ IF notice[t].id = call[t].id
       THEN End(t)
       ELSE UNCHANGED <<core, call, ulQueueMessageIdentifier, agent, late, atBroker, history>>

TimePasses(i) ==
    /\ Runs /\ i \in {call[t].id : t \in Calling} \ late /\ late' = late \cup {i}
    /\ UNCHANGED <<core, callers, agent, atBroker, history>>

-----------------------------------------------------------------------------
(* Slots and notifications. *)

\* The first of slots X, if there is one.
First(X) == {x \in X : \A y \in X : x <= y}

FreeSlots == {x \in Slots : xWaitingTasks[x] = NoTask}

prvStoreNotificationData(m) == \E x \in First(FreeSlots) :
    xWaitingTasks' = [xWaitingTasks EXCEPT ![x] = [task |-> m.task, id |-> m.id]]

\* Mutant: the first waiting task, whatever it waits for.
FirstWaiting(i) == First(Slots \ FreeSlots)

\* The slot, if any, of the request with identifier i.
prvRetrieveNotificationData(i) == First({x \in Slots \ FreeSlots : xWaitingTasks[x].id = i})

Told(waiting, result) == [task : {waiting.task}, id : {waiting.id}, result : {result}]

\* xTaskNotify, eSetValueWithoutOverwrite, of each record of N; the result is not used.
Notify(N) ==
    notice' = [t \in Tasks |->
                  LET mine == {n \in N : n.task = t}
                  IN  IF mine = {} \/ notice[t] # NoNotice THEN notice[t]
                      ELSE LET n == CHOOSE n \in mine : TRUE
                           IN  [id |-> n.id, result |-> n.result]]

\* Notify the tasks of slots X and free these.
prvNotifyRequestingTask(X, result) ==
    /\ Notify(UNION {Told(xWaitingTasks[x], result) : x \in X})
    /\ xWaitingTasks' = [x \in Slots |-> IF x \in X THEN NoTask ELSE xWaitingTasks[x]]
-----------------------------------------------------------------------------
(* The agent's task: prvMQTTTask. *)

Packet(m) == [op |-> m.op, id |-> m.id, topic |-> TopicOf[m.task]]

\* A command whose time is over is not begun.
CommandTimedOut(m) ==
    /\ Notify(Told(m, "Timeout"))
    /\ UNCHANGED <<core, xWaitingTasks, xSocket, atBroker, history>>

CommandFails(m) ==
    /\ Notify(Told(m, "Failure"))
    /\ UNCHANGED <<core, xWaitingTasks, xSocket, atBroker, history>>

\* Mutant: the slot of a request that could not be made stays in use.
RequestKeepsSlot(m, sent) ==
    LET p    == Packet(m)
        code == ReturnCode(p, sent)
        ok   == code = "Success"
    IN  /\ Request(p, sent) /\ prvStoreNotificationData(m)
        /\ IF ok THEN UNCHANGED notice ELSE Notify(Told(m, "Failure"))
        /\ xSocket' = (xSocket \/ (ok /\ m.op = "CONNECT"))
        /\ atBroker' = IF ok THEN atBroker \cup {m} ELSE atBroker
        /\ granted' = IF m.op = "SUBSCRIBE" /\ code # "SubscriptionManagerFull"
                      THEN granted \ {p.topic} ELSE granted
        /\ UNCHANGED <<answered, refused>>

\* Mutant: the socket stays open when the connection cannot be asked for.
FailureKeepsSocket(m, sent) ==
    LET p    == Packet(m)
        code == ReturnCode(p, sent)
        ok   == code = "Success"
    IN  /\ Request(p, sent)
        /\ IF ok THEN prvStoreNotificationData(m) /\ UNCHANGED notice
                 ELSE Notify(Told(m, "Failure")) /\ UNCHANGED xWaitingTasks
        /\ xSocket' = (xSocket \/ m.op = "CONNECT")
        /\ atBroker' = IF ok THEN atBroker \cup {m} ELSE atBroker
        /\ granted' = IF m.op = "SUBSCRIBE" /\ code # "SubscriptionManagerFull"
                      THEN granted \ {p.topic} ELSE granted
        /\ UNCHANGED <<answered, refused>>

\* A request that is answered; one that could not be made frees its slot and, if it
\* was to connect, closes the socket again.
RequestMade(m, sent) ==
    LET p    == Packet(m)
        code == ReturnCode(p, sent)
        ok   == code = "Success"
    IN  /\ Request(p, sent)
        /\ IF ok THEN prvStoreNotificationData(m) /\ UNCHANGED notice
                 ELSE Notify(Told(m, "Failure")) /\ UNCHANGED xWaitingTasks
        /\ xSocket' = (xSocket \/ (ok /\ m.op = "CONNECT"))
        /\ atBroker' = IF ok THEN atBroker \cup {m} ELSE atBroker
        /\ granted' = IF m.op = "SUBSCRIBE" /\ code # "SubscriptionManagerFull"
                      THEN granted \ {p.topic} ELSE granted
        /\ UNCHANGED <<answered, refused>>

prvInitiateMQTTSubscribe(m) ==       \* and Unsubscribe, and Publish with an answer
    /\ m.op \in {"SUBSCRIBE", "UNSUBSCRIBE", "PUBLISH1"}
    /\ IF FreeSlots = {} THEN CommandFails(m) ELSE \E sent \in BOOLEAN : RequestMade(m, sent)

\* A publish without an answer takes no slot.
prvInitiateMQTTPublish0(m) == \E sent \in BOOLEAN :
    /\ m.op = "PUBLISH0"
    /\ Request(Packet(m), sent)
    /\ LET ok == ReturnCode(Packet(m), sent) = "Success"
       IN  /\ Notify(Told(m, IF ok THEN "Success" ELSE "Failure"))
           /\ answered' = IF ok THEN answered \cup {m.task} ELSE answered
    /\ UNCHANGED <<xWaitingTasks, xSocket, atBroker, granted, refused>>

\* prvSetupConnection fails, and closes the socket unless only the last option of it
\* was refused.
SetupFails(m) == \E open \in BOOLEAN :
    /\ Notify(Told(m, "Failure"))
    /\ xSocket' = open /\ refused' = (refused \/ open)
    /\ UNCHANGED <<core, xWaitingTasks, atBroker, answered, granted>>

prvInitiateMQTTConnect(m) ==
    /\ m.op = "CONNECT"
    /\ IF FreeSlots = {} THEN CommandFails(m)
       ELSE ~xSocket /\ (SetupFails(m) \/ \E sent \in BOOLEAN : RequestMade(m, sent))

\* The socket is closed and all waiting tasks are notified, with those of N.
prvProcessReceivedDisconnect(N) ==
    /\ Notify(N \cup UNION {Told(xWaitingTasks[x], "Failure") : x \in Slots \ FreeSlots})
    /\ xWaitingTasks' = [x \in Slots |-> NoTask]
    /\ xSocket' = FALSE /\ atBroker' = {} /\ granted' = {} /\ UNCHANGED <<answered, refused>>

\* A client that is not connected is only reset: its socket stays as it is.
MQTT_Disconnect(N) ==
    /\ prvResetMQTTContext
    /\ IF xConnectionState # "NotConnected"
       THEN prvProcessReceivedDisconnect(N)
       ELSE Notify(N) /\ UNCHANGED <<xWaitingTasks, xSocket, atBroker, history>>

\* The result is whether the packet, if there was one to send, went out.
prvInitiateMQTTDisconnect(m) ==
    /\ m.op = "DISCONNECT"
    /\ \/ MQTT_Disconnect(Told(m, "Success"))
       \/ xConnectionState # "NotConnected" /\ MQTT_Disconnect(Told(m, "Failure"))

Handle(m) ==
    \/ prvInitiateMQTTConnect(m)
    \/ prvInitiateMQTTDisconnect(m)
    \/ prvInitiateMQTTSubscribe(m)
    \/ prvInitiateMQTTPublish0(m)

\* The command is for the socket, which is read after each command: its block time
\* is zero, so it has always timed out, and it has no task to notify.
ServiceCommand ==
    UNCHANGED <<core, notice, xWaitingTasks, xSocket, atBroker, history>>

ReceiveCommand ==
    /\ pc = "receive" /\ xCommandQueue # << >>
    /\ pc' = "read" /\ xCommandQueue' = Tail(xCommandQueue)
    /\ LET m == Head(xCommandQueue)
       IN  IF m = Service THEN ServiceCommand
           ELSE IF m.id \in late THEN CommandTimedOut(m) ELSE Handle(m)
    /\ UNCHANGED <<call, ulQueueMessageIdentifier, late>>

\* configASSERT in prvSetupConnection: an earlier socket is still open.  The slot is
\* already taken.
SetupAsserts ==
    /\ pc = "receive" /\ xCommandQueue # << >>
    /\ pc' = "asserted" /\ xCommandQueue' = Tail(xCommandQueue)
    /\ LET m == Head(xCommandQueue)
       IN  /\ m.op = "CONNECT" /\ m.id \notin late /\ xSocket
           /\ prvStoreNotificationData(m)
    /\ UNCHANGED <<core, callers, xSocket, late, atBroker, history>>

\* Without a command the agent waits only so long, if there is a connection or a
\* request.
NoCommand ==
    /\ pc = "receive" /\ xCommandQueue = << >>
    /\ xSocket \/ xTxBufferList # {}
    /\ pc' = "read"
    /\ UNCHANGED <<core, callers, xCommandQueue, xWaitingTasks, xSocket, late, atBroker, history>>

\* prvMQTTClientSocketWakeupCallback, in the task of the network.  It looks at the
\* queue before it sends: commands, but no second of its own, may come between.
SocketWakeup ==
    /\ Runs /\ xSocket /\ Len(xCommandQueue) < QueueLength
    /\ \A i \in DOMAIN xCommandQueue : xCommandQueue[i] # Service
    /\ xCommandQueue' = Append(xCommandQueue, Service)
    /\ UNCHANGED <<core, callers, xWaitingTasks, xSocket, pc, late, atBroker, history>>
-----------------------------------------------------------------------------
(* prvManageConnections: what is read from the socket, then the timeouts. *)

\* Several packets, and parts of packets, may come with one read.
Reads ==
    /\ pc = "read"
    /\ UNCHANGED <<call, ulQueueMessageIdentifier, xCommandQueue, pc, late>>

ReadFails == Reads /\ xSocket /\ MQTT_Disconnect({})

HeaderRead ==
    /\ Reads /\ xSocket /\ ReceiveHeader
    /\ UNCHANGED <<notice, xWaitingTasks, xSocket, atBroker, history>>

PacketDropped ==
    /\ Reads /\ xSocket /\ DropPacket
    /\ atBroker' \in {atBroker} \cup {atBroker \ {a} : a \in atBroker}
    /\ UNCHANGED <<notice, xWaitingTasks, xSocket, history>>

\* An answer that comes after its request timed out.
LateAnswerRead == \E a \in atBroker :
    /\ Reads /\ xSocket /\ UnexpectedAnswer(a)
    /\ atBroker' = atBroker \ {a}
    /\ UNCHANGED <<notice, xWaitingTasks, xSocket, history>>

TopicsOf(X) == {TopicOf[xWaitingTasks[x].task] : x \in X}

\* prvProcessReceivedCONNACK, SUBACK, UNSUBACK and PUBACK of an answer with a yes.
GrantRead == \E a \in atBroker, p \in xTxBufferList :
    LET X == prvRetrieveNotificationData(IF a.op = "CONNECT" THEN p.id ELSE a.id)
    IN  /\ Reads /\ xSocket /\ Granted(a, p)
        /\ prvNotifyRequestingTask(X, "Success")
        /\ atBroker' = atBroker \ {a}
        /\ answered' = answered \cup {t \in {a.task} : call[t].id = a.id}
        /\ granted' = CASE a.op = "SUBSCRIBE"   -> granted \cup TopicsOf(X)
                        [] a.op = "UNSUBSCRIBE" -> granted \ {p.topic}
                        [] OTHER                -> granted
        /\ UNCHANGED <<xSocket, refused>>

RefusalRead == \E a \in atBroker, p \in xTxBufferList :
    /\ Reads /\ xSocket /\ SubscriptionRefused(a, p)
    /\ prvNotifyRequestingTask(prvRetrieveNotificationData(a.id), "Failure")
    /\ atBroker' = atBroker \ {a} /\ granted' = granted \ {p.topic}
    /\ UNCHANGED <<xSocket, answered, refused>>

\* A refused connection or a malformed packet.
BreakRead == Reads /\ xSocket /\ BrokenOff /\ prvProcessReceivedDisconnect({})

PublishRead == \E keeps \in BOOLEAN :
    /\ Reads /\ xSocket /\ PublishReceived(keeps)
    /\ UNCHANGED <<notice, xWaitingTasks, xSocket, atBroker, history>>

\* Mutant: a task is not told that its request timed out.
TimeoutTellsNobody ==
    LET expired == {p \in xTxBufferList : p.id \in late}
    IN  /\ pc = "read" /\ pc' = "receive"
        /\ \/ ConnectTimedOut(expired) /\ prvProcessReceivedDisconnect({})
           \/ /\ RequestsTimedOut(expired)
              /\ UNCHANGED <<notice, xWaitingTasks, xSocket, atBroker, history>>
        /\ UNCHANGED <<call, ulQueueMessageIdentifier, xCommandQueue, late>>

\* prvProcessReceivedTimeout of each, or of the connection.
Periodic ==
    LET expired == {p \in xTxBufferList : p.id \in late}
    IN  /\ pc = "read" /\ pc' = "receive"
        /\ \/ ConnectTimedOut(expired) /\ prvProcessReceivedDisconnect({})
           \/ /\ RequestsTimedOut(expired)
              /\ prvNotifyRequestingTask(
                     UNION {prvRetrieveNotificationData(p.id) : p \in expired}, "Timeout")
              /\ UNCHANGED <<xSocket, atBroker, history>>
        /\ UNCHANGED <<call, ulQueueMessageIdentifier, xCommandQueue, late>>

ReturnBuffer ==
    Runs /\ MQTT_ReturnBuffer /\ UNCHANGED <<callers, agent, late, atBroker, history>>
-----------------------------------------------------------------------------
AgentStep ==
    \/ ReceiveCommand \/ SetupAsserts \/ NoCommand
    \/ ReadFails \/ HeaderRead \/ PacketDropped \/ LateAnswerRead
    \/ GrantRead \/ RefusalRead \/ BreakRead \/ PublishRead
    \/ Periodic

\* The program has stopped.
Stopped == ~Runs /\ UNCHANGED vars

Next ==
    \/ \E t \in Tasks : \/ Call(t) \/ Send(t) \/ SendFails(t) \/ NotifyWait(t)
    \/ AgentStep
    \/ SocketWakeup
    \/ ReturnBuffer
    \/ \E i \in Identifiers : TimePasses(i)
    \/ Stopped

\* The scheduler runs the agent's task and the callers, and time goes on.
Fairness ==
    /\ WF_vars(AgentStep) /\ WF_vars(Periodic)
    /\ \A t \in Tasks : WF_vars(Send(t) \/ SendFails(t)) /\ WF_vars(NotifyWait(t))
    /\ \A i \in Identifiers : WF_vars(TimePasses(i))

Spec == Init /\ [][Next]_vars /\ Fairness
-----------------------------------------------------------------------------
(* Properties. *)

Commands == [task : Tasks, op : Ops, id : Identifiers]

\* The types of the variables.
TypeOK ==
    /\ CoreTypeOK
    /\ call \in [Tasks -> [phase : {"send", "wait"}, op : Ops, id : Identifiers] \cup {NoCall}]
    /\ notice \in [Tasks -> [id : Identifiers \cup {0},
                             result : {"none", "Success", "Failure", "Timeout", "stray"}]]
    /\ ulQueueMessageIdentifier \in Identifiers
    /\ xCommandQueue \in Seq(Commands \cup {Service}) /\ Len(xCommandQueue) <= QueueLength
    /\ xWaitingTasks \in [Slots -> [task : Tasks, id : Identifiers] \cup {NoTask}]
    /\ xSocket \in BOOLEAN /\ pc \in {"receive", "read", "asserted"}
    /\ late \subseteq Identifiers /\ atBroker \subseteq Commands
    /\ answered \subseteq Tasks /\ granted \subseteq Topics /\ refused \in BOOLEAN

Queued(t)    == \E k \in DOMAIN xCommandQueue :
                    xCommandQueue[k] = [task |-> t, op |-> call[t].op, id |-> call[t].id]
Requested(t) == /\ \E x \in Slots : xWaitingTasks[x] = [task |-> t, id |-> call[t].id]
                /\ \E p \in xTxBufferList : p.op = call[t].op /\ p.id = call[t].id
Notified(t)  == notice[t].id = call[t].id

\* A task that waits in a call (aws_mqtt_agent.c:1702) waits for something: its command
\* is in the queue, or its request is with the core library and has a slot, or its
\* notification is there; never two of them, so it is not notified again after its
\* return.  And no slot and no request is left over from a call that has ended.
EveryCallIsKept == Runs =>
    /\ \A t \in Tasks : call[t].phase = "wait" =>
           /\ Queued(t) \/ Requested(t) \/ Notified(t)
           /\ ~(Queued(t) /\ Requested(t)) /\ ~(Notified(t) /\ (Queued(t) \/ Requested(t)))
    /\ \A t \in Tasks : call[t].phase # "wait" => notice[t] = NoNotice
    /\ \A x \in Slots \ FreeSlots : \E t \in Tasks :
           call[t].phase = "wait" /\ xWaitingTasks[x] = [task |-> t, id |-> call[t].id]
    /\ \A p \in xTxBufferList : \E x \in Slots : xWaitingTasks[x].id = p.id

\* Success is told (aws_mqtt_agent.c:1256) only to a task whose own request the broker
\* granted, or, where it has no answer, was sent whole.
SuccessIsDeserved == \A t \in Tasks :
    notice[t].result = "Success" /\ call[t].op # "DISCONNECT" => t \in answered

\* Nothing is lost of what the connections share: every buffer of the pool is free, holds
\* a request, holds the packet that comes in, or was kept by the user
\* (aws_mqtt_lib.c:875); and the agent's socket is open just while the core library has
\* a connection or makes one, but for the socket whose last option was refused
\* (aws_mqtt_agent.c:977).  Nothing but that socket makes the assertion of
\* prvSetupConnection (aws_mqtt_agent.c:864) fail.
NothingLeaks ==
    /\ pool + Cardinality(xTxBufferList) + RxBuffers + taken = NumBuffers
    /\ xSocket <=> xConnectionState # "NotConnected" \/ refused
    /\ ~Runs => refused

\* A topic whose subscription was granted stays with the subscription manager
\* (aws_mqtt_lib.c:2103) until the broker drops it, the connection ends or it is
\* subscribed to anew; then that later subscription decides.
SubscriptionIsKept == granted \subseteq xSubscriptions

\* Every call returns, for all that the broker does or does not answer, as long as the
\* program runs.
CallsReturn == \A t \in Tasks : call[t].phase # "idle" ~> call[t].phase = "idle" \/ ~Runs

\* Not so: the assertion of prvSetupConnection (aws_mqtt_agent.c:864) never fails.
SocketIsClosed == Runs
=============================================================================
