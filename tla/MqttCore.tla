------------------------------ MODULE MqttCore ------------------------------
(***************************************************************************)
(* One client of the MQTT core library (aws_mqtt_lib.c), with its part of  *)
(* the buffer pool (aws_bufferpool_static_thread_safe.c): its functions as *)
(* actions on the context, for the agent that calls them.  The bytes of    *)
(* the packets and the keep alive are left out.                            *)
(*                                                                         *)
(* A packet is what the agent was asked for, the identifier of the request *)
(* and the topic; all buffers have one size, so the pool is a count.       *)
(***************************************************************************)
EXTENDS Integers, FiniteSets

CONSTANTS Topics,
          NumBuffers,           \* bufferpoolconfigNUM_BUFFERS
          MaxSubscriptions      \* mqttconfigSUBSCRIPTION_MANAGER_MAX_SUBSCRIPTIONS

ASSUME CoreAssumption ==
    NumBuffers \in Nat \ {0} /\ MaxSubscriptions \in Nat \ {0}

VARIABLES
    xConnectionState,
    xTxBufferList,      \* the packets that wait for their answer
    xRxBuffer,          \* of the packet that comes in: "none", "store" or "drop"
    xSubscriptions,     \* the topics of the subscription manager
    pool,               \* how many buffers are free
    taken               \* how many the callbacks of the user have kept

core == <<xConnectionState, xTxBufferList, xRxBuffer, xSubscriptions, pool, taken>>

Requests == {"CONNECT", "SUBSCRIBE", "UNSUBSCRIBE", "PUBLISH0", "PUBLISH1"}

CoreTypeOK ==
    /\ xConnectionState \in {"NotConnected", "ConnectionInProgress", "Connected"}
    /\ xTxBufferList \subseteq [op : Requests \ {"PUBLISH0"}, id : Nat, topic : Topics]
    /\ xRxBuffer \in {"none", "store", "drop"}
    /\ xSubscriptions \subseteq Topics
    /\ pool \in 0..NumBuffers /\ taken \in 0..NumBuffers

MQTT_Init ==
    /\ xConnectionState = "NotConnected" /\ xTxBufferList = {} /\ xRxBuffer = "none"
    /\ xSubscriptions = {} /\ pool = NumBuffers /\ taken = 0
-----------------------------------------------------------------------------
(* Buffers. *)

RxBuffers == IF xRxBuffer = "store" THEN 1 ELSE 0

ReturnRxBuffer == xRxBuffer' = "none" /\ pool' = pool + RxBuffers

\* Both the buffer of the answer and that of the request it answers.
ReturnTxAndRxBuffer(p) ==
    /\ xTxBufferList' = xTxBufferList \ {p}
    /\ xRxBuffer' = "none" /\ pool' = pool + 1 + RxBuffers

\* Mutant: the buffer of a packet that was half received is lost.
ResetKeepsRxBuffer ==
    /\ xConnectionState' = "NotConnected"
    /\ xTxBufferList' = {} /\ xRxBuffer' = "none" /\ xSubscriptions' = {}
    /\ pool' = pool + Cardinality(xTxBufferList)
    /\ UNCHANGED taken

prvResetMQTTContext ==
    /\ xConnectionState' = "NotConnected"
    /\ xTxBufferList' = {} /\ xRxBuffer' = "none" /\ xSubscriptions' = {}
    /\ pool' = pool + Cardinality(xTxBufferList) + RxBuffers
    /\ UNCHANGED taken

\* The user gives back a buffer its callback kept.
MQTT_ReturnBuffer ==
    /\ taken > 0 /\ taken' = taken - 1 /\ pool' = pool + 1
    /\ UNCHANGED <<xConnectionState, xTxBufferList, xRxBuffer, xSubscriptions>>
-----------------------------------------------------------------------------
(* Requests. *)

\* What a request returns; sent: all of its bytes went out.
ReturnCode(p, sent) ==
    IF xConnectionState # IF p.op = "CONNECT" THEN "NotConnected" ELSE "Connected"
                     THEN "WrongState"
    ELSE IF p.op = "SUBSCRIBE" /\ Cardinality(xSubscriptions) >= MaxSubscriptions
                     THEN "SubscriptionManagerFull"
    ELSE IF pool = 0 THEN "NoFreeBuffer"
    ELSE IF ~sent    THEN "SendFailed"
                     ELSE "Success"

\* MQTT_Connect, MQTT_Subscribe, MQTT_Unsubscribe, MQTT_Publish.  The buffer of a
\* request that failed, or that has no answer, goes back at once.
Request(p, sent) ==
    LET code == ReturnCode(p, sent)
        kept == code = "Success" /\ p.op # "PUBLISH0"
    IN  /\ xConnectionState' = IF kept /\ p.op = "CONNECT" THEN "ConnectionInProgress"
                                                            ELSE xConnectionState
        /\ xTxBufferList' = IF kept THEN xTxBufferList \cup {p} ELSE xTxBufferList
        /\ pool' = IF kept THEN pool - 1 ELSE pool
        /\ xSubscriptions' =
              IF p.op # "SUBSCRIBE" \/ code = "SubscriptionManagerFull" THEN xSubscriptions
              ELSE IF code = "Success" THEN xSubscriptions \cup {p.topic}
                                       ELSE xSubscriptions \ {p.topic}
        /\ UNCHANGED <<xRxBuffer, taken>>
-----------------------------------------------------------------------------
(* Answers: MQTT_ParseReceivedData. *)

\* A fixed header has come; without a free buffer that is large enough the rest will be
\* dropped.
ReceiveHeader ==
    /\ xConnectionState # "NotConnected" /\ xRxBuffer = "none"
    /\ \/ pool > 0 /\ xRxBuffer' = "store" /\ pool' = pool - 1
       \/ xRxBuffer' = "drop" /\ UNCHANGED pool
    /\ UNCHANGED <<xConnectionState, xTxBufferList, xSubscriptions, taken>>

DropPacket ==
    /\ xRxBuffer = "drop" /\ ReturnRxBuffer
    /\ UNCHANGED <<xConnectionState, xTxBufferList, xSubscriptions, taken>>

\* Mutant: the identifier is not looked at.
RequestsOfKind(a) == {p \in xTxBufferList : p.op = a.op}

\* The requests answer a may be for.  A CONNACK has no identifier.
RequestsOf(a) == {p \in xTxBufferList : p.op = a.op /\ (a.op = "CONNECT" \/ p.id = a.id)}

\* An answer nobody waits for.
UnexpectedAnswer(a) ==
    /\ xRxBuffer = "store" /\ RequestsOf(a) = {} /\ ReturnRxBuffer
    /\ UNCHANGED <<xConnectionState, xTxBufferList, xSubscriptions, taken>>

\* Answer a grants request p.
Granted(a, p) ==
    /\ xRxBuffer = "store" /\ p \in RequestsOf(a) /\ ReturnTxAndRxBuffer(p)
    /\ xConnectionState' = IF p.op = "CONNECT" THEN "Connected" ELSE xConnectionState
    /\ xSubscriptions' = IF p.op = "UNSUBSCRIBE" THEN xSubscriptions \ {p.topic}
                                                 ELSE xSubscriptions
    /\ UNCHANGED taken

\* The broker refuses a subscription.
SubscriptionRefused(a, p) ==
    /\ xRxBuffer = "store" /\ a.op = "SUBSCRIBE" /\ p \in RequestsOf(a)
    /\ ReturnTxAndRxBuffer(p)
    /\ xSubscriptions' = xSubscriptions \ {p.topic}
    /\ UNCHANGED <<xConnectionState, taken>>

\* The broker refuses the connection, or what came is no packet: all is given up.
BrokenOff ==
    xConnectionState # "NotConnected" /\ xRxBuffer # "drop" /\ prvResetMQTTContext

\* A message for a subscriber; its callback may keep the buffer.
PublishReceived(keeps) ==
    /\ xRxBuffer = "store" /\ xRxBuffer' = "none"
    /\ IF keeps THEN taken' = taken + 1 /\ UNCHANGED pool
                ELSE pool' = pool + 1 /\ UNCHANGED taken
    /\ UNCHANGED <<xConnectionState, xTxBufferList, xSubscriptions>>
-----------------------------------------------------------------------------
(* Timeouts: MQTT_Periodic, with the requests whose time is over. *)

ConnectTimedOut(expired) ==
    (\E p \in expired : p.op = "CONNECT") /\ prvResetMQTTContext

\* Mutant: any request that timed out takes its topic from the subscription manager.
AnyTimeoutUnsubscribes(expired) ==
    /\ \A p \in expired : p.op # "CONNECT"
    /\ xTxBufferList' = xTxBufferList \ expired
    /\ pool' = pool + Cardinality(expired)
    /\ xSubscriptions' = xSubscriptions \ {p.topic : p \in expired}
    /\ UNCHANGED <<xConnectionState, xRxBuffer, taken>>

RequestsTimedOut(expired) ==
    /\ \A p \in expired : p.op # "CONNECT"
    /\ xTxBufferList' = xTxBufferList \ expired
    /\ pool' = pool + Cardinality(expired)
    /\ xSubscriptions' = xSubscriptions \ {p.topic : p \in {q \in expired : q.op = "SUBSCRIBE"}}
    /\ UNCHANGED <<xConnectionState, xRxBuffer, taken>>
=============================================================================
