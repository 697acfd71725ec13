---------------------------- MODULE MCMqttAgent ----------------------------
(* Small instances of MqttAgent. *)
EXTENDS MqttAgent, TLC

CONSTANTS t1, t2, s1, s2

\* t1 has the connection, t2 is a subscriber.
MCOpsOf   == t1 :> {"CONNECT", "DISCONNECT", "PUBLISH0", "PUBLISH1"}
             @@ t2 :> {"SUBSCRIBE", "UNSUBSCRIBE"}
MCTopicOf == t1 :> s1 @@ t2 :> s2

\* Two subscribers to one topic.
SameOpsOf   == t1 :> {"CONNECT", "SUBSCRIBE"} @@ t2 :> {"SUBSCRIBE"}
SameTopicOf == t1 :> s1 @@ t2 :> s1
=============================================================================
