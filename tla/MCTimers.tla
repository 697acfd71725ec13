------------------------------ MODULE MCTimers ------------------------------
(* Small instances of Timers. *)
EXTENDS Timers

CONSTANTS a, b

\* Of a single timer everything is asked, in three parts.
Single == [period : {[t \in Timer |-> 1]}, autoReload : {[t \in Timer |-> TRUE]},
           asks : {[t \in Timer |-> IF t = a THEN asked ELSE {}] :
                      asked \in {{"start", "changePeriod"}, {"start", "setReloadMode"}, {"changePeriod", "stop", "delete"}}}]

\* Two timers are started again and again, and one of them reloads.
Pair == [period : {[t \in Timer |-> IF t = a THEN 1 ELSE 2]},
         autoReload : {[t \in Timer |-> t = a]},
         asks : {[t \in Timer |-> {"start"}]}]

MCSetups == Single \cup Pair
=============================================================================
