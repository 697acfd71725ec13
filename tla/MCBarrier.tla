------------------------------ MODULE MCBarrier ------------------------------
(* Small instances of PthreadBarrier. *)
EXTENDS PthreadBarrier

CONSTANTS a, b, c, d

\* Two tasks use the event group directly, with two bits: one waits for one or both
\* in every way, the other for the second or both.
OneWay == {w \in Wait : w.bits \subseteq {1, 2} /\ (Cardinality(w.bits) = 1 => w.all)}

MCCalls == [t \in Tasks |-> CASE t = a -> OneWay
                             [] t = b -> {w \in OneWay : 2 \in w.bits}
                             [] OTHER -> {}]
=============================================================================
