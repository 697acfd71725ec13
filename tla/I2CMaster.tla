----------------------------- MODULE I2CMaster -----------------------------
(***************************************************************************)
(* What the Wire library promises its one caller: bytes queued for a       *)
(* device go out together, once and in order; bytes asked of a device come *)
(* back in the order it sent them, and a new request drops what was left.  *)
(* The bus shows the last transfer, with a bit that changes at each one.   *)
(* Of a transfer the device does not acknowledge the library says nothing: *)
(* the bytes queued are gone, and those asked for may be any.  Once a      *)
(* transfer has outlived its wait the library promises nothing any more.   *)
(***************************************************************************)
EXTENDS Integers, Sequences

CONSTANTS Bytes, MaxQuantity

VARIABLES outgoing, incoming, bus,
          busy,                     \* a call is under way that uses the bus
          lost

vars == <<outgoing, incoming, bus, busy, lost>>

Frames == UNION {[1 .. n -> Bytes] : n \in 1 .. MaxQuantity}

Init ==
    /\ outgoing = << >> /\ incoming = << >>
    /\ bus = [turn |-> 0, kind |-> "none", bytes |-> << >>]
    /\ busy = FALSE /\ lost = FALSE

Transfer(kind, frame) == bus' = [turn |-> 1 - bus.turn, kind |-> kind, bytes |-> frame]

Queue ==
    /\ ~busy
    /\ \E frame \in Frames : outgoing' = outgoing \o frame
    /\ UNCHANGED <<incoming, bus, busy>>

Read ==
    /\ ~busy /\ incoming # << >> /\ incoming' = Tail(incoming)
    /\ UNCHANGED <<outgoing, bus, busy>>

Call == ~busy /\ busy' = TRUE /\ UNCHANGED <<outgoing, incoming, bus>>

\* A request may fail at once.
Request == ~busy /\ busy' \in BOOLEAN /\ incoming' = << >> /\ UNCHANGED <<outgoing, bus>>

Transmit ==
    /\ busy /\ outgoing # << >> /\ outgoing' = << >>
    /\ Transfer("write", outgoing) \/ UNCHANGED bus
    /\ UNCHANGED <<incoming, busy>>

Receive ==
    /\ busy /\ incoming = << >>
    /\ \E frame \in Frames : incoming' = frame /\ (Transfer("read", frame) \/ UNCHANGED bus)
    /\ UNCHANGED <<outgoing, busy>>

Return == busy /\ busy' = FALSE /\ UNCHANGED <<outgoing, incoming, bus>>

\* Nothing is said of the rest.
Lose == lost' = TRUE

Next ==
    \/ /\ ~lost /\ UNCHANGED lost
       /\ (Queue \/ Read \/ Call \/ Request \/ Transmit \/ Receive \/ Return)
    \/ Lose

Spec == Init /\ [][Next]_vars
=============================================================================
