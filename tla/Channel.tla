------------------------------ MODULE Channel ------------------------------
(***************************************************************************)
(* What a stream buffer or a message buffer promises its one writer and    *)
(* its one reader: what is received is what was sent, once and in order; a *)
(* message whole or not at all, a stream in pieces of any size.            *)
(***************************************************************************)
EXTENDS Integers, SequencesExt

CONSTANTS Frames,       \* what may be sent in one call
          Users         \* the writer and the reader

VARIABLES whole,        \* messages, not a stream
          queue,        \* the messages, or the bytes as messages of one byte
          calling,      \* the users that are in a call
          offer,        \* what the writer's call sends
          delivered     \* what the reader's call received

vars == <<whole, queue, calling, offer, delivered>>

Init ==
    /\ whole \in BOOLEAN
    /\ queue = << >> /\ calling = {} /\ offer = << >> /\ delivered = << >>

\* What a call with this frame may add to the queue.
Parts(frame) ==
    IF whole THEN {<<frame>>}
             ELSE {[i \in 1..n |-> <<frame[i]>>] : n \in 1..Len(frame)}

Send ==
    /\ UNCHANGED <<whole, calling, delivered>>
    /\ offer' \in Frames
    /\ \E s \in Parts(offer') : queue' = queue \o s

Receive ==
    /\ UNCHANGED <<whole, calling, offer>>
    /\ delivered' # << >> /\ queue # << >>
    /\ \E n \in 1..IF whole THEN 1 ELSE Len(queue) :
          /\ delivered' = FlattenSeq(SubSeq(queue, 1, n))
          /\ queue' = SubSeq(queue, n + 1, Len(queue))

\* A user begins or ends a call.
Call ==
    /\ UNCHANGED <<whole, queue>>
    /\ calling' \in SUBSET Users /\ offer' \in Frames \cup {<< >>}
    /\ delivered' \in {delivered, << >>}

\* Nothing is lost but by a reset, between the calls.
Reset ==
    /\ UNCHANGED <<whole, calling, offer, delivered>>
    /\ calling = {} /\ queue' = << >>

Next == Send \/ Receive \/ Call \/ Reset

Spec == Init /\ [][Next]_vars
=============================================================================
