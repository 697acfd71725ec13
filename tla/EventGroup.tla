----------------------------- MODULE EventGroup -----------------------------
(***************************************************************************)
(* An event group (event_groups.c): tasks wait for bits, and set and clear *)
(* them.                                                                   *)
(*                                                                         *)
(* The scheduler is suspended while bits are set and while a task decides  *)
(* to wait, so each is one action; a task that has waited goes on in an    *)
(* action of its own, after whatever else ran first.  Any ready task may   *)
(* take the next step.                                                     *)
(***************************************************************************)
EXTENDS Integers, FiniteSets

CONSTANTS Tasks,
          Bits,
          CallsOf           \* bound: the waits each task asks for

Controls == {"clearOnExit", "waitForAll", "unblockedDueToBitSet"}
Waits    == {"none", "finite", "forever"}

\* A wait is for at least one bit (configASSERT).
Wait == [bits : (SUBSET Bits) \ {{}}, clear : BOOLEAN, all : BOOLEAN]

ASSUME EventGroupAssumption == CallsOf \in [Tasks -> SUBSET Wait]

VARIABLES
    uxEventBits,
    xTasksWaitingForBits,
    xItemValue,             \* of each task's event list item: [bits, control]
    pc,                     \* of each task
    call, xTicksToWait,     \* of each task's call
    uxReturn, xTimeoutOccurred,
    deleted                 \* vEventGroupDelete was called

group  == <<uxEventBits, xTasksWaitingForBits, xItemValue, deleted>>
calls  == <<pc, call, xTicksToWait, uxReturn, xTimeoutOccurred>>
events == <<group, calls>>

NoItem == [bits |-> {}, control |-> {}]
NoCall == [bits |-> {}, clear |-> FALSE, all |-> FALSE]

GroupInit ==
    /\ uxEventBits = {} /\ xTasksWaitingForBits = {} /\ deleted = FALSE
    /\ xItemValue = [t \in Tasks |-> NoItem]
    /\ pc = [t \in Tasks |-> "idle"] /\ call = [t \in Tasks |-> NoCall]
    /\ xTicksToWait = [t \in Tasks |-> "none"]
    /\ uxReturn = [t \in Tasks |-> {}] /\ xTimeoutOccurred = [t \in Tasks |-> FALSE]
-----------------------------------------------------------------------------
\* prvTestWaitCondition.
prvTestWaitCondition(bits, c) ==
    IF c.all THEN c.bits \subseteq bits ELSE c.bits \cap bits # {}

\* The wait a task's event list item stands for.
Waited(t) == [bits  |-> xItemValue[t].bits,
              clear |-> "clearOnExit" \in xItemValue[t].control,
              all   |-> "waitForAll" \in xItemValue[t].control]

\* Mutant: a task that waits for any bit is not woken by one of them.
MatchedByAll(bits) == {t \in xTasksWaitingForBits : Waited(t).bits \subseteq bits}

\* Mutant: the bits are cleared when the first task is woken, and wake no other.
MatchedFirst(bits) ==
    LET m == {t \in xTasksWaitingForBits : prvTestWaitCondition(bits, Waited(t))}
    IN  IF m = {} THEN {} ELSE {CHOOSE t \in m : TRUE}

\* The tasks that xEventGroupSetBits wakes when the bits have become these.
Matched(bits) == {t \in xTasksWaitingForBits : prvTestWaitCondition(bits, Waited(t))}

\* The bits it clears, for all of them after the last is woken.
uxBitsToClear(bits) == UNION {Waited(t).bits : t \in {u \in Matched(bits) : Waited(u).clear}}

\* The event list items, when these tasks have been woken with these bits.
ItemsAfter(woken, bits) ==
    [t \in Tasks |-> IF t \in woken THEN [bits |-> bits, control |-> {"unblockedDueToBitSet"}]
                                    ELSE xItemValue[t]]

Unblocked(woken) == [t \in Tasks |-> IF t \in woken THEN "unblocked" ELSE pc[t]]

WakesWith(woken, bits) ==
    /\ xTasksWaitingForBits' = xTasksWaitingForBits \ woken
    /\ xItemValue' = ItemsAfter(woken, bits)
    /\ pc' = Unblocked(woken)

\* The task's call ends with this value.
Ends(t, bits, timedOut) ==
    /\ pc' = [pc EXCEPT ![t] = "returned"]
    /\ uxReturn' = [uxReturn EXCEPT ![t] = bits]
    /\ xTimeoutOccurred' = [xTimeoutOccurred EXCEPT ![t] = timedOut]

ItemFor(c) == [bits |-> c.bits,
               control |-> {k \in Controls : \/ k = "clearOnExit" /\ c.clear
                                             \/ k = "waitForAll" /\ c.all}]

Asks(t, c, ticks) ==
    /\ pc[t] = "idle" /\ ~deleted
    /\ call' = [call EXCEPT ![t] = c]
    /\ xTicksToWait' = [xTicksToWait EXCEPT ![t] = ticks]

CallBits(c) == IF c.clear THEN c.bits ELSE {}
-----------------------------------------------------------------------------
\* xEventGroupWaitBits, in its three cases.
xEventGroupWaitBits(t, c, ticks) ==
    /\ Asks(t, c, ticks)
    /\ \/ /\ prvTestWaitCondition(uxEventBits, c)
          /\ uxEventBits' = uxEventBits \ CallBits(c)
          /\ Ends(t, uxEventBits, FALSE)
          /\ UNCHANGED <<xTasksWaitingForBits, xItemValue>>
       \/ /\ ~prvTestWaitCondition(uxEventBits, c) /\ ticks = "none"
          /\ Ends(t, uxEventBits, TRUE)
          /\ UNCHANGED <<uxEventBits, xTasksWaitingForBits, xItemValue>>
       \/ /\ ~prvTestWaitCondition(uxEventBits, c) /\ ticks # "none"
          /\ xTasksWaitingForBits' = xTasksWaitingForBits \cup {t}
          /\ xItemValue' = [xItemValue EXCEPT ![t] = ItemFor(c)]
          /\ pc' = [pc EXCEPT ![t] = "blocked"]
          /\ UNCHANGED <<uxEventBits, uxReturn, xTimeoutOccurred>>
    /\ UNCHANGED deleted

\* xEventGroupSync sets bits as xEventGroupSetBits does, and then waits for all of
\* its own.  It goes by the bits before any are cleared.
xEventGroupSync(t, set, waitFor, ticks) ==
    LET wait   == [bits |-> waitFor, clear |-> TRUE, all |-> TRUE]
        bits   == uxEventBits \cup set
        left   == bits \ uxBitsToClear(bits)
        met    == waitFor \subseteq bits
        blocks == ~met /\ ticks # "none"
    IN  /\ Asks(t, wait, ticks)
        /\ uxEventBits' = IF met THEN left \ waitFor ELSE left
        /\ xTasksWaitingForBits' = (xTasksWaitingForBits \ Matched(bits))
                                    \cup IF blocks THEN {t} ELSE {}
        /\ xItemValue' = [ItemsAfter(Matched(bits), bits) EXCEPT ![t] = IF blocks THEN ItemFor(wait) ELSE @]
        /\ pc' = [Unblocked(Matched(bits)) EXCEPT ![t] = IF blocks THEN "blocked" ELSE "returned"]
        /\ uxReturn' = [uxReturn EXCEPT ![t] = CASE met -> bits [] blocks -> @ [] OTHER -> left]
        /\ xTimeoutOccurred' = [xTimeoutOccurred EXCEPT ![t] = ~met /\ ~blocks]
        /\ UNCHANGED deleted

xEventGroupSetBits(set) ==
    LET bits == uxEventBits \cup set
    IN  /\ ~deleted
        /\ WakesWith(Matched(bits), bits)
        /\ uxEventBits' = bits \ uxBitsToClear(bits)
        /\ UNCHANGED <<call, xTicksToWait, uxReturn, xTimeoutOccurred, deleted>>

xEventGroupClearBits(clear) ==
    /\ ~deleted
    /\ uxEventBits' = uxEventBits \ clear
    /\ UNCHANGED <<xTasksWaitingForBits, xItemValue, deleted, calls>>

\* The tick ends a wait that has a block time.
TickWakes(t) ==
    /\ t \in xTasksWaitingForBits /\ xTicksToWait[t] = "finite"
    /\ xTasksWaitingForBits' = xTasksWaitingForBits \ {t}
    /\ pc' = [pc EXCEPT ![t] = "unblocked"]
    /\ UNCHANGED <<uxEventBits, xItemValue, deleted, call, xTicksToWait, uxReturn, xTimeoutOccurred>>

\* What a task does after it has blocked: it returns the bits it was woken with, or
\* those that are there now, which may meet its wait although it timed out.
WokenBySet(t) == "unblockedDueToBitSet" \in xItemValue[t].control

\* Mutant: the bits that are there by now.
BitsByNow(t) == uxEventBits

BitsWokenWith(t) == xItemValue[t].bits

\* Mutant: they are cleared although the wait is not met.
ClearedUnmet(t) == CallBits(call[t])

ClearedAfterTimeOut(t) ==
    IF prvTestWaitCondition(uxEventBits, call[t]) THEN CallBits(call[t]) ELSE {}

Resumes(t) ==
    /\ pc[t] = "unblocked"
    /\ xItemValue' = [xItemValue EXCEPT ![t] = NoItem]
    /\ \/ /\ WokenBySet(t)
          /\ Ends(t, BitsWokenWith(t), FALSE)
          /\ UNCHANGED uxEventBits
       \/ /\ ~WokenBySet(t)
          /\ uxEventBits' = uxEventBits \ ClearedAfterTimeOut(t)
          /\ Ends(t, uxEventBits, TRUE)
    /\ UNCHANGED <<xTasksWaitingForBits, deleted, call, xTicksToWait>>

Returns(t) ==
    /\ pc[t] = "returned"
    /\ pc' = [pc EXCEPT ![t] = "idle"] /\ call' = [call EXCEPT ![t] = NoCall]
    /\ xTicksToWait' = [xTicksToWait EXCEPT ![t] = "none"]
    /\ uxReturn' = [uxReturn EXCEPT ![t] = {}]
    /\ xTimeoutOccurred' = [xTimeoutOccurred EXCEPT ![t] = FALSE]
    /\ UNCHANGED group

\* The tasks that wait are woken, with no bits.  The application deletes a group
\* that no timed-out task has still to look at.
vEventGroupDelete ==
    /\ ~deleted
    /\ \A t \in Tasks : pc[t] = "unblocked" => WokenBySet(t)
    /\ deleted' = TRUE /\ uxEventBits' = {}
    /\ WakesWith(xTasksWaitingForBits, {})
    /\ UNCHANGED <<call, xTicksToWait, uxReturn, xTimeoutOccurred>>

\* Another group is created when the calls with this one have ended.
xEventGroupCreate ==
    /\ deleted /\ \A t \in Tasks : pc[t] = "idle"
    /\ deleted' = FALSE /\ uxEventBits' = {}
    /\ UNCHANGED <<xTasksWaitingForBits, xItemValue, calls>>

\* The bits that are waited for.
Used == UNION {c.bits : c \in UNION {CallsOf[t] : t \in Tasks}}

GroupNext ==
    \/ \E t \in Tasks : \E c \in CallsOf[t], ticks \in Waits :
          \/ xEventGroupWaitBits(t, c, ticks)
          \/ \E b \in Used : xEventGroupSync(t, {b}, c.bits, ticks)
    \/ \E b \in Used : xEventGroupSetBits({b}) \/ xEventGroupClearBits({b})
    \/ \E t \in Tasks : TickWakes(t) \/ Resumes(t) \/ Returns(t)
    \/ vEventGroupDelete \/ xEventGroupCreate
-----------------------------------------------------------------------------
(* Properties. *)

GroupTypeOK ==
    /\ uxEventBits \subseteq Bits /\ deleted \in BOOLEAN
    /\ xTasksWaitingForBits = {t \in Tasks : pc[t] = "blocked"}
    /\ xItemValue \in [Tasks -> [bits : SUBSET Bits, control : SUBSET Controls]]
    /\ pc \in [Tasks -> {"idle", "blocked", "unblocked", "returned"}]
    /\ call \in [Tasks -> Wait \cup {NoCall}] /\ xTicksToWait \in [Tasks -> Waits]
    /\ uxReturn \in [Tasks -> SUBSET Bits] /\ xTimeoutOccurred \in [Tasks -> BOOLEAN]

\* No task waits for what is there: a bit that is set wakes every task whose wait it
\* completes, also those it would be cleared for by another.
NoMissedWake ==
    \A t \in xTasksWaitingForBits : ~prvTestWaitCondition(uxEventBits, call[t])

\* The value a call returns tells its caller that its wait was met, or the call has
\* timed out, or the group was deleted.
ReturnedBitsMeetWait ==
    \A t \in Tasks : pc[t] = "returned" =>
        \/ xTimeoutOccurred[t] \/ deleted
        \/ prvTestWaitCondition(uxReturn[t], call[t])

\* The bits a task is told of in this step, if they meet its wait.
ToldNow(t) ==
    IF pc[t] # "returned" /\ pc'[t] = "returned" /\ prvTestWaitCondition(uxReturn'[t], call'[t])
    THEN uxReturn'[t]
    ELSE IF pc[t] = "blocked" /\ pc'[t] = "unblocked" /\ "unblockedDueToBitSet" \in xItemValue'[t].control
         THEN xItemValue'[t].bits
         ELSE {}

\* No event is lost: a bit that is cleared, and not by xEventGroupClearBits, was
\* waited for by a task that asked for it to be cleared and is told of it.
BitsGoToAWaiter ==
    [][ \A b \in uxEventBits \ uxEventBits' :
           \/ xEventGroupClearBits({b}) \/ vEventGroupDelete
           \/ \E t \in Tasks : b \in ToldNow(t) \cap call'[t].bits /\ call'[t].clear ]_events
=============================================================================
