----------------------- MODULE EventsAndTimers_proofs -----------------------
(***************************************************************************)
(* Proofs about two services of the kernel.  The event group, whatever it  *)
(* is used for: no task waits for bits that are there, and the value a     *)
(* call returns tells that its wait was met; and the rounds of a barrier   *)
(* over it.  The software timers: the daemon wakes in time, and a timer    *)
(* expires when it is due.                                                 *)
(***************************************************************************)
EXTENDS PthreadBarrier, Timers, KernelLists_proofs

AnyWait == [bits : SUBSET Bits, clear : BOOLEAN, all : BOOLEAN]

\* What is needed of the types; the bits of an item may be any set.
CallInv ==
    /\ pc \in [Tasks -> {"idle", "blocked", "unblocked", "returned"}]
    /\ call \in [Tasks -> AnyWait]
    /\ DOMAIN xItemValue = Tasks /\ DOMAIN uxReturn = Tasks /\ DOMAIN xTimeoutOccurred = Tasks

\* The event list item of a task that waits carries its wait to those that set bits.
WaitingInv ==
    /\ xTasksWaitingForBits = {t \in Tasks : pc[t] = "blocked"}
    /\ \A t \in xTasksWaitingForBits : xItemValue[t] = ItemFor(call[t])

\* A task that has been woken has still its own item, or the bits that met its wait.
WokenInv ==
    \A t \in Tasks : pc[t] = "unblocked" =>
        \/ xItemValue[t] = ItemFor(call[t])
        \/ WokenBySet(t) /\ (deleted \/ prvTestWaitCondition(xItemValue[t].bits, call[t]))

IInv == CallInv /\ WaitingInv /\ WokenInv /\ NoMissedWake /\ ReturnedBitsMeetWait
-----------------------------------------------------------------------------
(* Lemmas about the conditions that are waited for. *)

\* What is not met by some bits is not met by fewer.
LEMMA FewerBits ==
    ASSUME NEW bits, NEW fewer, fewer \subseteq bits, NEW c, ~prvTestWaitCondition(bits, c)
    PROVE  ~prvTestWaitCondition(fewer, c)
BY DEF prvTestWaitCondition

\* The item of a wait does not look like that of a task woken by bits.
LEMMA ItemIsNoWake ==
    ASSUME NEW c
    PROVE  "unblockedDueToBitSet" \notin ItemFor(c).control
BY DEF ItemFor, Controls

\* The item of a waiting task says what the task waits for.
LEMMA ItemSaysWait ==
    ASSUME NEW t \in Tasks, call[t] \in AnyWait, xItemValue[t] = ItemFor(call[t]), NEW bits
    PROVE  prvTestWaitCondition(bits, Waited(t)) = prvTestWaitCondition(bits, call[t])
<1>1. Waited(t).bits = call[t].bits
  BY DEF Waited, ItemFor
<1>2. Waited(t).all = ("waitForAll" \in ItemFor(call[t]).control)
  BY DEF Waited
<1>3. ("waitForAll" \in ItemFor(call[t]).control) = call[t].all
  BY DEF ItemFor, Controls, AnyWait
<1> QED
  BY <1>1, <1>2, <1>3 DEF prvTestWaitCondition

\* Setting bits wakes exactly the waiting tasks whose waits they meet.
LEMMA MatchedTasks ==
    ASSUME CallInv, WaitingInv, NEW bits
    PROVE  Matched(bits) = {t \in xTasksWaitingForBits : prvTestWaitCondition(bits, call[t])}
<1>1. ASSUME NEW t \in xTasksWaitingForBits
      PROVE  prvTestWaitCondition(bits, Waited(t)) = prvTestWaitCondition(bits, call[t])
  BY <1>1, ItemSaysWait DEF CallInv, WaitingInv
<1> QED
  BY <1>1 DEF Matched
-----------------------------------------------------------------------------
(* Each operation of the group keeps the invariant. *)

LEMMA WaitBitsKeeps ==
    ASSUME IInv, NEW t \in Tasks, NEW c \in AnyWait, NEW ticks, xEventGroupWaitBits(t, c, ticks)
    PROVE  IInv'
<1>1. /\ pc[t] = "idle" /\ call' = [call EXCEPT ![t] = c] /\ UNCHANGED deleted
  BY DEF xEventGroupWaitBits, Asks
<1>2. uxEventBits' \subseteq uxEventBits
  BY DEF xEventGroupWaitBits
<1>3. t \notin xTasksWaitingForBits
  BY <1>1 DEF IInv, WaitingInv
<1>4. CallInv'
  BY <1>1 DEF IInv, CallInv, xEventGroupWaitBits, Ends
<1>5. WaitingInv'
  <2>1. \/ xTasksWaitingForBits' = xTasksWaitingForBits /\ pc'[t] = "returned" /\ xItemValue' = xItemValue
        \/ /\ xTasksWaitingForBits' = xTasksWaitingForBits \cup {t} /\ pc'[t] = "blocked"
           /\ xItemValue' = [xItemValue EXCEPT ![t] = ItemFor(c)]
    BY DEF IInv, CallInv, xEventGroupWaitBits, Ends
  <2>2. \A u \in Tasks \ {t} : pc'[u] = pc[u] /\ call'[u] = call[u] /\ xItemValue'[u] = xItemValue[u]
    BY <1>1, <2>1 DEF IInv, CallInv, xEventGroupWaitBits, Ends
  <2>3. xTasksWaitingForBits' = {u \in Tasks : pc'[u] = "blocked"}
    BY <1>3, <2>1, <2>2 DEF IInv, WaitingInv
  <2>4. t \in xTasksWaitingForBits' => xItemValue'[t] = ItemFor(c) /\ call'[t] = c
    BY <1>1, <1>3, <2>1 DEF IInv, CallInv
  <2>5. ASSUME NEW u \in xTasksWaitingForBits', u # t  PROVE xItemValue'[u] = ItemFor(call'[u])
    BY <2>1, <2>2, <2>5 DEF IInv, WaitingInv
  <2>6. \A u \in xTasksWaitingForBits' : xItemValue'[u] = ItemFor(call'[u])
    BY <2>4, <2>5
  <2> QED
    BY <2>3, <2>6 DEF WaitingInv, ItemFor
<1>6. WokenInv'
  BY <1>1 DEF IInv, CallInv, WokenInv, WokenBySet, xEventGroupWaitBits, Ends
<1>7. NoMissedWake'
  <2>1. \A u \in xTasksWaitingForBits : ~prvTestWaitCondition(uxEventBits', call[u])
    BY <1>2, FewerBits DEF IInv, NoMissedWake
  <2>2. \A u \in xTasksWaitingForBits : u # t /\ call'[u] = call[u]
    BY <1>1, <1>3 DEF IInv, CallInv, WaitingInv
  <2>3. t \in xTasksWaitingForBits' => ~prvTestWaitCondition(uxEventBits', c)
    BY <1>3 DEF xEventGroupWaitBits
  <2>4. xTasksWaitingForBits' \subseteq xTasksWaitingForBits \cup {t} /\ call'[t] = c
    BY <1>1 DEF IInv, CallInv, xEventGroupWaitBits
  <2> QED
    BY <2>1, <2>2, <2>3, <2>4 DEF NoMissedWake, prvTestWaitCondition
<1>8. ReturnedBitsMeetWait'
  BY <1>1 DEF IInv, CallInv, ReturnedBitsMeetWait, xEventGroupWaitBits, Ends, prvTestWaitCondition
<1> QED
  BY <1>4, <1>5, <1>6, <1>7, <1>8 DEF IInv

LEMMA SyncKeeps ==
    ASSUME IInv, NEW t \in Tasks, NEW set, NEW waitFor \in SUBSET Bits, NEW ticks,
           xEventGroupSync(t, set, waitFor, ticks)
    PROVE  IInv'
<1> DEFINE wait == [bits |-> waitFor, clear |-> TRUE, all |-> TRUE]
           bits == uxEventBits \cup set
           met  == waitFor \subseteq bits
           blocks == ~met /\ ticks # "none"
<1>1. /\ pc[t] = "idle" /\ call' = [call EXCEPT ![t] = wait] /\ UNCHANGED deleted
      /\ wait \in AnyWait
  BY DEF xEventGroupSync, Asks, AnyWait
<1>2. uxEventBits' \subseteq bits
  BY DEF xEventGroupSync
<1>3. t \notin xTasksWaitingForBits /\ t \notin Matched(bits)
  BY <1>1 DEF IInv, WaitingInv, Matched
<1>4. /\ xTasksWaitingForBits' = (xTasksWaitingForBits \ Matched(bits))
                                  \cup IF blocks THEN {t} ELSE {}
      /\ xItemValue' = [ItemsAfter(Matched(bits), bits) EXCEPT ![t] = IF blocks THEN ItemFor(wait) ELSE @]
      /\ pc' = [Unblocked(Matched(bits)) EXCEPT ![t] = IF blocks THEN "blocked" ELSE "returned"]
      /\ uxReturn' = [uxReturn EXCEPT ![t] = CASE met -> bits [] blocks -> @
                                               [] OTHER -> bits \ uxBitsToClear(bits)]
      /\ xTimeoutOccurred' = [xTimeoutOccurred EXCEPT ![t] = ~met /\ ~blocks]
  BY DEF xEventGroupSync
<1>a. met => uxReturn' = [uxReturn EXCEPT ![t] = bits]
  BY <1>4
<1>b. ~met /\ ~blocks => xTimeoutOccurred' = [xTimeoutOccurred EXCEPT ![t] = TRUE]
  BY <1>4
<1>c. IF blocks THEN pc' = [Unblocked(Matched(bits)) EXCEPT ![t] = "blocked"]
                ELSE pc' = [Unblocked(Matched(bits)) EXCEPT ![t] = "returned"]
  BY <1>4
<1>d. blocks => xItemValue' = [ItemsAfter(Matched(bits), bits) EXCEPT ![t] = ItemFor(wait)]
  BY <1>4
<1>e. IF blocks THEN xTasksWaitingForBits' = (xTasksWaitingForBits \ Matched(bits)) \cup {t}
                ELSE xTasksWaitingForBits' = xTasksWaitingForBits \ Matched(bits)
  BY <1>4
<1> HIDE DEF wait, bits, met, blocks
<1>5. Matched(bits) = {u \in xTasksWaitingForBits : prvTestWaitCondition(bits, call[u])}
  BY MatchedTasks DEF IInv
<1>6. CallInv'
  BY <1>1, <1>4 DEF IInv, CallInv, ItemsAfter, Unblocked
<1>7. ASSUME NEW u \in Tasks \ {t}
      PROVE  /\ call'[u] = call[u] /\ uxReturn'[u] = uxReturn[u]
             /\ xTimeoutOccurred'[u] = xTimeoutOccurred[u]
             /\ u \in Matched(bits) =>
                   /\ pc'[u] = "unblocked"
                   /\ xItemValue'[u] = [bits |-> bits, control |-> {"unblockedDueToBitSet"}]
             /\ u \notin Matched(bits) => pc'[u] = pc[u] /\ xItemValue'[u] = xItemValue[u]
  BY <1>1, <1>4 DEF IInv, CallInv, ItemsAfter, Unblocked
<1>8. /\ IF blocks THEN pc'[t] = "blocked" ELSE pc'[t] = "returned"
      /\ call'[t] = wait
      /\ blocks => xItemValue'[t] = ItemFor(wait)
      /\ met => uxReturn'[t] = bits
      /\ ~met /\ ~blocks => xTimeoutOccurred'[t]
  <2>1. IF blocks THEN pc'[t] = "blocked" ELSE pc'[t] = "returned"
    BY <1>c DEF Unblocked
  <2>2. call'[t] = wait
    BY <1>1 DEF IInv, CallInv
  <2>3. blocks => xItemValue'[t] = ItemFor(wait)
    BY <1>d DEF ItemsAfter
  <2>4. met => uxReturn'[t] = bits
    BY <1>a DEF IInv, CallInv
  <2>5. ~met /\ ~blocks => xTimeoutOccurred'[t]
    BY <1>b DEF IInv, CallInv
  <2> QED
    BY <2>1, <2>2, <2>3, <2>4, <2>5
<1>9. WaitingInv'
  <2>1. xTasksWaitingForBits' = {u \in Tasks : pc'[u] = "blocked"}
    <3>1. xTasksWaitingForBits \ Matched(bits) = {u \in Tasks \ {t} : pc'[u] = "blocked"}
      BY <1>1, <1>3, <1>5, <1>7 DEF IInv, WaitingInv
    <3> QED
      BY <1>8, <1>e, <3>1
  <2>2. \A u \in xTasksWaitingForBits' : xItemValue'[u] = ItemFor(call'[u])
    BY <1>3, <1>4, <1>7, <1>8 DEF IInv, WaitingInv
  <2> QED
    BY <2>1, <2>2 DEF WaitingInv, ItemFor
<1>10. WokenInv'
  <2> SUFFICES ASSUME NEW u \in Tasks, pc'[u] = "unblocked"
               PROVE  \/ xItemValue'[u] = ItemFor(call'[u])
                      \/ /\ "unblockedDueToBitSet" \in xItemValue'[u].control
                         /\ deleted' \/ prvTestWaitCondition(xItemValue'[u].bits, call'[u])
    BY DEF WokenInv, WokenBySet, ItemFor, prvTestWaitCondition
  <2>1. u # t
    BY <1>8
  <2>2. CASE u \in Matched(bits)
    BY <1>5, <1>7, <2>1, <2>2
  <2>3. CASE u \notin Matched(bits)
    BY <1>1, <1>7, <2>1, <2>3 DEF IInv, WokenInv, WokenBySet
  <2> QED
    BY <2>2, <2>3
<1>11. NoMissedWake'
  <2> SUFFICES ASSUME NEW u \in xTasksWaitingForBits'
               PROVE  ~prvTestWaitCondition(uxEventBits', call'[u])
    BY DEF NoMissedWake, prvTestWaitCondition
  <2>1. CASE u = t
    <3>1. blocks /\ call'[u] = wait
      BY <1>3, <1>4, <1>8, <2>1
    <3> QED
      BY <1>2, <3>1 DEF blocks, met, wait, prvTestWaitCondition
  <2>2. CASE u # t
    <3>1. u \in Tasks /\ ~prvTestWaitCondition(bits, call[u])
      BY <1>4, <1>5, <2>2 DEF IInv, WaitingInv
    <3>2. ~prvTestWaitCondition(uxEventBits', call[u])
      BY <1>2, <3>1, FewerBits
    <3> QED
      BY <1>7, <2>2, <3>1, <3>2
  <2> QED
    BY <2>1, <2>2
<1>12. ReturnedBitsMeetWait'
  <2> SUFFICES ASSUME NEW u \in Tasks, pc'[u] = "returned"
               PROVE  xTimeoutOccurred'[u] \/ deleted' \/ prvTestWaitCondition(uxReturn'[u], call'[u])
    BY DEF ReturnedBitsMeetWait, prvTestWaitCondition
  <2>1. CASE u = t
    <3>1. ~blocks
      BY <1>8, <2>1
    <3>2. met => prvTestWaitCondition(bits, wait)
      BY DEF met, wait, prvTestWaitCondition
    <3> QED
      BY <1>8, <2>1, <3>1, <3>2
  <2>2. CASE u # t
    BY <1>1, <1>7, <2>2 DEF IInv, ReturnedBitsMeetWait
  <2> QED
    BY <2>1, <2>2
<1> QED
  BY <1>6, <1>9, <1>10, <1>11, <1>12 DEF IInv

LEMMA SetBitsKeeps ==
    ASSUME IInv, NEW set, xEventGroupSetBits(set)
    PROVE  IInv'
<1> DEFINE bits == uxEventBits \cup set
<1>1. /\ xTasksWaitingForBits' = xTasksWaitingForBits \ Matched(bits)
      /\ xItemValue' = ItemsAfter(Matched(bits), bits) /\ pc' = Unblocked(Matched(bits))
      /\ UNCHANGED <<call, uxReturn, xTimeoutOccurred, deleted>>
      /\ uxEventBits' \subseteq bits
  BY DEF xEventGroupSetBits, WakesWith
<1> HIDE DEF bits
<1>2. Matched(bits) = {u \in xTasksWaitingForBits : prvTestWaitCondition(bits, call[u])}
  BY MatchedTasks DEF IInv
<1>3. ASSUME NEW u \in Tasks
      PROVE  /\ u \in Matched(bits) =>
                   /\ pc'[u] = "unblocked"
                   /\ xItemValue'[u] = [bits |-> bits, control |-> {"unblockedDueToBitSet"}]
             /\ u \notin Matched(bits) => pc'[u] = pc[u] /\ xItemValue'[u] = xItemValue[u]
  BY <1>1 DEF ItemsAfter, Unblocked
<1>4. CallInv'
  BY <1>1 DEF IInv, CallInv, ItemsAfter, Unblocked
<1>5. WaitingInv'
  BY <1>1, <1>2, <1>3 DEF IInv, WaitingInv, ItemFor
<1>6. WokenInv'
  <2> SUFFICES ASSUME NEW u \in Tasks, pc'[u] = "unblocked"
               PROVE  \/ xItemValue'[u] = ItemFor(call'[u])
                      \/ /\ "unblockedDueToBitSet" \in xItemValue'[u].control
                         /\ deleted' \/ prvTestWaitCondition(xItemValue'[u].bits, call'[u])
    BY DEF WokenInv, WokenBySet, ItemFor, prvTestWaitCondition
  <2>1. CASE u \in Matched(bits)
    BY <1>1, <1>2, <1>3, <2>1
  <2>2. CASE u \notin Matched(bits)
    BY <1>1, <1>3, <2>2 DEF IInv, WokenInv, WokenBySet
  <2> QED
    BY <2>1, <2>2
<1>7. NoMissedWake'
  <2> SUFFICES ASSUME NEW u \in xTasksWaitingForBits'
               PROVE  ~prvTestWaitCondition(uxEventBits', call'[u])
    BY DEF NoMissedWake, prvTestWaitCondition
  <2>1. ~prvTestWaitCondition(bits, call[u])
    BY <1>1, <1>2
  <2> QED
    BY <1>1, <2>1, FewerBits
<1>8. ReturnedBitsMeetWait'
  BY <1>1, <1>2, <1>3 DEF IInv, ReturnedBitsMeetWait, WaitingInv, prvTestWaitCondition
<1> QED
  BY <1>4, <1>5, <1>6, <1>7, <1>8 DEF IInv

LEMMA ClearBitsKeeps ==
    ASSUME IInv, NEW clear, xEventGroupClearBits(clear)
    PROVE  IInv'
<1>1. UNCHANGED <<xTasksWaitingForBits, xItemValue, deleted, pc, call, uxReturn, xTimeoutOccurred>>
  BY DEF xEventGroupClearBits, calls
<1>2. NoMissedWake'
  <2>1. uxEventBits' \subseteq uxEventBits
    BY DEF xEventGroupClearBits
  <2> QED
    BY <1>1, <2>1, FewerBits DEF IInv, NoMissedWake, prvTestWaitCondition
<1> QED
  BY <1>1, <1>2 DEF IInv, CallInv, WaitingInv, WokenInv, WokenBySet, ReturnedBitsMeetWait, ItemFor,
                    prvTestWaitCondition

LEMMA TickWakesKeeps ==
    ASSUME IInv, NEW t \in Tasks, TickWakes(t)
    PROVE  IInv'
<1>1. /\ xTasksWaitingForBits' = xTasksWaitingForBits \ {t} /\ t \in xTasksWaitingForBits
      /\ pc' = [pc EXCEPT ![t] = "unblocked"]
      /\ UNCHANGED <<uxEventBits, xItemValue, deleted, call, uxReturn, xTimeoutOccurred>>
  BY DEF TickWakes
<1>2. CallInv'
  BY <1>1 DEF IInv, CallInv
<1>3. WaitingInv'
  BY <1>1 DEF IInv, CallInv, WaitingInv, ItemFor
<1>4. WokenInv'
  BY <1>1 DEF IInv, CallInv, WaitingInv, WokenInv, WokenBySet, ItemFor, prvTestWaitCondition
<1>5. NoMissedWake'
  BY <1>1 DEF IInv, NoMissedWake, prvTestWaitCondition
<1>6. ReturnedBitsMeetWait'
  BY <1>1 DEF IInv, CallInv, ReturnedBitsMeetWait, prvTestWaitCondition
<1> QED
  BY <1>2, <1>3, <1>4, <1>5, <1>6 DEF IInv

LEMMA ResumesKeeps ==
    ASSUME IInv, NEW t \in Tasks, Resumes(t)
    PROVE  IInv'
<1>1. /\ pc[t] = "unblocked" /\ pc' = [pc EXCEPT ![t] = "returned"]
      /\ xItemValue' = [xItemValue EXCEPT ![t] = NoItem]
      /\ UNCHANGED <<xTasksWaitingForBits, deleted, call>>
      /\ uxEventBits' \subseteq uxEventBits
  BY DEF Resumes, Ends
<1>2. CallInv'
  BY <1>1 DEF IInv, CallInv, Resumes, Ends
<1>3. t \notin xTasksWaitingForBits
  BY <1>1 DEF IInv, WaitingInv
<1>4. WaitingInv'
  <2>1. xTasksWaitingForBits' = {u \in Tasks : pc'[u] = "blocked"}
    BY <1>1, <1>3 DEF IInv, CallInv, WaitingInv
  <2>2. \A u \in xTasksWaitingForBits' : u # t /\ xItemValue'[u] = ItemFor(call'[u])
    BY <1>1, <1>3 DEF IInv, CallInv, WaitingInv
  <2> QED
    BY <2>1, <2>2 DEF WaitingInv, ItemFor
<1>5. WokenInv'
  BY <1>1 DEF IInv, CallInv, WokenInv, WokenBySet, ItemFor, prvTestWaitCondition
<1>6. NoMissedWake'
  BY <1>1, FewerBits DEF IInv, NoMissedWake, prvTestWaitCondition
<1>7. ReturnedBitsMeetWait'
  <2>1. xTimeoutOccurred'[t] \/ deleted \/ prvTestWaitCondition(uxReturn'[t], call[t])
    <3>1. CASE WokenBySet(t)
      <4>1. xItemValue[t] # ItemFor(call[t])
        BY <3>1, ItemIsNoWake DEF WokenBySet
      <4>2. deleted \/ prvTestWaitCondition(xItemValue[t].bits, call[t])
        BY <1>1, <4>1 DEF IInv, WokenInv
      <4>3. uxReturn'[t] = xItemValue[t].bits
        BY <3>1 DEF IInv, CallInv, Resumes, Ends, BitsWokenWith
      <4> QED
        BY <4>2, <4>3
    <3>2. CASE ~WokenBySet(t)
      BY <3>2 DEF IInv, CallInv, Resumes, Ends
    <3> QED
      BY <3>1, <3>2
  <2>2. \A u \in Tasks \ {t} : /\ pc'[u] = pc[u] /\ uxReturn'[u] = uxReturn[u]
                               /\ xTimeoutOccurred'[u] = xTimeoutOccurred[u]
    BY DEF IInv, CallInv, Resumes, Ends
  <2> QED
    BY <1>1, <2>1, <2>2 DEF IInv, ReturnedBitsMeetWait, prvTestWaitCondition
<1> QED
  BY <1>2, <1>4, <1>5, <1>6, <1>7 DEF IInv

LEMMA ReturnsKeeps ==
    ASSUME IInv, NEW t \in Tasks, Returns(t)
    PROVE  IInv'
<1>1. /\ pc[t] = "returned" /\ pc' = [pc EXCEPT ![t] = "idle"]
      /\ call' = [call EXCEPT ![t] = NoCall]
      /\ UNCHANGED <<uxEventBits, xTasksWaitingForBits, xItemValue, deleted>>
      /\ uxReturn' = [uxReturn EXCEPT ![t] = {}]
      /\ xTimeoutOccurred' = [xTimeoutOccurred EXCEPT ![t] = FALSE]
  BY DEF Returns, group
<1>2. CallInv'
  BY <1>1 DEF IInv, CallInv, NoCall, AnyWait
<1>3. t \notin xTasksWaitingForBits
  BY <1>1 DEF IInv, WaitingInv
<1>4. \A u \in Tasks \ {t} : /\ pc'[u] = pc[u] /\ call'[u] = call[u] /\ uxReturn'[u] = uxReturn[u]
                             /\ xTimeoutOccurred'[u] = xTimeoutOccurred[u]
  BY <1>1 DEF IInv, CallInv
<1>5. pc'[t] = "idle"
  BY <1>1 DEF IInv, CallInv
<1>6. WaitingInv'
  BY <1>1, <1>3, <1>4, <1>5 DEF IInv, WaitingInv, ItemFor
<1>7. WokenInv'
  BY <1>1, <1>4, <1>5 DEF IInv, WokenInv, WokenBySet, ItemFor, prvTestWaitCondition
<1>8. NoMissedWake'
  BY <1>1, <1>3, <1>4 DEF IInv, WaitingInv, NoMissedWake, prvTestWaitCondition
<1>9. ReturnedBitsMeetWait'
  BY <1>1, <1>4, <1>5 DEF IInv, ReturnedBitsMeetWait, prvTestWaitCondition
<1> QED
  BY <1>2, <1>6, <1>7, <1>8, <1>9 DEF IInv

LEMMA DeleteKeeps ==
    ASSUME IInv, vEventGroupDelete
    PROVE  IInv'
<1>1. /\ deleted' = TRUE /\ xTasksWaitingForBits' = {}
      /\ xItemValue' = ItemsAfter(xTasksWaitingForBits, {}) /\ pc' = Unblocked(xTasksWaitingForBits)
      /\ UNCHANGED <<call, uxReturn, xTimeoutOccurred>>
      /\ \A t \in Tasks : pc[t] = "unblocked" => WokenBySet(t)
  BY DEF vEventGroupDelete, WakesWith
<1>2. CallInv'
  BY <1>1 DEF IInv, CallInv, ItemsAfter, Unblocked
<1>3. WaitingInv'
  BY <1>1 DEF IInv, WaitingInv, Unblocked, ItemFor
<1>4. WokenInv'
  BY <1>1 DEF IInv, WokenInv, WokenBySet, ItemsAfter, Unblocked, ItemFor, prvTestWaitCondition
<1> QED
  BY <1>1, <1>2, <1>3, <1>4 DEF IInv, NoMissedWake, ReturnedBitsMeetWait, prvTestWaitCondition

LEMMA CreateKeeps ==
    ASSUME IInv, xEventGroupCreate
    PROVE  IInv'
<1>1. /\ \A t \in Tasks : pc[t] = "idle"
      /\ UNCHANGED <<xTasksWaitingForBits, xItemValue, pc, call, uxReturn, xTimeoutOccurred>>
  BY DEF xEventGroupCreate, calls
<1>2. xTasksWaitingForBits' = {}
  BY <1>1 DEF IInv, WaitingInv
<1> QED
  BY <1>1, <1>2 DEF IInv, CallInv, WaitingInv, WokenInv, NoMissedWake, ReturnedBitsMeetWait

LEMMA OthersKeep ==
    ASSUME IInv, UNCHANGED events
    PROVE  IInv'
BY DEF IInv, CallInv, WaitingInv, WokenInv, WokenBySet, NoMissedWake, ReturnedBitsMeetWait, ItemFor,
       prvTestWaitCondition, events, group, calls
-----------------------------------------------------------------------------
(* The theorems. *)

LEMMA InitHolds ==
    ASSUME Init
    PROVE  IInv
BY DEF Init, GroupInit, NoItem, NoCall, IInv, CallInv, AnyWait, WaitingInv, WokenInv, NoMissedWake,
       ReturnedBitsMeetWait

LEMMA GroupKeeps ==
    ASSUME IInv, GroupNext
    PROVE  IInv'
<1>1. ASSUME NEW t \in Tasks, NEW c \in CallsOf[t], NEW ticks \in Waits,
             \/ xEventGroupWaitBits(t, c, ticks)
             \/ \E b \in Used : xEventGroupSync(t, {b}, c.bits, ticks)
      PROVE  IInv'
  <2>1. c \in AnyWait
    BY EventGroupAssumption DEF Wait, AnyWait
  <2>2. c.bits \in SUBSET Bits
    BY <2>1 DEF AnyWait
  <2> QED
    BY <1>1, <2>1, <2>2, WaitBitsKeeps, SyncKeeps
<1>2. ASSUME NEW b \in Used, xEventGroupSetBits({b}) \/ xEventGroupClearBits({b})
      PROVE  IInv'
  BY <1>2, SetBitsKeeps, ClearBitsKeeps
<1>3. ASSUME NEW t \in Tasks, TickWakes(t) \/ Resumes(t) \/ Returns(t)
      PROVE  IInv'
  BY <1>3, TickWakesKeeps, ResumesKeeps, ReturnsKeeps
<1>4. ASSUME vEventGroupDelete \/ xEventGroupCreate
      PROVE  IInv'
  BY <1>4, DeleteKeeps, CreateKeeps
<1> QED
  BY <1>1, <1>2, <1>3, <1>4 DEF GroupNext

LEMMA ThreadKeeps ==
    ASSUME IInv, NEW t \in Tasks, Thread(t)
    PROVE  IInv'
<1>1. CASE Meets(t)
  <2>1. 1..uThreshold \in SUBSET Bits
    BY ThresholdAssumption
  <2> QED
    BY <1>1, <2>1, SyncKeeps DEF Meets
<1>2. CASE GoesOn(t)
  BY <1>2, ResumesKeeps DEF GoesOn
<1>3. CASE HasMet(t)
  BY <1>3, ReturnsKeeps DEF HasMet
<1>4. CASE \/ pthread_barrier_wait(t) \/ TakesSemaphore(t) \/ LocksCount(t)
           \/ IncrementsCount(t) \/ TakesNumber(t) \/ ResetsCount(t) \/ GivesSemaphore(t)
  <2>1. UNCHANGED events
    BY <1>4 DEF pthread_barrier_wait, TakesSemaphore, LocksCount, IncrementsCount, TakesNumber,
                ResetsCount, GivesSemaphore
  <2> QED
    BY <2>1, OthersKeep
<1> QED
  BY <1>1, <1>2, <1>3, <1>4 DEF Thread

\* The invariant holds of an event group in either use, for any number of tasks and bits.
THEOREM Invariance == Spec => []IInv
<1>1. Init => IInv
  BY InitHolds
<1>2. IInv /\ [Next]_vars => IInv'
  <2> SUFFICES ASSUME IInv, [Next]_vars
               PROVE  IInv'
    OBVIOUS
  <2>1. CASE \E t \in Tasks : Thread(t)
    BY <2>1, ThreadKeeps
  <2>2. CASE GroupNext
    BY <2>2, GroupKeeps
  <2>3. CASE UNCHANGED vars
    BY <2>3, OthersKeep DEF vars
  <2> QED
    BY <2>1, <2>2, <2>3 DEF Next
<1> QED
  BY <1>1, <1>2, PTL DEF Spec

\* xEventGroupSetBits and the waits leave no task waiting for what is there, however
\* they interleave with clearing, time-outs, deletion and the rounds of a barrier.
THEOREM NoWakeIsMissed == Spec => []NoMissedWake
<1>1. IInv => NoMissedWake
  BY DEF IInv
<1> QED
  BY <1>1, Invariance, PTL

\* A call that returns without time-out returns bits that meet its wait, also when they
\* were cleared between the wake and the return, unless its group was deleted.
THEOREM ReturnsTell == Spec => []ReturnedBitsMeetWait
<1>1. IInv => ReturnedBitsMeetWait
  BY DEF IInv
<1> QED
  BY <1>1, Invariance, PTL
-----------------------------------------------------------------------------
(* Bits that are cleared. *)

\* A deleted group has no bits.
DeletedInv == deleted => uxEventBits = {}

\* What BitsGoToAWaiter says of one bit that is cleared.
Given(b) ==
    \/ xEventGroupClearBits({b}) \/ vEventGroupDelete
    \/ \E t \in Tasks : b \in ToldNow(t) \cap call'[t].bits /\ call'[t].clear

LEMMA DeletedKeeps ==
    ASSUME DeletedInv, [Next]_vars
    PROVE  DeletedInv'
<1>1. CASE \E t \in Tasks : Thread(t)
  BY <1>1 DEF DeletedInv, Thread, pthread_barrier_wait, TakesSemaphore, LocksCount, IncrementsCount,
              TakesNumber, Meets, GoesOn, HasMet, ResetsCount, GivesSemaphore, events, group,
              xEventGroupSync, Asks, Resumes, Returns
<1>2. CASE GroupNext
  <2>1. ASSUME NEW t, NEW c, NEW ticks, NEW set, \/ xEventGroupWaitBits(t, c, ticks)
                                                 \/ xEventGroupSync(t, set, c.bits, ticks)
        PROVE  DeletedInv'
    BY <2>1 DEF DeletedInv, xEventGroupWaitBits, xEventGroupSync, Asks
  <2>2. ASSUME NEW set, xEventGroupSetBits(set) \/ xEventGroupClearBits(set)
        PROVE  DeletedInv'
    BY <2>2 DEF DeletedInv, xEventGroupSetBits, xEventGroupClearBits
  <2>3. ASSUME NEW t, TickWakes(t) \/ Resumes(t) \/ Returns(t)
        PROVE  DeletedInv'
    BY <2>3 DEF DeletedInv, TickWakes, Resumes, Returns, group
  <2>4. vEventGroupDelete \/ xEventGroupCreate => DeletedInv'
    BY DEF DeletedInv, vEventGroupDelete, xEventGroupCreate
  <2> QED
    BY <1>2, <2>1, <2>2, <2>3, <2>4 DEF GroupNext
<1>3. CASE UNCHANGED vars
  BY <1>3 DEF DeletedInv, vars, events, group
<1> QED
  BY <1>1, <1>2, <1>3 DEF Next

\* A bit that setting bits clears is one a task that it wakes asked to have cleared.
LEMMA ClearedForTheWoken ==
    ASSUME IInv, NEW bits, NEW b \in bits, b \in uxBitsToClear(bits),
           \A u \in Matched(bits) :
               /\ pc'[u] = "unblocked" /\ call'[u] = call[u]
               /\ xItemValue'[u] = [bits |-> bits, control |-> {"unblockedDueToBitSet"}]
    PROVE  Given(b)
<1>1. PICK u \in Matched(bits) : Waited(u).clear /\ b \in Waited(u).bits
  BY DEF uxBitsToClear
<1>2. u \in Tasks /\ pc[u] = "blocked" /\ xItemValue[u] = ItemFor(call[u])
  BY <1>1 DEF Matched, IInv, WaitingInv
<1>3. b \in call[u].bits /\ call[u].clear
  <2>1. b \in call[u].bits
    BY <1>1, <1>2 DEF Waited, ItemFor
  <2>2. "clearOnExit" \in ItemFor(call[u]).control
    BY <1>1, <1>2 DEF Waited
  <2>3. call[u].clear
    BY <2>2 DEF ItemFor, Controls
  <2> QED
    BY <2>1, <2>3
<1>4. /\ pc'[u] = "unblocked" /\ call'[u] = call[u]
      /\ xItemValue'[u].bits = bits /\ xItemValue'[u].control = {"unblockedDueToBitSet"}
  BY <1>1
<1>5. b \in ToldNow(u)
  BY <1>2, <1>4 DEF ToldNow
<1> QED
  BY <1>2, <1>3, <1>4, <1>5 DEF Given

LEMMA WaitBitsGives ==
    ASSUME IInv, NEW t \in Tasks, NEW c \in AnyWait, NEW ticks, xEventGroupWaitBits(t, c, ticks),
           NEW b \in uxEventBits \ uxEventBits'
    PROVE  Given(b)
<1>1. /\ prvTestWaitCondition(uxEventBits, c)
      /\ uxEventBits' = uxEventBits \ CallBits(c)
      /\ Ends(t, uxEventBits, FALSE)
  BY DEF xEventGroupWaitBits
<1>2. c.clear /\ b \in c.bits
  BY <1>1 DEF CallBits
<1>3. pc[t] = "idle" /\ call'[t] = c
  BY DEF xEventGroupWaitBits, Asks, IInv, CallInv
<1>4. pc'[t] = "returned" /\ uxReturn'[t] = uxEventBits
  BY <1>1 DEF Ends, IInv, CallInv
<1>5. b \in ToldNow(t)
  BY <1>1, <1>3, <1>4 DEF ToldNow
<1> QED
  BY <1>2, <1>3, <1>5 DEF Given

LEMMA SyncGives ==
    ASSUME IInv, NEW t \in Tasks, NEW set, NEW waitFor \in SUBSET Bits, NEW ticks,
           xEventGroupSync(t, set, waitFor, ticks), NEW b \in uxEventBits \ uxEventBits'
    PROVE  Given(b)
<1> DEFINE wait == [bits |-> waitFor, clear |-> TRUE, all |-> TRUE]
           bits == uxEventBits \cup set
<1>1. pc[t] = "idle" /\ call'[t] = wait
  BY DEF xEventGroupSync, Asks, IInv, CallInv
<1>2. t \notin Matched(bits)
  BY <1>1 DEF IInv, WaitingInv, Matched
<1>3. CASE b \in uxBitsToClear(bits)
  <2>1. \A u \in Matched(bits) :
            /\ pc'[u] = "unblocked" /\ call'[u] = call[u]
            /\ xItemValue'[u] = [bits |-> bits, control |-> {"unblockedDueToBitSet"}]
    BY <1>2 DEF xEventGroupSync, Asks, IInv, CallInv, WaitingInv, Matched, ItemsAfter, Unblocked
  <2> QED
    BY <1>3, <2>1, ClearedForTheWoken
<1>4. CASE b \notin uxBitsToClear(bits)
  <2>1. waitFor \subseteq bits /\ b \in waitFor
    BY <1>4 DEF xEventGroupSync
  <2>2. pc'[t] = "returned"
    BY <2>1 DEF xEventGroupSync, Unblocked
  <2>3. uxReturn'[t] = bits
    BY <2>1 DEF xEventGroupSync, IInv, CallInv
  <2>4. b \in ToldNow(t)
    BY <1>1, <2>1, <2>2, <2>3 DEF ToldNow, prvTestWaitCondition
  <2> QED
    BY <1>1, <2>1, <2>4 DEF Given
<1> QED
  BY <1>3, <1>4

LEMMA SetBitsGives ==
    ASSUME IInv, NEW set, xEventGroupSetBits(set), NEW b \in uxEventBits \ uxEventBits'
    PROVE  Given(b)
<1> DEFINE bits == uxEventBits \cup set
<1>1. b \in uxBitsToClear(bits)
  BY DEF xEventGroupSetBits
<1>2. \A u \in Matched(bits) :
          /\ pc'[u] = "unblocked" /\ call'[u] = call[u]
          /\ xItemValue'[u] = [bits |-> bits, control |-> {"unblockedDueToBitSet"}]
  BY DEF xEventGroupSetBits, WakesWith, IInv, WaitingInv, Matched, ItemsAfter, Unblocked
<1> QED
  BY <1>1, <1>2, ClearedForTheWoken

LEMMA ResumesGives ==
    ASSUME IInv, NEW t \in Tasks, Resumes(t), NEW b \in uxEventBits \ uxEventBits'
    PROVE  Given(b)
<1>1. /\ uxEventBits' = uxEventBits \ ClearedAfterTimeOut(t)
      /\ Ends(t, uxEventBits, TRUE)
      /\ pc[t] = "unblocked" /\ UNCHANGED call
  BY DEF Resumes
<1>2. /\ prvTestWaitCondition(uxEventBits, call[t])
      /\ call[t].clear /\ b \in call[t].bits
  BY <1>1 DEF ClearedAfterTimeOut, CallBits
<1>3. pc'[t] = "returned" /\ uxReturn'[t] = uxEventBits
  BY <1>1 DEF Ends, IInv, CallInv
<1>4. b \in ToldNow(t)
  BY <1>1, <1>2, <1>3 DEF ToldNow
<1> QED
  BY <1>1, <1>2, <1>4 DEF Given

LEMMA StepGives ==
    ASSUME IInv, DeletedInv, [Next]_vars, NEW b \in uxEventBits \ uxEventBits'
    PROVE  Given(b)
<1>1. ASSUME NEW t \in Tasks, Thread(t)
      PROVE  Given(b)
  <2>1. CASE Meets(t)
    <3>1. 1..uThreshold \in SUBSET Bits
      BY ThresholdAssumption
    <3> QED
      BY <2>1, <3>1, SyncGives DEF Meets
  <2>2. CASE GoesOn(t)
    BY <2>2, ResumesGives DEF GoesOn
  <2>3. CASE ~Meets(t) /\ ~GoesOn(t)
    BY <1>1, <2>3 DEF Thread, pthread_barrier_wait, TakesSemaphore, LocksCount, IncrementsCount,
                      TakesNumber, HasMet, Returns, ResetsCount, GivesSemaphore, events, group
  <2> QED
    BY <2>1, <2>2, <2>3
<1>2. ASSUME NEW t \in Tasks, NEW c \in CallsOf[t], NEW ticks \in Waits,
             \/ xEventGroupWaitBits(t, c, ticks)
             \/ \E d \in Used : xEventGroupSync(t, {d}, c.bits, ticks)
      PROVE  Given(b)
  <2>1. c \in AnyWait
    BY EventGroupAssumption DEF Wait, AnyWait
  <2>2. c.bits \in SUBSET Bits
    BY <2>1 DEF AnyWait
  <2> QED
    BY <1>2, <2>1, <2>2, WaitBitsGives, SyncGives
<1>3. ASSUME NEW d \in Used, xEventGroupSetBits({d}) \/ xEventGroupClearBits({d})
      PROVE  Given(b)
  <2>1. CASE xEventGroupSetBits({d})
    BY <2>1, SetBitsGives
  <2>2. CASE xEventGroupClearBits({d})
    <3>1. b = d
      BY <2>2 DEF xEventGroupClearBits
    <3> QED
      BY <2>2, <3>1 DEF Given
  <2> QED
    BY <1>3, <2>1, <2>2
<1>4. ASSUME NEW t \in Tasks, TickWakes(t) \/ Resumes(t) \/ Returns(t)
      PROVE  Given(b)
  BY <1>4, ResumesGives DEF TickWakes, Returns, group
<1>5. CASE vEventGroupDelete
  BY <1>5 DEF Given
<1>6. CASE xEventGroupCreate
  BY <1>6 DEF xEventGroupCreate, DeletedInv
<1>7. CASE UNCHANGED vars
  BY <1>7 DEF vars, events, group
<1>8. CASE GroupNext
  BY <1>2, <1>3, <1>4, <1>5, <1>6, <1>8 DEF GroupNext
<1> QED
  BY <1>1, <1>7, <1>8 DEF Next

\* vEventGroupDelete leaves no bits behind, and none come before the group is created
\* again.
THEOREM DeletedIsEmpty == Spec => []DeletedInv
<1>1. Init => DeletedInv
  BY DEF Init, GroupInit, DeletedInv
<1> QED
  BY <1>1, DeletedKeeps, PTL DEF Spec

\* A bit that an event group clears by itself is given to a task that waited for it and
\* asked for it to be cleared; only xEventGroupClearBits and a deletion lose bits.
THEOREM ClearedBitsAreGiven == Spec => BitsGoToAWaiter
<1>1. IInv /\ DeletedInv /\ [Next]_vars =>
          [ \A b \in uxEventBits \ uxEventBits' :
               \/ xEventGroupClearBits({b}) \/ vEventGroupDelete
               \/ \E t \in Tasks : b \in ToldNow(t) \cap call'[t].bits /\ call'[t].clear ]_events
  BY StepGives DEF Given
<1> QED
  BY <1>1, Invariance, DeletedIsEmpty, PTL DEF Spec, BitsGoToAWaiter
-----------------------------------------------------------------------------
(* The rounds of a barrier. *)

\* The threads that the semaphore admitted and that wait for others, and those of
\* them that have their number.
Admitted == {t \in Tasks : place[t] \in {"lock", "increment", "number", "meet"}} \cup Waiting
Meeting  == {t \in Tasks : place[t] = "meet"} \cup Waiting

\* The threads that start the next round, and that have not begun to.
Serials   == {t \in Through : uThreadNumber[t] = 1}
Resetting == \E s \in Serials : place[s] # "give"

\* How many numbers are given to threads.
Numbered == IF \E t \in Tasks : place[t] = "number" THEN uThreadCount - 1 ELSE uThreadCount

RoundType ==
    /\ uThreadCount \in Nat /\ xThreadCountSemaphore \in Nat
    /\ place \in [Tasks -> Places] /\ uThreadNumber \in [Tasks -> Nat]
    /\ i \in [Tasks -> 0..uThreshold - 1]
    /\ user \in {"barrier", "tasks"}
    /\ user = "tasks" => \A t \in Tasks : place[t] = "outside"

\* What a thread is doing of its call, in the barrier, in the event group and for others.
ThreadInv ==
    /\ ~deleted /\ uxEventBits = {uThreadNumber[t] : t \in Waiting}
    /\ \A t \in Tasks :
          /\ pc[t] # "idle" <=> place[t] = "met"
          /\ pc[t] = "blocked" => call[t] = [bits |-> 1..uThreshold, clear |-> TRUE, all |-> TRUE]
          /\ pc[t] = "unblocked" => WokenBySet(t)
          /\ xThreadCountMutex = t <=> place[t] \in {"increment", "number"}
          /\ place[t] # "give" => i[t] = 0
          /\ place[t] \in {"reset", "give"} => uThreadNumber[t] = 1

\* The numbers are 1, 2, 3 and so on, and no two threads of a round have the same.
NumberInv ==
    /\ \A t \in Tasks : place[t] = "number" => uThreadCount > 0
    /\ \A t, u \in Meeting : uThreadNumber[t] = uThreadNumber[u] => t = u
    /\ ~Resetting => {uThreadNumber[t] : t \in Meeting} = 1..Numbered

\* The semaphore has a place for every thread of the barrier that is not admitted, when
\* the serial thread has given those of the last round back.
CountInv ==
    /\ IsFiniteSet(Admitted)
    /\ \/ Serials = {} /\ Cardinality(Admitted) + xThreadCountSemaphore = uThreshold
       \/ \E s \in Tasks : Serials = {s} /\ Cardinality(Admitted) + xThreadCountSemaphore = i[s]

RoundInv == RoundType /\ (user = "barrier" => ThreadInv /\ NumberInv /\ CountInv)

\* Barrier counts as its user does.
LEMMA SameCardinality == \A S : Rounds!Cardinality(S) = Cardinality(S)
BY DEF Rounds!Cardinality, Cardinality

Early == {"outside", "take", "lock", "increment", "number", "meet"}

\* A thread goes on in pthread_barrier_wait, before it meets the others.
EarlyMove(t, here, there) ==
    /\ user = "barrier" /\ user' = user /\ place' \in [Tasks -> Places]
    /\ place[t] = here /\ place'[t] = there
    /\ \A u \in Tasks \ {t} : place'[u] = place[u]
    /\ t \notin Waiting /\ t \notin Through
    /\ Waiting' = Waiting /\ Through' = Through /\ Serials' = Serials
    /\ Resetting' <=> Resetting
    /\ Admitted' = (Admitted \ {t}) \cup
                   IF there \in {"lock", "increment", "number", "meet"} THEN {t} ELSE {}
    /\ Meeting' = (Meeting \ {t}) \cup IF there = "meet" THEN {t} ELSE {}
    /\ UNCHANGED <<events, i>> /\ UNCHANGED Rounds!vars

\* It is not seen of the barrier.
LEMMA EarlySteps ==
    ASSUME RoundInv, NEW t \in Tasks, NEW here \in Early, NEW there \in Early,
           From(t, here, there), UNCHANGED <<events, i>>,
           uThreadNumber' \in [Tasks -> Nat],
           \A u \in Tasks \ {t} : uThreadNumber'[u] = uThreadNumber[u]
    PROVE  EarlyMove(t, here, there)
<1>1. /\ user = "barrier" /\ user' = user /\ place[t] = here /\ place' = [place EXCEPT ![t] = there]
      /\ place \in [Tasks -> Places] /\ pc' = pc /\ here # "met" /\ there # "met"
      /\ here \notin {"reset", "give"} /\ there \notin {"reset", "give"} /\ there \in Places
  BY DEF From, RoundInv, RoundType, events, calls, Early, Places
<1>2. place'[t] = there /\ (\A u \in Tasks \ {t} : place'[u] = place[u]) /\ place' \in [Tasks -> Places]
  BY <1>1
<1>3. t \notin Waiting /\ t \notin Through /\ Waiting' = Waiting /\ Through' = Through
  BY <1>1, <1>2 DEF Waiting, Through
<1>4. Serials' = Serials
  BY <1>3 DEF Serials, Through
<1>5. Resetting' <=> Resetting
  BY <1>2, <1>3, <1>4 DEF Resetting, Serials, Through
<1>6. Admitted' = (Admitted \ {t}) \cup
                  IF there \in {"lock", "increment", "number", "meet"} THEN {t} ELSE {}
  BY <1>2, <1>3 DEF Admitted
<1>7. Meeting' = (Meeting \ {t}) \cup IF there = "meet" THEN {t} ELSE {}
  BY <1>2, <1>3 DEF Meeting
<1>8. UNCHANGED Rounds!vars
  BY <1>3, <1>4 DEF Rounds!vars, Serials, Through
<1> QED
  BY <1>1, <1>2, <1>3, <1>4, <1>5, <1>6, <1>7, <1>8 DEF EarlyMove

\* A set of threads with different numbers has as many threads as numbers.
LEMMA AsManyNumbers ==
    ASSUME NEW S, IsFiniteSet(S), \A t, u \in S : uThreadNumber[t] = uThreadNumber[u] => t = u
    PROVE  /\ IsFiniteSet({uThreadNumber[t] : t \in S})
           /\ Cardinality({uThreadNumber[t] : t \in S}) = Cardinality(S)
<1> DEFINE T == {uThreadNumber[t] : t \in S}
           f == [t \in S |-> uThreadNumber[t]]
<1>1. f \in Bijection(S, T)
  <2>1. f \in [S -> T] /\ \A y \in T : \E x \in S : f[x] = y
    OBVIOUS
  <2>2. \A x, y \in S : f[x] = f[y] => x = y
    OBVIOUS
  <2> QED
    BY <2>1, <2>2 DEF Bijection, Injection, Surjection, IsInjective
<1> QED
  BY <1>1, FS_Bijection DEF ExistsBijection

\* While the serial thread has not begun to let the next round in, nobody is admitted;
\* while somebody is, the numbers count the threads.
LEMMA NumbersCount ==
    ASSUME RoundInv, user = "barrier"
    PROVE  /\ Resetting => Admitted = {}
           /\ IsFiniteSet(Admitted) /\ IsFiniteSet(Meeting) /\ Cardinality(Admitted) \in 0..uThreshold
           /\ ~Resetting => /\ Numbered \in 0..uThreshold
                            /\ Cardinality(Meeting) = Numbered
                            /\ \A t \in Meeting : uThreadNumber[t] \in 1..Numbered
<1> USE DEF RoundInv
<1>1. uThreshold \in Nat \ {0}
  BY ThresholdAssumption
<1>2. IsFiniteSet(Admitted) /\ Cardinality(Admitted) \in Nat /\ xThreadCountSemaphore \in Nat
  BY FS_CardinalityType DEF CountInv, RoundType
<1>3. Cardinality(Admitted) \in 0..uThreshold
  BY <1>1, <1>2 DEF CountInv, RoundType
<1>4. ASSUME Resetting PROVE Admitted = {}
  <2>1. PICK s \in Tasks : Serials = {s} /\ Cardinality(Admitted) + xThreadCountSemaphore = i[s]
    BY <1>4 DEF CountInv, Resetting
  <2>2. i[s] = 0
    BY <1>4, <2>1 DEF Resetting, ThreadInv
  <2> QED
    BY <1>2, <2>1, <2>2, FS_EmptySet
<1>5. Meeting \subseteq Admitted
  BY DEF Meeting, Admitted
<1>6. IsFiniteSet(Meeting) /\ Cardinality(Meeting) <= Cardinality(Admitted) /\ Cardinality(Meeting) \in Nat
  BY <1>2, <1>5, FS_Subset, FS_CardinalityType
<1>7. ASSUME ~Resetting
      PROVE  /\ Numbered \in 0..uThreshold /\ Cardinality(Meeting) = Numbered
             /\ \A t \in Meeting : uThreadNumber[t] \in 1..Numbered
  <2>1. Numbered \in Nat
    BY DEF Numbered, NumberInv, RoundType
  <2>2. {uThreadNumber[t] : t \in Meeting} = 1..Numbered
    BY <1>7 DEF NumberInv
  <2>3. Cardinality(1..Numbered) = Cardinality(Meeting)
    BY <1>6, <2>2, AsManyNumbers DEF NumberInv
  <2>4. Cardinality(1..Numbered) = Numbered
    BY <2>1, FS_Interval
  <2> QED
    BY <1>1, <1>3, <1>6, <2>1, <2>2, <2>3, <2>4
<1> QED
  BY <1>2, <1>3, <1>4, <1>6, <1>7

\* The threads that wait, with one that arrives: it is the last if theirs are all the bits,
\* and then nobody else is admitted and the last round is over.
LEMMA Arrivals ==
    ASSUME RoundInv, user = "barrier", NEW t \in Tasks, place[t] = "meet"
    PROVE  /\ IsFiniteSet(Waiting) /\ t \notin Waiting /\ t \notin Through
           /\ Cardinality(Waiting) + 1 \in 1..uThreshold
           /\ ~Resetting /\ uxEventBits \cup {uThreadNumber[t]} \subseteq 1..uThreshold
           /\ 1..uThreshold \subseteq uxEventBits \cup {uThreadNumber[t]}
                 <=> Cardinality(Waiting) + 1 = uThreshold
           /\ Cardinality(Waiting) + 1 = uThreshold
                 => /\ Admitted = Waiting \cup {t} /\ Serials = {} /\ xThreadCountSemaphore = 0
<1> USE DEF RoundInv
<1> DEFINE W == Waiting \cup {t}
           bits == {uThreadNumber[u] : u \in W}
<1>1. uThreshold \in Nat \ {0}
  BY ThresholdAssumption
<1>2. t \in Admitted /\ t \in Meeting /\ W \subseteq Meeting /\ Meeting \subseteq Admitted
  BY DEF Admitted, Meeting
<1>3. ~Resetting
  BY <1>2, NumbersCount
<1>4. /\ IsFiniteSet(Admitted) /\ IsFiniteSet(Meeting) /\ Cardinality(Admitted) \in 0..uThreshold
      /\ Numbered \in 0..uThreshold /\ \A u \in Meeting : uThreadNumber[u] \in 1..Numbered
  BY <1>3, NumbersCount
<1>5. t \notin Waiting /\ t \notin Through
  BY DEF Waiting, Through
<1>6. IsFiniteSet(W) /\ IsFiniteSet(Waiting) /\ Cardinality(W) \in Nat /\ Cardinality(Waiting) \in Nat
  BY <1>2, <1>4, FS_Subset, FS_CardinalityType
<1>7. Cardinality(W) = Cardinality(Waiting) + 1
  BY <1>5, <1>6, FS_AddElement
<1>8. W \subseteq Admitted
  BY <1>2
<1>9. Cardinality(W) <= Cardinality(Admitted) /\ (Cardinality(Admitted) = Cardinality(W) => Admitted = W)
  BY <1>4, <1>8, FS_Subset
<1>10. bits = uxEventBits \cup {uThreadNumber[t]}
  BY DEF ThreadInv
<1>11. bits \subseteq 1..uThreshold
  BY <1>1, <1>2, <1>4
<1>12. IsFiniteSet(bits) /\ Cardinality(bits) = Cardinality(W)
  <2>1. \A u, v \in W : uThreadNumber[u] = uThreadNumber[v] => u = v
    BY <1>2 DEF NumberInv
  <2> QED
    BY <1>6, <2>1, AsManyNumbers
<1>13. IsFiniteSet(1..uThreshold) /\ Cardinality(1..uThreshold) = uThreshold
  BY <1>1, FS_Interval
<1> HIDE DEF W, bits
<1>14. 1..uThreshold \subseteq bits <=> Cardinality(W) = uThreshold
  <2>1. 1..uThreshold \subseteq bits => bits = 1..uThreshold
    BY <1>11
  <2>2. Cardinality(bits) = uThreshold => bits = 1..uThreshold
    BY <1>11, <1>13, FS_Subset
  <2> QED
    BY <1>12, <1>13, <2>1, <2>2
<1>15. ASSUME Cardinality(W) = uThreshold
       PROVE  Admitted = W /\ Serials = {} /\ xThreadCountSemaphore = 0
  <2>1. Admitted = W /\ Cardinality(Admitted) = uThreshold
    BY <1>1, <1>4, <1>6, <1>9, <1>15
  <2>2. Serials = {}
    BY <1>1, <2>1 DEF CountInv, RoundType
  <2>3. xThreadCountSemaphore = 0
    BY <1>1, <2>1, <2>2 DEF CountInv, RoundType
  <2> QED
    BY <2>1, <2>2, <2>3
<1>16. Cardinality(Waiting) + 1 \in 1..uThreshold
  BY <1>1, <1>4, <1>6, <1>7, <1>9
<1>17. W = Waiting \cup {t}
  BY DEF W
<1> QED
  BY <1>3, <1>5, <1>6, <1>7, <1>10, <1>11, <1>14, <1>15, <1>16, <1>17

\* What a thread is doing is as before for every other thread, and in the event group.
LEMMA EarlyThreads ==
    ASSUME RoundInv, NEW t \in Tasks, NEW here \in Early, NEW there \in Early,
           EarlyMove(t, here, there), uThreadNumber' \in [Tasks -> Nat],
           \A u \in Tasks \ {t} : uThreadNumber'[u] = uThreadNumber[u],
           \A u \in Tasks : xThreadCountMutex' = u <=> place'[u] \in {"increment", "number"},
           uThreadCount' \in Nat, xThreadCountSemaphore' \in Nat
    PROVE  RoundType' /\ ThreadInv'
<1>1. RoundType'
  BY DEF RoundInv, RoundType, EarlyMove
<1>2. /\ UNCHANGED <<deleted, uxEventBits, pc, call, xItemValue, i>>
      /\ place[t] = here /\ place'[t] = there /\ t \notin Waiting /\ Waiting' = Waiting
      /\ \A u \in Tasks \ {t} : place'[u] = place[u]
      /\ here \notin {"met", "reset", "give"} /\ there \notin {"met", "reset", "give"}
  BY DEF EarlyMove, events, group, calls, Early
<1>3. ThreadInv
  BY DEF RoundInv, EarlyMove
<1>4. uxEventBits' = {uThreadNumber'[u] : u \in Waiting'}
  <2>1. \A u \in Waiting : uThreadNumber'[u] = uThreadNumber[u]
    BY <1>2 DEF Waiting
  <2> QED
    BY <1>2, <1>3, <2>1 DEF ThreadInv
<1>5. ASSUME NEW u \in Tasks
      PROVE  /\ pc'[u] # "idle" <=> place'[u] = "met"
             /\ pc'[u] = "blocked" => call'[u] = [bits |-> 1..uThreshold, clear |-> TRUE, all |-> TRUE]
             /\ pc'[u] = "unblocked" => "unblockedDueToBitSet" \in xItemValue'[u].control
             /\ place'[u] # "give" => i'[u] = 0
             /\ place'[u] \in {"reset", "give"} => uThreadNumber'[u] = 1
  <2>1. CASE u = t
    BY <1>2, <1>3, <2>1 DEF ThreadInv, WokenBySet
  <2>2. CASE u # t
    BY <1>2, <1>3, <2>2 DEF ThreadInv, WokenBySet
  <2> QED
    BY <2>1, <2>2
<1> QED
  BY <1>1, <1>2, <1>3, <1>4, <1>5 DEF ThreadInv, WokenBySet

\* Nobody's number changes, and nobody is given one.
LEMMA EarlyNumbers ==
    ASSUME RoundInv, NEW t \in Tasks, NEW here \in Early, NEW there \in Early,
           EarlyMove(t, here, there), there # "meet", here # "meet", uThreadNumber' = uThreadNumber,
           Numbered' = Numbered,
           \A u \in Tasks : place'[u] = "number" => uThreadCount' > 0
    PROVE  NumberInv'
<1>1. Meeting' = Meeting
  BY DEF EarlyMove, Meeting
<1> QED
  BY <1>1 DEF EarlyMove, RoundInv, NumberInv

\* The threads that are admitted are the same.
LEMMA EarlyCount ==
    ASSUME RoundInv, NEW t \in Tasks, NEW here, NEW there, EarlyMove(t, here, there),
           here \in {"lock", "increment", "number", "meet"} <=> there \in {"lock", "increment", "number", "meet"},
           xThreadCountSemaphore' = xThreadCountSemaphore
    PROVE  CountInv'
<1>1. Admitted' = Admitted
  BY DEF EarlyMove, Admitted
<1>2. UNCHANGED <<Serials, i>>
  BY DEF EarlyMove
<1>3. CountInv
  BY DEF RoundInv, EarlyMove
<1> QED
  BY <1>1, <1>2, <1>3 DEF CountInv

\* A thread calls.
LEMMA ArrivesKeeps ==
    ASSUME RoundInv, NEW t \in Tasks, pthread_barrier_wait(t)
    PROVE  RoundInv' /\ UNCHANGED Rounds!vars
<1>1. EarlyMove(t, "outside", "take")
  BY EarlySteps DEF pthread_barrier_wait, Early, RoundInv, RoundType
<1>2. UNCHANGED <<uThreadCount, xThreadCountSemaphore, xThreadCountMutex, uThreadNumber>>
  BY DEF pthread_barrier_wait
<1>3. RoundType' /\ ThreadInv'
  <2>1. \A u \in Tasks : xThreadCountMutex' = u <=> place'[u] \in {"increment", "number"}
    BY <1>1, <1>2 DEF RoundInv, ThreadInv, EarlyMove
  <2> QED
    BY <1>1, <1>2, <2>1, EarlyThreads DEF Early, RoundInv, RoundType
<1>4. NumberInv'
  <2>1. \A u \in Tasks : place'[u] = "number" <=> place[u] = "number"
    BY <1>1 DEF EarlyMove
  <2>2. Numbered' = Numbered
    BY <1>2, <2>1 DEF Numbered
  <2>3. \A u \in Tasks : place'[u] = "number" => uThreadCount' > 0
    BY <1>1, <1>2, <2>1 DEF RoundInv, NumberInv, EarlyMove
  <2> QED
    BY <1>1, <1>2, <2>2, <2>3, EarlyNumbers DEF Early
<1>5. CountInv'
  BY <1>1, <1>2, EarlyCount
<1> QED
  BY <1>1, <1>3, <1>4, <1>5 DEF RoundInv, EarlyMove

\* A thread is admitted.
LEMMA TakesSemaphoreKeeps ==
    ASSUME RoundInv, NEW t \in Tasks, TakesSemaphore(t)
    PROVE  RoundInv' /\ UNCHANGED Rounds!vars
<1>1. EarlyMove(t, "take", "lock")
  BY EarlySteps DEF TakesSemaphore, Early, RoundInv, RoundType
<1>2. /\ UNCHANGED <<uThreadCount, xThreadCountMutex, uThreadNumber>>
      /\ xThreadCountSemaphore > 0 /\ xThreadCountSemaphore' = xThreadCountSemaphore - 1
      /\ xThreadCountSemaphore \in Nat
  BY DEF TakesSemaphore, RoundInv, RoundType
<1>3. RoundType' /\ ThreadInv'
  <2>1. \A u \in Tasks : xThreadCountMutex' = u <=> place'[u] \in {"increment", "number"}
    BY <1>1, <1>2 DEF RoundInv, ThreadInv, EarlyMove
  <2>2. xThreadCountSemaphore' \in Nat
    BY <1>2
  <2> QED
    BY <1>1, <1>2, <2>1, <2>2, EarlyThreads DEF Early, RoundInv, RoundType
<1>4. NumberInv'
  <2>1. \A u \in Tasks : place'[u] = "number" <=> place[u] = "number"
    BY <1>1 DEF EarlyMove
  <2>2. Numbered' = Numbered
    BY <1>2, <2>1 DEF Numbered
  <2>3. \A u \in Tasks : place'[u] = "number" => uThreadCount' > 0
    BY <1>1, <1>2, <2>1 DEF RoundInv, NumberInv, EarlyMove
  <2> QED
    BY <1>1, <1>2, <2>2, <2>3, EarlyNumbers DEF Early
<1>5. CountInv'
  <2>1. t \notin Admitted /\ Admitted' = Admitted \cup {t}
    BY <1>1 DEF EarlyMove, Admitted
  <2>2. CountInv /\ UNCHANGED <<Serials, i>>
    BY <1>1 DEF RoundInv, EarlyMove
  <2>3. IsFiniteSet(Admitted') /\ Cardinality(Admitted') = Cardinality(Admitted) + 1
        /\ Cardinality(Admitted) \in Nat
    BY <2>1, <2>2, FS_AddElement, FS_CardinalityType DEF CountInv
  <2>4. Cardinality(Admitted') + xThreadCountSemaphore' = Cardinality(Admitted) + xThreadCountSemaphore
    <3>1. PICK n \in Nat : n = Cardinality(Admitted) /\ Cardinality(Admitted') = n + 1
      BY <2>3
    <3>2. PICK m \in Nat : m = xThreadCountSemaphore /\ m > 0 /\ xThreadCountSemaphore' = m - 1
      BY <1>2
    <3>3. (n + 1) + (m - 1) = n + m
      BY <3>2
    <3> QED
      BY <3>1, <3>2, <3>3
  <2> QED
    BY <2>2, <2>3, <2>4 DEF CountInv
<1> QED
  BY <1>1, <1>3, <1>4, <1>5 DEF RoundInv, EarlyMove

\* A thread takes the mutex.
LEMMA LocksCountKeeps ==
    ASSUME RoundInv, NEW t \in Tasks, LocksCount(t)
    PROVE  RoundInv' /\ UNCHANGED Rounds!vars
<1>1. EarlyMove(t, "lock", "increment")
  BY EarlySteps DEF LocksCount, Early, RoundInv, RoundType
<1>2. /\ UNCHANGED <<uThreadCount, xThreadCountSemaphore, uThreadNumber>>
      /\ xThreadCountMutex = NoTask /\ xThreadCountMutex' = t
  BY DEF LocksCount
<1>3. RoundType' /\ ThreadInv'
  <2>1. \A u \in Tasks : xThreadCountMutex' = u <=> place'[u] \in {"increment", "number"}
    BY <1>1, <1>2, ThresholdAssumption DEF RoundInv, ThreadInv, EarlyMove
  <2> QED
    BY <1>1, <1>2, <2>1, EarlyThreads DEF Early, RoundInv, RoundType
<1>4. NumberInv'
  <2>1. \A u \in Tasks : place'[u] = "number" <=> place[u] = "number"
    BY <1>1 DEF EarlyMove
  <2>2. Numbered' = Numbered
    BY <1>2, <2>1 DEF Numbered
  <2>3. \A u \in Tasks : place'[u] = "number" => uThreadCount' > 0
    BY <1>1, <1>2, <2>1 DEF RoundInv, NumberInv, EarlyMove
  <2> QED
    BY <1>1, <1>2, <2>2, <2>3, EarlyNumbers DEF Early
<1>5. CountInv'
  BY <1>1, <1>2, EarlyCount
<1> QED
  BY <1>1, <1>3, <1>4, <1>5 DEF RoundInv, EarlyMove

\* A thread is counted, before it reads its number.
LEMMA IncrementsCountKeeps ==
    ASSUME RoundInv, NEW t \in Tasks, IncrementsCount(t)
    PROVE  RoundInv' /\ UNCHANGED Rounds!vars
<1>1. EarlyMove(t, "increment", "number")
  BY EarlySteps DEF IncrementsCount, Early, RoundInv, RoundType
<1>2. /\ UNCHANGED <<xThreadCountMutex, xThreadCountSemaphore, uThreadNumber>>
      /\ uThreadCount' = uThreadCount + 1 /\ uThreadCount \in Nat
  BY DEF IncrementsCount, RoundInv, RoundType
<1>3. RoundType' /\ ThreadInv'
  <2>1. \A u \in Tasks : xThreadCountMutex' = u <=> place'[u] \in {"increment", "number"}
    BY <1>1, <1>2 DEF RoundInv, ThreadInv, EarlyMove
  <2>2. uThreadCount' \in Nat
    BY <1>2
  <2> QED
    BY <1>1, <1>2, <2>1, <2>2, EarlyThreads DEF Early, RoundInv, RoundType
<1>4. NumberInv'
  <2>1. ASSUME NEW u \in Tasks PROVE place[u] # "number"
    BY <1>1 DEF RoundInv, ThreadInv, EarlyMove
  <2>2. Numbered = uThreadCount
    BY <2>1 DEF Numbered
  <2>3. Numbered' = uThreadCount' - 1
    BY <1>1 DEF Numbered, EarlyMove
  <2>4. Numbered' = Numbered /\ uThreadCount' > 0
    BY <1>2, <2>2, <2>3
  <2> QED
    BY <1>1, <1>2, <2>4, EarlyNumbers DEF Early
<1>5. CountInv'
  BY <1>1, <1>2, EarlyCount
<1> QED
  BY <1>1, <1>3, <1>4, <1>5 DEF RoundInv, EarlyMove

\* A thread reads its number, the next of the round, and gives the mutex.
LEMMA TakesNumberKeeps ==
    ASSUME RoundInv, NEW t \in Tasks, TakesNumber(t)
    PROVE  RoundInv' /\ UNCHANGED Rounds!vars
<1>1. /\ UNCHANGED <<uThreadCount, xThreadCountSemaphore>> /\ xThreadCountMutex' = NoTask
      /\ uThreadNumber' \in [Tasks -> Nat] /\ uThreadNumber'[t] = uThreadCount
      /\ \A u \in Tasks \ {t} : uThreadNumber'[u] = uThreadNumber[u]
  BY DEF TakesNumber, RoundInv, RoundType
<1>2. EarlyMove(t, "number", "meet")
  <2>1. From(t, "number", "meet") /\ UNCHANGED <<events, i>>
    BY DEF TakesNumber
  <2> QED
    BY <1>1, <2>1, EarlySteps DEF Early
<1>3. RoundType' /\ ThreadInv'
  <2>1. \A u \in Tasks : xThreadCountMutex' = u <=> place'[u] \in {"increment", "number"}
    BY <1>1, <1>2, ThresholdAssumption DEF RoundInv, ThreadInv, EarlyMove
  <2> QED
    BY <1>1, <1>2, <2>1, EarlyThreads DEF Early, RoundInv, RoundType
<1>4. NumberInv'
  <2>1. \A u \in Tasks : place[u] = "number" <=> u = t
    BY <1>2 DEF RoundInv, ThreadInv, EarlyMove
  <2>2. \A u \in Tasks : place'[u] # "number"
    BY <1>2, <2>1 DEF EarlyMove
  <2>3. Numbered = uThreadCount - 1 /\ Numbered' = uThreadCount' /\ uThreadCount > 0
        /\ uThreadCount \in Nat
    <3>1. Numbered = uThreadCount - 1 /\ Numbered' = uThreadCount'
      BY <2>1, <2>2 DEF Numbered
    <3>2. uThreadCount > 0
      BY <1>2, <2>1 DEF RoundInv, NumberInv, EarlyMove
    <3> QED
      BY <3>1, <3>2 DEF RoundInv, RoundType
  <2>4. ~Resetting /\ ~Resetting' /\ Meeting' = Meeting \cup {t} /\ t \notin Meeting
    <3>1. t \in Admitted
      BY <1>2 DEF EarlyMove, Admitted
    <3>2. ~Resetting
      BY <1>2, <3>1, NumbersCount DEF EarlyMove
    <3> QED
      BY <1>2, <3>2 DEF EarlyMove, Meeting
  <2>5. \A u \in Meeting : uThreadNumber'[u] = uThreadNumber[u] /\ uThreadNumber[u] \in 1..Numbered
    BY <1>1, <1>2, <2>4, NumbersCount DEF EarlyMove, Meeting, Waiting
  <2>6. \A u \in Meeting : uThreadNumber'[u] # uThreadNumber'[t]
    BY <1>1, <2>3, <2>5
  <2>7. \A u, v \in Meeting' : uThreadNumber'[u] = uThreadNumber'[v] => u = v
    BY <1>2, <2>4, <2>5, <2>6 DEF RoundInv, NumberInv, EarlyMove
  <2>8. {uThreadNumber'[u] : u \in Meeting'} = 1..Numbered'
    <3>1. {uThreadNumber'[u] : u \in Meeting'} = {uThreadNumber[u] : u \in Meeting} \cup {uThreadCount}
      BY <1>1, <2>4, <2>5
    <3>2. {uThreadNumber[u] : u \in Meeting} = 1..(uThreadCount - 1)
      BY <1>2, <2>3, <2>4 DEF RoundInv, NumberInv, EarlyMove
    <3>3. 1..(uThreadCount - 1) \cup {uThreadCount} = 1..uThreadCount
      BY <2>3
    <3> QED
      BY <1>1, <2>3, <3>1, <3>2, <3>3
  <2> QED
    BY <2>2, <2>7, <2>8 DEF NumberInv
<1>5. CountInv'
  BY <1>1, <1>2, EarlyCount
<1> QED
  BY <1>2, <1>3, <1>4, <1>5 DEF RoundInv, EarlyMove

\* Who waits in the event group is who waits at the barrier.
LEMMA WaitersWait ==
    ASSUME IInv, RoundInv, user = "barrier"
    PROVE  xTasksWaitingForBits = Waiting
<1>1. \A t \in Tasks : pc[t] = "blocked" => place[t] = "met"
  BY DEF RoundInv, ThreadInv
<1> QED
  BY <1>1 DEF IInv, WaitingInv, Waiting

\* Setting bits under a barrier wakes everybody or nobody.
LEMMA WakesAllOrNone ==
    ASSUME IInv, RoundInv, user = "barrier", NEW bits
    PROVE  /\ Matched(bits) = IF 1..uThreshold \subseteq bits THEN Waiting ELSE {}
           /\ uxBitsToClear(bits) = IF Matched(bits) = {} THEN {} ELSE 1..uThreshold
<1>1. Matched(bits) = {t \in Waiting : prvTestWaitCondition(bits, call[t])}
  BY WaitersWait, MatchedTasks DEF IInv
<1>2. \A t \in Waiting : call[t] = [bits |-> 1..uThreshold, clear |-> TRUE, all |-> TRUE]
  BY DEF Waiting, RoundInv, ThreadInv
<1>3. \A t \in Waiting : prvTestWaitCondition(bits, call[t]) <=> 1..uThreshold \subseteq bits
  <2> SUFFICES ASSUME NEW t \in Waiting
               PROVE  prvTestWaitCondition(bits, call[t]) <=> 1..uThreshold \subseteq bits
    OBVIOUS
  <2>1. call[t].bits = 1..uThreshold /\ call[t].all
    BY <1>2
  <2> QED
    BY <2>1 DEF prvTestWaitCondition
<1>4. Matched(bits) = IF 1..uThreshold \subseteq bits THEN Waiting ELSE {}
  BY <1>1, <1>3
<1>5. ASSUME NEW t \in Matched(bits)
      PROVE  Waited(t).bits = 1..uThreshold /\ Waited(t).clear
  <2>1. t \in Waiting /\ t \in Tasks /\ xItemValue[t] = ItemFor(call[t])
    BY <1>1, WaitersWait DEF Waiting, IInv, WaitingInv
  <2>2. call[t].bits = 1..uThreshold /\ call[t].clear
    BY <1>2, <2>1
  <2>3. xItemValue[t].bits = 1..uThreshold
    BY <2>1, <2>2 DEF ItemFor
  <2>4. "clearOnExit" \in xItemValue[t].control
    BY <2>1, <2>2 DEF ItemFor, Controls
  <2> QED
    BY <2>3, <2>4 DEF Waited
<1>6. uxBitsToClear(bits) = IF Matched(bits) = {} THEN {} ELSE 1..uThreshold
  <2>1. uxBitsToClear(bits) = UNION {Waited(t).bits : t \in Matched(bits)}
    BY <1>5 DEF uxBitsToClear
  <2> QED
    BY <1>5, <2>1
<1> QED
  BY <1>4, <1>6

\* A thread that is not the last to arrive waits, and nobody is woken.
LEMMA MeetsAndWaits ==
    ASSUME IInv, RoundInv, NEW t \in Tasks, Meets(t), Cardinality(Waiting) + 1 # uThreshold
    PROVE  /\ uxEventBits' = uxEventBits \cup {uThreadNumber[t]}
           /\ pc'[t] = "blocked"
           /\ call'[t] = [bits |-> 1..uThreshold, clear |-> TRUE, all |-> TRUE]
           /\ \A u \in Tasks \ {t} :
                 pc'[u] = pc[u] /\ call'[u] = call[u] /\ xItemValue'[u] = xItemValue[u]
           /\ UNCHANGED deleted
<1> DEFINE bits == uxEventBits \cup {uThreadNumber[t]}
<1>1. user = "barrier" /\ place[t] = "meet"
  BY DEF Meets, From
<1>2. ~(1..uThreshold \subseteq bits)
  BY <1>1, Arrivals
<1>3. Matched(bits) = {} /\ uxBitsToClear(bits) = {}
  BY <1>1, <1>2, WakesAllOrNone
<1> HIDE DEF bits
<1>4. /\ uxEventBits' = bits
      /\ pc' = [Unblocked(Matched(bits)) EXCEPT ![t] = "blocked"]
      /\ xItemValue' = [ItemsAfter(Matched(bits), bits) EXCEPT
                           ![t] = ItemFor([bits |-> 1..uThreshold, clear |-> TRUE, all |-> TRUE])]
      /\ call' = [call EXCEPT ![t] = [bits |-> 1..uThreshold, clear |-> TRUE, all |-> TRUE]]
      /\ UNCHANGED deleted
  BY <1>2, <1>3 DEF Meets, xEventGroupSync, Asks, bits
<1>5. /\ pc'[t] = "blocked"
      /\ \A u \in Tasks \ {t} : pc'[u] = pc[u] /\ xItemValue'[u] = xItemValue[u]
  BY <1>3, <1>4 DEF Unblocked, ItemsAfter
<1>6. /\ call'[t] = [bits |-> 1..uThreshold, clear |-> TRUE, all |-> TRUE]
      /\ \A u \in Tasks \ {t} : call'[u] = call[u]
  BY <1>4 DEF IInv, CallInv
<1> QED
  BY <1>4, <1>5, <1>6 DEF bits

\* The last to arrive wakes everybody, goes on itself, and leaves no bits.
LEMMA MeetsAsLast ==
    ASSUME IInv, RoundInv, NEW t \in Tasks, Meets(t), Cardinality(Waiting) + 1 = uThreshold
    PROVE  /\ uxEventBits' = {}
           /\ pc'[t] = "returned"
           /\ \A u \in Waiting : pc'[u] = "unblocked" /\ "unblockedDueToBitSet" \in xItemValue'[u].control
           /\ \A u \in Tasks \ (Waiting \cup {t}) :
                 pc'[u] = pc[u] /\ call'[u] = call[u] /\ xItemValue'[u] = xItemValue[u]
           /\ UNCHANGED deleted
<1> DEFINE bits == uxEventBits \cup {uThreadNumber[t]}
<1>1. user = "barrier" /\ place[t] = "meet"
  BY DEF Meets, From
<1>2. bits = 1..uThreshold /\ t \notin Waiting
  BY <1>1, Arrivals
<1>3. Matched(bits) = Waiting
  BY <1>1, <1>2, WakesAllOrNone
<1> HIDE DEF bits
<1>4. /\ uxEventBits' = (bits \ uxBitsToClear(bits)) \ (1..uThreshold)
      /\ pc' = [Unblocked(Matched(bits)) EXCEPT ![t] = "returned"]
      /\ xItemValue' = [ItemsAfter(Matched(bits), bits) EXCEPT ![t] = @]
      /\ call' = [call EXCEPT ![t] = [bits |-> 1..uThreshold, clear |-> TRUE, all |-> TRUE]]
      /\ UNCHANGED deleted
  BY <1>2 DEF Meets, xEventGroupSync, Asks, bits
<1>5. /\ pc'[t] = "returned"
      /\ \A u \in Waiting : pc'[u] = "unblocked" /\ xItemValue'[u].control = {"unblockedDueToBitSet"}
      /\ \A u \in Tasks \ (Waiting \cup {t}) : pc'[u] = pc[u] /\ xItemValue'[u] = xItemValue[u]
  BY <1>2, <1>3, <1>4 DEF Unblocked, ItemsAfter, Waiting
<1>6. \A u \in Tasks \ (Waiting \cup {t}) : call'[u] = call[u]
  BY <1>4 DEF IInv, CallInv
<1> QED
  BY <1>2, <1>4, <1>5, <1>6

\* What a thread that meets the others leaves alone.
LEMMA MeetsMoves ==
    ASSUME RoundInv, NEW t \in Tasks, Meets(t)
    PROVE  /\ user = "barrier" /\ user' = user /\ place[t] = "meet" /\ place'[t] = "met"
           /\ \A u \in Tasks \ {t} : place'[u] = place[u]
           /\ place' \in [Tasks -> Places]
           /\ UNCHANGED <<uThreadCount, xThreadCountSemaphore, xThreadCountMutex, uThreadNumber, i>>
           /\ RoundType' /\ Numbered' = Numbered
<1>1. /\ user = "barrier" /\ user' = user /\ place[t] = "meet" /\ place'[t] = "met"
      /\ \A u \in Tasks \ {t} : place'[u] = place[u]
      /\ place' \in [Tasks -> Places]
      /\ UNCHANGED <<uThreadCount, xThreadCountSemaphore, xThreadCountMutex, uThreadNumber, i>>
  BY DEF Meets, From, RoundInv, RoundType, Places
<1>2. RoundType'
  BY <1>1 DEF RoundInv, RoundType
<1>3. \A u \in Tasks : place'[u] = "number" <=> place[u] = "number"
  BY <1>1
<1> QED
  BY <1>1, <1>2, <1>3 DEF Numbered

\* A thread waits for others of its round.
LEMMA WaitsKeeps ==
    ASSUME IInv, RoundInv, NEW t \in Tasks, Meets(t), Cardinality(Waiting) + 1 # uThreshold
    PROVE  RoundInv' /\ Rounds!Arrive(t)
<1>1. /\ uxEventBits' = uxEventBits \cup {uThreadNumber[t]} /\ pc'[t] = "blocked"
      /\ call'[t] = [bits |-> 1..uThreshold, clear |-> TRUE, all |-> TRUE]
      /\ \A u \in Tasks \ {t} :
            pc'[u] = pc[u] /\ call'[u] = call[u] /\ xItemValue'[u] = xItemValue[u]
      /\ UNCHANGED deleted
  BY MeetsAndWaits
<1>2. /\ user = "barrier" /\ user' = user /\ place[t] = "meet" /\ place'[t] = "met"
      /\ \A u \in Tasks \ {t} : place'[u] = place[u]
      /\ UNCHANGED <<uThreadCount, xThreadCountSemaphore, xThreadCountMutex, uThreadNumber, i>>
      /\ RoundType' /\ Numbered' = Numbered
  BY MeetsMoves
<1>3. /\ t \notin Waiting /\ t \notin Through /\ Cardinality(Waiting) + 1 \in 1..uThreshold
      /\ ThreadInv /\ NumberInv /\ CountInv
  BY <1>2, Arrivals DEF RoundInv
<1>4. Waiting' = Waiting \cup {t} /\ Through' = Through
  BY <1>1, <1>2, <1>3 DEF Waiting, Through
<1>5. Serials' = Serials /\ (Resetting' <=> Resetting)
  <2>1. Serials' = Serials
    BY <1>2, <1>4 DEF Serials
  <2>2. \A s \in Serials : place'[s] = place[s]
    BY <1>2, <1>3 DEF Serials, Through
  <2> QED
    BY <2>1, <2>2 DEF Resetting
<1>6. Admitted' = Admitted /\ Meeting' = Meeting
  BY <1>2, <1>4 DEF Admitted, Meeting
<1>7. ThreadInv'
  <2>1. uxEventBits' = {uThreadNumber'[u] : u \in Waiting'}
    BY <1>1, <1>2, <1>3, <1>4 DEF ThreadInv
  <2>2. ASSUME NEW u \in Tasks
        PROVE  /\ pc'[u] # "idle" <=> place'[u] = "met"
               /\ pc'[u] = "blocked" => call'[u] = [bits |-> 1..uThreshold, clear |-> TRUE, all |-> TRUE]
               /\ pc'[u] = "unblocked" => "unblockedDueToBitSet" \in xItemValue'[u].control
               /\ xThreadCountMutex' = u <=> place'[u] \in {"increment", "number"}
               /\ place'[u] # "give" => i'[u] = 0
               /\ place'[u] \in {"reset", "give"} => uThreadNumber'[u] = 1
    <3>1. CASE u = t
      BY <1>1, <1>2, <1>3, <3>1 DEF ThreadInv
    <3>2. CASE u # t
      BY <1>1, <1>2, <1>3, <3>2 DEF ThreadInv, WokenBySet
    <3> QED
      BY <3>1, <3>2
  <2> QED
    BY <1>1, <1>3, <2>1, <2>2 DEF ThreadInv, WokenBySet
<1>8. NumberInv'
  BY <1>2, <1>3, <1>5, <1>6 DEF NumberInv
<1>9. CountInv'
  BY <1>2, <1>3, <1>5, <1>6 DEF CountInv
<1>10. Rounds!Arrive(t)
  <2>1. Cardinality(Waiting) + 1 < uThreshold
    BY <1>3, ThresholdAssumption
  <2>2. {u \in Through' : uThreadNumber'[u] = 1} = {u \in Through : uThreadNumber[u] = 1}
    BY <1>2, <1>4
  <2> QED
    BY <1>3, <1>4, <2>1, <2>2, SameCardinality DEF Rounds!Arrive
<1> QED
  BY <1>2, <1>7, <1>8, <1>9, <1>10 DEF RoundInv

\* The last of a round arrives.
LEMMA OpensKeeps ==
    ASSUME IInv, RoundInv, NEW t \in Tasks, Meets(t), Cardinality(Waiting) + 1 = uThreshold
    PROVE  RoundInv' /\ Rounds!Open(t)
<1>1. /\ uxEventBits' = {} /\ pc'[t] = "returned"
      /\ \A u \in Waiting : pc'[u] = "unblocked" /\ "unblockedDueToBitSet" \in xItemValue'[u].control
      /\ \A u \in Tasks \ (Waiting \cup {t}) :
            pc'[u] = pc[u] /\ call'[u] = call[u] /\ xItemValue'[u] = xItemValue[u]
      /\ UNCHANGED deleted
  BY MeetsAsLast
<1>2. /\ user = "barrier" /\ user' = user /\ place[t] = "meet" /\ place'[t] = "met"
      /\ \A u \in Tasks \ {t} : place'[u] = place[u]
      /\ UNCHANGED <<uThreadCount, xThreadCountSemaphore, xThreadCountMutex, uThreadNumber, i>>
      /\ RoundType' /\ Numbered' = Numbered
  BY MeetsMoves
<1>3. /\ t \notin Waiting /\ t \notin Through
      /\ Admitted = Waiting \cup {t} /\ Serials = {} /\ xThreadCountSemaphore = 0
      /\ 1..uThreshold = uxEventBits \cup {uThreadNumber[t]}
      /\ ThreadInv /\ NumberInv /\ CountInv /\ ~Resetting
  BY <1>2, Arrivals DEF RoundInv
<1>4. Waiting' = {} /\ Through' = Through \cup Waiting \cup {t} /\ Waiting \subseteq Tasks
  BY <1>1, <1>2, <1>3 DEF Waiting, Through
<1>5. PICK s \in Waiting \cup {t} : uThreadNumber[s] = 1
  <2>1. 1 \in 1..uThreshold
    BY ThresholdAssumption
  <2>2. 1 \in {uThreadNumber[u] : u \in Waiting} \cup {uThreadNumber[t]}
    BY <1>3, <2>1 DEF ThreadInv
  <2> QED
    BY <2>2
<1>6. Serials' = {s} /\ s \in Tasks
  <2>1. Waiting \cup {t} \subseteq Meeting
    BY <1>2 DEF Meeting
  <2>2. \A u \in Waiting \cup {t} : uThreadNumber[u] = 1 => u = s
    BY <1>3, <1>5, <2>1 DEF NumberInv
  <2>3. \A u \in Through : uThreadNumber[u] # 1
    BY <1>3 DEF Serials
  <2>4. Serials' = {u \in Through \cup Waiting \cup {t} : uThreadNumber[u] = 1}
    BY <1>2, <1>4 DEF Serials
  <2>5. Serials' = {s}
    BY <1>5, <2>2, <2>3, <2>4
  <2> QED
    BY <1>4, <1>5, <2>5
<1>7. Admitted' = {} /\ Meeting' = {}
  <2>1. \A u \in Tasks : place[u] \in {"lock", "increment", "number", "meet"} => u = t
    BY <1>3 DEF Admitted, Waiting
  <2> QED
    BY <1>2, <1>4, <2>1 DEF Admitted, Meeting
<1>8. ThreadInv'
  <2>1. uxEventBits' = {uThreadNumber'[u] : u \in Waiting'}
    BY <1>1, <1>4
  <2>2. ASSUME NEW u \in Tasks
        PROVE  /\ pc'[u] # "idle" <=> place'[u] = "met"
               /\ pc'[u] # "blocked" \/ call'[u] = [bits |-> 1..uThreshold, clear |-> TRUE, all |-> TRUE]
               /\ pc'[u] = "unblocked" => "unblockedDueToBitSet" \in xItemValue'[u].control
               /\ xThreadCountMutex' = u <=> place'[u] \in {"increment", "number"}
               /\ place'[u] # "give" => i'[u] = 0
               /\ place'[u] \in {"reset", "give"} => uThreadNumber'[u] = 1
    <3>1. CASE u = t
      BY <1>1, <1>2, <1>3, <3>1 DEF ThreadInv
    <3>2. CASE u \in Waiting
      BY <1>1, <1>2, <1>3, <3>2 DEF ThreadInv, Waiting
    <3>3. CASE u \notin Waiting \cup {t}
      <4>1. pc'[u] = pc[u] /\ call'[u] = call[u] /\ xItemValue'[u] = xItemValue[u] /\ place'[u] = place[u]
        BY <1>1, <1>2, <3>3
      <4> QED
        BY <1>2, <1>3, <4>1 DEF ThreadInv, WokenBySet
    <3> QED
      BY <3>1, <3>2, <3>3
  <2> QED
    BY <1>1, <1>3, <2>1, <2>2 DEF ThreadInv, WokenBySet
<1>9. NumberInv'
  <2>1. place'[s] # "give"
    BY <1>2, <1>5 DEF Waiting
  <2>2. Resetting'
    BY <1>6, <2>1 DEF Resetting
  <2>3. \A u \in Tasks : place'[u] # "number"
    BY <1>7 DEF Admitted
  <2> QED
    BY <1>7, <2>2, <2>3 DEF NumberInv
<1>10. CountInv'
  <2>1. place[s] # "give" /\ i'[s] = i[s]
    BY <1>2, <1>5 DEF Waiting
  <2>2. i'[s] = 0
    BY <1>3, <1>6, <2>1 DEF ThreadInv
  <2>3. IsFiniteSet(Admitted') /\ Cardinality(Admitted') = 0 /\ xThreadCountSemaphore' = 0
    BY <1>2, <1>3, <1>7, FS_EmptySet
  <2> QED
    BY <1>6, <2>2, <2>3 DEF CountInv
<1>11. Rounds!Open(t)
  <2>1. {u \in Through' : uThreadNumber'[u] = 1} = {u \in Through : uThreadNumber[u] = 1} \cup {s}
    BY <1>3, <1>6 DEF Serials
  <2> QED
    BY <1>3, <1>4, <1>5, <2>1, SameCardinality DEF Rounds!Open
<1> QED
  BY <1>2, <1>8, <1>9, <1>10, <1>11 DEF RoundInv

\* A woken thread goes on with the bits it was woken with, and clears none.
LEMMA GoesOnKeeps ==
    ASSUME IInv, RoundInv, NEW t \in Tasks, GoesOn(t)
    PROVE  RoundInv' /\ UNCHANGED Rounds!vars
<1>1. /\ place[t] = "met" /\ pc[t] = "unblocked"
      /\ UNCHANGED <<user, uThreadCount, xThreadCountSemaphore, xThreadCountMutex, place, uThreadNumber, i>>
      /\ UNCHANGED <<deleted, call>>
  BY DEF GoesOn, Resumes, barrier
<1>2. user = "barrier" /\ ThreadInv /\ NumberInv /\ CountInv
  BY <1>1 DEF RoundInv, RoundType
<1>3. UNCHANGED uxEventBits /\ pc' = [pc EXCEPT ![t] = "returned"]
      /\ xItemValue' = [xItemValue EXCEPT ![t] = NoItem]
  BY <1>1, <1>2 DEF GoesOn, Resumes, Ends, ThreadInv
<1>4. /\ pc'[t] = "returned"
      /\ \A u \in Tasks \ {t} : pc'[u] = pc[u] /\ xItemValue'[u] = xItemValue[u]
  BY <1>3 DEF IInv, CallInv
<1>5. Waiting' = Waiting /\ Through' = Through
  BY <1>1, <1>4 DEF Waiting, Through
<1>6. UNCHANGED <<Serials, Admitted, Meeting, Numbered>> /\ (Resetting' <=> Resetting)
  BY <1>1, <1>5 DEF Serials, Admitted, Meeting, Numbered, Resetting
<1>7. RoundType' /\ NumberInv' /\ CountInv'
  BY <1>1, <1>2, <1>6 DEF RoundInv, RoundType, NumberInv, CountInv
<1>8. ThreadInv'
  <2>1. uxEventBits' = {uThreadNumber'[u] : u \in Waiting'}
    BY <1>1, <1>2, <1>3, <1>5 DEF ThreadInv
  <2>2. ASSUME NEW u \in Tasks
        PROVE  /\ pc'[u] # "idle" <=> place'[u] = "met"
               /\ pc'[u] = "blocked" => call'[u] = [bits |-> 1..uThreshold, clear |-> TRUE, all |-> TRUE]
               /\ pc'[u] = "unblocked" => "unblockedDueToBitSet" \in xItemValue'[u].control
               /\ xThreadCountMutex' = u <=> place'[u] \in {"increment", "number"}
               /\ place'[u] # "give" => i'[u] = 0
               /\ place'[u] \in {"reset", "give"} => uThreadNumber'[u] = 1
    BY <1>1, <1>2, <1>4 DEF ThreadInv, WokenBySet
  <2> QED
    BY <1>1, <1>2, <2>1, <2>2 DEF ThreadInv, WokenBySet
<1>9. UNCHANGED Rounds!vars
  BY <1>1, <1>5 DEF Rounds!vars
<1> QED
  BY <1>7, <1>8, <1>9 DEF RoundInv

\* A thread that has met the others: the serial thread stays, the others leave.
LEMMA HasMetKeeps ==
    ASSUME IInv, RoundInv, NEW t \in Tasks, HasMet(t)
    PROVE  RoundInv' /\ (Rounds!Leave(t) \/ UNCHANGED Rounds!vars)
<1> DEFINE there == IF uThreadNumber[t] = 1 THEN "reset" ELSE "outside"
<1>1. /\ user = "barrier" /\ place[t] = "met" /\ pc[t] = "returned"
      /\ UNCHANGED <<user, uThreadCount, xThreadCountSemaphore, xThreadCountMutex, i>>
      /\ UNCHANGED <<deleted, uxEventBits, xItemValue>>
      /\ place' = [place EXCEPT ![t] = there]
      /\ pc' = [pc EXCEPT ![t] = "idle"] /\ call' = [call EXCEPT ![t] = NoCall]
      /\ uThreadNumber' = IF uThreadNumber[t] = 1 THEN uThreadNumber ELSE [uThreadNumber EXCEPT ![t] = 0]
  BY DEF HasMet, From, Returns, group
<1>2. ThreadInv /\ NumberInv /\ CountInv
  BY <1>1 DEF RoundInv
<1>3. /\ pc'[t] = "idle" /\ place'[t] = there /\ place' \in [Tasks -> Places]
      /\ uThreadNumber' \in [Tasks -> Nat]
      /\ \A u \in Tasks \ {t} : /\ pc'[u] = pc[u] /\ call'[u] = call[u]
                                /\ place'[u] = place[u] /\ uThreadNumber'[u] = uThreadNumber[u]
  BY <1>1 DEF IInv, CallInv, RoundInv, RoundType, Places
<1>4. t \notin Waiting /\ t \in Through /\ Waiting' = Waiting
  BY <1>1, <1>3 DEF Waiting, Through
<1>5. Through' = IF uThreadNumber[t] = 1 THEN Through ELSE Through \ {t}
  BY <1>1, <1>3, <1>4 DEF Through
<1>6. Serials' = Serials
  BY <1>1, <1>3, <1>5 DEF Serials
<1>7. Resetting' <=> Resetting
  BY <1>1, <1>3, <1>6 DEF Resetting
<1>8. UNCHANGED <<Admitted, Meeting>>
  BY <1>1, <1>3, <1>4 DEF Admitted, Meeting
<1>9. \A u \in Tasks : place'[u] = "number" <=> place[u] = "number"
  BY <1>1, <1>3
<1>10. Numbered' = Numbered
  BY <1>1, <1>9 DEF Numbered
<1>11. RoundType'
  BY <1>1, <1>3 DEF RoundInv, RoundType
<1>12. ThreadInv'
  <2>1. uxEventBits' = {uThreadNumber'[u] : u \in Waiting'}
    <3>1. \A u \in Waiting : uThreadNumber'[u] = uThreadNumber[u]
      BY <1>3, <1>4 DEF Waiting
    <3> QED
      BY <1>1, <1>2, <1>4, <3>1 DEF ThreadInv
  <2>2. ASSUME NEW u \in Tasks
        PROVE  /\ pc'[u] # "idle" <=> place'[u] = "met"
               /\ pc'[u] = "blocked" => call'[u] = [bits |-> 1..uThreshold, clear |-> TRUE, all |-> TRUE]
               /\ pc'[u] = "unblocked" => "unblockedDueToBitSet" \in xItemValue'[u].control
               /\ xThreadCountMutex' = u <=> place'[u] \in {"increment", "number"}
               /\ place'[u] # "give" => i'[u] = 0
               /\ place'[u] \in {"reset", "give"} => uThreadNumber'[u] = 1
    <3>1. CASE u = t
      BY <1>1, <1>2, <1>3, <3>1 DEF ThreadInv
    <3>2. CASE u # t
      <4>1. /\ pc'[u] = pc[u] /\ call'[u] = call[u] /\ xItemValue'[u] = xItemValue[u]
            /\ place'[u] = place[u] /\ uThreadNumber'[u] = uThreadNumber[u] /\ i'[u] = i[u]
            /\ xThreadCountMutex' = xThreadCountMutex
        BY <1>1, <1>3, <3>2
      <4> QED
        BY <1>2, <4>1 DEF ThreadInv, WokenBySet
    <3> QED
      BY <3>1, <3>2
  <2> QED
    BY <1>1, <1>2, <2>1, <2>2 DEF ThreadInv, WokenBySet
<1>13. NumberInv'
  <2>1. t \notin Meeting
    BY <1>1, <1>4 DEF Meeting
  <2>2. \A u \in Meeting : uThreadNumber'[u] = uThreadNumber[u]
    BY <1>3, <2>1 DEF Meeting, Waiting
  <2> QED
    BY <1>1, <1>2, <1>7, <1>8, <1>9, <1>10, <2>2 DEF NumberInv
<1>14. CountInv'
  BY <1>1, <1>2, <1>6, <1>8 DEF CountInv
<1>15. Rounds!Leave(t) \/ UNCHANGED Rounds!vars
  <2>1. {u \in Through' : uThreadNumber'[u] = 1} = {u \in Through : uThreadNumber[u] = 1}
    BY <1>6 DEF Serials
  <2>2. CASE uThreadNumber[t] = 1
    BY <1>4, <1>5, <2>1, <2>2 DEF Rounds!vars
  <2>3. CASE uThreadNumber[t] # 1
    BY <1>4, <1>5, <2>1, <2>3 DEF Rounds!Leave
  <2> QED
    BY <2>2, <2>3
<1> QED
  BY <1>1, <1>11, <1>12, <1>13, <1>14, <1>15 DEF RoundInv

\* The serial thread counts anew, while nobody is admitted.
LEMMA ResetsCountKeeps ==
    ASSUME RoundInv, NEW t \in Tasks, ResetsCount(t)
    PROVE  RoundInv' /\ UNCHANGED Rounds!vars
<1>1. /\ user = "barrier" /\ user' = user /\ place[t] = "reset"
      /\ place' = [place EXCEPT ![t] = "give"] /\ uThreadCount' = 0
      /\ UNCHANGED <<xThreadCountSemaphore, xThreadCountMutex, uThreadNumber, i, events>>
      /\ UNCHANGED <<deleted, uxEventBits, xItemValue, pc, call>>
  BY DEF ResetsCount, From, events, group, calls
<1>2. ThreadInv /\ NumberInv /\ CountInv
  BY <1>1 DEF RoundInv
<1>3. /\ place'[t] = "give" /\ place' \in [Tasks -> Places]
      /\ \A u \in Tasks \ {t} : place'[u] = place[u]
  BY <1>1 DEF RoundInv, RoundType, Places
<1>4. t \in Serials /\ Resetting
  BY <1>1, <1>2 DEF Serials, Through, Resetting, ThreadInv
<1>5. Admitted = {}
  BY <1>1, <1>4, NumbersCount
<1>6. Waiting' = Waiting /\ Through' = Through
  BY <1>1, <1>3 DEF Waiting, Through
<1>7. Serials' = Serials /\ Admitted' = {}
  BY <1>1, <1>3, <1>5, <1>6 DEF Serials, Admitted
<1>8. RoundType'
  BY <1>1, <1>3 DEF RoundInv, RoundType
<1>9. ThreadInv'
  <2>1. uxEventBits' = {uThreadNumber'[u] : u \in Waiting'}
    BY <1>1, <1>2, <1>6 DEF ThreadInv
  <2>2. ASSUME NEW u \in Tasks
        PROVE  /\ pc'[u] # "idle" <=> place'[u] = "met"
               /\ pc'[u] = "blocked" => call'[u] = [bits |-> 1..uThreshold, clear |-> TRUE, all |-> TRUE]
               /\ pc'[u] = "unblocked" => "unblockedDueToBitSet" \in xItemValue'[u].control
               /\ xThreadCountMutex' = u <=> place'[u] \in {"increment", "number"}
               /\ place'[u] # "give" => i'[u] = 0
               /\ place'[u] \in {"reset", "give"} => uThreadNumber'[u] = 1
    BY <1>1, <1>2, <1>3 DEF ThreadInv, WokenBySet
  <2> QED
    BY <1>1, <1>2, <2>1, <2>2 DEF ThreadInv, WokenBySet
<1>10. NumberInv'
  <2>1. Meeting' = {} /\ \A u \in Tasks : place'[u] # "number"
    BY <1>7 DEF Meeting, Admitted
  <2>2. Numbered' = 0
    BY <1>1, <2>1 DEF Numbered
  <2>3. {uThreadNumber'[u] : u \in Meeting'} = 1..Numbered'
    BY <2>1, <2>2
  <2> QED
    BY <2>1, <2>3 DEF NumberInv
<1>11. CountInv'
  BY <1>1, <1>2, <1>5, <1>7 DEF CountInv
<1>12. UNCHANGED Rounds!vars
  BY <1>1, <1>6 DEF Rounds!vars
<1> QED
  BY <1>1, <1>8, <1>9, <1>10, <1>11, <1>12 DEF RoundInv

\* The serial thread gives the semaphore back as often as it was taken, and leaves.
LEMMA GivesSemaphoreKeeps ==
    ASSUME RoundInv, NEW t \in Tasks, GivesSemaphore(t)
    PROVE  RoundInv' /\ (Rounds!Leave(t) \/ UNCHANGED Rounds!vars)
<1> DEFINE last == i[t] + 1 = uThreshold
<1>1. /\ user = "barrier" /\ user' = user /\ place[t] = "give"
      /\ place' = [place EXCEPT ![t] = IF last THEN "outside" ELSE "give"]
      /\ xThreadCountSemaphore' = IF xThreadCountSemaphore < uThreshold
                                  THEN xThreadCountSemaphore + 1 ELSE xThreadCountSemaphore
      /\ i' = [i EXCEPT ![t] = IF last THEN 0 ELSE i[t] + 1]
      /\ uThreadNumber' = [uThreadNumber EXCEPT ![t] = IF last THEN 0 ELSE @]
      /\ UNCHANGED <<uThreadCount, xThreadCountMutex, events>>
      /\ UNCHANGED <<deleted, uxEventBits, xItemValue, pc, call>>
  BY DEF GivesSemaphore, NextGive, LastGive, From, events, group, calls
<1>2. ThreadInv /\ NumberInv /\ CountInv
  BY <1>1 DEF RoundInv
<1>3. uThreshold \in Nat \ {0} /\ i[t] \in 0..uThreshold - 1 /\ xThreadCountSemaphore \in Nat
  BY ThresholdAssumption DEF RoundInv, RoundType
<1>4. /\ place'[t] = (IF last THEN "outside" ELSE "give") /\ place' \in [Tasks -> Places]
      /\ i'[t] = (IF last THEN 0 ELSE i[t] + 1) /\ i' \in [Tasks -> 0..uThreshold - 1]
      /\ uThreadNumber'[t] = (IF last THEN 0 ELSE uThreadNumber[t])
      /\ uThreadNumber' \in [Tasks -> Nat]
      /\ \A u \in Tasks \ {t} : /\ place'[u] = place[u] /\ uThreadNumber'[u] = uThreadNumber[u]
                                /\ i'[u] = i[u]
  <2>1. (IF last THEN 0 ELSE i[t] + 1) \in 0..uThreshold - 1
    BY <1>3
  <2> HIDE DEF last
  <2> QED
    BY <1>1, <2>1 DEF RoundInv, RoundType, Places
<1> HIDE DEF last
<1>5. t \in Serials /\ uThreadNumber[t] = 1 /\ t \in Through
  BY <1>1, <1>2 DEF Serials, Through, ThreadInv
<1>6. Serials = {t} /\ Cardinality(Admitted) + xThreadCountSemaphore = i[t]
  BY <1>2, <1>5 DEF CountInv
<1>7. t \notin Waiting /\ Waiting' = Waiting
  BY <1>1, <1>4 DEF Waiting
<1>8. Through' = IF last THEN Through \ {t} ELSE Through
  BY <1>1, <1>4, <1>5 DEF Through
<1>9. Serials' = IF last THEN {} ELSE {t}
  <2>1. \A u \in Through \ {t} : uThreadNumber'[u] = uThreadNumber[u] /\ uThreadNumber[u] # 1
    BY <1>4, <1>6 DEF Serials, Through
  <2> QED
    BY <1>4, <1>5, <1>8, <2>1 DEF Serials
<1>10. UNCHANGED <<Admitted, Meeting, Numbered>> /\ ~Resetting /\ ~Resetting'
  <2>1. UNCHANGED <<Admitted, Meeting>>
    BY <1>1, <1>4, <1>7 DEF Admitted, Meeting
  <2>2. \A u \in Tasks : place'[u] = "number" <=> place[u] = "number"
    BY <1>1, <1>4
  <2>3. Numbered' = Numbered
    BY <1>1, <2>2 DEF Numbered
  <2>4. ~Resetting
    BY <1>1, <1>6 DEF Resetting
  <2>5. ~Resetting'
    BY <1>4, <1>9 DEF Resetting
  <2> QED
    BY <2>1, <2>3, <2>4, <2>5
<1>11. PICK n \in Nat : n = Cardinality(Admitted)
  BY <1>2, FS_CardinalityType DEF CountInv
<1>12. xThreadCountSemaphore' = xThreadCountSemaphore + 1
  BY <1>1, <1>3, <1>6, <1>11
<1>13. RoundType'
  <2>1. xThreadCountSemaphore' \in Nat
    BY <1>3, <1>12
  <2> QED
    BY <1>1, <1>4, <2>1 DEF RoundInv, RoundType
<1>14. ThreadInv'
  <2>1. uxEventBits' = {uThreadNumber'[u] : u \in Waiting'}
    <3>1. \A u \in Waiting : uThreadNumber'[u] = uThreadNumber[u]
      BY <1>4, <1>7 DEF Waiting
    <3> QED
      BY <1>1, <1>2, <1>7, <3>1 DEF ThreadInv
  <2>2. ASSUME NEW u \in Tasks
        PROVE  /\ pc'[u] # "idle" <=> place'[u] = "met"
               /\ pc'[u] = "blocked" => call'[u] = [bits |-> 1..uThreshold, clear |-> TRUE, all |-> TRUE]
               /\ pc'[u] = "unblocked" => "unblockedDueToBitSet" \in xItemValue'[u].control
               /\ xThreadCountMutex' = u <=> place'[u] \in {"increment", "number"}
               /\ place'[u] # "give" => i'[u] = 0
               /\ place'[u] \in {"reset", "give"} => uThreadNumber'[u] = 1
    <3>1. CASE u = t
      BY <1>1, <1>2, <1>4, <1>5, <3>1 DEF ThreadInv, WokenBySet
    <3>2. CASE u # t
      <4>1. /\ place'[u] = place[u] /\ uThreadNumber'[u] = uThreadNumber[u] /\ i'[u] = i[u]
            /\ UNCHANGED <<xThreadCountMutex, pc, call, xItemValue>>
        BY <1>1, <1>4, <3>2
      <4> QED
        BY <1>2, <4>1 DEF ThreadInv, WokenBySet
    <3> QED
      BY <3>1, <3>2
  <2> QED
    BY <1>1, <1>2, <2>1, <2>2 DEF ThreadInv, WokenBySet
<1>15. NumberInv'
  <2>1. t \notin Meeting
    BY <1>1, <1>7 DEF Meeting
  <2>2. \A u \in Meeting : uThreadNumber'[u] = uThreadNumber[u]
    BY <1>4, <2>1 DEF Meeting, Waiting
  <2>3. \A u \in Tasks : place'[u] = "number" => uThreadCount' > 0
    BY <1>1, <1>2, <1>4 DEF NumberInv
  <2> QED
    BY <1>2, <1>10, <2>2, <2>3 DEF NumberInv
<1>16. CountInv'
  <2>1. Cardinality(Admitted') + xThreadCountSemaphore' = i[t] + 1
    BY <1>3, <1>6, <1>10, <1>11, <1>12
  <2>2. CASE last
    <3>1. Serials' = {} /\ i[t] + 1 = uThreshold
      BY <1>9, <2>2 DEF last
    <3> QED
      BY <1>2, <1>10, <2>1, <3>1 DEF CountInv
  <2>3. CASE ~last
    <3>1. Serials' = {t} /\ i'[t] = i[t] + 1
      BY <1>4, <1>9, <2>3
    <3> QED
      BY <1>2, <1>10, <2>1, <3>1 DEF CountInv
  <2> QED
    BY <2>2, <2>3
<1>17. Rounds!Leave(t) \/ UNCHANGED Rounds!vars
  <2>1. {u \in Through' : uThreadNumber'[u] = 1} = IF last THEN {} ELSE {t}
    BY <1>9 DEF Serials
  <2>2. {u \in Through : uThreadNumber[u] = 1} = {t}
    BY <1>6 DEF Serials
  <2>3. CASE last
    <3>1. {u \in Through' : uThreadNumber'[u] = 1} = {u \in Through : uThreadNumber[u] = 1} \ {t}
      BY <2>1, <2>2, <2>3
    <3> QED
      BY <1>5, <1>7, <1>8, <2>3, <3>1 DEF Rounds!Leave
  <2>4. CASE ~last
    BY <1>7, <1>8, <2>1, <2>2, <2>4 DEF Rounds!vars
  <2> QED
    BY <2>3, <2>4
<1> QED
  BY <1>1, <1>13, <1>14, <1>15, <1>16, <1>17 DEF RoundInv
-----------------------------------------------------------------------------
\* Where tasks use the event group directly nobody is in the barrier.
LEMMA NobodyKeeps ==
    ASSUME RoundInv, user # "barrier" \/ UNCHANGED vars, UNCHANGED <<user, barrier>>
    PROVE  RoundInv' /\ UNCHANGED Rounds!vars
<1>1. CASE user # "barrier"
  <2>1. \A t \in Tasks : place[t] = "outside" /\ place'[t] = "outside"
    BY <1>1 DEF RoundInv, RoundType, barrier
  <2>2. Waiting = {} /\ Through = {} /\ Waiting' = {} /\ Through' = {}
    BY <2>1 DEF Waiting, Through
  <2>3. RoundInv'
    BY <1>1 DEF RoundInv, RoundType, barrier
  <2>4. UNCHANGED Rounds!vars
    BY <2>2 DEF Rounds!vars
  <2> QED
    BY <2>3, <2>4
<1>2. CASE UNCHANGED vars
  <2>1. /\ UNCHANGED <<user, uThreadCount, xThreadCountSemaphore, xThreadCountMutex, place, uThreadNumber, i>>
        /\ UNCHANGED <<deleted, uxEventBits, xItemValue, pc, call>>
    BY <1>2 DEF vars, barrier, events, group, calls
  <2>2. Waiting' = Waiting /\ Through' = Through
    BY <2>1 DEF Waiting, Through
  <2>3. UNCHANGED <<Serials, Admitted, Meeting, Numbered>> /\ (Resetting' <=> Resetting)
    BY <2>1, <2>2 DEF Serials, Admitted, Meeting, Numbered, Resetting
  <2>4. RoundInv'
    <3>1. RoundType'
      BY <2>1 DEF RoundInv, RoundType
    <3>2. ThreadInv => ThreadInv'
      <4>1. uxEventBits = {uThreadNumber[t] : t \in Waiting}
               => uxEventBits' = {uThreadNumber'[t] : t \in Waiting'}
        BY <2>1, <2>2
      <4> QED
        BY <2>1, <4>1 DEF ThreadInv, WokenBySet
    <3>3. NumberInv => NumberInv'
      BY <2>1, <2>3 DEF NumberInv
    <3>4. CountInv => CountInv'
      BY <2>1, <2>3 DEF CountInv
    <3> QED
      BY <2>1, <3>1, <3>2, <3>3, <3>4 DEF RoundInv
  <2> QED
    BY <2>1, <2>2, <2>4 DEF Rounds!vars
<1> QED
  BY <1>1, <1>2

\* Every step is one of the abstract barrier, or none.
LEMMA RoundStep ==
    ASSUME IInv, RoundInv, [Next]_vars
    PROVE  RoundInv' /\ (Rounds!Next \/ UNCHANGED Rounds!vars)
<1>1. ASSUME NEW t \in Tasks, Thread(t)
      PROVE  RoundInv' /\ (Rounds!Arrive(t) \/ Rounds!Open(t) \/ Rounds!Leave(t) \/ UNCHANGED Rounds!vars)
  <2>1. CASE Meets(t)
    BY <2>1, WaitsKeeps, OpensKeeps
  <2>2. CASE ~Meets(t)
    BY <1>1, <2>2, ArrivesKeeps, TakesSemaphoreKeeps, LocksCountKeeps, IncrementsCountKeeps,
       TakesNumberKeeps, GoesOnKeeps, HasMetKeeps, ResetsCountKeeps, GivesSemaphoreKeeps DEF Thread
  <2> QED
    BY <2>1, <2>2
<1>2. CASE \E t \in Tasks : Thread(t)
  BY <1>1, <1>2 DEF Rounds!Next
<1>3. CASE user = "tasks" /\ GroupNext /\ UNCHANGED <<user, barrier>>
  BY <1>3, NobodyKeeps
<1>4. CASE UNCHANGED vars
  BY <1>4, NobodyKeeps DEF vars
<1> QED
  BY <1>2, <1>3, <1>4 DEF Next

\* No round has begun.
LEMMA RoundInit == Init => RoundInv /\ Rounds!Init
<1> SUFFICES ASSUME Init PROVE RoundInv /\ Rounds!Init
  OBVIOUS
<1>1. /\ uThreadCount = 0 /\ xThreadCountSemaphore = uThreshold /\ xThreadCountMutex = NoTask
      /\ place = [t \in Tasks |-> "outside"] /\ uThreadNumber = [t \in Tasks |-> 0]
      /\ i = [t \in Tasks |-> 0] /\ user \in {"barrier", "tasks"}
      /\ uxEventBits = {} /\ deleted = FALSE /\ pc = [t \in Tasks |-> "idle"]
      /\ uThreshold \in Nat \ {0}
  BY ThresholdAssumption DEF Init, GroupInit
<1>2. Waiting = {} /\ Through = {} /\ Serials = {} /\ Admitted = {} /\ Meeting = {}
  BY <1>1 DEF Waiting, Through, Serials, Admitted, Meeting
<1>3. RoundType
  BY <1>1 DEF RoundType, Places
<1>4. ThreadInv
  BY <1>1, <1>2, ThresholdAssumption DEF ThreadInv
<1>5. NumberInv
  <2>1. Numbered = 0
    BY <1>1 DEF Numbered
  <2>2. {uThreadNumber[t] : t \in Meeting} = 1..Numbered
    BY <1>2, <2>1
  <2> QED
    BY <1>1, <1>2, <2>2 DEF NumberInv
<1>6. CountInv
  BY <1>1, <1>2, FS_EmptySet DEF CountInv
<1>7. Rounds!Init
  BY <1>2 DEF Rounds!Init
<1> QED
  BY <1>3, <1>4, <1>5, <1>6, <1>7 DEF RoundInv

\* pthread_barrier_wait keeps its rounds apart: the semaphore admits a round at a time,
\* its threads have the numbers from 1 to the threshold, and the bits are those who wait.
THEOREM RoundInvariance == Spec => []RoundInv
<1>1. Init => RoundInv
  BY RoundInit
<1>2. IInv /\ RoundInv /\ [Next]_vars => RoundInv'
  BY RoundStep
<1> QED
  BY <1>1, <1>2, Invariance, PTL DEF Spec

\* What BarrierSpec says of the rounds, without the fairness of those who leave.
RoundsSpec == Rounds!Init /\ [][Rounds!Next]_(Rounds!vars)

\* The threads that call pthread_barrier_wait are let through together, as many as the
\* barrier counts, one of them the serial thread, for every number of threads.
THEOREM RoundsAreKept == Spec => RoundsSpec
<1>1. Init => Rounds!Init
  BY RoundInit
<1>2. IInv /\ RoundInv /\ [Next]_vars => [Rounds!Next]_(Rounds!vars)
  BY RoundStep
<1> QED
  BY <1>1, <1>2, Invariance, RoundInvariance, PTL DEF Spec, RoundsSpec

-----------------------------------------------------------------------------
(* The timers: the daemon sees every one in time, and calls each when it is due. *)

Listed == ToSet(pxCurrentTimerList) \cup ToSet(pxOverflowTimerList)

\* The lists of the daemon are sorted, and no timer is in them twice, nor while a command
\* for it is processed.
SortedInv ==
    /\ NoDuplicates(pxCurrentTimerList) /\ NoDuplicates(pxOverflowTimerList)
    /\ ToSet(pxCurrentTimerList) \cap ToSet(pxOverflowTimerList) = {}
    /\ Ascending(pxCurrentTimerList, xTimerItemValue)
    /\ Ascending(pxOverflowTimerList, xTimerItemValue)
    /\ xMessage.timer \notin Listed

\* What the daemon has found in the step it is in.
DaemonInv ==
    /\ xMessage # NoCommand => daemonAt \in {"sample", "switch", "handle"}
    /\ daemonAt \in {"sample", "handle"} => xMessage # NoCommand
    /\ daemonAt \in {"switch", "handle"} => Age(xTimeNow) <= MaxLate
    /\ daemonAt = "handle" => xLastTime = xTimeNow
    /\ daemonAt = "expired" =>
          /\ xLastTime = xTimeNow /\ pxCurrentTimerList # << >>
          /\ xNextExpireTime = xTimerItemValue[Head(pxCurrentTimerList)]
          /\ xNextExpireTime <= xTimeNow
    /\ daemonAt = "switch" /\ Listed # {} => xTimeNow <= xTickCount
    /\ daemonAt \in {"switch", "handle"} /\ Starts(xMessage) =>
          Age(xMessage.value) = ((xTimeNow - xMessage.value) % TickModulus) + Age(xTimeNow)

\* A timer in a list is due within its period from the time last sampled, and is not late
\* beyond the bound.
DueInv ==
    /\ \A t \in ToSet(pxCurrentTimerList) :
          daemonAt # "switch" => xTimerItemValue[t] - xLastTime <= xTimerPeriodInTicks[t]
    /\ \A t \in ToSet(pxOverflowTimerList) :
          xTimerItemValue[t] + TickModulus - xLastTime <= xTimerPeriodInTicks[t]
    /\ \A t \in Listed : Deadline(t) >= -MaxLate

\* Only the daemon asks for a reload.
SendingInv == sending.id # "reload"

TimersInv == TimersTypeOK /\ SortedInv /\ DaemonInv /\ DueInv /\ SendingInv

\* Where a timer is, or a command for it: 0 in a list, -1 taken, -2 in a call that waits
\* for a place, and otherwise the place in the queue.
Load(t) ==
    {k \in DOMAIN xTimerQueue : xTimerQueue[k].timer = t}
    \cup {k \in {0} : t \in Listed}
    \cup {k \in {-1} : xMessage.timer = t}
    \cup {k \in {-2} : sending.timer = t}

AtMostTwo(S) == \A k, l, n \in S : k = l \/ l = n \/ k = n

LoadInv == \A t \in Timer : AtMostTwo(Load(t))

LEMMA TurnFacts ==
    /\ TickModulus \in Nat \ {0} /\ MaxLate \in Nat /\ Periods \subseteq Nat \ {0}
    /\ \A p \in Periods : p + MaxLate < TickModulus
    /\ NoTimer \notin Timer /\ QueueLength \in Nat \ {0}
    /\ Forever = TickModulus + 1 /\ Ticks = 0 .. TickModulus - 1
BY TimersAssumption DEF Forever, Ticks

LEMMA PeriodFacts ==
    \A p \in Periods : /\ p \in 1 .. TickModulus - 1 /\ p \in 0 .. TickModulus
                       /\ MaxLate < TickModulus
BY TurnFacts

\* The time from one count of the ticks to another, less than a turn later.
LEMMA AgeIs ==
    /\ \A u, v \in Ticks : (v - u) % TickModulus = IF u <= v THEN v - u ELSE v - u + TickModulus
    /\ \A u, v \in Ticks : (v - u) % TickModulus \in Ticks
<1> DEFINE M == TickModulus
<1>1. M \in Nat \ {0} /\ Ticks = 0 .. M - 1
  BY TurnFacts
<1> HIDE DEF M
<1>2. ASSUME NEW u \in 0 .. M - 1, NEW v \in 0 .. M - 1
      PROVE  (v - u) % M = IF u <= v THEN v - u ELSE v - u + M
  <2>1. CASE u <= v
    <3> DEFINE x == v - u
    <3>1. x \in 0 .. M - 1
      BY <1>1, <2>1
    <3> HIDE DEF x
    <3>2. x % M = x
      BY <1>1, <3>1
    <3> QED BY <2>1, <3>2 DEF x
  <2>2. CASE ~(u <= v)
    <3> DEFINE x == v - u
    <3>1. x \in -M .. -1
      BY <1>1, <2>2
    <3> HIDE DEF x
    <3>2. x % M = x + M
      BY <1>1, <3>1
    <3> QED BY <2>2, <3>2 DEF x
  <2> QED BY <2>1, <2>2
<1>3. ASSUME NEW u \in 0 .. M - 1, NEW v \in 0 .. M - 1
      PROVE  (v - u) % M \in 0 .. M - 1
  BY <1>1, <1>2
<1> QED BY <1>1, <1>2, <1>3 DEF M

LEMMA PlusIs ==
    ASSUME NEW u \in Ticks, NEW p \in 0 .. TickModulus
    PROVE  /\ Plus(u, p) = IF u + p < TickModulus THEN u + p ELSE u + p - TickModulus
           /\ Plus(u, p) \in Ticks
<1> DEFINE M == TickModulus
           x == u + p
<1>1. M \in Nat \ {0} /\ Ticks = 0 .. M - 1 /\ u \in 0 .. M - 1 /\ p \in 0 .. M
  BY TurnFacts
<1>2. Plus(u, p) = x % M
  BY DEF Plus
<1>3. x \in 0 .. 2 * M - 1 /\ M \in Nat
  BY <1>1
<1> HIDE DEF M, x
<1>4. CASE x < M
  <2>1. x % M = x
    BY <1>1, <1>3, <1>4
  <2> QED BY <1>1, <1>2, <1>3, <1>4, <2>1 DEF M, x
<1>5. CASE ~(x < M)
  <2>1. x % M = x - M
    BY <1>1, <1>3, <1>5
  <2> QED BY <1>1, <1>2, <1>3, <1>5, <2>1 DEF M, x
<1> QED BY <1>4, <1>5

\* prvInsertTimerInActiveList finds a timer to have expired if its period is over.
LEMMA ExpiredMeans ==
    ASSUME NEW t \in Timer, xTimerPeriodInTicks[t] \in Periods, NEW u \in Ticks, NEW now \in Ticks
    PROVE  HasExpired(t, Plus(u, xTimerPeriodInTicks[t]), now, u)
              <=> (now - u) % TickModulus >= xTimerPeriodInTicks[t]
<1> DEFINE p == xTimerPeriodInTicks[t]
           expiry == Plus(u, p)
           M == TickModulus
<1>1. p \in 1 .. M - 1 /\ p \in 0 .. M /\ M \in Nat \ {0} /\ u \in 0 .. M - 1 /\ now \in 0 .. M - 1
  BY TurnFacts, PeriodFacts
<1>2. expiry = IF u + p < M THEN u + p ELSE u + p - M
  BY <1>1, PlusIs
<1>3. (now - u) % M = IF u <= now THEN now - u ELSE now - u + M
  BY AgeIs
<1>4. HasExpired(t, expiry, now, u)
         <=> IF expiry <= now THEN (now - u) % M >= p ELSE now < u /\ expiry >= u
  BY DEF HasExpired
<1> HIDE DEF p, expiry, M
<1>5. HasExpired(t, expiry, now, u) <=> (now - u) % M >= p
  BY <1>1, <1>2, <1>3, <1>4
<1> QED BY <1>5 DEF p, expiry, M

LEMMA CommandFacts ==
    /\ \A m \in Commands :
          /\ m.timer \in Timer /\ m # NoCommand
          /\ m.id \in {"start", "reload", "stop", "delete", "changePeriod"}
          /\ Starts(m) => m.value \in Ticks
          /\ m.id = "changePeriod" => m.value \in Periods
    /\ NoCommand.timer = NoTimer /\ NoCommand.id = "none" /\ ~Starts(NoCommand)
    /\ \A t \in Timer, v \in Ticks :
          /\ Command("reload", t, v) \in Commands /\ Starts(Command("reload", t, v))
          /\ Command("reload", t, v).timer = t /\ Command("reload", t, v).id = "reload"
          /\ Command("reload", t, v).value = v
<1>1. NoTimer \notin Timer
  BY TurnFacts
<1> QED BY <1>1 DEF Commands, Command, NoCommand, Starts

LEMMA ContainsMeans ==
    ASSUME NEW S, NEW s \in Seq(S), NEW t
    PROVE  Contains(s, t) <=> t \in ToSet(s)
BY LenProperties DEF Contains, ToSet

LEMMA GreatestIs ==
    ASSUME NEW S \in SUBSET Int, NEW k \in S, \A j \in S : j <= k
    PROVE  (CHOOSE n \in S : \A j \in S : j <= n) = k
<1>1. \A n \in S : (\A j \in S : j <= n) => n = k
  OBVIOUS
<1> QED BY <1>1

\* A sorted list without its head, or without a timer that a command is for.
LEMMA TailOf ==
    ASSUME NEW S, NEW s \in Seq(S), s # << >>, NoDuplicates(s), NEW value, Ascending(s, value)
    PROVE  /\ Head(s) \in S /\ Head(s) \in ToSet(s) /\ Tail(s) \in Seq(S)
           /\ ToSet(Tail(s)) = ToSet(s) \ {Head(s)}
           /\ NoDuplicates(Tail(s)) /\ Ascending(Tail(s), value)
           /\ \A t \in ToSet(s) : value[Head(s)] <= value[t]
<1>1. /\ Head(s) \in S /\ Tail(s) \in Seq(S) /\ ToSet(s) = {Head(s)} \cup ToSet(Tail(s))
      /\ NoDuplicates(Tail(s)) /\ Head(s) \notin ToSet(Tail(s))
  BY HeadProperties
<1>2. Len(s) \in Nat \ {0} /\ Head(s) = s[1] /\ DOMAIN s = 1 .. Len(s)
  BY HeadTailProperties, EmptySeq, LenProperties
<1>3. Tail(s) = SubSeq(s, 1 + 1, Len(s)) /\ 1 \in 0 .. Len(s)
  BY <1>2, TailIsSubSeq
<1>4. Ascending(Tail(s), value)
  BY <1>3, DropKeepsOrder
<1>5. ASSUME NEW t \in ToSet(s) PROVE value[s[1]] <= value[t]
  <2>1. PICK n \in DOMAIN s : t = s[n]
    BY DEF ToSet
  <2>2. 1 \in DOMAIN s /\ 1 <= n
    BY <1>2
  <2> QED BY <2>1, <2>2 DEF Ascending
<1> QED BY <1>1, <1>2, <1>4, <1>5

LEMMA ValuesMatter ==
    ASSUME NEW S, NEW s \in Seq(S), NEW value, NEW other, Ascending(s, value),
           \A t \in ToSet(s) : other[t] = value[t]
    PROVE  Ascending(s, other)
<1>1. \A n \in DOMAIN s : s[n] \in ToSet(s)
  BY DEF ToSet
<1> QED BY <1>1 DEF Ascending

LEMMA EmptyList ==
    /\ \A S : << >> \in Seq(S)
    /\ ToSet(<< >>) = {} /\ NoDuplicates(<< >>) /\ \A value : Ascending(<< >>, value)
    /\ \A S : \A s \in Seq(S) : s # << >> <=> ToSet(s) # {}
<1>1. \A S : \A s \in Seq(S) : s # << >> => Head(s) \in ToSet(s)
  BY HeadIn
<1> QED BY <1>1, EmptyToSet DEF NoDuplicates, Ascending

LEMMA SortedInsert ==
    ASSUME NEW S, NEW s \in Seq(S), NEW x \in S, x \notin ToSet(s), NoDuplicates(s),
           NEW value \in [S -> Int], Ascending(s, value)
    PROVE  /\ vListInsert(s, x, value) \in Seq(S)
           /\ ToSet(vListInsert(s, x, value)) = ToSet(s) \cup {x}
           /\ NoDuplicates(vListInsert(s, x, value))
           /\ Ascending(vListInsert(s, x, value), value)
BY vListInsertProperties, InsertKeepsOrder

\* The lists, without what the daemon does with them.
TwoLists(current, overflow, value) ==
    /\ current \in Seq(Timer) /\ overflow \in Seq(Timer) /\ value \in [Timer -> Ticks]
    /\ NoDuplicates(current) /\ NoDuplicates(overflow)
    /\ ToSet(current) \cap ToSet(overflow) = {}
    /\ Ascending(current, value) /\ Ascending(overflow, value)

LEMMA ListsAre ==
    /\ TimersTypeOK /\ SortedInv => TwoLists(pxCurrentTimerList, pxOverflowTimerList, xTimerItemValue)
    /\ TimersTypeOK' /\ SortedInv' =>
          TwoLists(pxCurrentTimerList', pxOverflowTimerList', xTimerItemValue')
BY DEF TimersTypeOK, SortedInv, TwoLists

\* The value of a timer that is in no list does not matter.
LEMMA OutOfLists ==
    ASSUME NEW c, NEW o, NEW value, TwoLists(c, o, value), NEW other \in [Timer -> Ticks],
           \A t \in ToSet(c) \cup ToSet(o) : other[t] = value[t]
    PROVE  TwoLists(c, o, other)
<1>1. c \in Seq(Timer) /\ o \in Seq(Timer) /\ Ascending(c, value) /\ Ascending(o, value)
  BY DEF TwoLists
<1>2. Ascending(c, other) /\ Ascending(o, other)
  BY <1>1, ValuesMatter
<1> QED BY <1>2 DEF TwoLists

LEMMA InsertsTimer ==
    ASSUME NEW c, NEW value, TwoLists(c, pxOverflowTimerList, value), value = xTimerItemValue,
           NEW t \in Timer, t \notin ToSet(c) \cup ToSet(pxOverflowTimerList),
           NEW expiry \in Ticks, NEW now, Insert(c, t, expiry, now)
    PROVE  /\ TwoLists(pxCurrentTimerList', pxOverflowTimerList', xTimerItemValue')
           /\ xTimerItemValue'[t] = expiry
           /\ \A u \in Timer \ {t} : xTimerItemValue'[u] = xTimerItemValue[u]
           /\ expiry <= now => /\ ToSet(pxOverflowTimerList') = ToSet(pxOverflowTimerList) \cup {t}
                               /\ ToSet(pxCurrentTimerList') = ToSet(c)
           /\ ~(expiry <= now) => /\ ToSet(pxCurrentTimerList') = ToSet(c) \cup {t}
                                  /\ ToSet(pxOverflowTimerList') = ToSet(pxOverflowTimerList)
<1> DEFINE new == [xTimerItemValue EXCEPT ![t] = expiry]
           o   == pxOverflowTimerList
<1>1. /\ c \in Seq(Timer) /\ o \in Seq(Timer) /\ value \in [Timer -> Ticks] /\ NoDuplicates(c)
      /\ NoDuplicates(o) /\ ToSet(c) \cap ToSet(o) = {}
  BY DEF TwoLists
<1>2. /\ new \in [Timer -> Ticks] /\ new[t] = expiry
      /\ \A u \in Timer \ {t} : new[u] = xTimerItemValue[u]
  BY <1>1
<1>3. \A u \in ToSet(c) \cup ToSet(o) : u \in Timer
  BY <1>1, ElementOfSeq DEF ToSet
<1>4. \A u \in ToSet(c) \cup ToSet(o) : new[u] = value[u]
  BY <1>2, <1>3
<1> HIDE DEF new
<1>5. TwoLists(c, o, new)
  BY <1>2, <1>4, OutOfLists
<1>6. Ascending(c, new) /\ Ascending(o, new)
  BY <1>5 DEF TwoLists
<1>7. Ticks \subseteq Int
  BY TurnFacts
<1>8. new \in [Timer -> Int]
  BY <1>2, <1>7
<1>9. /\ xTimerItemValue' = new
      /\ IF expiry <= now
         THEN pxOverflowTimerList' = vListInsert(o, t, new) /\ pxCurrentTimerList' = c
         ELSE pxCurrentTimerList' = vListInsert(c, t, new) /\ pxOverflowTimerList' = o
  BY DEF Insert, new
<1>10. CASE expiry <= now
  <2>1. LET r == vListInsert(o, t, new) IN
        r \in Seq(Timer) /\ ToSet(r) = ToSet(o) \cup {t} /\ NoDuplicates(r) /\ Ascending(r, new)
    BY <1>1, <1>6, <1>8, SortedInsert
  <2> QED BY <1>1, <1>2, <1>6, <1>9, <1>10, <2>1 DEF TwoLists
<1>11. CASE ~(expiry <= now)
  <2>1. LET r == vListInsert(c, t, new) IN
        r \in Seq(Timer) /\ ToSet(r) = ToSet(c) \cup {t} /\ NoDuplicates(r) /\ Ascending(r, new)
    BY <1>1, <1>6, <1>8, SortedInsert
  <2> QED BY <1>1, <1>2, <1>6, <1>9, <1>11, <2>1 DEF TwoLists
<1> QED BY <1>10, <1>11

LEMMA TailOfLists ==
    ASSUME NEW c, NEW o, NEW value, TwoLists(c, o, value), c # << >>
    PROVE  /\ TwoLists(Tail(c), o, value)
           /\ Head(c) \in Timer /\ Head(c) \in ToSet(c) /\ ToSet(Tail(c)) = ToSet(c) \ {Head(c)}
           /\ Head(c) \notin ToSet(Tail(c)) \cup ToSet(o)
           /\ \A t \in ToSet(c) : value[Head(c)] <= value[t]
<1>1. c \in Seq(Timer) /\ NoDuplicates(c) /\ Ascending(c, value) /\ ToSet(c) \cap ToSet(o) = {}
  BY DEF TwoLists
<1>2. /\ Head(c) \in Timer /\ Head(c) \in ToSet(c) /\ Tail(c) \in Seq(Timer)
      /\ ToSet(Tail(c)) = ToSet(c) \ {Head(c)}
      /\ NoDuplicates(Tail(c)) /\ Ascending(Tail(c), value)
      /\ \A t \in ToSet(c) : value[Head(c)] <= value[t]
  BY <1>1, TailOf
<1> QED BY <1>1, <1>2 DEF TwoLists

LEMMA RemovesHead ==
    ASSUME TwoLists(pxCurrentTimerList, pxOverflowTimerList, xTimerItemValue),
           pxCurrentTimerList # << >>, RemoveHead, pxOverflowTimerList' = pxOverflowTimerList
    PROVE  LET t == Head(pxCurrentTimerList) IN
           /\ TwoLists(pxCurrentTimerList', pxOverflowTimerList', xTimerItemValue')
           /\ ToSet(pxCurrentTimerList') = ToSet(pxCurrentTimerList) \ {t}
           /\ \A u \in Timer \ {t} : xTimerItemValue'[u] = xTimerItemValue[u]
<1> DEFINE c == pxCurrentTimerList
           o == pxOverflowTimerList
           t == Head(c)
<1>1. /\ TwoLists(Tail(c), o, xTimerItemValue) /\ t \in Timer
      /\ t \notin ToSet(Tail(c)) \cup ToSet(o) /\ ToSet(Tail(c)) = ToSet(c) \ {t}
  BY TailOfLists
<1>2. /\ xTimerItemValue' = [xTimerItemValue EXCEPT ![t] = 0] /\ pxCurrentTimerList' = Tail(c)
      /\ xTimerItemValue \in [Timer -> Ticks]
  BY DEF RemoveHead, TwoLists
<1>3. /\ xTimerItemValue' \in [Timer -> Ticks]
      /\ \A u \in Timer \ {t} : xTimerItemValue'[u] = xTimerItemValue[u]
  BY <1>1, <1>2, TurnFacts
<1>4. \A u \in ToSet(Tail(c)) \cup ToSet(o) : u \in Timer
  BY <1>1, ElementOfSeq DEF TwoLists, ToSet
<1>5. TwoLists(Tail(c), o, xTimerItemValue')
  BY <1>1, <1>3, <1>4, OutOfLists
<1> QED BY <1>1, <1>2, <1>3, <1>5

LEMMA TakesOut ==
    ASSUME NEW s, NEW x, NEW t, s \in Seq(Timer), NoDuplicates(s), NEW value, Ascending(s, value),
           x = IF Contains(s, t) THEN uxListRemove(s, t) ELSE s
    PROVE  /\ x \in Seq(Timer) /\ ToSet(x) = ToSet(s) \ {t}
           /\ NoDuplicates(x) /\ Ascending(x, value)
<1>1. Contains(s, t) <=> t \in ToSet(s)
  BY ContainsMeans
<1>2. CASE t \in ToSet(s)
  <2>1. /\ uxListRemove(s, t) \in Seq(Timer) /\ ToSet(uxListRemove(s, t)) = ToSet(s) \ {t}
        /\ NoDuplicates(uxListRemove(s, t))
    BY <1>2, uxListRemoveProperties
  <2>2. Ascending(uxListRemove(s, t), value)
    BY <1>2, RemoveKeepsOrder
  <2> QED BY <1>1, <1>2, <2>1, <2>2
<1>3. CASE t \notin ToSet(s)
  BY <1>1, <1>3
<1> QED BY <1>2, <1>3

\* Where the deadline of a timer comes from.
LEMMA DeadlineAt ==
    ASSUME TimersTypeOK, SortedInv, NEW t \in Timer
    PROVE  /\ xMessage.timer = t /\ Starts(xMessage) =>
                  Deadline(t) = xTimerPeriodInTicks[t] - Age(xMessage.value)
           /\ xMessage.timer = t /\ xMessage.id = "changePeriod" /\ daemonAt = "handle" =>
                  Deadline(t) = xMessage.value - Age(xTimeNow)
           /\ xMessage.timer = t /\ ~Starts(xMessage)
              /\ (xMessage.id = "changePeriod" => daemonAt # "handle") => Deadline(t) = Forever
           /\ t \in ToSet(pxCurrentTimerList) =>
                  Deadline(t) = xTimerItemValue[t] - xTickCount - IF TurnIsOver THEN TickModulus ELSE 0
           /\ t \in ToSet(pxOverflowTimerList) =>
                  Deadline(t) = xTimerItemValue[t] - xTickCount + IF TurnIsOver THEN 0 ELSE TickModulus
           /\ t \notin Listed /\ xMessage.timer # t =>
                  Deadline(t) = IF Reloads(t) # {} THEN FromStart(xTimerQueue[LastReload(t)]) ELSE Forever
<1>1. /\ Contains(pxCurrentTimerList, t) <=> t \in ToSet(pxCurrentTimerList)
      /\ Contains(pxOverflowTimerList, t) <=> t \in ToSet(pxOverflowTimerList)
  BY ContainsMeans DEF TimersTypeOK
<1>2. InList(t) <=> t \in Listed
  BY <1>1 DEF InList, Listed
<1>3. ~(t \in ToSet(pxCurrentTimerList) /\ t \in ToSet(pxOverflowTimerList))
      /\ xMessage.timer \notin Listed
  BY DEF SortedInv
<1>4. Starts(xMessage) => xMessage.id # "changePeriod"
  BY DEF Starts
<1> DEFINE A == xMessage.timer = t /\ Starts(xMessage)
           B == xMessage.timer = t /\ xMessage.id = "changePeriod" /\ daemonAt = "handle"
           C == t \in ToSet(pxCurrentTimerList)
           D == t \in ToSet(pxOverflowTimerList)
           E == ~(C \/ D) /\ xMessage.timer # t /\ Reloads(t) # {}
           a == FromStart(xMessage)
           b == xMessage.value - Age(xTimeNow)
           c == xTimerItemValue[t] - xTickCount - IF TurnIsOver THEN TickModulus ELSE 0
           d == xTimerItemValue[t] - xTickCount + IF TurnIsOver THEN 0 ELSE TickModulus
           e == FromStart(xTimerQueue[LastReload(t)])
<1>5. Deadline(t) = CASE A -> a [] B -> b [] C -> c [] D -> d [] E -> e [] OTHER -> Forever
  BY <1>1, <1>2 DEF Deadline, Listed
<1>6. /\ A => a = xTimerPeriodInTicks[t] - Age(xMessage.value) /\ ~B
      /\ A \/ B => ~C /\ ~D /\ ~E
      /\ C => ~D /\ ~E
      /\ D => ~E
      /\ t \in Listed <=> C \/ D
      /\ C \/ D => xMessage.timer # t
  BY <1>3, <1>4 DEF FromStart, Listed
<1> HIDE DEF A, B, C, D, E, a, b, c, d, e
<1>7. /\ A => Deadline(t) = a
      /\ B => Deadline(t) = b
      /\ C => Deadline(t) = c
      /\ D => Deadline(t) = d
      /\ E => Deadline(t) = e
      /\ ~A /\ ~B /\ ~C /\ ~D /\ ~E => Deadline(t) = Forever
  BY <1>5, <1>6
<1> QED
  BY <1>6, <1>7 DEF A, B, C, D, E, a, b, c, d, e

\* The same after a step.
LEMMA DeadlineThen ==
    ASSUME TimersTypeOK', SortedInv', NEW t \in Timer
    PROVE  /\ xMessage'.timer = t /\ Starts(xMessage') =>
                  Deadline(t)' = xTimerPeriodInTicks'[t] - Age(xMessage.value)'
           /\ xMessage'.timer = t /\ xMessage'.id = "changePeriod" /\ daemonAt' = "handle" =>
                  Deadline(t)' = xMessage'.value - Age(xTimeNow)'
           /\ xMessage'.timer = t /\ ~Starts(xMessage')
              /\ (xMessage'.id = "changePeriod" => daemonAt' # "handle") => Deadline(t)' = Forever
           /\ t \in ToSet(pxCurrentTimerList') =>
                  Deadline(t)' = xTimerItemValue'[t] - xTickCount' - IF TurnIsOver' THEN TickModulus ELSE 0
           /\ t \in ToSet(pxOverflowTimerList') =>
                  Deadline(t)' = xTimerItemValue'[t] - xTickCount' + IF TurnIsOver' THEN 0 ELSE TickModulus
           /\ t \notin Listed' /\ xMessage'.timer # t =>
                  Deadline(t)' = IF Reloads(t)' # {} THEN FromStart(xTimerQueue[LastReload(t)])' ELSE Forever
<1>1. /\ Contains(pxCurrentTimerList', t) <=> t \in ToSet(pxCurrentTimerList')
      /\ Contains(pxOverflowTimerList', t) <=> t \in ToSet(pxOverflowTimerList')
  BY ContainsMeans DEF TimersTypeOK
<1>2. InList(t)' <=> t \in Listed'
  BY <1>1 DEF InList, Listed
<1>3. ~(t \in ToSet(pxCurrentTimerList') /\ t \in ToSet(pxOverflowTimerList'))
      /\ xMessage'.timer \notin Listed'
  BY DEF SortedInv
<1>4. Starts(xMessage') => xMessage'.id # "changePeriod"
  BY DEF Starts
<1> DEFINE A == xMessage'.timer = t /\ Starts(xMessage')
           B == xMessage'.timer = t /\ xMessage'.id = "changePeriod" /\ daemonAt' = "handle"
           C == t \in ToSet(pxCurrentTimerList')
           D == t \in ToSet(pxOverflowTimerList')
           E == ~(C \/ D) /\ xMessage'.timer # t /\ Reloads(t)' # {}
           a == FromStart(xMessage)'
           b == xMessage'.value - Age(xTimeNow)'
           c == xTimerItemValue'[t] - xTickCount' - IF TurnIsOver' THEN TickModulus ELSE 0
           d == xTimerItemValue'[t] - xTickCount' + IF TurnIsOver' THEN 0 ELSE TickModulus
           e == FromStart(xTimerQueue[LastReload(t)])'
<1>5. Deadline(t)' = CASE A -> a [] B -> b [] C -> c [] D -> d [] E -> e [] OTHER -> Forever
  BY <1>1, <1>2 DEF Deadline, Listed
<1>6. /\ A => a = xTimerPeriodInTicks'[t] - Age(xMessage.value)' /\ ~B
      /\ A \/ B => ~C /\ ~D /\ ~E
      /\ C => ~D /\ ~E
      /\ D => ~E
      /\ t \in Listed' <=> C \/ D
      /\ C \/ D => xMessage'.timer # t
  BY <1>3, <1>4 DEF FromStart, Listed
<1> HIDE DEF A, B, C, D, E, a, b, c, d, e
<1>7. /\ A => Deadline(t)' = a
      /\ B => Deadline(t)' = b
      /\ C => Deadline(t)' = c
      /\ D => Deadline(t)' = d
      /\ E => Deadline(t)' = e
      /\ ~A /\ ~B /\ ~C /\ ~D /\ ~E => Deadline(t)' = Forever
  BY <1>5, <1>6
<1> QED
  BY <1>6, <1>7 DEF A, B, C, D, E, a, b, c, d, e

LEMMA TypeParts ==
    ASSUME TimersTypeOK
    PROVE  /\ xTickCount \in Ticks /\ xLastTime \in Ticks /\ xTimeNow \in Ticks /\ xNextExpireTime \in Ticks
           /\ xTimerItemValue \in [Timer -> Ticks] /\ xTimerPeriodInTicks \in [Timer -> Periods]
           /\ xMessage \in Commands \cup {NoCommand} /\ sending \in Commands \cup {NoCommand}
           /\ xTimerQueue \in Seq(Commands) /\ Len(xTimerQueue) \in Nat
           /\ DOMAIN xTimerQueue = 1 .. Len(xTimerQueue)
           /\ \A k \in DOMAIN xTimerQueue : xTimerQueue[k] \in Commands
           /\ ToSet(pxCurrentTimerList) \subseteq Timer /\ ToSet(pxOverflowTimerList) \subseteq Timer
<1>1. xTimerQueue \in Seq(Commands) /\ pxCurrentTimerList \in Seq(Timer) /\ pxOverflowTimerList \in Seq(Timer)
  BY DEF TimersTypeOK
<1>2. /\ Len(xTimerQueue) \in Nat /\ DOMAIN xTimerQueue = 1 .. Len(xTimerQueue)
      /\ \A k \in DOMAIN xTimerQueue : xTimerQueue[k] \in Commands
  BY <1>1, LenProperties, ElementOfSeq
<1>3. ToSet(pxCurrentTimerList) \subseteq Timer /\ ToSet(pxOverflowTimerList) \subseteq Timer
  BY <1>1, ElementOfSeq DEF ToSet
<1> QED BY <1>1, <1>2, <1>3 DEF TimersTypeOK

LEMMA Numbers ==
    /\ TickModulus \in Nat /\ TickModulus > 0 /\ MaxLate \in Nat /\ Forever = TickModulus + 1
    /\ \A u \in Ticks : u \in Nat /\ u < TickModulus
    /\ TimersTypeOK => /\ xTickCount \in Nat /\ xTickCount < TickModulus
                      /\ xLastTime \in Nat /\ xLastTime < TickModulus
                      /\ xTimeNow \in Nat /\ xTimeNow < TickModulus
    /\ TimersTypeOK => \A t \in Timer :
          /\ xTimerItemValue[t] \in Nat /\ xTimerItemValue[t] < TickModulus
          /\ xTimerPeriodInTicks[t] \in Nat /\ xTimerPeriodInTicks[t] > 0
          /\ xTimerPeriodInTicks[t] + MaxLate < TickModulus
<1>1. /\ TickModulus \in Nat /\ TickModulus > 0 /\ MaxLate \in Nat /\ Forever = TickModulus + 1
      /\ \A u \in Ticks : u \in Nat /\ u < TickModulus
      /\ \A p \in Periods : p \in Nat /\ p > 0 /\ p + MaxLate < TickModulus
  BY TurnFacts
<1> QED BY <1>1, TypeParts

LEMMA LastReloadIn ==
    ASSUME TimersTypeOK, NEW t \in Timer, Reloads(t) # {}
    PROVE  /\ LastReload(t) \in Reloads(t) /\ \A j \in Reloads(t) : j <= LastReload(t)
           /\ Reloads(t) \subseteq DOMAIN xTimerQueue
<1> DEFINE N == Len(xTimerQueue)
           T == Reloads(t)
<1>1. N \in Nat /\ DOMAIN xTimerQueue = 1 .. N
  BY TypeParts
<1>2. T \in SUBSET (0 .. N) /\ T # {} /\ T \subseteq DOMAIN xTimerQueue
  BY <1>1 DEF Reloads
<1>3. LastReload(t) = CHOOSE k \in T : \A j \in T : j <= k
  BY DEF LastReload
<1> HIDE DEF T, N
<1>4. \E k \in T : \A j \in T : j <= k
  BY <1>1, <1>2, MaxOfBounded
<1>5. LastReload(t) \in T /\ \A j \in T : j <= LastReload(t)
  BY <1>3, <1>4
<1> QED BY <1>2, <1>5 DEF T

LEMMA ReloadDeadline ==
    ASSUME TimersTypeOK, SortedInv, NEW t \in Timer, t \notin Listed, xMessage.timer # t,
           NEW k \in Reloads(t), \A j \in Reloads(t) : j <= k
    PROVE  /\ Deadline(t) = xTimerPeriodInTicks[t] - Age(xTimerQueue[k].value)
           /\ xTimerQueue[k].timer = t /\ xTimerQueue[k].value \in Ticks
<1>1. DOMAIN xTimerQueue \subseteq Int /\ k \in DOMAIN xTimerQueue /\ Reloads(t) \subseteq Int
  BY TypeParts DEF Reloads
<1>2. LastReload(t) = k
  BY <1>1, GreatestIs DEF LastReload
<1>3. xTimerQueue[k].timer = t /\ xTimerQueue[k].id = "reload" /\ xTimerQueue[k] \in Commands
  BY <1>1, TypeParts DEF Reloads
<1>4. Deadline(t) = FromStart(xTimerQueue[LastReload(t)])
  BY DeadlineAt
<1> QED BY <1>2, <1>3, <1>4, CommandFacts DEF FromStart, Starts

\* The same after a step.
LEMMA ReloadDeadlineThen ==
    ASSUME TimersTypeOK', SortedInv', NEW t \in Timer, t \notin Listed', xMessage'.timer # t,
           NEW k \in Reloads(t)', \A j \in Reloads(t)' : j <= k, Reloads(t)' \subseteq Int
    PROVE  Deadline(t)' = xTimerPeriodInTicks'[t] - Age(xTimerQueue[k].value)'
<1>1. LastReload(t)' = k
  <2> DEFINE S == Reloads(t)'
  <2>1. LastReload(t)' = CHOOSE n \in S : \A j \in S : j <= n
    BY DEF LastReload
  <2> HIDE DEF S
  <2>2. k \in S /\ S \subseteq Int /\ \A j \in S : j <= k
    BY DEF S
  <2> QED BY <2>1, <2>2, GreatestIs
<1>2. xTimerQueue'[k].timer = t
  BY DEF Reloads
<1>3. Deadline(t)' = FromStart(xTimerQueue[LastReload(t)])'
  BY DeadlineThen
<1> QED BY <1>1, <1>2, <1>3 DEF FromStart

LEMMA AgeType == ASSUME TimersTypeOK, NEW u \in Ticks PROVE Age(u) \in Ticks
BY AgeIs, TypeParts DEF Age

LEMMA DeadlineType ==
    ASSUME TimersTypeOK, SortedInv, NEW t \in Timer
    PROVE  Deadline(t) \in Int
<1>0. Ticks \subseteq Int /\ Periods \subseteq Int /\ Forever \in Int /\ TickModulus \in Int
  BY TurnFacts
<1>1. xTimerPeriodInTicks[t] \in Int /\ Ticks \subseteq Int /\ Periods \subseteq Int /\ Forever \in Int
      /\ TickModulus \in Int /\ xTickCount \in Int /\ xTimerItemValue[t] \in Int
  BY <1>0, TypeParts
<1>2. CASE xMessage.timer = t
  <2>1. xMessage \in Commands
    BY <1>2, TypeParts, CommandFacts, TurnFacts
  <2>2. /\ Starts(xMessage) => Age(xMessage.value) \in Int
        /\ xMessage.id = "changePeriod" => xMessage.value \in Int /\ Age(xTimeNow) \in Int
    BY <1>1, <2>1, CommandFacts, TypeParts, AgeType
  <2> QED BY <1>1, <1>2, <2>2, DeadlineAt
<1>3. CASE xMessage.timer # t /\ t \in Listed
  BY <1>1, <1>3, DeadlineAt DEF Listed
<1>4. CASE xMessage.timer # t /\ t \notin Listed
  <2>1. CASE Reloads(t) = {}
    BY <1>1, <1>4, <2>1, DeadlineAt
  <2>2. CASE Reloads(t) # {}
    <3>1. xTimerQueue[LastReload(t)].value \in Ticks
          /\ Deadline(t) = xTimerPeriodInTicks[t] - Age(xTimerQueue[LastReload(t)].value)
      BY <1>4, <2>2, LastReloadIn, ReloadDeadline
    <3>2. Age(xTimerQueue[LastReload(t)].value) \in Int
      BY <1>1, <3>1, AgeType
    <3> QED BY <1>1, <3>1, <3>2
  <2> QED BY <2>1, <2>2
<1> QED BY <1>2, <1>3, <1>4

\* A step that does not concern a timer leaves its deadline where it is.
LEMMA DeadlineKept ==
    ASSUME TimersTypeOK, SortedInv, TimersTypeOK', SortedInv', NEW t \in Timer,
           xTickCount' = xTickCount,
           t \in Listed => xTimerItemValue'[t] = xTimerItemValue[t] /\ (TurnIsOver' <=> TurnIsOver),
           t \in ToSet(pxCurrentTimerList') <=> t \in ToSet(pxCurrentTimerList),
           t \in ToSet(pxOverflowTimerList') <=> t \in ToSet(pxOverflowTimerList),
           xTimerPeriodInTicks'[t] = xTimerPeriodInTicks[t],
           xMessage.timer = t \/ xMessage'.timer = t =>
              /\ xMessage' = xMessage /\ xTimeNow' = xTimeNow
              /\ xMessage.id = "changePeriod" => (daemonAt' = "handle" <=> daemonAt = "handle"),
           Reloads(t)' = Reloads(t), \A k \in Reloads(t) : xTimerQueue'[k] = xTimerQueue[k]
    PROVE  Deadline(t)' = Deadline(t)
<1>1. t \in Listed' <=> t \in Listed
  BY DEF Listed
<1>2. CASE xMessage.timer = t
  <2>1. xMessage' = xMessage /\ xTimeNow' = xTimeNow
    BY <1>2
  <2>2. Age(xMessage.value)' = Age(xMessage.value) /\ Age(xTimeNow)' = Age(xTimeNow)
    BY <2>1 DEF Age
  <2>3. CASE Starts(xMessage)
    BY <1>2, <2>1, <2>2, <2>3, DeadlineAt, DeadlineThen
  <2>4. CASE xMessage.id = "changePeriod" /\ daemonAt = "handle"
    BY <1>2, <2>1, <2>2, <2>4, DeadlineAt, DeadlineThen
  <2>5. CASE ~Starts(xMessage) /\ ~(xMessage.id = "changePeriod" /\ daemonAt = "handle")
    BY <1>2, <2>1, <2>5, DeadlineAt, DeadlineThen
  <2> QED BY <2>3, <2>4, <2>5
<1>3. CASE xMessage.timer # t /\ t \in Listed
  <2>1. TurnIsOver' <=> TurnIsOver
    BY <1>3
  <2>2. CASE t \in ToSet(pxCurrentTimerList)
    BY <1>3, <2>1, <2>2, DeadlineAt, DeadlineThen
  <2>3. CASE t \in ToSet(pxOverflowTimerList)
    BY <1>3, <2>1, <2>3, DeadlineAt, DeadlineThen
  <2> QED BY <1>3, <2>2, <2>3 DEF Listed
<1>4. CASE xMessage.timer # t /\ t \notin Listed
  <2>1. xMessage'.timer # t /\ t \notin Listed'
    BY <1>1, <1>4
  <2>2. CASE Reloads(t) = {}
    BY <1>4, <2>1, <2>2, DeadlineAt, DeadlineThen
  <2>3. CASE Reloads(t) # {}
    <3>1. PICK k \in Reloads(t) : \A j \in Reloads(t) : j <= k
      BY <2>3, LastReloadIn
    <3>2. Reloads(t) \subseteq Int
      BY <2>3, LastReloadIn, TypeParts
    <3>3. Deadline(t) = xTimerPeriodInTicks[t] - Age(xTimerQueue[k].value)
      BY <1>4, <3>1, ReloadDeadline
    <3>4. Deadline(t)' = xTimerPeriodInTicks'[t] - Age(xTimerQueue[k].value)'
      BY <2>1, <3>1, <3>2, ReloadDeadlineThen
    <3>5. Age(xTimerQueue[k].value)' = Age(xTimerQueue[k].value)
      BY <3>1 DEF Age
    <3> QED BY <3>3, <3>4, <3>5
  <2> QED BY <2>2, <2>3
<1> QED BY <1>2, <1>3, <1>4

\* What ExpiresWhenDue says of a step and a timer.
Timely(t) ==
    /\ called'[t] > 0 => Deadline(t) <= 0
    /\ Deadline(t) # Forever /\ ~TakesCommandFor(t) =>
          CASE called'[t] = 0 ->
                  Deadline(t)' = Deadline(t) - ((xTickCount' - xTickCount) % TickModulus)
            [] called'[t] > 0 /\ ucStatus[t].autoReload ->
                  Deadline(t)' = Deadline(t) + xTimerPeriodInTicks[t]
            [] OTHER -> Reloads(t) # {} \/ Deadline(t)' = Forever

LEMMA NoTimePasses ==
    ASSUME TimersTypeOK
    PROVE  /\ (xTickCount - xTickCount) % TickModulus = 0
           /\ MaxLate >= 0 /\ 0 \in Ticks
BY TypeParts, AgeIs, TurnFacts

LEMMA QuietIsTimely ==
    ASSUME TimersTypeOK, SortedInv, NEW t \in Timer, called'[t] = 0, xTickCount' = xTickCount,
           Deadline(t) # Forever /\ ~TakesCommandFor(t) => Deadline(t)' = Deadline(t)
    PROVE  Timely(t)
<1>1. Deadline(t) \in Int /\ (xTickCount' - xTickCount) % TickModulus = 0
  BY DeadlineType, NoTimePasses
<1> QED BY <1>1 DEF Timely

LEMMA NothingCalled ==
    ASSUME called' = NoneCalled, NEW t \in Timer
    PROVE  called'[t] = 0 /\ called' \in [Timer -> 0..1]
BY DEF NoneCalled

\* A step that leaves the lists, the message and the reloads as they are.
LEMMA AsideKeeps ==
    ASSUME TimersInv, TimersTypeOK', UNCHANGED <<lists, xTimerPeriodInTicks, xMessage, xTickCount>>,
           \A t \in Timer : /\ Reloads(t)' = Reloads(t)
                            /\ \A k \in Reloads(t) : xTimerQueue'[k] = xTimerQueue[k],
           called' = NoneCalled, TurnIsOver' <=> TurnIsOver,
           daemonAt = "handle" <=> daemonAt' = "handle",
           xMessage # NoCommand => xTimeNow' = xTimeNow
    PROVE  /\ SortedInv' /\ \A t \in Timer : Timely(t)
           /\ \A t \in Timer : Deadline(t)' = Deadline(t)
           /\ \A t \in Listed' : Deadline(t)' >= -MaxLate
<1>1. SortedInv'
  BY DEF TimersInv, SortedInv, Listed, lists
<1>2. ASSUME NEW t \in Timer PROVE Deadline(t)' = Deadline(t)
  <2>1. xMessage.timer = t => xMessage # NoCommand
    BY CommandFacts, TurnFacts
  <2> QED BY <1>1, <2>1, DeadlineKept DEF TimersInv, lists
<1>3. Listed' = Listed /\ Listed \subseteq Timer
  BY TypeParts DEF TimersInv, Listed, lists
<1>4. \A t \in Timer : Timely(t)
  BY <1>2, QuietIsTimely, NothingCalled DEF TimersInv
<1>5. \A t \in Listed' : Deadline(t)' >= -MaxLate
  BY <1>2, <1>3 DEF TimersInv, DueInv
<1> QED BY <1>1, <1>2, <1>4, <1>5

LEMMA SameQueue ==
    ASSUME xTimerQueue' = xTimerQueue, NEW t
    PROVE  Reloads(t)' = Reloads(t) /\ \A k \in Reloads(t) : xTimerQueue'[k] = xTimerQueue[k]
BY DEF Reloads

LEMMA LookingKeeps ==
    ASSUME TimersInv, TimersTypeOK', UNCHANGED <<lists, timers, xTimerQueue, xMessage, xTickCount>>,
           called' = NoneCalled, TurnIsOver' <=> TurnIsOver,
           daemonAt = "handle" <=> daemonAt' = "handle",
           xMessage # NoCommand => xTimeNow' = xTimeNow
    PROVE  /\ SortedInv' /\ \A t \in Timer : Timely(t)
           /\ \A t \in Timer : Deadline(t)' = Deadline(t)
           /\ \A t \in Listed' : Deadline(t)' >= -MaxLate
<1>1. \A t \in Timer : /\ Reloads(t)' = Reloads(t)
                       /\ \A k \in Reloads(t) : xTimerQueue'[k] = xTimerQueue[k]
  BY SameQueue
<1> QED BY <1>1, AsideKeeps DEF timers

Kept == TimersInv' /\ (~asserted' => \A t \in Timer : Timely(t))

LEMMA SwitchesFirstKeeps == ASSUME TimersInv, SwitchesFirst PROVE Kept
<1>1. /\ UNCHANGED <<lists, timers, xTimerQueue, xMessage, xTickCount, xLastTime>>
      /\ CallsNothing /\ daemonAt = "loop" /\ daemonAt' = "switch" /\ Wrapped /\ xTimeNow' = xTickCount
      /\ UNCHANGED <<xNextExpireTime, xDaemonWait, sending, asserted>>
  BY DEF SwitchesFirst
<1>2. TimersTypeOK'
  BY <1>1 DEF TimersInv, TimersTypeOK, lists, timers, CallsNothing, NoneCalled
<1>3. TurnIsOver /\ TurnIsOver'
  BY <1>1 DEF TurnIsOver
<1>4. xMessage = NoCommand
  BY <1>1 DEF TimersInv, DaemonInv
<1>5. /\ SortedInv' /\ \A t \in Timer : Timely(t)
      /\ \A t \in Listed' : Deadline(t)' >= -MaxLate
  BY <1>1, <1>2, <1>3, <1>4, LookingKeeps DEF CallsNothing
<1>6. Age(xTimeNow)' = 0 /\ 0 <= MaxLate
  BY <1>1, NoTimePasses DEF TimersInv, Age
<1>7. DaemonInv'
  BY <1>1, <1>4, <1>6, CommandFacts, TypeParts, TurnFacts DEF TimersInv, DaemonInv
<1>8. DueInv'
  BY <1>1, <1>5 DEF TimersInv, DueInv, lists, timers
<1> QED BY <1>1, <1>2, <1>5, <1>7, <1>8 DEF Kept, TimersInv, SendingInv

LEMMA FindsExpiredKeeps == ASSUME TimersInv, FindsExpired PROVE Kept
<1>1. /\ UNCHANGED <<lists, timers, xTimerQueue, xMessage, xTickCount>>
      /\ CallsNothing /\ daemonAt = "loop" /\ daemonAt' = "expired" /\ ~Wrapped /\ Due
      /\ xTimeNow' = xTickCount /\ xLastTime' = xTickCount /\ xNextExpireTime' = NextExpireTime
      /\ UNCHANGED <<xDaemonWait, sending, asserted>>
  BY DEF FindsExpired
<1>2. /\ pxCurrentTimerList # << >> /\ NextExpireTime <= xTickCount
      /\ NextExpireTime = xTimerItemValue[Head(pxCurrentTimerList)]
      /\ Head(pxCurrentTimerList) \in Timer /\ NextExpireTime \in Ticks
  BY <1>1, TailOfLists, ListsAre, TypeParts DEF Due, NextExpireTime, TimersInv
<1>3. TimersTypeOK'
  BY <1>1, <1>2 DEF TimersInv, TimersTypeOK, lists, timers, CallsNothing, NoneCalled
<1>4. xTickCount \in Int /\ xLastTime \in Int /\ xLastTime <= xTickCount
  BY <1>1, TypeParts, TurnFacts DEF Wrapped, TimersInv
<1>5. ~TurnIsOver /\ ~TurnIsOver'
  BY <1>1, <1>4 DEF TurnIsOver, Wrapped
<1>6. xMessage = NoCommand
  BY <1>1 DEF TimersInv, DaemonInv
<1>7. /\ SortedInv' /\ \A t \in Timer : Timely(t)
      /\ \A t \in Listed' : Deadline(t)' >= -MaxLate
  BY <1>1, <1>3, <1>5, <1>6, LookingKeeps DEF CallsNothing
<1>8. DaemonInv'
  BY <1>1, <1>2, <1>6 DEF DaemonInv, lists
<1>9. DueInv'
  <2>1. \A t \in Timer : xTimerItemValue[t] \in Int /\ xTimerPeriodInTicks[t] \in Int /\ TickModulus \in Int
    BY Numbers DEF TimersInv
  <2>2. ToSet(pxCurrentTimerList) \subseteq Timer /\ ToSet(pxOverflowTimerList) \subseteq Timer
    BY TypeParts DEF TimersInv
  <2> QED BY <1>1, <1>4, <1>7, <2>1, <2>2 DEF TimersInv, DueInv, lists, timers
<1> QED BY <1>1, <1>3, <1>7, <1>8, <1>9 DEF Kept, TimersInv, SendingInv

LEMMA QueueIsEmptyKeeps == ASSUME TimersInv, QueueIsEmpty PROVE Kept
<1>1. /\ UNCHANGED <<lists, timers, xTimerQueue, xMessage, xTickCount, xLastTime, xTimeNow>>
      /\ CallsNothing /\ daemonAt = "commands" /\ daemonAt' = "loop"
      /\ UNCHANGED <<xNextExpireTime, xDaemonWait, sending, asserted>>
  BY DEF QueueIsEmpty
<1>2. TimersTypeOK'
  BY <1>1 DEF TimersInv, TimersTypeOK, lists, timers, CallsNothing, NoneCalled
<1>3. TurnIsOver' <=> TurnIsOver
  BY <1>1 DEF TurnIsOver, Wrapped
<1>4. xMessage = NoCommand
  BY <1>1 DEF TimersInv, DaemonInv
<1>5. /\ SortedInv' /\ \A t \in Timer : Timely(t)
      /\ \A t \in Listed' : Deadline(t)' >= -MaxLate
  BY <1>1, <1>2, <1>3, <1>4, LookingKeeps DEF CallsNothing
<1>6. DaemonInv'
  BY <1>1, <1>4 DEF DaemonInv
<1>7. DueInv'
  BY <1>1, <1>5 DEF TimersInv, DueInv, lists, timers
<1> QED BY <1>1, <1>2, <1>5, <1>6, <1>7 DEF Kept, TimersInv, SendingInv

LEMMA BlocksKeeps == ASSUME TimersInv, Blocks PROVE Kept
<1>1. /\ UNCHANGED <<lists, timers, xTimerQueue, xMessage, xTickCount, xTimeNow>>
      /\ CallsNothing /\ daemonAt = "loop" /\ daemonAt' \in {"commands", "blocked"}
      /\ xLastTime' = xTickCount /\ ~Wrapped
      /\ xDaemonWait' \in {xDaemonWait, WaitsFor}
      /\ UNCHANGED <<xNextExpireTime, sending, asserted>>
  BY DEF Blocks
<1>2. NextExpireTime \in Ticks
  BY HeadIn, TypeParts, NoTimePasses DEF NextExpireTime, TimersInv, TimersTypeOK
<1>3. WaitsFor \in 0 .. Forever
  <2>1. (NextExpireTime - xTickCount) % TickModulus \in Ticks
    BY <1>2, AgeIs, TypeParts DEF TimersInv
  <2> QED BY <2>1, TurnFacts DEF WaitsFor
<1>4. TimersTypeOK'
  BY <1>1, <1>3 DEF TimersInv, TimersTypeOK, lists, timers, CallsNothing, NoneCalled
<1>5. xTickCount \in Int /\ xLastTime \in Int /\ xLastTime <= xTickCount
  BY <1>1, TypeParts, TurnFacts DEF Wrapped, TimersInv
<1>6. ~TurnIsOver /\ ~TurnIsOver'
  BY <1>1, <1>5 DEF TurnIsOver, Wrapped
<1>7. xMessage = NoCommand
  BY <1>1 DEF TimersInv, DaemonInv
<1>8. /\ SortedInv' /\ \A t \in Timer : Timely(t)
      /\ \A t \in Listed' : Deadline(t)' >= -MaxLate
  BY <1>1, <1>4, <1>6, <1>7, LookingKeeps DEF CallsNothing
<1>9. DaemonInv'
  BY <1>1, <1>7 DEF DaemonInv
<1>10. DueInv'
  <2>1. \A t \in Timer : xTimerItemValue[t] \in Int /\ xTimerPeriodInTicks[t] \in Int /\ TickModulus \in Int
    BY Numbers DEF TimersInv
  <2>2. ToSet(pxCurrentTimerList) \subseteq Timer /\ ToSet(pxOverflowTimerList) \subseteq Timer
    BY TypeParts DEF TimersInv
  <2> QED BY <1>1, <1>5, <1>8, <2>1, <2>2 DEF TimersInv, DueInv, lists, timers
<1> QED BY <1>1, <1>4, <1>8, <1>9, <1>10 DEF Kept, TimersInv, SendingInv

LEMMA AskingKeeps ==
    ASSUME TimersInv, NEW m \in Commands, xTimerGenericCommand(m)
    PROVE  Kept
<1>1. /\ UNCHANGED <<lists, timers, xTimerQueue, xMessage, xTickCount, xLastTime, xTimeNow, daemonAt>>
      /\ called' = NoneCalled /\ sending' = m /\ hurried' = (hurried \/ UnderWay(m.timer))
      /\ UNCHANGED <<xNextExpireTime, xDaemonWait, asserted>>
  BY DEF xTimerGenericCommand, daemon
<1>2. TimersTypeOK'
  BY <1>1 DEF TimersInv, TimersTypeOK, lists, timers, NoneCalled
<1>3. TurnIsOver' <=> TurnIsOver
  BY <1>1 DEF TurnIsOver, Wrapped
<1>4. /\ SortedInv' /\ \A t \in Timer : Timely(t)
      /\ \A t \in Listed' : Deadline(t)' >= -MaxLate
  BY <1>1, <1>2, <1>3, LookingKeeps
<1>5. DaemonInv'
  BY <1>1 DEF TimersInv, DaemonInv, Listed, lists, Age
<1>6. DueInv'
  BY <1>1, <1>4 DEF TimersInv, DueInv, lists, timers
<1>7. sending'.id # "reload"
  BY DEF xTimerGenericCommand, MayAsk
<1> QED BY <1>2, <1>4, <1>5, <1>6, <1>7 DEF Kept, TimersInv, SendingInv

LEMMA SetReloadModeKeeps ==
    ASSUME TimersInv, NEW u \in Timer, vTimerSetReloadMode(u)
    PROVE  Kept
<1>1. /\ UNCHANGED <<lists, xTimerPeriodInTicks, asks, xTimerQueue, xMessage, xTickCount, xLastTime,
                     xTimeNow, daemonAt>>
      /\ CallsNothing /\ ucStatus' = [ucStatus EXCEPT ![u].autoReload = ~@]
      /\ UNCHANGED <<xNextExpireTime, xDaemonWait, sending, asserted>>
  BY DEF vTimerSetReloadMode, daemon
<1>2. ucStatus' \in [Timer -> Status]
  BY <1>1 DEF TimersInv, TimersTypeOK, Status
<1>3. TimersTypeOK'
  BY <1>1, <1>2 DEF TimersInv, TimersTypeOK, lists, CallsNothing, NoneCalled
<1>4. TurnIsOver' <=> TurnIsOver
  BY <1>1 DEF TurnIsOver, Wrapped
<1>5. /\ SortedInv' /\ \A t \in Timer : Timely(t)
      /\ \A t \in Listed' : Deadline(t)' >= -MaxLate
  BY <1>1, <1>3, <1>4, SameQueue, AsideKeeps DEF CallsNothing
<1>6. DaemonInv'
  BY <1>1 DEF TimersInv, DaemonInv, Listed, lists, Age
<1>7. DueInv'
  BY <1>1, <1>5 DEF TimersInv, DueInv, lists
<1> QED BY <1>1, <1>3, <1>5, <1>6, <1>7 DEF Kept, TimersInv, SendingInv

\* A message at the end of the queue that is not a reload.
LEMMA AppendKeepsReloads ==
    ASSUME TimersTypeOK, NEW m, xTimerQueue' = Append(xTimerQueue, m), NEW t,
           m.id = "reload" => m.timer # t
    PROVE  Reloads(t)' = Reloads(t) /\ \A k \in Reloads(t) : xTimerQueue'[k] = xTimerQueue[k]
<1>1. /\ xTimerQueue \in Seq(Commands) /\ DOMAIN xTimerQueue = 1 .. Len(xTimerQueue)
      /\ Len(xTimerQueue) \in Nat
  BY TypeParts
<1>2. /\ DOMAIN xTimerQueue' = 1 .. Len(xTimerQueue) + 1
      /\ \A k \in 1 .. Len(xTimerQueue) : xTimerQueue'[k] = xTimerQueue[k]
      /\ xTimerQueue'[Len(xTimerQueue) + 1] = m
  BY <1>1
<1> QED BY <1>1, <1>2 DEF Reloads

LEMMA SentKeeps == ASSUME TimersInv, Sent PROVE Kept
<1>1. /\ UNCHANGED <<lists, timers, xMessage, xTickCount, xLastTime, xTimeNow, xNextExpireTime, asserted>>
      /\ CallsNothing /\ sending # NoCommand /\ sending' = NoCommand
      /\ Len(xTimerQueue) < QueueLength /\ xTimerQueue' = Append(xTimerQueue, sending)
      /\ \/ daemonAt = "blocked" /\ daemonAt' = "commands" /\ xDaemonWait' = 0
         \/ daemonAt' = daemonAt /\ xDaemonWait' = xDaemonWait
  BY DEF Sent, Post
<1>2. sending \in Commands
  BY <1>1, TypeParts DEF TimersInv
<1>3. xTimerQueue' \in Seq(Commands) /\ Len(xTimerQueue') <= QueueLength
  BY <1>1, <1>2, TypeParts, TurnFacts DEF TimersInv
<1>4. TimersTypeOK'
  <2>1. 0 \in 0 .. Forever
    BY Numbers
  <2> QED BY <1>1, <1>3, <2>1 DEF TimersInv, TimersTypeOK, lists, timers, CallsNothing, NoneCalled
<1>5. TurnIsOver' <=> TurnIsOver
  BY <1>1 DEF TurnIsOver, Wrapped
<1>6. sending.id # "reload"
  BY <1>1 DEF TimersInv, SendingInv
<1>7. /\ SortedInv' /\ \A t \in Timer : Timely(t)
      /\ \A t \in Listed' : Deadline(t)' >= -MaxLate
  BY <1>1, <1>4, <1>5, <1>6, AppendKeepsReloads, AsideKeeps DEF TimersInv, timers, CallsNothing
<1>8. DaemonInv'
  BY <1>1 DEF TimersInv, DaemonInv, Listed, lists, Age
<1>9. DueInv'
  BY <1>1, <1>7 DEF TimersInv, DueInv, lists, timers
<1>10. sending'.id # "reload"
  BY <1>1, CommandFacts
<1> QED BY <1>4, <1>7, <1>8, <1>9, <1>10 DEF Kept, TimersInv, SendingInv

LEMMA StatusKept ==
    ASSUME NEW f \in [Timer -> Status], NEW t, NEW v \in BOOLEAN
    PROVE  [f EXCEPT ![t].active = v] \in [Timer -> Status]
BY DEF Status

LEMMA EndsKeeps ==
    ASSUME TimersInv, StopsTimer \/ DeletesTimer
    PROVE  Kept
<1> DEFINE u == xMessage.timer
<1>1. /\ UNCHANGED <<lists, xTimerPeriodInTicks, asks, xTimerQueue, xTickCount, xLastTime, xNextExpireTime,
                     xDaemonWait, sending, asserted>>
      /\ CallsNothing /\ daemonAt = "handle" /\ daemonAt' = "commands"
      /\ xMessage' = NoCommand /\ xTimeNow' = 0 /\ xMessage.id \in {"stop", "delete"}
  BY DEF StopsTimer, DeletesTimer, Handles
<1>2. ucStatus' \in [Timer -> Status]
  <2>1. ucStatus \in [Timer -> Status]
    BY DEF TimersInv, TimersTypeOK
  <2>2. ucStatus' = [ucStatus EXCEPT ![u].active = FALSE]
    <3>1. CASE StopsTimer
      BY <3>1 DEF StopsTimer, SetStatus
    <3>2. CASE DeletesTimer
      BY <3>2 DEF DeletesTimer, SetStatus
    <3> QED BY <3>1, <3>2
  <2> QED BY <2>1, <2>2, StatusKept
<1>3. TimersTypeOK'
  BY <1>1, <1>2, NoTimePasses DEF TimersInv, TimersTypeOK, lists, CallsNothing, NoneCalled
<1>4. TurnIsOver' <=> TurnIsOver
  BY <1>1 DEF TurnIsOver, Wrapped
<1>5. Listed' = Listed /\ Listed \subseteq Timer /\ xMessage'.timer = NoTimer
  BY <1>1, TypeParts, CommandFacts DEF TimersInv, Listed, lists
<1>6. SortedInv'
  BY <1>1, <1>5, TurnFacts DEF TimersInv, SortedInv, lists
<1>7. ASSUME NEW t \in Timer, t # u PROVE Deadline(t)' = Deadline(t)
  <2>1. xMessage'.timer # t
    BY <1>5, TurnFacts
  <2> QED BY <1>1, <1>3, <1>4, <1>6, <1>7, <2>1, SameQueue, DeadlineKept DEF TimersInv, lists
<1>8. u \in Timer => Deadline(u) = Forever
  BY <1>1, DeadlineAt DEF TimersInv, Starts
<1>9. \A t \in Timer : Timely(t)
  BY <1>1, <1>7, <1>8, QuietIsTimely, NothingCalled DEF TimersInv, CallsNothing
<1>10. u \notin Listed
  BY DEF TimersInv, SortedInv
<1>11. DueInv'
  BY <1>1, <1>5, <1>7, <1>10 DEF TimersInv, DueInv, Listed, lists
<1>12. DaemonInv'
  BY <1>1 DEF DaemonInv
<1> QED BY <1>1, <1>3, <1>6, <1>9, <1>11, <1>12 DEF Kept, TimersInv, SendingInv

\* The tick count and the time since the daemon sampled it, with the turn that is over.
LEMMA TurnAge ==
    ASSUME NEW last \in Ticks, NEW now \in Ticks
    PROVE  now + (IF now < last THEN TickModulus ELSE 0) = last + ((now - last) % TickModulus)
<1>1. (now - last) % TickModulus = IF last <= now THEN now - last ELSE now - last + TickModulus
  BY AgeIs
<1>2. now \in Nat /\ last \in Nat /\ TickModulus \in Nat
  BY Numbers
<1> QED BY <1>1, <1>2

LEMMA TickAges ==
    ASSUME NEW now \in Ticks, NEW u \in Ticks
    PROVE  /\ Plus(now, 1) \in Ticks
           /\ Plus(now, 1) = IF now + 1 < TickModulus THEN now + 1 ELSE 0
           /\ (Plus(now, 1) - u) % TickModulus
                 = IF ((now - u) % TickModulus) + 1 < TickModulus THEN ((now - u) % TickModulus) + 1 ELSE 0
           /\ (now - u) % TickModulus \in Nat
<1>1. /\ now \in Nat /\ now < TickModulus /\ u \in Nat /\ u < TickModulus
      /\ TickModulus \in Nat /\ TickModulus > 0
  BY Numbers
<1>2. 1 \in 0 .. TickModulus
  BY <1>1
<1>3. Plus(now, 1) \in Ticks /\ Plus(now, 1) = IF now + 1 < TickModulus THEN now + 1 ELSE 0
  BY <1>1, <1>2, PlusIs
<1>4. (now - u) % TickModulus = IF u <= now THEN now - u ELSE now - u + TickModulus
  BY AgeIs
<1> DEFINE next == Plus(now, 1)
<1>5. (next - u) % TickModulus = IF u <= next THEN next - u ELSE next - u + TickModulus
  BY <1>3, AgeIs
<1> QED BY <1>1, <1>3, <1>4, <1>5

LEMMA TickMovesDeadlines ==
    ASSUME TimersInv, TimersTypeOK', SortedInv', xTaskIncrementTick, NEW t \in Timer
    PROVE  /\ Deadline(t) # Forever => Deadline(t)' = Deadline(t) - 1
           /\ daemonAt = "switch" /\ t \in Listed => xTickCount' = xTickCount + 1
           /\ xMessage.timer = t /\ Starts(xMessage) => Age(xMessage.value)' = Age(xMessage.value) + 1
           /\ xMessage.timer = t /\ daemonAt \in {"switch", "handle"} => Age(xTimeNow)' = Age(xTimeNow) + 1
<1> DEFINE M == TickModulus
<1>0. /\ UNCHANGED <<xLastTime, lists, timers, xTimerQueue, xMessage, xTimeNow>>
      /\ xTickCount' = Plus(xTickCount, 1)
      /\ daemonAt # "blocked" => daemonAt' = daemonAt
      /\ daemonAt = "blocked" => daemonAt' \in {"blocked", "commands"}
      /\ Deadline(t) > -MaxLate
      /\ daemonAt \in {"switch", "handle", "expired"} => Age(xTimeNow) < MaxLate
  BY DEF xTaskIncrementTick, WithinBound
<1>1. /\ TimersTypeOK /\ SortedInv
      /\ xTickCount \in Ticks /\ xLastTime \in Ticks /\ xTimeNow \in Ticks
      /\ xTickCount \in Nat /\ xLastTime \in Nat /\ xTimeNow \in Nat /\ xTickCount < M /\ xLastTime < M
      /\ xTimerItemValue[t] \in Nat /\ xTimerItemValue[t] < M
      /\ xTimerPeriodInTicks[t] \in Nat /\ xTimerPeriodInTicks[t] > 0 /\ xTimerPeriodInTicks[t] + MaxLate < M
      /\ M \in Nat /\ MaxLate \in Nat /\ M > 1
  BY TypeParts, Numbers DEF TimersInv
<1>2. xTickCount' = IF xTickCount + 1 < M THEN xTickCount + 1 ELSE 0
  BY <1>0, <1>1, TickAges
<1>3. ASSUME NEW u \in Ticks, Age(u) + 1 < M
      PROVE  (xTickCount' - u) % M = Age(u) + 1 /\ Age(u) \in Nat
  BY <1>0, <1>1, <1>3, TickAges DEF Age
<1>4. ASSUME NEW u \in Ticks, Deadline(t) = xTimerPeriodInTicks[t] - Age(u)
      PROVE  (xTickCount' - u) % M = Age(u) + 1 /\ Age(u) \in Nat
  <2>1. Age(u) \in Nat
    BY <1>1, TickAges DEF Age
  <2>2. Age(u) + 1 < M
    BY <1>0, <1>1, <1>4, <2>1
  <2> QED BY <1>3, <2>2
<1> HIDE DEF M
<1>5. CASE xMessage.timer = t /\ Starts(xMessage)
  <2>1. xMessage \in Commands /\ xMessage.value \in Ticks
    BY <1>1, <1>5, TypeParts, CommandFacts, TurnFacts
  <2>2. Deadline(t) = xTimerPeriodInTicks[t] - Age(xMessage.value)
    BY <1>1, <1>5, DeadlineAt
  <2>3. Age(xMessage.value)' = Age(xMessage.value) + 1 /\ Age(xMessage.value) \in Nat
    BY <1>0, <1>4, <2>1, <2>2 DEF Age, M
  <2>4. Deadline(t)' = xTimerPeriodInTicks[t] - Age(xMessage.value)'
    BY <1>0, <1>5, DeadlineThen DEF timers
  <2>5. daemonAt \in {"switch", "handle"} => Age(xTimeNow)' = Age(xTimeNow) + 1
    <3>1. Age(xTimeNow) \in Nat
      BY <1>1, TickAges DEF Age
    <3> QED BY <1>0, <1>1, <1>3, <3>1 DEF Age, M
  <2>6. t \notin Listed
    BY <1>1, <1>5 DEF SortedInv
  <2> QED BY <1>1, <1>5, <2>2, <2>3, <2>4, <2>5, <2>6
<1>6. CASE xMessage.timer = t /\ ~Starts(xMessage)
  <2>1. daemonAt \in {"switch", "handle"} => Age(xTimeNow)' = Age(xTimeNow) + 1 /\ Age(xTimeNow) \in Nat
    <3>1. Age(xTimeNow) \in Nat
      BY <1>1, TickAges DEF Age
    <3> QED BY <1>0, <1>1, <1>3, <3>1 DEF Age, M
  <2>2. t \notin Listed
    BY <1>1, <1>6 DEF SortedInv
  <2>3. CASE xMessage.id = "changePeriod" /\ daemonAt = "handle"
    <3>0. \A p \in Periods : p \in Int
      BY TurnFacts
    <3>1. xMessage.value \in Int
      <4>1. xMessage \in Commands
        BY <1>1, <1>6, TypeParts, CommandFacts, TurnFacts
      <4> QED BY <2>3, <3>0, <4>1, CommandFacts
    <3>2. Deadline(t) = xMessage.value - Age(xTimeNow)
      BY <1>1, <1>6, <2>3, DeadlineAt
    <3>3. Deadline(t)' = xMessage.value - Age(xTimeNow)'
      BY <1>0, <1>6, <2>3, DeadlineThen
    <3> QED BY <1>6, <2>1, <2>2, <2>3, <3>1, <3>2, <3>3
  <2>4. CASE ~(xMessage.id = "changePeriod" /\ daemonAt = "handle")
    <3>1. Deadline(t) = Forever
      BY <1>1, <1>6, <2>4, DeadlineAt
    <3> QED BY <1>6, <2>1, <2>2, <3>1
  <2> QED BY <2>3, <2>4
<1>7. CASE xMessage.timer # t /\ t \in Listed /\ daemonAt # "switch"
  <2>1. TurnIsOver <=> xTickCount < xLastTime
    BY <1>7 DEF TurnIsOver, Wrapped
  <2>2. TurnIsOver' <=> xTickCount' < xLastTime
    BY <1>0, <1>7 DEF TurnIsOver, Wrapped
  <2>3. Age(xLastTime) \in Nat
    BY <1>1, TickAges DEF Age
  <2>4. xTickCount + (IF TurnIsOver THEN M ELSE 0) = xLastTime + Age(xLastTime)
    BY <1>1, <2>1, TurnAge DEF Age, M
  <2>5. xTickCount' \in Ticks /\ xTickCount' \in Nat
    BY <1>0, <1>1, TickAges, Numbers
  <2>6. xTickCount' + (IF TurnIsOver' THEN M ELSE 0) = xLastTime + ((xTickCount' - xLastTime) % M)
    BY <1>1, <2>2, <2>5, TurnAge DEF M
  <2>7. CASE t \in ToSet(pxCurrentTimerList)
    <3>1. Deadline(t) = xTimerItemValue[t] - xTickCount - IF TurnIsOver THEN M ELSE 0
      BY <1>1, <2>7, DeadlineAt DEF M
    <3>2. xTimerItemValue[t] - xLastTime <= xTimerPeriodInTicks[t]
      BY <1>7, <2>7 DEF TimersInv, DueInv
    <3>3. Age(xLastTime) + 1 < M
      BY <1>0, <1>1, <2>3, <2>4, <3>1, <3>2
    <3>4. (xTickCount' - xLastTime) % M = Age(xLastTime) + 1
      BY <1>1, <1>3, <3>3 DEF M
    <3>5. Deadline(t)' = xTimerItemValue[t] - xTickCount' - IF TurnIsOver' THEN M ELSE 0
      BY <1>0, <2>7, DeadlineThen DEF lists, M
    <3>6. Deadline(t)' = Deadline(t) - 1
      <4>1. PICK over \in Int, then \in Int, age \in Int :
               /\ over = IF TurnIsOver THEN M ELSE 0
               /\ then = IF TurnIsOver' THEN M ELSE 0
               /\ age = Age(xLastTime)
        BY <1>1, <2>3
      <4>2. xTickCount + over = xLastTime + age /\ xTickCount' + then = xLastTime + (age + 1)
        BY <2>4, <2>6, <3>4, <4>1
      <4>3. /\ Deadline(t) = xTimerItemValue[t] - xTickCount - over
            /\ Deadline(t)' = xTimerItemValue[t] - xTickCount' - then
        BY <1>1, <2>5, <3>1, <3>5, <4>1
      <4> QED BY <1>1, <2>5, <4>2, <4>3
    <3> QED BY <1>7, <3>6
  <2>8. CASE t \in ToSet(pxOverflowTimerList)
    <3>1. Deadline(t) = xTimerItemValue[t] - xTickCount + IF TurnIsOver THEN 0 ELSE M
      BY <1>1, <2>8, DeadlineAt DEF M
    <3>2. xTimerItemValue[t] + M - xLastTime <= xTimerPeriodInTicks[t]
      BY <1>7, <2>8 DEF TimersInv, DueInv, M
    <3>3. Age(xLastTime) + 1 < M
      BY <1>0, <1>1, <2>3, <2>4, <3>1, <3>2
    <3>4. (xTickCount' - xLastTime) % M = Age(xLastTime) + 1
      BY <1>1, <1>3, <3>3 DEF M
    <3>5. Deadline(t)' = xTimerItemValue[t] - xTickCount' + IF TurnIsOver' THEN 0 ELSE M
      BY <1>0, <2>8, DeadlineThen DEF lists, M
    <3>6. Deadline(t)' = Deadline(t) - 1
      <4>1. PICK over \in Int, then \in Int, age \in Int :
               /\ over = IF TurnIsOver THEN M ELSE 0
               /\ then = IF TurnIsOver' THEN M ELSE 0
               /\ age = Age(xLastTime)
        BY <1>1, <2>3
      <4>2. xTickCount + over = xLastTime + age /\ xTickCount' + then = xLastTime + (age + 1)
        BY <2>4, <2>6, <3>4, <4>1
      <4>3. Deadline(t) = xTimerItemValue[t] - xTickCount + (M - over)
        BY <1>1, <3>1, <4>1
      <4>4. (IF TurnIsOver' THEN 0 ELSE M) = M - then
        BY <1>1, <4>1
      <4>5. Deadline(t)' = xTimerItemValue[t] - xTickCount' + (M - then)
        BY <3>5, <4>4
      <4>6. PICK x, now, next, last, m \in Int :
               /\ x = xTimerItemValue[t] /\ now = xTickCount /\ next = xTickCount' /\ last = xLastTime
               /\ m = M
        BY <1>1, <2>5
      <4>7. now + over = last + age /\ next + then = last + (age + 1)
        BY <4>2, <4>6
      <4>8. x - next + (m - then) = (x - now + (m - over)) - 1
        BY <4>7
      <4> QED BY <4>3, <4>5, <4>6, <4>8
    <3> QED BY <1>7, <3>6
  <2> QED BY <1>7, <2>7, <2>8 DEF Listed
<1>8. CASE xMessage.timer # t /\ t \in Listed /\ daemonAt = "switch"
  <2>1. TurnIsOver /\ TurnIsOver'
    BY <1>0, <1>8 DEF TurnIsOver
  <2>2. CASE t \in ToSet(pxCurrentTimerList)
    <3>1. Deadline(t) = xTimerItemValue[t] - xTickCount - M
      BY <1>1, <2>1, <2>2, DeadlineAt DEF M
    <3>2. xTickCount' = xTickCount + 1
      BY <1>0, <1>1, <1>2, <3>1
    <3>3. Deadline(t)' = xTimerItemValue[t] - xTickCount' - M
      BY <1>0, <2>1, <2>2, DeadlineThen DEF lists, M
    <3> QED BY <1>1, <1>8, <3>1, <3>2, <3>3
  <2>3. CASE t \in ToSet(pxOverflowTimerList)
    <3>1. Deadline(t) = xTimerItemValue[t] - xTickCount
      BY <1>1, <2>1, <2>3, DeadlineAt DEF M
    <3>2. xTimerItemValue[t] + M - xLastTime <= xTimerPeriodInTicks[t]
      BY <2>3 DEF TimersInv, DueInv, M
    <3>3. xTickCount' = xTickCount + 1
      BY <1>0, <1>1, <1>2, <3>1, <3>2
    <3>4. Deadline(t)' = xTimerItemValue[t] - xTickCount'
      BY <1>0, <1>1, <2>1, <2>3, <3>3, DeadlineThen DEF lists, M
    <3> QED BY <1>1, <1>8, <3>1, <3>3, <3>4
  <2> QED BY <1>8, <2>2, <2>3 DEF Listed
<1>9. CASE xMessage.timer # t /\ t \notin Listed
  <2>1. t \notin Listed' /\ xMessage'.timer # t
    BY <1>0, <1>9 DEF lists, Listed
  <2>2. CASE Reloads(t) = {}
    BY <1>1, <1>9, <2>2, DeadlineAt
  <2>3. CASE Reloads(t) # {}
    <3>1. PICK k \in Reloads(t) : \A j \in Reloads(t) : j <= k
      BY <1>1, <2>3, LastReloadIn
    <3>2. Reloads(t)' = Reloads(t) /\ Reloads(t) \subseteq Int /\ xTimerQueue'[k] = xTimerQueue[k]
      BY <1>0, <1>1, <2>3, LastReloadIn, TypeParts, SameQueue
    <3>3. Deadline(t) = xTimerPeriodInTicks[t] - Age(xTimerQueue[k].value) /\ xTimerQueue[k].value \in Ticks
      BY <1>1, <1>9, <3>1, ReloadDeadline
    <3>4. Deadline(t)' = xTimerPeriodInTicks'[t] - Age(xTimerQueue[k].value)'
      BY <2>1, <3>1, <3>2, ReloadDeadlineThen
    <3>5. Age(xTimerQueue[k].value)' = Age(xTimerQueue[k].value) + 1 /\ Age(xTimerQueue[k].value) \in Nat
      BY <1>4, <3>2, <3>3 DEF Age, M
    <3> QED BY <1>0, <1>1, <1>9, <3>3, <3>4, <3>5 DEF timers
  <2> QED BY <1>9, <2>2, <2>3
<1> QED BY <1>5, <1>6, <1>7, <1>8, <1>9

LEMMA ListedDeadline ==
    ASSUME TimersInv, NEW t \in Listed
    PROVE  t \in Timer /\ Deadline(t) \in Int /\ Deadline(t) < TickModulus
<1>1. /\ TimersTypeOK /\ SortedInv /\ t \in Timer
      /\ \A u \in ToSet(pxOverflowTimerList) :
            xTimerItemValue[u] + TickModulus - xLastTime <= xTimerPeriodInTicks[u]
  BY TypeParts DEF TimersInv, DueInv, Listed
<1>2. Deadline(t) \in Int
  BY <1>1, DeadlineType
<1>3. PICK x, now, last, m, p \in Int :
         /\ x = xTimerItemValue[t] /\ now = xTickCount /\ last = xLastTime /\ m = TickModulus
         /\ p = xTimerPeriodInTicks[t]
         /\ 0 <= x /\ x < m /\ 0 <= now /\ now < m /\ p < m
  <2>1. /\ xTimerItemValue[t] \in Nat /\ xTimerItemValue[t] < TickModulus
        /\ xTickCount \in Nat /\ xTickCount < TickModulus /\ xLastTime \in Nat /\ TickModulus \in Nat
        /\ xTimerPeriodInTicks[t] \in Nat /\ xTimerPeriodInTicks[t] < TickModulus
    BY <1>1, Numbers
  <2> QED BY <2>1
<1>4. CASE t \in ToSet(pxCurrentTimerList)
  <2>1. Deadline(t) = x - now - IF TurnIsOver THEN m ELSE 0
    BY <1>1, <1>3, <1>4, DeadlineAt
  <2> QED BY <1>1, <1>2, <1>3, <2>1
<1>5. CASE t \in ToSet(pxOverflowTimerList)
  <2>1. Deadline(t) = x - now + IF TurnIsOver THEN 0 ELSE m
    BY <1>1, <1>3, <1>5, DeadlineAt
  <2>2. CASE TurnIsOver
    BY <1>1, <1>2, <1>3, <2>1, <2>2
  <2>3. CASE ~TurnIsOver
    <3>1. last <= now
      BY <1>3, <2>3 DEF TurnIsOver, Wrapped
    <3>2. x + m - last <= p
      BY <1>1, <1>3, <1>5
    <3> QED BY <1>1, <1>2, <1>3, <2>1, <2>3, <3>1, <3>2
  <2> QED BY <2>2, <2>3
<1> QED BY <1>4, <1>5 DEF Listed

LEMMA TickKeeps == ASSUME TimersInv, xTaskIncrementTick PROVE Kept
<1>1. /\ UNCHANGED <<lists, timers, xTimerQueue, xMessage, xLastTime, xTimeNow, xNextExpireTime,
                     sending, asserted>>
      /\ CallsNothing /\ xTickCount' = Plus(xTickCount, 1)
      /\ daemonAt # "blocked" => daemonAt' = daemonAt /\ xDaemonWait' = xDaemonWait
      /\ daemonAt = "blocked" => daemonAt' \in {"blocked", "commands"}
      /\ daemonAt \in {"switch", "handle", "expired"} => Age(xTimeNow) < MaxLate
      /\ \A t \in Timer : Deadline(t) > -MaxLate
  BY DEF xTaskIncrementTick, WithinBound
<1>2. TimersTypeOK /\ SortedInv /\ DaemonInv /\ DueInv
  BY DEF TimersInv
<1>3. xTickCount' \in Ticks
  BY <1>1, <1>2, TypeParts, TickAges
<1>4. xDaemonWait' \in 0 .. Forever
  <2>1. xDaemonWait \in 0 .. Forever /\ Forever \in Nat
    BY <1>2, TurnFacts DEF TimersTypeOK
  <2>2. xDaemonWait' \in {xDaemonWait, 0} \/ (xDaemonWait > 1 /\ xDaemonWait' = xDaemonWait - 1)
    BY <2>1 DEF xTaskIncrementTick
  <2> QED BY <2>1, <2>2
<1>5. TimersTypeOK'
  <2>1. daemonAt' \in {"loop", "expired", "switch", "commands", "sample", "handle", "blocked"}
    BY <1>1, <1>2 DEF TimersTypeOK
  <2>2. called' \in [Timer -> 0..1] /\ hurried' = hurried
    BY <1>1 DEF CallsNothing, NoneCalled
  <2> QED BY <1>1, <1>2, <1>3, <1>4, <2>1, <2>2 DEF TimersTypeOK, lists, timers
<1>6. SortedInv'
  BY <1>1, <1>2 DEF SortedInv, Listed, lists
<1>7. ASSUME NEW t \in Timer
      PROVE  Deadline(t) # Forever => Deadline(t)' = Deadline(t) - 1
  BY <1>5, <1>6, TickMovesDeadlines
<1>8. ASSUME NEW t \in Timer PROVE Timely(t)
  <2>1. TickModulus \in Nat /\ TickModulus > 1
    BY <1>2, Numbers
  <2>2. (xTickCount - xTickCount) % TickModulus = 0
    BY <1>2, NoTimePasses
  <2>3. (Plus(xTickCount, 1) - xTickCount) % TickModulus
          = IF ((xTickCount - xTickCount) % TickModulus) + 1 < TickModulus
            THEN ((xTickCount - xTickCount) % TickModulus) + 1 ELSE 0
    BY <1>2, TypeParts, TickAges
  <2>4. (xTickCount' - xTickCount) % TickModulus = 1
    BY <1>1, <2>1, <2>2, <2>3
  <2>5. called'[t] = 0
    BY <1>1, NothingCalled DEF CallsNothing
  <2> QED BY <1>7, <2>4, <2>5 DEF Timely
<1>9. Listed' = Listed
  BY <1>1 DEF Listed, lists
<1>10. DueInv'
  <2>1. ASSUME NEW t \in Listed PROVE Deadline(t)' >= -MaxLate
    <3>1. t \in Timer /\ Deadline(t) \in Int /\ Deadline(t) < TickModulus
      BY ListedDeadline
    <3>2. TickModulus \in Nat /\ MaxLate \in Nat /\ Forever = TickModulus + 1
      BY Numbers
    <3>3. Deadline(t) > -MaxLate
      BY <1>1, <3>1
    <3>4. Deadline(t)' = Deadline(t) - 1
      BY <1>7, <3>1, <3>2
    <3> QED BY <3>1, <3>2, <3>3, <3>4
  <2> QED BY <1>1, <1>2, <1>9, <2>1 DEF DueInv, lists, timers
<1>11. DaemonInv'
  <2>1. daemonAt' \in {"sample", "switch", "handle", "expired"} =>
           daemonAt' = daemonAt
    BY <1>1
  <2>2. xMessage # NoCommand => daemonAt' \in {"sample", "switch", "handle"}
    BY <1>1, <1>2 DEF DaemonInv
  <2>3. ASSUME daemonAt' \in {"switch", "handle"} PROVE Age(xTimeNow)' <= MaxLate
    <3>1. Age(xTimeNow) < MaxLate /\ Age(xTimeNow) \in Nat
      BY <1>1, <1>2, <2>1, <2>3, TypeParts, TickAges DEF Age
    <3>2. Age(xTimeNow)' = IF Age(xTimeNow) + 1 < TickModulus THEN Age(xTimeNow) + 1 ELSE 0
      BY <1>1, <1>2, TypeParts, TickAges DEF Age
    <3>3. MaxLate \in Nat
      BY Numbers
    <3> QED BY <3>1, <3>2, <3>3
  <2>4. ASSUME daemonAt' = "switch", NEW t \in Listed
        PROVE  xTimeNow <= xTickCount'
    <3>1. daemonAt = "switch" /\ xTimeNow <= xTickCount
      BY <1>2, <2>1, <2>4 DEF DaemonInv
    <3>2. xTickCount' = xTickCount + 1
      BY <1>5, <1>6, <3>1, TickMovesDeadlines, ListedDeadline
    <3>3. xTimeNow \in Nat /\ xTickCount \in Nat
      BY <1>2, Numbers
    <3> QED BY <3>1, <3>2, <3>3
  <2>5. ASSUME daemonAt' \in {"switch", "handle"}, Starts(xMessage)
        PROVE  Age(xMessage.value)' = ((xTimeNow - xMessage.value) % TickModulus) + Age(xTimeNow)'
    <3>1. xMessage \in Commands /\ xMessage.timer \in Timer /\ xMessage.value \in Ticks
      BY <1>2, <2>5, TypeParts, CommandFacts
    <3>2. daemonAt \in {"switch", "handle"}
      BY <2>1, <2>5
    <3>3. Age(xMessage.value) = ((xTimeNow - xMessage.value) % TickModulus) + Age(xTimeNow)
      BY <1>2, <2>5, <3>2 DEF DaemonInv
    <3>4. Age(xMessage.value)' = Age(xMessage.value) + 1 /\ Age(xTimeNow)' = Age(xTimeNow) + 1
      BY <1>5, <1>6, <2>5, <3>1, <3>2, TickMovesDeadlines
    <3>5. Age(xTimeNow) \in Nat /\ (xTimeNow - xMessage.value) % TickModulus \in Nat
      BY <1>2, <3>1, TypeParts, TickAges DEF Age
    <3> QED BY <3>3, <3>4, <3>5
  <2>6. daemonAt' = "handle" => xLastTime' = xTimeNow'
    BY <1>1, <1>2, <2>1 DEF DaemonInv
  <2>7. daemonAt' = "expired" =>
          /\ xLastTime = xTimeNow /\ pxCurrentTimerList # << >>
          /\ xNextExpireTime = xTimerItemValue[Head(pxCurrentTimerList)]
          /\ xNextExpireTime <= xTimeNow
    BY <1>2, <2>1 DEF DaemonInv
  <2>8. daemonAt' \in {"sample", "handle"} => xMessage # NoCommand
    BY <1>2, <2>1 DEF DaemonInv
  <2> QED BY <1>1, <1>9, <2>2, <2>3, <2>4, <2>5, <2>6, <2>7, <2>8 DEF DaemonInv, lists
<1>12. SendingInv'
  BY <1>1 DEF TimersInv, SendingInv
<1> QED BY <1>5, <1>6, <1>8, <1>10, <1>11, <1>12 DEF Kept, TimersInv

LEMMA CallsOne ==
    ASSUME NEW t \in Timer, Calls(t)
    PROVE  /\ called' \in [Timer -> 0..1] /\ called'[t] = 1
           /\ \A u \in Timer : u # t => called'[u] = 0
           /\ hurried' = hurried
BY DEF Calls, NoneCalled

\* The daemon's own command for a timer, behind the others.
LEMMA ReloadSends ==
    ASSUME TimersTypeOK, NEW t \in Timer, NEW time \in Ticks, Reload(t, time)
    PROVE  /\ xTimerQueue' \in Seq(Commands) /\ Len(xTimerQueue') <= QueueLength
           /\ asserted' \in BOOLEAN
           /\ \A u : u # t => /\ Reloads(u)' = Reloads(u)
                              /\ \A k \in Reloads(u) : xTimerQueue'[k] = xTimerQueue[k]
           /\ ~asserted' =>
                 /\ Len(xTimerQueue) + 1 \in Reloads(t)' /\ Reloads(t)' \subseteq Int
                 /\ \A j \in Reloads(t)' : j <= Len(xTimerQueue) + 1
                 /\ xTimerQueue'[Len(xTimerQueue) + 1].value = time
<1> DEFINE m == Command("reload", t, time)
           N == Len(xTimerQueue)
<1>1. /\ m \in Commands /\ m.timer = t /\ m.id = "reload" /\ m.value = time
      /\ N \in Nat /\ xTimerQueue \in Seq(Commands) /\ DOMAIN xTimerQueue = 1 .. N
      /\ N <= QueueLength /\ asserted \in BOOLEAN /\ QueueLength \in Nat
  BY CommandFacts, TypeParts, TurnFacts DEF TimersTypeOK
<1>2. CASE N < QueueLength
  <2>1. xTimerQueue' = Append(xTimerQueue, m) /\ asserted' = asserted
    BY <1>2 DEF Reload
  <2> HIDE DEF m
  <2>2. /\ xTimerQueue' \in Seq(Commands) /\ Len(xTimerQueue') = N + 1 /\ DOMAIN xTimerQueue' = 1 .. N + 1
        /\ xTimerQueue'[N + 1] = m
    BY <1>1, <2>1
  <2>3. \A u : u # t => /\ Reloads(u)' = Reloads(u)
                        /\ \A k \in Reloads(u) : xTimerQueue'[k] = xTimerQueue[k]
    BY <1>1, <2>1, AppendKeepsReloads
  <2>4. /\ N + 1 \in Reloads(t)' /\ Reloads(t)' \subseteq 1 .. N + 1
    BY <1>1, <2>2 DEF Reloads
  <2>5. Reloads(t)' \subseteq Int /\ \A j \in Reloads(t)' : j <= N + 1
    BY <1>1, <2>4
  <2>6. Len(xTimerQueue') <= QueueLength /\ asserted' \in BOOLEAN /\ xTimerQueue'[N + 1].value = time
    BY <1>1, <1>2, <2>1, <2>2
  <2> HIDE DEF N
  <2> QED BY <2>2, <2>3, <2>4, <2>5, <2>6 DEF N
<1>3. CASE ~(N < QueueLength)
  <2>1. xTimerQueue' = xTimerQueue /\ asserted' = TRUE
    BY <1>3 DEF Reload
  <2> QED BY <1>1, <2>1, SameQueue
<1> QED BY <1>2, <1>3

\* A deadline that has passed, of a timer in the current list.
LEMMA LateAge ==
    ASSUME TimersTypeOK, SortedInv, NEW t \in ToSet(pxCurrentTimerList),
           Deadline(t) <= 0, Deadline(t) > -TickModulus
    PROVE  Age(xTimerItemValue[t]) = -Deadline(t)
<1>1. t \in Timer
  BY TypeParts
<1>2. PICK x, now, m \in Int :
         /\ x = xTimerItemValue[t] /\ now = xTickCount /\ m = TickModulus
         /\ 0 <= x /\ x < m /\ 0 <= now /\ now < m
  BY <1>1, Numbers
<1>3. Deadline(t) = x - now - IF TurnIsOver THEN m ELSE 0
  BY <1>1, <1>2, DeadlineAt
<1>4. Age(xTimerItemValue[t]) = IF x <= now THEN now - x ELSE now - x + m
  BY <1>1, <1>2, AgeIs, TypeParts DEF Age
<1> QED BY <1>2, <1>3, <1>4

\* A timer is put in a list one period after a time.
LEMMA ExpiryAfter ==
    ASSUME NEW u \in Ticks, NEW now \in Ticks, NEW p \in Periods, (now - u) % TickModulus < p
    PROVE  /\ Plus(u, p) \in Ticks
           /\ Plus(u, p) <= now => Plus(u, p) + TickModulus - now = p - ((now - u) % TickModulus)
           /\ ~(Plus(u, p) <= now) => Plus(u, p) - now = p - ((now - u) % TickModulus)
<1>1. PICK v, w, q, m, g \in Int :
         /\ v = u /\ w = now /\ q = p /\ m = TickModulus /\ 0 <= v /\ v < m /\ 0 <= w /\ w < m
         /\ 0 < q /\ q < m /\ g = (now - u) % TickModulus
  BY Numbers, PeriodFacts, AgeIs
<1>2. g = IF v <= w THEN w - v ELSE w - v + m
  BY <1>1, AgeIs
<1>3. Plus(u, p) \in Ticks /\ Plus(u, p) = IF v + q < m THEN v + q ELSE v + q - m
  BY <1>1, PeriodFacts, PlusIs
<1>4. g < q
  BY <1>1
<1>5. PICK e \in Int : e = Plus(u, p) /\ e = IF v + q < m THEN v + q ELSE v + q - m
  BY <1>1, <1>3, Numbers
<1>6. /\ e <= w => e + m - w = q - g
      /\ ~(e <= w) => e - w = q - g
  BY <1>1, <1>2, <1>4, <1>5
<1> QED BY <1>1, <1>3, <1>5, <1>6

LEMMA InsertedDeadline ==
    ASSUME TimersTypeOK, TimersTypeOK', SortedInv', NEW t \in Timer, NEW u \in Ticks, NEW p \in Periods,
           (xLastTime - u) % TickModulus < p, xTickCount' = xTickCount, xLastTime' = xLastTime,
           daemonAt' # "switch", xTimerItemValue'[t] = Plus(u, p),
           Plus(u, p) <= xLastTime => t \in ToSet(pxOverflowTimerList'),
           ~(Plus(u, p) <= xLastTime) => t \in ToSet(pxCurrentTimerList')
    PROVE  Deadline(t)' = p - ((xLastTime - u) % TickModulus) - Age(xLastTime)
<1>1. PICK now, last, m, g, e, a, q \in Int :
         /\ now = xTickCount /\ last = xLastTime /\ m = TickModulus /\ q = p
         /\ g = (xLastTime - u) % TickModulus /\ e = Plus(u, p) /\ a = Age(xLastTime)
  <2>1. Ticks \subseteq Int /\ \A n \in Periods : n \in Int
    BY TurnFacts
  <2>2. xTickCount \in Ticks /\ xLastTime \in Ticks /\ TickModulus \in Int
    BY TypeParts, Numbers
  <2>3. (xLastTime - u) % TickModulus \in Ticks /\ Age(xLastTime) \in Ticks
    BY <2>2, AgeIs, AgeType
  <2>4. Plus(u, p) \in Ticks
    BY <2>2, ExpiryAfter
  <2> QED BY <2>1, <2>2, <2>3, <2>4
<1>2. now + (IF now < last THEN m ELSE 0) = last + a
  BY <1>1, TypeParts, TurnAge DEF Age
<1>3. TurnIsOver' <=> now < last
  BY <1>1 DEF TurnIsOver, Wrapped
<1>4. /\ e <= last => e + m - last = q - g
      /\ ~(e <= last) => e - last = q - g
  BY <1>1, TypeParts, ExpiryAfter
<1>5. CASE e <= last
  <2>1. Deadline(t)' = e - now + IF now < last THEN 0 ELSE m
    BY <1>1, <1>3, <1>5, DeadlineThen
  <2>2. e - now + (IF now < last THEN 0 ELSE m) = q - g - a
    BY <1>2, <1>4, <1>5
  <2> QED BY <1>1, <2>1, <2>2
<1>6. CASE ~(e <= last)
  <2>1. Deadline(t)' = e - now - IF now < last THEN m ELSE 0
    BY <1>1, <1>3, <1>6, DeadlineThen
  <2>2. e - now - (IF now < last THEN m ELSE 0) = q - g - a
    BY <1>2, <1>4, <1>6
  <2> QED BY <1>1, <2>1, <2>2
<1> QED BY <1>5, <1>6

LEMMA prvProcessExpiredTimerKeeps == ASSUME TimersInv, prvProcessExpiredTimer PROVE Kept
<1> DEFINE c == pxCurrentTimerList
           o == pxOverflowTimerList
<1>0. PICK t, next, p, expiry :
         /\ t = Head(c) /\ next = xNextExpireTime /\ p = xTimerPeriodInTicks[t] /\ expiry = Plus(next, p)
  OBVIOUS
<1> DEFINE A == /\ ~ucStatus[t].autoReload
                /\ ucStatus' = [ucStatus EXCEPT ![t].active = FALSE]
                /\ RemoveHead
                /\ UNCHANGED <<pxOverflowTimerList, xTimerQueue, asserted>>
           B == /\ ucStatus[t].autoReload /\ HasExpired(t, expiry, xTimeNow, next)
                /\ RemoveHead
                /\ Reload(t, next)
                /\ UNCHANGED <<pxOverflowTimerList, ucStatus>>
           C == /\ ucStatus[t].autoReload /\ ~HasExpired(t, expiry, xTimeNow, next)
                /\ Insert(Tail(c), t, expiry, xTimeNow)
                /\ UNCHANGED <<ucStatus, xTimerQueue, asserted>>
<1>1. /\ daemonAt = "expired" /\ daemonAt' = "commands" /\ xTimeNow' = 0 /\ xNextExpireTime' = 0
      /\ Calls(t) /\ (A \/ B \/ C)
      /\ UNCHANGED <<xTickCount, xLastTime, xTimerPeriodInTicks, asks, xMessage, xDaemonWait, sending>>
  BY <1>0 DEF prvProcessExpiredTimer
<1> HIDE DEF A, B, C
<1>2. TimersTypeOK /\ SortedInv /\ DaemonInv /\ DueInv /\ SendingInv
  BY DEF TimersInv
<1>3. /\ xMessage = NoCommand /\ xLastTime = xTimeNow /\ c # << >> /\ next = xTimerItemValue[t]
      /\ next <= xTimeNow
  BY <1>0, <1>1, <1>2 DEF DaemonInv
<1>4. /\ TwoLists(c, o, xTimerItemValue) /\ TwoLists(Tail(c), o, xTimerItemValue) /\ t \in Timer
      /\ t \in ToSet(c) /\ ToSet(Tail(c)) = ToSet(c) \ {t} /\ t \notin ToSet(Tail(c)) \cup ToSet(o)
  BY <1>0, <1>2, <1>3, ListsAre, TailOfLists
<1>5. p \in Periods /\ next \in Ticks /\ xTickCount \in Ticks /\ xLastTime \in Ticks /\ 0 \in Ticks
      /\ expiry \in Ticks
  BY <1>0, <1>2, <1>4, TypeParts, NoTimePasses, PeriodFacts, PlusIs
<1>6. /\ TwoLists(pxCurrentTimerList', pxOverflowTimerList', xTimerItemValue')
      /\ \A u \in Timer : u # t =>
            /\ xTimerItemValue'[u] = xTimerItemValue[u]
            /\ u \in ToSet(pxCurrentTimerList') <=> u \in ToSet(c)
            /\ u \in ToSet(pxOverflowTimerList') <=> u \in ToSet(o)
      /\ A \/ B => t \notin ToSet(pxCurrentTimerList') \cup ToSet(pxOverflowTimerList')
      /\ C => /\ xTimerItemValue'[t] = expiry
              /\ expiry <= xTimeNow => t \in ToSet(pxOverflowTimerList') /\ t \notin ToSet(pxCurrentTimerList')
              /\ ~(expiry <= xTimeNow) =>
                    t \in ToSet(pxCurrentTimerList') /\ t \notin ToSet(pxOverflowTimerList')
  <2>1. CASE A \/ B
    <3>1. RemoveHead /\ pxOverflowTimerList' = o
      BY <2>1 DEF A, B
    <3>2. /\ TwoLists(pxCurrentTimerList', pxOverflowTimerList', xTimerItemValue')
          /\ ToSet(pxCurrentTimerList') = ToSet(c) \ {t}
          /\ \A u \in Timer \ {t} : xTimerItemValue'[u] = xTimerItemValue[u]
      BY <1>3, <1>4, <3>1, <1>0, RemovesHead
    <3>3. ~C
      BY <2>1 DEF A, B, C
    <3> QED BY <1>4, <3>1, <3>2, <3>3
  <2>2. CASE C
    <3>1. Insert(Tail(c), t, expiry, xTimeNow)
      BY <2>2 DEF C
    <3>2. /\ TwoLists(pxCurrentTimerList', pxOverflowTimerList', xTimerItemValue')
          /\ xTimerItemValue'[t] = expiry
          /\ \A u \in Timer \ {t} : xTimerItemValue'[u] = xTimerItemValue[u]
          /\ expiry <= xTimeNow => /\ ToSet(pxOverflowTimerList') = ToSet(o) \cup {t}
                                   /\ ToSet(pxCurrentTimerList') = ToSet(Tail(c))
          /\ ~(expiry <= xTimeNow) => /\ ToSet(pxCurrentTimerList') = ToSet(Tail(c)) \cup {t}
                                      /\ ToSet(pxOverflowTimerList') = ToSet(o)
      BY <1>4, <1>5, <3>1, InsertsTimer
    <3>3. ~A /\ ~B
      BY <2>2 DEF A, B, C
    <3> QED BY <1>4, <3>2, <3>3
  <2> QED BY <1>1, <2>1, <2>2
<1>7. /\ xTimerQueue' \in Seq(Commands) /\ Len(xTimerQueue') <= QueueLength /\ asserted' \in BOOLEAN
      /\ \A u \in Timer : u # t => /\ Reloads(u)' = Reloads(u)
                                   /\ \A k \in Reloads(u) : xTimerQueue'[k] = xTimerQueue[k]
  <2>1. CASE A \/ C
    <3>1. xTimerQueue' = xTimerQueue /\ asserted' = asserted
      BY <2>1 DEF A, C
    <3> QED BY <1>2, <3>1, SameQueue DEF TimersTypeOK
  <2>2. CASE B
    <3>1. Reload(t, next)
      BY <2>2 DEF B
    <3> QED BY <1>2, <1>4, <1>5, <3>1, ReloadSends
  <2> QED BY <1>1, <2>1, <2>2
<1>8. called' \in [Timer -> 0..1] /\ hurried' = hurried /\ called'[t] = 1 /\ \A u \in Timer : u # t => called'[u] = 0
  BY <1>1, <1>4, CallsOne
<1>9. TimersTypeOK'
  <2>1. ucStatus' \in [Timer -> Status]
    <3>1. ucStatus \in [Timer -> Status]
      BY <1>2 DEF TimersTypeOK
    <3>2. [ucStatus EXCEPT ![t].active = FALSE] \in [Timer -> Status]
      BY <3>1, StatusKept
    <3>3. ucStatus' \in {ucStatus, [ucStatus EXCEPT ![t].active = FALSE]}
      BY <1>1 DEF A, B, C
    <3> QED BY <3>1, <3>2, <3>3
  <2>2. /\ pxCurrentTimerList' \in Seq(Timer) /\ pxOverflowTimerList' \in Seq(Timer)
        /\ xTimerItemValue' \in [Timer -> Ticks]
    BY <1>6 DEF TwoLists
  <2> QED BY <1>1, <1>2, <1>5, <1>7, <1>8, <2>1, <2>2 DEF TimersTypeOK
<1>10. Listed' \subseteq Timer /\ xMessage'.timer \notin Listed'
  <2>1. Listed' \subseteq Timer
    BY <1>6, ElementOfSeq DEF TwoLists, Listed, ToSet
  <2> QED BY <1>1, <1>3, <2>1, CommandFacts, TurnFacts
<1>11. SortedInv'
  BY <1>6, <1>10 DEF SortedInv, TwoLists
<1>12. TurnIsOver' <=> TurnIsOver
  BY <1>1 DEF TurnIsOver, Wrapped
<1>13. ASSUME NEW u \in Timer, u # t PROVE Deadline(u)' = Deadline(u) /\ Timely(u)
  <2>1. Deadline(u)' = Deadline(u)
    <3>1. xMessage.timer # u /\ xMessage'.timer # u
      BY <1>1, <1>3, CommandFacts, TurnFacts
    <3>2. /\ xTimerItemValue'[u] = xTimerItemValue[u]
          /\ u \in ToSet(pxCurrentTimerList') <=> u \in ToSet(pxCurrentTimerList)
          /\ u \in ToSet(pxOverflowTimerList') <=> u \in ToSet(pxOverflowTimerList)
      BY <1>6, <1>13
    <3>3. Reloads(u)' = Reloads(u) /\ \A k \in Reloads(u) : xTimerQueue'[k] = xTimerQueue[k]
      BY <1>7, <1>13
    <3> QED BY <1>1, <1>2, <1>9, <1>11, <1>12, <3>1, <3>2, <3>3, DeadlineKept
  <2> QED BY <1>1, <1>2, <1>8, <1>13, <2>1, QuietIsTimely
<1>14. /\ Deadline(t) \in Int /\ Deadline(t) <= 0 /\ Deadline(t) >= -MaxLate
       /\ Age(next) = -Deadline(t)
       /\ Deadline(t) = next - xLastTime - Age(xLastTime)
  <2>1. Deadline(t) = next - xTickCount - IF TurnIsOver THEN TickModulus ELSE 0
    BY <1>2, <1>3, <1>4, DeadlineAt
  <2>2. xTickCount + (IF xTickCount < xLastTime THEN TickModulus ELSE 0) = xLastTime + Age(xLastTime)
    BY <1>5, TurnAge DEF Age
  <2>3. TurnIsOver <=> xTickCount < xLastTime
    BY <1>1 DEF TurnIsOver, Wrapped
  <2>4. PICK now, last, m, a, x, over \in Int :
           /\ now = xTickCount /\ last = xLastTime /\ m = TickModulus /\ a = Age(xLastTime) /\ x = next
           /\ over = IF xTickCount < xLastTime THEN TickModulus ELSE 0
           /\ a >= 0 /\ x <= last
    <3>1. /\ xTickCount \in Int /\ xLastTime \in Int /\ TickModulus \in Int /\ next \in Int
          /\ Age(xLastTime) \in Nat
      BY <1>2, <1>5, Numbers, AgeType
    <3> QED BY <1>3, <3>1
  <2>5. Deadline(t) = x - now - over /\ now + over = last + a
    BY <2>1, <2>2, <2>3, <2>4
  <2>6. Deadline(t) \in Int /\ Deadline(t) = x - last - a /\ Deadline(t) <= 0
    BY <2>4, <2>5
  <2>7. Deadline(t) >= -MaxLate
    BY <1>2, <1>4 DEF DueInv, Listed
  <2>8. Deadline(t) > -TickModulus
    BY <1>5, <2>6, <2>7, PeriodFacts, Numbers
  <2> QED BY <1>2, <1>3, <1>4, <2>4, <2>6, <2>7, <2>8, LateAge
<1>15. ~asserted' => Timely(t)
  <2>1. t \notin ToSet(o) /\ xMessage'.timer # t
    BY <1>1, <1>3, <1>4, CommandFacts, TurnFacts
  <2>2. CASE A
    <3>1. xTimerQueue' = xTimerQueue /\ ~ucStatus[t].autoReload
      BY <2>2 DEF A
    <3>2. t \notin Listed'
      BY <1>6, <2>2 DEF Listed
    <3>3. Reloads(t) = {} => Deadline(t)' = Forever
      BY <1>4, <1>9, <1>11, <2>1, <3>1, <3>2, SameQueue, DeadlineThen
    <3> QED BY <1>8, <1>14, <3>1, <3>3 DEF Timely
  <2>3. CASE B /\ ~asserted'
    <3>1. Reload(t, next) /\ ucStatus[t].autoReload
      BY <2>3 DEF B
    <3>2. t \notin Listed'
      BY <1>6, <2>3 DEF Listed
    <3>3. PICK k : k = Len(xTimerQueue) + 1
      OBVIOUS
    <3>4. /\ k \in Reloads(t)' /\ Reloads(t)' \subseteq Int /\ \A j \in Reloads(t)' : j <= k
          /\ xTimerQueue'[k].value = next
      BY <1>2, <1>4, <1>5, <2>3, <3>1, <3>3, ReloadSends
    <3>5. Deadline(t)' = xTimerPeriodInTicks'[t] - Age(xTimerQueue[k].value)'
      BY <1>4, <1>9, <1>11, <2>1, <3>2, <3>4, ReloadDeadlineThen
    <3>6. Age(xTimerQueue[k].value)' = Age(next)
      BY <1>1, <3>4 DEF Age
    <3>7. Deadline(t)' = p - Age(next) /\ p \in Int
      BY <1>1, <1>5, <3>5, <3>6, PeriodFacts, <1>0
    <3> QED BY <1>8, <1>14, <3>1, <3>7, <1>0 DEF Timely
  <2>4. CASE C
    <3>1. (xTimeNow - next) % TickModulus < p /\ ucStatus[t].autoReload
      <4>1. ~((xTimeNow - next) % TickModulus >= p)
        BY <1>3, <1>4, <1>5, <2>4, <1>0, ExpiredMeans DEF C
      <4>2. (xTimeNow - next) % TickModulus \in Ticks
        BY <1>3, <1>5, AgeIs
      <4> QED BY <1>5, <2>4, <4>1, <4>2, PeriodFacts, Numbers DEF C
    <3>2. Deadline(t)' = p - ((xLastTime - next) % TickModulus) - Age(xLastTime)
      BY <1>1, <1>2, <1>3, <1>4, <1>5, <1>6, <1>9, <1>11, <2>4, <3>1, <1>0, InsertedDeadline
    <3>3. (xLastTime - next) % TickModulus = xLastTime - next
      BY <1>3, <1>5, AgeIs
    <3>4. /\ xLastTime \in Int /\ next \in Int /\ p \in Int /\ Age(xLastTime) \in Int
      BY <1>2, <1>5, Numbers, PeriodFacts, AgeType
    <3>5. Deadline(t)' = Deadline(t) + p
      BY <1>14, <3>2, <3>3, <3>4
    <3> QED BY <1>8, <1>14, <3>1, <3>5, <1>0 DEF Timely
  <2> QED BY <1>1, <2>2, <2>3, <2>4
<1>16. DueInv'
  <2>1. ASSUME C
        PROVE  /\ Deadline(t)' >= -MaxLate
               /\ t \in ToSet(pxCurrentTimerList') => expiry - xLastTime <= p
               /\ t \in ToSet(pxOverflowTimerList') => expiry + TickModulus - xLastTime <= p
    <3>1. (xLastTime - next) % TickModulus < p
      <4>1. ~((xTimeNow - next) % TickModulus >= p)
        BY <1>3, <1>4, <1>5, <2>1, <1>0, ExpiredMeans DEF C
      <4>2. (xTimeNow - next) % TickModulus \in Ticks
        BY <1>3, <1>5, AgeIs
      <4> QED BY <1>3, <1>5, <4>1, <4>2, PeriodFacts, Numbers
    <3>2. Deadline(t)' = p - ((xLastTime - next) % TickModulus) - Age(xLastTime)
      BY <1>1, <1>2, <1>3, <1>4, <1>5, <1>6, <1>9, <1>11, <2>1, <3>1, <1>0, InsertedDeadline
    <3>3. (xLastTime - next) % TickModulus = xLastTime - next /\ (xLastTime - next) % TickModulus \in Nat
      BY <1>3, <1>5, AgeIs, Numbers
    <3>4. /\ xLastTime \in Int /\ next \in Int /\ p \in Int /\ Age(xLastTime) \in Int /\ p > 0
      BY <1>2, <1>5, Numbers, PeriodFacts, AgeType
    <3>5. Deadline(t)' = Deadline(t) + p
      BY <1>14, <3>2, <3>3, <3>4
    <3>6. /\ expiry <= xLastTime => expiry + TickModulus - xLastTime = p - ((xLastTime - next) % TickModulus)
          /\ ~(expiry <= xLastTime) => expiry - xLastTime = p - ((xLastTime - next) % TickModulus)
      BY <1>5, <3>1, <1>0, ExpiryAfter
    <3>7. p - ((xLastTime - next) % TickModulus) <= p
      BY <3>3, <3>4
    <3>8. Deadline(t)' >= -MaxLate
      BY <1>14, <3>4, <3>5, Numbers
    <3>9. /\ t \in ToSet(pxCurrentTimerList') => ~(expiry <= xLastTime)
          /\ t \in ToSet(pxOverflowTimerList') => expiry <= xLastTime
      BY <1>3, <1>6, <2>1
    <3> QED BY <3>6, <3>7, <3>8, <3>9
  <2>2. xTimerPeriodInTicks' = xTimerPeriodInTicks /\ xLastTime' = xLastTime
    BY <1>1
  <2>3. ASSUME NEW u \in ToSet(pxCurrentTimerList')
        PROVE  xTimerItemValue'[u] - xLastTime <= xTimerPeriodInTicks[u] /\ Deadline(u)' >= -MaxLate
    <3>1. u \in Timer
      BY <1>10 DEF Listed
    <3>2. CASE u = t
      BY <1>1, <1>6, <2>1, <3>2, <1>0
    <3>3. CASE u # t
      BY <1>1, <1>2, <1>6, <1>13, <3>1, <3>3 DEF DueInv, Listed
    <3> QED BY <3>2, <3>3
  <2>4. ASSUME NEW u \in ToSet(pxOverflowTimerList')
        PROVE  /\ xTimerItemValue'[u] + TickModulus - xLastTime <= xTimerPeriodInTicks[u]
               /\ Deadline(u)' >= -MaxLate
    <3>1. u \in Timer
      BY <1>10 DEF Listed
    <3>2. CASE u = t
      BY <1>1, <1>6, <2>1, <3>2, <1>0
    <3>3. CASE u # t
      BY <1>1, <1>2, <1>6, <1>13, <3>1, <3>3 DEF DueInv, Listed
    <3> QED BY <3>2, <3>3
  <2> QED BY <2>2, <2>3, <2>4 DEF DueInv, Listed
<1>17. DaemonInv'
  BY <1>1, <1>3 DEF DaemonInv
<1>18. ~asserted' => \A u \in Timer : Timely(u)
  BY <1>13, <1>15 DEF ReloadsAreSent
<1> QED BY <1>1, <1>2, <1>9, <1>11, <1>16, <1>17, <1>18 DEF Kept, TimersInv, SendingInv

LEMMA SwitchOneKeeps == ASSUME TimersInv, SwitchOne PROVE Kept
<1> DEFINE c == pxCurrentTimerList
           o == pxOverflowTimerList
<1>0. PICK t, next, p, reload :
         /\ t = Head(c) /\ next = xTimerItemValue[t] /\ p = xTimerPeriodInTicks[t] /\ reload = Plus(next, p)
  OBVIOUS
<1> DEFINE A == /\ ~ucStatus[t].autoReload
                /\ RemoveHead
                /\ UNCHANGED <<xTimerQueue, asserted>>
           B == /\ ucStatus[t].autoReload /\ reload > next
                /\ xTimerItemValue' = [xTimerItemValue EXCEPT ![t] = reload]
                /\ pxCurrentTimerList' = vListInsert(Tail(pxCurrentTimerList), t, xTimerItemValue')
                /\ UNCHANGED <<xTimerQueue, asserted>>
           C == /\ ucStatus[t].autoReload /\ reload <= next
                /\ RemoveHead
                /\ Reload(t, next)
<1>1. /\ daemonAt = "switch" /\ c # << >> /\ Calls(t) /\ (A \/ B \/ C)
      /\ UNCHANGED <<xTickCount, xLastTime, pxOverflowTimerList, timers, daemon, sending>>
  BY <1>0 DEF SwitchOne
<1> HIDE DEF A, B, C
<1>2. TimersTypeOK /\ SortedInv /\ DaemonInv /\ DueInv /\ SendingInv
  BY DEF TimersInv
<1>3. /\ TwoLists(c, o, xTimerItemValue) /\ TwoLists(Tail(c), o, xTimerItemValue) /\ t \in Timer
      /\ t \in ToSet(c) /\ ToSet(Tail(c)) = ToSet(c) \ {t} /\ t \notin ToSet(Tail(c)) \cup ToSet(o)
  BY <1>0, <1>1, <1>2, ListsAre, TailOfLists
<1>4. /\ p \in Periods /\ next \in Ticks /\ reload \in Ticks
      /\ reload = IF next + p < TickModulus THEN next + p ELSE next + p - TickModulus
  BY <1>0, <1>2, <1>3, TypeParts, PeriodFacts, PlusIs
<1>5. PICK now, m \in Int : now = xTickCount /\ m = TickModulus /\ m > 0
  BY <1>2, Numbers
<1>6. /\ TwoLists(pxCurrentTimerList', pxOverflowTimerList', xTimerItemValue')
      /\ \A u \in Timer : u # t =>
            /\ xTimerItemValue'[u] = xTimerItemValue[u]
            /\ u \in ToSet(pxCurrentTimerList') <=> u \in ToSet(c)
      /\ A \/ C => t \notin ToSet(pxCurrentTimerList')
      /\ B => xTimerItemValue'[t] = reload /\ t \in ToSet(pxCurrentTimerList')
  <2>1. CASE A \/ C
    <3>1. RemoveHead /\ pxOverflowTimerList' = o
      BY <1>1, <2>1 DEF A, C
    <3>2. /\ TwoLists(pxCurrentTimerList', pxOverflowTimerList', xTimerItemValue')
          /\ ToSet(pxCurrentTimerList') = ToSet(c) \ {t}
          /\ \A u \in Timer \ {t} : xTimerItemValue'[u] = xTimerItemValue[u]
      BY <1>0, <1>1, <1>3, <3>1, RemovesHead
    <3>3. reload \in Nat /\ next \in Nat
      BY <1>4, Numbers
    <3>4. ~B
      BY <2>1, <3>3 DEF A, B, C
    <3> QED BY <1>3, <3>2, <3>4
  <2>2. CASE B
    <3>1. reload \in Nat /\ next \in Nat
      BY <1>4, Numbers
    <3>2. ~(reload <= next) /\ ~A /\ ~C
      BY <2>2, <3>1 DEF A, B, C
    <3>3. Insert(Tail(c), t, reload, next)
      BY <1>1, <2>2, <3>2 DEF B, Insert
    <3>4. /\ TwoLists(pxCurrentTimerList', pxOverflowTimerList', xTimerItemValue')
          /\ xTimerItemValue'[t] = reload
          /\ \A u \in Timer \ {t} : xTimerItemValue'[u] = xTimerItemValue[u]
          /\ ToSet(pxCurrentTimerList') = ToSet(Tail(c)) \cup {t}
      BY <1>3, <1>4, <3>2, <3>3, InsertsTimer
    <3> QED BY <1>3, <3>2, <3>4
  <2> QED BY <1>1, <2>1, <2>2
<1>7. /\ xTimerQueue' \in Seq(Commands) /\ Len(xTimerQueue') <= QueueLength /\ asserted' \in BOOLEAN
      /\ \A u \in Timer : u # t => /\ Reloads(u)' = Reloads(u)
                                   /\ \A k \in Reloads(u) : xTimerQueue'[k] = xTimerQueue[k]
  <2>1. CASE A \/ B
    <3>1. xTimerQueue' = xTimerQueue /\ asserted' = asserted
      BY <2>1 DEF A, B
    <3> QED BY <1>2, <3>1, SameQueue DEF TimersTypeOK
  <2>2. CASE C
    <3>1. Reload(t, next)
      BY <2>2 DEF C
    <3> QED BY <1>2, <1>3, <1>4, <3>1, ReloadSends
  <2> QED BY <1>1, <2>1, <2>2
<1>8. called' \in [Timer -> 0..1] /\ hurried' = hurried /\ called'[t] = 1 /\ \A u \in Timer : u # t => called'[u] = 0
  BY <1>1, <1>3, CallsOne
<1>9. TimersTypeOK'
  <2>1. /\ pxCurrentTimerList' \in Seq(Timer) /\ pxOverflowTimerList' \in Seq(Timer)
        /\ xTimerItemValue' \in [Timer -> Ticks]
    BY <1>6 DEF TwoLists
  <2> QED BY <1>1, <1>2, <1>7, <1>8, <2>1 DEF TimersTypeOK, timers, daemon
<1>10. Listed' \subseteq Listed /\ Listed \subseteq Timer /\ Listed # {} /\ xMessage.timer # t
  <2>1. Listed' \subseteq Timer /\ Listed \subseteq Timer
    BY <1>3, <1>6, ElementOfSeq DEF TwoLists, Listed, ToSet
  <2> QED BY <1>1, <1>2, <1>3, <1>6, <2>1 DEF Listed, SortedInv
<1>11. SortedInv'
  BY <1>1, <1>2, <1>6, <1>10 DEF SortedInv, TwoLists, daemon
<1>12. TurnIsOver /\ TurnIsOver'
  BY <1>1 DEF TurnIsOver, daemon
<1>13. ASSUME NEW u \in Timer, u # t PROVE Deadline(u)' = Deadline(u) /\ Timely(u)
  <2>1. Deadline(u)' = Deadline(u)
    <3>1. /\ xTimerItemValue'[u] = xTimerItemValue[u]
          /\ u \in ToSet(pxCurrentTimerList') <=> u \in ToSet(pxCurrentTimerList)
          /\ Reloads(u)' = Reloads(u) /\ \A k \in Reloads(u) : xTimerQueue'[k] = xTimerQueue[k]
      BY <1>6, <1>7, <1>13
    <3> QED BY <1>1, <1>2, <1>9, <1>11, <1>12, <3>1, DeadlineKept DEF daemon, timers
  <2> QED BY <1>1, <1>2, <1>8, <1>13, <2>1, QuietIsTimely
<1>14. /\ Deadline(t) \in Int /\ Deadline(t) <= 0 /\ Deadline(t) >= -MaxLate
       /\ Age(next) = -Deadline(t) /\ Deadline(t) = next - now - m
  <2>1. Deadline(t) = next - xTickCount - TickModulus
    BY <1>0, <1>2, <1>3, <1>12, DeadlineAt
  <2>2. next \in Nat /\ next < TickModulus /\ xTickCount \in Nat
    BY <1>2, <1>4, Numbers
  <2>3. Deadline(t) \in Int /\ Deadline(t) <= 0
    BY <1>5, <2>1, <2>2
  <2>4. Deadline(t) >= -MaxLate
    BY <1>2, <1>3 DEF DueInv, Listed
  <2>5. Deadline(t) > -TickModulus
    BY <1>4, <2>3, <2>4, PeriodFacts, Numbers
  <2> QED BY <1>0, <1>2, <1>3, <1>5, <2>1, <2>3, <2>4, <2>5, LateAge
<1>15. B => Deadline(t)' = Deadline(t) + p /\ p \in Nat
  <2>1. SUFFICES ASSUME B PROVE Deadline(t)' = Deadline(t) + p /\ p \in Nat
    OBVIOUS
  <2>2. Deadline(t)' = reload - xTickCount' - TickModulus
    BY <1>3, <1>6, <1>9, <1>11, <1>12, <2>1, DeadlineThen
  <2>3. PICK x, q, r \in Int : x = next /\ q = p /\ r = reload /\ q < m /\ r > x /\ q >= 0
    BY <1>4, <1>5, <2>1, PeriodFacts, Numbers DEF B
  <2>4. r = IF x + q < m THEN x + q ELSE x + q - m
    BY <1>4, <1>5, <2>3
  <2>5. r = x + q
    BY <1>5, <2>3, <2>4
  <2>6. Deadline(t)' = r - now - m /\ Deadline(t) = x - now - m
    BY <1>1, <1>5, <1>14, <2>2, <2>3
  <2>7. r - now - m = (x - now - m) + q
    BY <1>5, <2>3, <2>5
  <2> QED BY <2>3, <2>6, <2>7
<1>16. ~asserted' => Timely(t)
  <2>1. t \notin ToSet(o) /\ xMessage'.timer # t
    BY <1>1, <1>3, <1>10 DEF daemon
  <2>2. CASE A
    <3>1. xTimerQueue' = xTimerQueue /\ ~ucStatus[t].autoReload
      BY <2>2 DEF A
    <3>2. t \notin Listed'
      BY <1>1, <1>6, <2>1, <2>2 DEF Listed
    <3>3. Reloads(t) = {} => Deadline(t)' = Forever
      BY <1>3, <1>9, <1>11, <2>1, <3>1, <3>2, SameQueue, DeadlineThen
    <3> QED BY <1>8, <1>14, <3>1, <3>3 DEF Timely
  <2>3. CASE B
    BY <1>0, <1>8, <1>14, <1>15, <2>3 DEF Timely, B
  <2>4. CASE C /\ ~asserted'
    <3>1. Reload(t, next) /\ ucStatus[t].autoReload
      BY <2>4 DEF C
    <3>2. t \notin Listed'
      BY <1>1, <1>6, <2>1, <2>4 DEF Listed
    <3>3. PICK k : k = Len(xTimerQueue) + 1
      OBVIOUS
    <3>4. /\ k \in Reloads(t)' /\ Reloads(t)' \subseteq Int /\ \A j \in Reloads(t)' : j <= k
          /\ xTimerQueue'[k].value = next
      BY <1>2, <1>3, <1>4, <2>4, <3>1, <3>3, ReloadSends
    <3>5. Deadline(t)' = xTimerPeriodInTicks'[t] - Age(xTimerQueue[k].value)'
      BY <1>3, <1>9, <1>11, <2>1, <3>2, <3>4, ReloadDeadlineThen
    <3>6. Age(xTimerQueue[k].value)' = Age(next)
      BY <1>1, <3>4 DEF Age
    <3>7. Deadline(t)' = p - Age(next) /\ p \in Int
      BY <1>0, <1>1, <1>4, <3>5, <3>6, PeriodFacts DEF timers
    <3> QED BY <1>0, <1>8, <1>14, <3>1, <3>7 DEF Timely
  <2> QED BY <1>1, <2>2, <2>3, <2>4
<1>17. DueInv'
  <2>1. ASSUME NEW u \in Listed' PROVE Deadline(u)' >= -MaxLate
    <3>1. u \in Timer /\ u \in Listed
      BY <1>10
    <3>2. CASE u = t
      <4>1. B
        BY <1>1, <1>3, <1>6, <3>2 DEF Listed
      <4> QED BY <1>14, <1>15, <3>2, <4>1, Numbers
    <3>3. CASE u # t
      BY <1>2, <1>13, <3>1, <3>3 DEF DueInv
    <3> QED BY <3>2, <3>3
  <2>2. ASSUME NEW u \in ToSet(pxOverflowTimerList')
        PROVE  /\ u \in ToSet(pxOverflowTimerList) /\ xTimerItemValue'[u] = xTimerItemValue[u]
    BY <1>1, <1>3, <1>6, <1>10 DEF Listed
  <2>3. daemonAt' = "switch" /\ xTimerPeriodInTicks' = xTimerPeriodInTicks /\ xLastTime' = xLastTime
    BY <1>1 DEF daemon, timers
  <2> QED BY <1>2, <2>1, <2>2, <2>3 DEF DueInv
<1>18. DaemonInv'
  <2>1. UNCHANGED <<xTickCount, xLastTime, daemonAt, xMessage, xTimeNow>>
    BY <1>1 DEF daemon
  <2> QED BY <1>1, <1>2, <1>10, <2>1 DEF DaemonInv, Age
<1>19. ~asserted' => \A u \in Timer : Timely(u)
  BY <1>13, <1>16 DEF ReloadsAreSent
<1> QED BY <1>1, <1>2, <1>9, <1>11, <1>17, <1>18, <1>19 DEF Kept, TimersInv, SendingInv

LEMMA SwitchListsKeeps == ASSUME TimersInv, SwitchLists PROVE Kept
<1>1. /\ daemonAt = "switch" /\ pxCurrentTimerList = << >>
      /\ pxCurrentTimerList' = pxOverflowTimerList /\ pxOverflowTimerList' = << >>
      /\ xLastTime' = xTimeNow /\ CallsNothing
      /\ xMessage = NoCommand => daemonAt' = "commands" /\ xTimeNow' = 0
      /\ xMessage # NoCommand => daemonAt' = "handle" /\ xTimeNow' = xTimeNow
      /\ UNCHANGED <<xTickCount, xTimerItemValue, timers, xTimerQueue, xMessage, xNextExpireTime,
                     xDaemonWait, sending, asserted>>
  BY DEF SwitchLists
<1>2. TimersTypeOK /\ SortedInv /\ DaemonInv /\ DueInv /\ SendingInv
  BY DEF TimersInv
<1>3. TimersTypeOK'
  <2>1. called' \in [Timer -> 0..1] /\ hurried' = hurried
    BY <1>1 DEF CallsNothing, NoneCalled
  <2> QED BY <1>1, <1>2, <2>1, NoTimePasses, EmptyList DEF TimersTypeOK, timers
<1>4. /\ ToSet(pxCurrentTimerList) = {} /\ ToSet(pxOverflowTimerList') = {}
      /\ Listed' = ToSet(pxOverflowTimerList) /\ Listed = ToSet(pxOverflowTimerList)
  BY <1>1, EmptyList DEF Listed
<1>5. SortedInv'
  BY <1>1, <1>2, <1>4, EmptyList DEF SortedInv
<1>6. TurnIsOver
  BY <1>1 DEF TurnIsOver
<1>7. Listed # {} => ~TurnIsOver'
  <2>1. Listed # {} => xTimeNow <= xTickCount
    BY <1>1, <1>2 DEF DaemonInv
  <2>2. xTimeNow \in Nat /\ xTickCount \in Nat /\ daemonAt' # "switch"
    BY <1>1, <1>2, Numbers
  <2> QED BY <1>1, <2>1, <2>2 DEF TurnIsOver, Wrapped
<1>8. ASSUME NEW t \in Timer, Deadline(t) # Forever PROVE Deadline(t)' = Deadline(t)
  <2>1. CASE t \in Listed
    <3>1. Deadline(t) = xTimerItemValue[t] - xTickCount + 0
      BY <1>2, <1>4, <1>6, <2>1, DeadlineAt
    <3>2. Deadline(t)' = xTimerItemValue'[t] - xTickCount' - 0
      BY <1>1, <1>3, <1>4, <1>5, <1>7, <2>1, DeadlineThen
    <3>3. xTimerItemValue[t] \in Int /\ xTickCount \in Int
      BY <1>2, Numbers
    <3> QED BY <1>1, <3>1, <3>2, <3>3
  <2>2. CASE t \notin Listed /\ xMessage.timer # t
    <3>1. t \notin Listed' /\ xMessage'.timer # t
      BY <1>1, <1>4, <2>2
    <3>2. /\ t \in ToSet(pxCurrentTimerList') <=> t \in ToSet(pxCurrentTimerList)
          /\ t \in ToSet(pxOverflowTimerList') <=> t \in ToSet(pxOverflowTimerList)
      BY <2>2, <3>1 DEF Listed
    <3> QED BY <1>1, <1>2, <1>3, <1>5, <2>2, <3>1, <3>2, SameQueue, DeadlineKept DEF timers
  <2>3. CASE t \notin Listed /\ xMessage.timer = t
    <3>1. Starts(xMessage) /\ Deadline(t) = xTimerPeriodInTicks[t] - Age(xMessage.value)
      BY <1>1, <1>2, <1>8, <2>3, DeadlineAt
    <3>2. Deadline(t)' = xTimerPeriodInTicks'[t] - Age(xMessage.value)'
      BY <1>1, <1>3, <1>5, <2>3, <3>1, DeadlineThen
    <3> QED BY <1>1, <3>1, <3>2 DEF timers, Age
  <2> QED BY <2>1, <2>2, <2>3
<1>9. \A t \in Timer : Timely(t)
  BY <1>1, <1>2, <1>8, QuietIsTimely, NothingCalled DEF CallsNothing
<1>10. DueInv'
  <2>1. ASSUME NEW t \in Listed
        PROVE  Deadline(t)' >= -MaxLate /\ xTimerItemValue'[t] - xLastTime' <= xTimerPeriodInTicks'[t]
    <3>1. t \in Timer /\ Deadline(t) \in Int /\ Deadline(t) < TickModulus
      BY ListedDeadline
    <3>2. Deadline(t)' = Deadline(t)
      BY <1>8, <3>1, Numbers
    <3>3. xTimerItemValue[t] + TickModulus - xLastTime <= xTimerPeriodInTicks[t]
      BY <1>2, <1>4 DEF DueInv
    <3>4. PICK x, last, m, p, now \in Int :
             /\ x = xTimerItemValue[t] /\ last = xLastTime /\ m = TickModulus /\ p = xTimerPeriodInTicks[t]
             /\ now = xTimeNow /\ last < m /\ 0 <= now
      BY <1>2, <3>1, Numbers
    <3>5. x - now <= p
      BY <3>3, <3>4
    <3> QED BY <1>1, <1>2, <3>2, <3>4, <3>5 DEF DueInv, timers
  <2> QED BY <1>4, <2>1 DEF DueInv, Listed
<1>11. DaemonInv'
  BY <1>1, <1>2 DEF DaemonInv, Age
<1> QED BY <1>1, <1>2, <1>3, <1>5, <1>9, <1>10, <1>11 DEF Kept, TimersInv, SendingInv

LEMMA ReceivesCommandKeeps == ASSUME TimersInv, ReceivesCommand PROVE Kept
<1>1. /\ daemonAt = "commands" /\ xTimerQueue # << >> /\ daemonAt' = "sample"
      /\ xMessage' = Head(xTimerQueue) /\ xTimerQueue' = Tail(xTimerQueue)
      /\ pxCurrentTimerList' = TakenOut(pxCurrentTimerList)
      /\ pxOverflowTimerList' = TakenOut(pxOverflowTimerList)
      /\ xTimerItemValue' = [xTimerItemValue EXCEPT ![xMessage'.timer] = 0]
      /\ CallsNothing
      /\ UNCHANGED <<xTickCount, xLastTime, timers, xTimeNow, xNextExpireTime, xDaemonWait, sending,
                     asserted>>
  BY DEF ReceivesCommand
<1>2. TimersTypeOK /\ SortedInv /\ DaemonInv /\ DueInv /\ SendingInv
  BY DEF TimersInv
<1>3. PICK t : t = xMessage'.timer
  OBVIOUS
<1>4. /\ xTimerQueue \in Seq(Commands) /\ Len(xTimerQueue) \in Nat \ {0} /\ xMessage' = xTimerQueue[1]
      /\ DOMAIN xTimerQueue = 1 .. Len(xTimerQueue)
      /\ Tail(xTimerQueue) \in Seq(Commands) /\ Len(xTimerQueue') = Len(xTimerQueue) - 1
      /\ DOMAIN xTimerQueue' = 1 .. Len(xTimerQueue) - 1
      /\ \A k \in 1 .. Len(xTimerQueue) - 1 : xTimerQueue'[k] = xTimerQueue[k + 1]
  <2>1. xTimerQueue \in Seq(Commands) /\ xTimerQueue # << >>
    BY <1>1, <1>2, TypeParts
  <2> QED BY <1>1, <2>1, HeadTailProperties, EmptySeq, LenProperties
<1>5. xMessage' \in Commands /\ t \in Timer /\ xMessage = NoCommand /\ xMessage'.timer = t
  BY <1>1, <1>2, <1>3, <1>4, ElementOfSeq, CommandFacts DEF DaemonInv
<1>6. TwoLists(pxCurrentTimerList, pxOverflowTimerList, xTimerItemValue)
  BY <1>2, ListsAre
<1>7. /\ pxCurrentTimerList' \in Seq(Timer)
      /\ ToSet(pxCurrentTimerList') = ToSet(pxCurrentTimerList) \ {t}
      /\ NoDuplicates(pxCurrentTimerList') /\ Ascending(pxCurrentTimerList', xTimerItemValue)
  <2>1. pxCurrentTimerList' = IF Contains(pxCurrentTimerList, t)
                              THEN uxListRemove(pxCurrentTimerList, t) ELSE pxCurrentTimerList
    BY <1>1, <1>3 DEF TakenOut
  <2> QED BY <1>6, <2>1, TakesOut DEF TwoLists
<1>8. /\ pxOverflowTimerList' \in Seq(Timer)
      /\ ToSet(pxOverflowTimerList') = ToSet(pxOverflowTimerList) \ {t}
      /\ NoDuplicates(pxOverflowTimerList') /\ Ascending(pxOverflowTimerList', xTimerItemValue)
  <2>1. pxOverflowTimerList' = IF Contains(pxOverflowTimerList, t)
                               THEN uxListRemove(pxOverflowTimerList, t) ELSE pxOverflowTimerList
    BY <1>1, <1>3 DEF TakenOut
  <2> QED BY <1>6, <2>1, TakesOut DEF TwoLists
<1>9. xTimerItemValue' \in [Timer -> Ticks] /\ \A u \in Timer : u # t => xTimerItemValue'[u] = xTimerItemValue[u]
  BY <1>1, <1>2, <1>3, <1>5, TypeParts, NoTimePasses
<1>10. Listed \subseteq Timer /\ Listed' = Listed \ {t}
  BY <1>2, <1>7, <1>8, TypeParts DEF Listed
<1>11. TwoLists(pxCurrentTimerList', pxOverflowTimerList', xTimerItemValue')
  <2>1. TwoLists(pxCurrentTimerList', pxOverflowTimerList', xTimerItemValue)
    BY <1>6, <1>7, <1>8 DEF TwoLists
  <2>2. \A u \in ToSet(pxCurrentTimerList') \cup ToSet(pxOverflowTimerList') :
           xTimerItemValue'[u] = xTimerItemValue[u]
    BY <1>9, <1>10 DEF Listed
  <2> QED BY <1>9, <2>1, <2>2, OutOfLists
<1>12. TimersTypeOK'
  <2>1. called' \in [Timer -> 0..1] /\ hurried' = hurried
    BY <1>1 DEF CallsNothing, NoneCalled
  <2>2. Len(xTimerQueue') <= QueueLength
    BY <1>2, <1>4, TurnFacts DEF TimersTypeOK
  <2> QED BY <1>1, <1>2, <1>4, <1>5, <1>11, <2>1, <2>2 DEF TimersTypeOK, TwoLists, timers
<1>13. SortedInv'
  BY <1>5, <1>10, <1>11 DEF SortedInv, TwoLists
<1>14. TurnIsOver' <=> TurnIsOver
  BY <1>1 DEF TurnIsOver, Wrapped
<1>15. ASSUME NEW u \in Timer, u # t PROVE Deadline(u)' = Deadline(u)
  <2>1. xMessage.timer # u /\ xMessage'.timer # u
    BY <1>5, <1>15, CommandFacts, TurnFacts
  <2>2. Reloads(u)' = {k - 1 : k \in Reloads(u)} /\ Reloads(u) \subseteq 2 .. Len(xTimerQueue)
    <3>1. Reloads(u) \subseteq 2 .. Len(xTimerQueue)
      <4>1. ASSUME NEW k \in Reloads(u) PROVE k \in 2 .. Len(xTimerQueue)
        <5>1. k \in 1 .. Len(xTimerQueue) /\ xTimerQueue[k].timer = u
          BY <1>4 DEF Reloads
        <5>2. k # 1
          BY <1>4, <1>5, <1>15, <5>1
        <5> QED BY <1>4, <5>1, <5>2
      <4> QED BY <4>1
    <3>2. ASSUME NEW k \in 2 .. Len(xTimerQueue)
          PROVE  k \in Reloads(u) <=> k - 1 \in Reloads(u)'
      <4>1. k \in DOMAIN xTimerQueue /\ k - 1 \in DOMAIN xTimerQueue' /\ k - 1 \in 1 .. Len(xTimerQueue) - 1
            /\ (k - 1) + 1 = k
        BY <1>4
      <4>2. xTimerQueue'[k - 1] = xTimerQueue[k]
        BY <1>4, <4>1
      <4> QED BY <4>1, <4>2 DEF Reloads
    <3>3. ASSUME NEW j \in Reloads(u)' PROVE j \in {k - 1 : k \in Reloads(u)}
      <4>1. j \in 1 .. Len(xTimerQueue) - 1
        BY <1>4 DEF Reloads
      <4>2. j + 1 \in 2 .. Len(xTimerQueue) /\ (j + 1) - 1 = j
        BY <1>4, <4>1
      <4>3. j + 1 \in Reloads(u)
        BY <3>2, <4>2
      <4> QED BY <4>2, <4>3
    <3>4. ASSUME NEW k \in Reloads(u) PROVE k - 1 \in Reloads(u)'
      BY <3>1, <3>2
    <3> QED BY <3>1, <3>3, <3>4
  <2>3. CASE u \in Listed
    <3>1. u \in Listed' /\ xTimerItemValue'[u] = xTimerItemValue[u]
      BY <1>9, <1>10, <1>15, <2>3
    <3>2. CASE u \in ToSet(pxCurrentTimerList)
      BY <1>1, <1>2, <1>7, <1>12, <1>13, <1>14, <1>15, <3>1, <3>2, DeadlineAt, DeadlineThen
    <3>3. CASE u \in ToSet(pxOverflowTimerList)
      BY <1>1, <1>2, <1>8, <1>12, <1>13, <1>14, <1>15, <3>1, <3>3, DeadlineAt, DeadlineThen
    <3> QED BY <2>3, <3>2, <3>3 DEF Listed
  <2>4. CASE u \notin Listed /\ Reloads(u) = {}
    <3>1. u \notin Listed' /\ Reloads(u)' = {}
      BY <1>10, <2>2, <2>4
    <3> QED BY <1>2, <1>12, <1>13, <2>1, <2>4, <3>1, DeadlineAt, DeadlineThen
  <2>5. CASE u \notin Listed /\ Reloads(u) # {}
    <3>1. PICK k \in Reloads(u) : \A j \in Reloads(u) : j <= k
      BY <1>2, <2>5, LastReloadIn
    <3>2. PICK n : n = k - 1
      OBVIOUS
    <3>3. u \notin Listed'
      BY <1>10, <2>5
    <3>4. k \in Int /\ k - 1 \in 1 .. Len(xTimerQueue) - 1 /\ (k - 1) + 1 = k /\ Len(xTimerQueue) \in Nat
      BY <1>4, <2>2
    <3>5. n \in Reloads(u)' /\ Reloads(u)' \subseteq Int /\ \A j \in Reloads(u)' : j <= n
      BY <1>4, <2>2, <3>1, <3>2
    <3>6. xTimerQueue'[n] = xTimerQueue[k]
      BY <1>4, <3>2, <3>4
    <3>7. Deadline(u) = xTimerPeriodInTicks[u] - Age(xTimerQueue[k].value)
      BY <1>2, <2>1, <2>5, <3>1, ReloadDeadline
    <3>8. Deadline(u)' = xTimerPeriodInTicks'[u] - Age(xTimerQueue[n].value)'
      BY <1>12, <1>13, <2>1, <3>3, <3>5, ReloadDeadlineThen
    <3> QED BY <1>1, <3>6, <3>7, <3>8 DEF timers, Age
  <2> QED BY <2>3, <2>4, <2>5
<1>16. \A u \in Timer : Timely(u)
  <2>1. TakesCommandFor(t)
    BY <1>1, <1>5 DEF TakesCommandFor
  <2> QED BY <1>1, <1>2, <1>15, <2>1, QuietIsTimely, NothingCalled DEF CallsNothing
<1>17. DueInv'
  BY <1>1, <1>2, <1>7, <1>8, <1>9, <1>10, <1>15 DEF DueInv, Listed, timers
<1>18. DaemonInv'
  BY <1>1, <1>5, CommandFacts DEF DaemonInv
<1> QED BY <1>1, <1>2, <1>12, <1>13, <1>16, <1>17, <1>18 DEF Kept, TimersInv, SendingInv

LEMMA SamplesTimeKeeps == ASSUME TimersInv, SamplesTime PROVE Kept
<1>1. /\ daemonAt = "sample" /\ xTimeNow' = xTickCount /\ CallsNothing
      /\ Wrapped => daemonAt' = "switch" /\ xLastTime' = xLastTime
      /\ ~Wrapped => daemonAt' = "handle" /\ xLastTime' = xTickCount
      /\ UNCHANGED <<xTickCount, lists, timers, xTimerQueue, xMessage, xNextExpireTime, xDaemonWait,
                     sending, asserted>>
  BY DEF SamplesTime
<1>2. TimersTypeOK /\ SortedInv /\ DaemonInv /\ DueInv /\ SendingInv
  BY DEF TimersInv
<1>3. TimersTypeOK'
  BY <1>1, <1>2 DEF TimersTypeOK, lists, timers, CallsNothing, NoneCalled
<1>4. SortedInv' /\ Listed' = Listed /\ Listed \subseteq Timer
  BY <1>1, <1>2, TypeParts DEF SortedInv, Listed, lists
<1>5. xTickCount \in Nat /\ xLastTime \in Nat /\ xTickCount < TickModulus /\ TickModulus \in Nat
  BY <1>2, Numbers
<1>6. TurnIsOver' <=> TurnIsOver
  BY <1>1, <1>5 DEF TurnIsOver, Wrapped
<1>7. ASSUME NEW t \in Timer, Deadline(t) # Forever PROVE Deadline(t)' = Deadline(t)
  <2>1. CASE xMessage.timer # t
    BY <1>1, <1>2, <1>3, <1>4, <1>6, <2>1, SameQueue, DeadlineKept DEF lists, timers
  <2>2. CASE xMessage.timer = t
    <3>1. Starts(xMessage) /\ Deadline(t) = xTimerPeriodInTicks[t] - Age(xMessage.value)
      BY <1>1, <1>2, <1>7, <2>2, DeadlineAt
    <3>2. Deadline(t)' = xTimerPeriodInTicks'[t] - Age(xMessage.value)'
      BY <1>1, <1>3, <1>4, <2>2, <3>1, DeadlineThen
    <3> QED BY <1>1, <3>1, <3>2 DEF timers, Age
  <2> QED BY <2>1, <2>2
<1>8. \A t \in Timer : Timely(t)
  BY <1>1, <1>2, <1>7, QuietIsTimely, NothingCalled DEF CallsNothing
<1>9. Age(xTimeNow)' = 0 /\ MaxLate >= 0
  BY <1>1, <1>2, NoTimePasses DEF Age
<1>10. DaemonInv'
  <2>1. Starts(xMessage) => Age(xMessage.value)' = ((xTimeNow' - xMessage.value) % TickModulus) + 0
    <3>1. Starts(xMessage) => xMessage.value \in Ticks
      BY <1>2, TypeParts, CommandFacts
    <3>2. \A u \in Ticks : (xTickCount - u) % TickModulus \in Nat
      BY <1>2, TypeParts, AgeIs, Numbers
    <3> QED BY <1>1, <3>1, <3>2 DEF Age
  <2>2. xMessage' = xMessage /\ xTickCount' = xTickCount
    BY <1>1
  <2>3. daemonAt' \in {"switch", "handle"} /\ xMessage # NoCommand
    BY <1>1, <1>2 DEF DaemonInv
  <2>4. daemonAt' = "handle" => xLastTime' = xTimeNow'
    BY <1>1
  <2>5. daemonAt' = "switch" => xTimeNow' <= xTickCount'
    BY <1>1, <1>5
  <2> QED BY <1>9, <2>1, <2>2, <2>3, <2>4, <2>5 DEF DaemonInv
<1>11. DueInv'
  <2>1. ASSUME NEW t \in Listed PROVE Deadline(t)' >= -MaxLate
    <3>1. t \in Timer /\ Deadline(t) \in Int /\ Deadline(t) < TickModulus
      BY ListedDeadline
    <3>2. Deadline(t)' = Deadline(t)
      BY <1>7, <3>1, Numbers
    <3> QED BY <1>2, <3>2 DEF DueInv
  <2>2. ~Wrapped => xLastTime <= xTickCount
    BY <1>5 DEF Wrapped
  <2>3. \A t \in Timer : xTimerItemValue[t] \in Int /\ xTimerPeriodInTicks[t] \in Int
    BY <1>2, Numbers
  <2>4. ASSUME NEW t \in ToSet(pxCurrentTimerList), daemonAt' # "switch"
        PROVE  xTimerItemValue[t] - xTickCount <= xTimerPeriodInTicks[t]
    <3>1. xTimerItemValue[t] - xLastTime <= xTimerPeriodInTicks[t] /\ ~Wrapped /\ t \in Timer
      BY <1>1, <1>2, <1>4, <2>4 DEF DueInv, Listed
    <3> QED BY <1>5, <2>2, <2>3, <3>1
  <2>5. ASSUME NEW t \in ToSet(pxOverflowTimerList)
        PROVE  /\ xTimerItemValue[t] + TickModulus - xLastTime <= xTimerPeriodInTicks[t]
               /\ ~Wrapped => xTimerItemValue[t] + TickModulus - xTickCount <= xTimerPeriodInTicks[t]
    <3>1. xTimerItemValue[t] + TickModulus - xLastTime <= xTimerPeriodInTicks[t] /\ t \in Timer
      BY <1>2, <1>4 DEF DueInv, Listed
    <3> QED BY <1>5, <2>2, <2>3, <3>1
  <2> QED BY <1>1, <1>4, <2>1, <2>4, <2>5 DEF DueInv, lists, timers
<1> QED BY <1>1, <1>2, <1>3, <1>4, <1>8, <1>10, <1>11 DEF Kept, TimersInv, SendingInv

\* A command for a timer puts it in a list, one period after a time before the last sample.
LEMMA InsertingKeeps ==
    ASSUME TimersInv, NEW t \in Timer, NEW u \in Ticks, NEW p \in Periods,
           xMessage.timer = t, (xLastTime - u) % TickModulus < p,
           daemonAt = "handle", daemonAt' = "commands", xMessage' = NoCommand, xTimeNow' = 0,
           Insert(pxCurrentTimerList, t, Plus(u, p), xLastTime), SetStatus(t, TRUE), CallsNothing,
           xTimerPeriodInTicks' = [xTimerPeriodInTicks EXCEPT ![t] = p],
           UNCHANGED <<xTickCount, xLastTime, asks, xTimerQueue, xNextExpireTime, xDaemonWait, sending,
                       asserted>>
    PROVE  /\ TimersInv' /\ \A v \in Timer : v # t => Timely(v)
           /\ Deadline(t)' = p - ((xLastTime - u) % TickModulus) - Age(xLastTime)
<1>1. TimersTypeOK /\ SortedInv /\ DaemonInv /\ DueInv /\ SendingInv
  BY DEF TimersInv
<1>2. PICK e, g, a, q, m, last, late \in Int :
         /\ e = Plus(u, p) /\ g = (xLastTime - u) % TickModulus /\ a = Age(xLastTime) /\ q = p
         /\ m = TickModulus /\ last = xLastTime /\ late = MaxLate
         /\ e \in Ticks /\ g >= 0 /\ g < q /\ a <= late
         /\ e <= last => e + m - last = q - g
         /\ ~(e <= last) => e - last = q - g
  <2>1. /\ Plus(u, p) \in Ticks
        /\ Plus(u, p) <= xLastTime => Plus(u, p) + TickModulus - xLastTime = p - ((xLastTime - u) % TickModulus)
        /\ ~(Plus(u, p) <= xLastTime) => Plus(u, p) - xLastTime = p - ((xLastTime - u) % TickModulus)
    BY <1>1, TypeParts, ExpiryAfter
  <2>2. (xLastTime - u) % TickModulus \in Ticks /\ Age(xLastTime) \in Ticks
    BY <1>1, TypeParts, AgeIs, AgeType
  <2>3. Age(xLastTime) <= MaxLate
    BY <1>1 DEF DaemonInv
  <2>4. /\ Plus(u, p) \in Nat /\ (xLastTime - u) % TickModulus \in Nat /\ Age(xLastTime) \in Nat
        /\ p \in Nat /\ TickModulus \in Nat /\ xLastTime \in Nat /\ MaxLate \in Nat
    BY <1>1, <2>1, <2>2, Numbers, PeriodFacts
  <2> QED BY <2>1, <2>3, <2>4
<1>3. TwoLists(pxCurrentTimerList, pxOverflowTimerList, xTimerItemValue) /\ t \notin Listed
  BY <1>1, ListsAre DEF SortedInv
<1>4. /\ TwoLists(pxCurrentTimerList', pxOverflowTimerList', xTimerItemValue')
      /\ xTimerItemValue'[t] = e
      /\ \A v \in Timer \ {t} : xTimerItemValue'[v] = xTimerItemValue[v]
      /\ e <= last => /\ ToSet(pxOverflowTimerList') = ToSet(pxOverflowTimerList) \cup {t}
                      /\ ToSet(pxCurrentTimerList') = ToSet(pxCurrentTimerList)
      /\ ~(e <= last) => /\ ToSet(pxCurrentTimerList') = ToSet(pxCurrentTimerList) \cup {t}
                         /\ ToSet(pxOverflowTimerList') = ToSet(pxOverflowTimerList)
  <2>1. Insert(pxCurrentTimerList, t, e, last)
    BY <1>2
  <2> QED BY <1>2, <1>3, <2>1, InsertsTimer DEF Listed
<1>5. \A v \in Timer : v # t =>
         /\ xTimerItemValue'[v] = xTimerItemValue[v] /\ xTimerPeriodInTicks'[v] = xTimerPeriodInTicks[v]
         /\ v \in ToSet(pxCurrentTimerList') <=> v \in ToSet(pxCurrentTimerList)
         /\ v \in ToSet(pxOverflowTimerList') <=> v \in ToSet(pxOverflowTimerList)
  BY <1>1, <1>4, TypeParts
<1>6. xTimerPeriodInTicks' \in [Timer -> Periods] /\ xTimerPeriodInTicks'[t] = p
  BY <1>1, TypeParts
<1>7. TimersTypeOK'
  <2>1. ucStatus' \in [Timer -> Status]
    <3>1. ucStatus \in [Timer -> Status] /\ ucStatus' = [ucStatus EXCEPT ![t].active = TRUE]
      BY <1>1 DEF TimersTypeOK, SetStatus
    <3> QED BY <3>1, StatusKept
  <2>2. called' \in [Timer -> 0..1] /\ hurried' = hurried
    BY DEF CallsNothing, NoneCalled
  <2> QED BY <1>1, <1>4, <1>6, <2>1, <2>2, NoTimePasses DEF TimersTypeOK, TwoLists
<1>8. Listed' \subseteq Timer
  BY <1>4, ElementOfSeq DEF TwoLists, Listed, ToSet
<1>9. SortedInv'
  <2>1. xMessage'.timer \notin Listed'
    BY <1>8, CommandFacts, TurnFacts
  <2> QED BY <1>4, <2>1 DEF SortedInv, TwoLists
<1>10. TurnIsOver' <=> TurnIsOver
  BY DEF TurnIsOver, Wrapped
<1>11. ASSUME NEW v \in Timer, v # t PROVE Deadline(v)' = Deadline(v) /\ Timely(v)
  <2>1. xMessage.timer # v /\ xMessage'.timer # v
    BY <1>11, CommandFacts, TurnFacts
  <2>2. /\ xTimerItemValue'[v] = xTimerItemValue[v] /\ xTimerPeriodInTicks'[v] = xTimerPeriodInTicks[v]
        /\ v \in ToSet(pxCurrentTimerList') <=> v \in ToSet(pxCurrentTimerList)
        /\ v \in ToSet(pxOverflowTimerList') <=> v \in ToSet(pxOverflowTimerList)
    BY <1>5, <1>11
  <2>3. Deadline(v)' = Deadline(v)
    BY <1>1, <1>7, <1>9, <1>10, <2>1, <2>2, SameQueue, DeadlineKept
  <2> QED BY <1>1, <2>3, QuietIsTimely, NothingCalled DEF CallsNothing
<1>12. Deadline(t)' = p - ((xLastTime - u) % TickModulus) - Age(xLastTime)
  BY <1>1, <1>2, <1>4, <1>7, <1>9, InsertedDeadline
<1>13. DueInv'
  <2>1. q - g - a >= -late /\ q - g <= q
    BY <1>2
  <2>2. Deadline(t)' >= -MaxLate
    BY <1>2, <1>12, <2>1
  <2>3. ASSUME NEW v \in Listed' PROVE Deadline(v)' >= -MaxLate
    <3>1. v \in Timer
      BY <1>8
    <3>2. CASE v # t
      <4>1. v \in Listed
        BY <1>5, <3>1, <3>2 DEF Listed
      <4> QED BY <1>1, <1>11, <3>1, <3>2, <4>1 DEF DueInv
    <3> QED BY <2>2, <3>2
  <2>4. ASSUME NEW v \in ToSet(pxCurrentTimerList')
        PROVE  xTimerItemValue'[v] - xLastTime <= xTimerPeriodInTicks'[v]
    <3>1. v \in Timer
      BY <1>8 DEF Listed
    <3>2. CASE v = t
      <4>1. ~(e <= last)
        BY <1>3, <1>4, <3>2 DEF Listed
      <4> QED BY <1>2, <1>4, <1>6, <2>1, <3>2, <4>1
    <3>3. CASE v # t
      BY <1>1, <1>5, <3>1, <3>3 DEF DueInv
    <3> QED BY <3>2, <3>3
  <2>5. ASSUME NEW v \in ToSet(pxOverflowTimerList')
        PROVE  xTimerItemValue'[v] + TickModulus - xLastTime <= xTimerPeriodInTicks'[v]
    <3>1. v \in Timer
      BY <1>8 DEF Listed
    <3>2. CASE v = t
      <4>1. e <= last
        BY <1>3, <1>4, <3>2 DEF Listed
      <4> QED BY <1>2, <1>4, <1>6, <2>1, <3>2, <4>1
    <3>3. CASE v # t
      BY <1>1, <1>5, <3>1, <3>3 DEF DueInv
    <3> QED BY <3>2, <3>3
  <2> QED BY <2>3, <2>4, <2>5 DEF DueInv
<1>14. DaemonInv'
  BY DEF DaemonInv
<1> QED BY <1>1, <1>7, <1>9, <1>11, <1>12, <1>13, <1>14 DEF TimersInv, SendingInv

LEMMA ChangesPeriodKeeps == ASSUME TimersInv, ChangesPeriod PROVE Kept
<1>1. PICK t, p : t = xMessage.timer /\ p = xMessage.value
  OBVIOUS
<1>2. /\ daemonAt = "handle" /\ xMessage.id = "changePeriod"
      /\ daemonAt' = "commands" /\ xMessage' = NoCommand /\ xTimeNow' = 0
      /\ SetStatus(t, TRUE) /\ CallsNothing
      /\ xTimerPeriodInTicks' = [xTimerPeriodInTicks EXCEPT ![t] = p]
      /\ Insert(pxCurrentTimerList, t, Plus(xTimeNow, p), xTimeNow)
      /\ UNCHANGED <<xTickCount, xLastTime, asks, xTimerQueue, xNextExpireTime, xDaemonWait, sending,
                     asserted>>
  BY <1>1 DEF ChangesPeriod, Handles
<1>3. TimersTypeOK /\ SortedInv /\ DaemonInv
  BY DEF TimersInv
<1>4. t \in Timer /\ p \in Periods /\ xTimeNow = xLastTime /\ xLastTime \in Ticks
  BY <1>1, <1>2, <1>3, TypeParts, CommandFacts DEF DaemonInv
<1>5. (xLastTime - xLastTime) % TickModulus = 0 /\ 0 < p /\ p \in Int /\ Age(xLastTime) \in Int
  <2>1. (xLastTime - xLastTime) % TickModulus = IF xLastTime <= xLastTime THEN xLastTime - xLastTime
                                                ELSE xLastTime - xLastTime + TickModulus
    BY <1>4, AgeIs
  <2>2. Age(xLastTime) \in Nat /\ xLastTime \in Nat
    BY <1>3, <1>4, AgeType, Numbers
  <2> QED BY <1>4, <2>1, <2>2, PeriodFacts
<1>6. /\ TimersInv' /\ \A v \in Timer : v # t => Timely(v)
      /\ Deadline(t)' = p - ((xLastTime - xLastTime) % TickModulus) - Age(xLastTime)
  BY <1>1, <1>2, <1>4, <1>5, InsertingKeeps
<1>7. Deadline(t) = p - Age(xTimeNow)
  BY <1>1, <1>2, <1>3, <1>4, DeadlineAt
<1>8. Timely(t)
  <2>1. Deadline(t)' = Deadline(t)
    BY <1>4, <1>5, <1>6, <1>7
  <2> QED BY <1>2, <1>3, <1>4, <2>1, QuietIsTimely, NothingCalled DEF CallsNothing
<1> QED BY <1>6, <1>8 DEF Kept

LEMMA AgePlus ==
    ASSUME TimersTypeOK, NEW u \in Ticks, NEW p \in Periods, Age(u) >= p
    PROVE  Age(Plus(u, p)) = Age(u) - p
<1>1. PICK v, now, q, m \in Int :
         /\ v = u /\ now = xTickCount /\ q = p /\ m = TickModulus
         /\ 0 <= v /\ v < m /\ 0 <= now /\ now < m /\ 0 < q /\ q < m
  BY Numbers, PeriodFacts
<1>2. Age(u) = IF v <= now THEN now - v ELSE now - v + m
  BY <1>1, TypeParts, AgeIs DEF Age
<1>3. Plus(u, p) \in Ticks /\ Plus(u, p) = IF v + q < m THEN v + q ELSE v + q - m
  BY <1>1, PeriodFacts, PlusIs
<1>4. PICK e \in Int : e = Plus(u, p) /\ e = IF v + q < m THEN v + q ELSE v + q - m
  BY <1>1, <1>3, Numbers
<1>5. Age(Plus(u, p)) = IF e <= now THEN now - e ELSE now - e + m
  <2>1. xTickCount \in Ticks
    BY TypeParts
  <2>2. Age(Plus(u, p)) = IF Plus(u, p) <= xTickCount THEN xTickCount - Plus(u, p)
                          ELSE xTickCount - Plus(u, p) + TickModulus
    BY <1>3, <2>1, AgeIs DEF Age
  <2> QED BY <1>1, <1>4, <2>2
<1>6. PICK a \in Int : a = Age(u) /\ a >= q
  BY <1>1, <1>2
<1>7. (IF e <= now THEN now - e ELSE now - e + m) = a - q
  BY <1>1, <1>2, <1>4, <1>6
<1> QED BY <1>1, <1>5, <1>6, <1>7

LEMMA StartsTimerKeeps == ASSUME TimersInv, StartsTimer PROVE Kept
<1>1. PICK t, u, p, expiry :
         /\ t = xMessage.timer /\ u = xMessage.value /\ p = xTimerPeriodInTicks[t] /\ expiry = Plus(u, p)
  OBVIOUS
<1>2. /\ daemonAt = "handle" /\ xMessage.id \in {"start", "reload"}
      /\ daemonAt' = "commands" /\ xMessage' = NoCommand /\ xTimeNow' = 0
      /\ SetStatus(t, TRUE) /\ xTimerPeriodInTicks' = xTimerPeriodInTicks
      /\ UNCHANGED <<xTickCount, xLastTime, asks, xNextExpireTime, xDaemonWait, sending>>
  BY <1>1 DEF StartsTimer, Handles
<1>3. TimersTypeOK /\ SortedInv /\ DaemonInv /\ DueInv /\ SendingInv
  BY DEF TimersInv
<1>4. Starts(xMessage) /\ xMessage \in Commands
  BY <1>2, <1>3, TypeParts, CommandFacts DEF Starts
<1>5. /\ t \in Timer /\ u \in Ticks /\ p \in Periods /\ xTimeNow = xLastTime /\ xLastTime \in Ticks
      /\ expiry \in Ticks /\ 0 \in Ticks
  BY <1>1, <1>2, <1>3, <1>4, TypeParts, CommandFacts, NoTimePasses, PeriodFacts, PlusIs DEF DaemonInv
<1>6. PICK g, a, b, q \in Int :
         /\ g = (xLastTime - u) % TickModulus /\ a = Age(u) /\ b = Age(xLastTime) /\ q = p
         /\ a = g + b /\ b >= 0 /\ q > 0
  <2>1. Age(u) = ((xLastTime - u) % TickModulus) + Age(xLastTime)
    BY <1>1, <1>2, <1>3, <1>4, <1>5 DEF DaemonInv
  <2>2. /\ (xLastTime - u) % TickModulus \in Nat /\ Age(u) \in Nat /\ Age(xLastTime) \in Nat
    BY <1>3, <1>5, AgeIs, AgeType, Numbers
  <2> QED BY <1>5, <2>1, <2>2, PeriodFacts
<1>7. Deadline(t) = q - a
  BY <1>1, <1>3, <1>4, <1>5, <1>6, DeadlineAt
<1>8. t \notin Listed
  BY <1>1, <1>3 DEF SortedInv
<1>9. HasExpired(t, expiry, xTimeNow, u) <=> g >= q
  BY <1>1, <1>5, <1>6, ExpiredMeans
<1>10. CASE g < q
  <2>1. ~HasExpired(t, expiry, xTimeNow, u)
    BY <1>6, <1>9, <1>10
  <2>2. /\ Insert(pxCurrentTimerList, t, Plus(u, p), xLastTime) /\ CallsNothing
        /\ UNCHANGED <<xTimerQueue, asserted>>
    BY <1>1, <1>5, <2>1 DEF StartsTimer
  <2>3. xTimerPeriodInTicks' = [xTimerPeriodInTicks EXCEPT ![t] = p]
    BY <1>1, <1>2, <1>3, <1>5, TypeParts
  <2>4. (xLastTime - u) % TickModulus < p
    BY <1>6, <1>10
  <2>5. /\ TimersInv' /\ \A v \in Timer : v # t => Timely(v)
        /\ Deadline(t)' = p - ((xLastTime - u) % TickModulus) - Age(xLastTime)
    BY <1>1, <1>2, <1>5, <2>2, <2>3, <2>4, InsertingKeeps
  <2>6. Deadline(t)' = q - g - b
    BY <1>6, <2>5
  <2>7. q - g - b = q - a
    BY <1>6
  <2>8. Timely(t)
    BY <1>2, <1>3, <1>5, <1>7, <2>2, <2>6, <2>7, QuietIsTimely, NothingCalled DEF CallsNothing
  <2> QED BY <2>5, <2>8 DEF Kept
<1>11. CASE g >= q
  <2>1. /\ Calls(t) /\ UNCHANGED lists
        /\ ucStatus[t].autoReload => Reload(t, expiry)
        /\ ~ucStatus[t].autoReload => xTimerQueue' = xTimerQueue /\ asserted' = asserted
    BY <1>1, <1>9, <1>11 DEF StartsTimer
  <2>2. /\ xTimerQueue' \in Seq(Commands) /\ Len(xTimerQueue') <= QueueLength /\ asserted' \in BOOLEAN
        /\ \A v \in Timer : v # t => /\ Reloads(v)' = Reloads(v)
                                     /\ \A k \in Reloads(v) : xTimerQueue'[k] = xTimerQueue[k]
    <3>1. CASE ucStatus[t].autoReload
      BY <1>3, <1>5, <2>1, <3>1, ReloadSends
    <3>2. CASE ~ucStatus[t].autoReload
      BY <1>3, <2>1, <3>2, SameQueue DEF TimersTypeOK
    <3> QED BY <3>1, <3>2
  <2>3. called' \in [Timer -> 0..1] /\ hurried' = hurried /\ called'[t] = 1 /\ \A v \in Timer : v # t => called'[v] = 0
    BY <1>5, <2>1, CallsOne
  <2>4. TimersTypeOK'
    <3>1. ucStatus' \in [Timer -> Status]
      <4>1. ucStatus \in [Timer -> Status] /\ ucStatus' = [ucStatus EXCEPT ![t].active = TRUE]
        BY <1>2, <1>3 DEF TimersTypeOK, SetStatus
      <4> QED BY <4>1, StatusKept
    <3> QED BY <1>2, <1>3, <1>5, <2>1, <2>2, <2>3, <3>1 DEF TimersTypeOK, lists
  <2>5. Listed' = Listed /\ Listed \subseteq Timer /\ xMessage'.timer \notin Timer
    BY <1>2, <1>3, <2>1, TypeParts, CommandFacts, TurnFacts DEF Listed, lists
  <2>6. SortedInv'
    BY <1>3, <2>1, <2>5 DEF SortedInv, lists
  <2>7. TurnIsOver' <=> TurnIsOver
    BY <1>2 DEF TurnIsOver, Wrapped
  <2>8. ASSUME NEW v \in Timer, v # t PROVE Deadline(v)' = Deadline(v) /\ Timely(v)
    <3>1. xMessage.timer # v /\ xMessage'.timer # v
      BY <1>1, <2>5, <2>8
    <3>2. Reloads(v)' = Reloads(v) /\ \A k \in Reloads(v) : xTimerQueue'[k] = xTimerQueue[k]
      BY <2>2, <2>8
    <3>3. Deadline(v)' = Deadline(v)
      BY <1>2, <1>3, <2>1, <2>4, <2>6, <2>7, <3>1, <3>2, DeadlineKept DEF lists
    <3> QED BY <1>2, <1>3, <2>3, <2>8, <3>3, QuietIsTimely
  <2>9. DueInv'
    BY <1>2, <1>3, <1>8, <2>1, <2>5, <2>8 DEF DueInv, Listed, lists
  <2>10. DaemonInv'
    BY <1>2 DEF DaemonInv
  <2>11. Deadline(t) \in Int /\ Deadline(t) <= 0
    BY <1>6, <1>7, <1>11
  <2>12. t \notin Listed' /\ xMessage'.timer # t
    BY <1>5, <1>8, <2>5
  <2>13. ~asserted' => Timely(t)
    <3>1. CASE ucStatus[t].autoReload /\ ~asserted'
      <4>1. Reload(t, expiry)
        BY <2>1, <3>1
      <4>2. PICK k : k = Len(xTimerQueue) + 1
        OBVIOUS
      <4>3. /\ k \in Reloads(t)' /\ Reloads(t)' \subseteq Int /\ \A j \in Reloads(t)' : j <= k
            /\ xTimerQueue'[k].value = expiry
        BY <1>3, <1>5, <3>1, <4>1, <4>2, ReloadSends
      <4>4. Deadline(t)' = xTimerPeriodInTicks'[t] - Age(xTimerQueue[k].value)'
        BY <1>5, <2>4, <2>6, <2>12, <4>3, ReloadDeadlineThen
      <4>5. Age(xTimerQueue[k].value)' = Age(expiry)
        BY <1>2, <4>3 DEF Age
      <4>6. Age(expiry) = a - q
        <5>1. Age(u) >= p
          BY <1>6, <1>11
        <5> QED BY <1>1, <1>3, <1>5, <1>6, <5>1, AgePlus
      <4>7. Deadline(t)' = q - (a - q)
        BY <1>1, <1>2, <1>6, <4>4, <4>5, <4>6
      <4>8. q - (a - q) = (q - a) + q
        BY <1>6
      <4> QED BY <1>1, <1>6, <1>7, <2>3, <2>11, <3>1, <4>7, <4>8 DEF Timely
    <3>2. CASE ~ucStatus[t].autoReload
      <4>1. xTimerQueue' = xTimerQueue
        BY <2>1, <3>2
      <4>2. Reloads(t) = {} => Deadline(t)' = Forever
        BY <1>5, <2>4, <2>6, <2>12, <4>1, SameQueue, DeadlineThen
      <4> QED BY <2>3, <2>11, <3>2, <4>2 DEF Timely
    <3> QED BY <3>1, <3>2
  <2> QED BY <1>2, <1>3, <2>4, <2>6, <2>8, <2>9, <2>10, <2>13
          DEF Kept, TimersInv, SendingInv, ReloadsAreSent
<1> QED BY <1>6, <1>10, <1>11

LEMMA StartKeeps == TimersInit => TimersInv
<1> SUFFICES ASSUME TimersInit PROVE TimersInv
  OBVIOUS
<1>1. PICK s \in Setups :
         /\ asks = s.asks /\ xTimerPeriodInTicks = s.period
         /\ ucStatus = [t \in Timer |-> [active |-> FALSE, autoReload |-> s.autoReload[t]]]
  BY DEF TimersInit
<1>2. s \in [period : [Timer -> Periods], autoReload : [Timer -> BOOLEAN],
             asks : [Timer -> SUBSET Requests]]
  BY TimersAssumption
<1>3. 0 \in Ticks /\ 0 \in 0 .. Forever /\ 0 <= QueueLength
  BY TurnFacts
<1>4. pxCurrentTimerList = << >> /\ pxOverflowTimerList = << >> /\ xTimerQueue = << >>
      /\ xMessage = NoCommand /\ sending = NoCommand /\ daemonAt = "loop"
  BY DEF TimersInit
<1>5. TimersTypeOK
  <2>1. xTimerQueue \in Seq(Commands) /\ Len(xTimerQueue) <= QueueLength
    BY <1>3, <1>4
  <2>2. ucStatus \in [Timer -> Status]
    BY <1>1, <1>2 DEF Status
  <2>3. /\ called \in [Timer -> 0..1] /\ asserted \in BOOLEAN /\ hurried \in BOOLEAN /\ xTickCount \in Ticks /\ xLastTime \in Ticks
        /\ xTimerItemValue \in [Timer -> Ticks] /\ xTimeNow \in Ticks /\ xNextExpireTime \in Ticks
        /\ xDaemonWait \in 0 .. Forever
    <3>1. /\ called = [t \in Timer |-> 0] /\ asserted = FALSE /\ hurried = FALSE /\ xTickCount = 0 /\ xLastTime = 0
          /\ xTimerItemValue = [t \in Timer |-> 0] /\ xTimeNow = 0 /\ xNextExpireTime = 0
          /\ xDaemonWait = 0
      BY DEF TimersInit, NoneCalled
    <3>2. [t \in Timer |-> 0] \in [Timer -> 0..1] /\ [t \in Timer |-> 0] \in [Timer -> Ticks]
      BY <1>3
    <3> QED BY <1>3, <3>1, <3>2
  <2>4. asks \in [Timer -> SUBSET Requests] /\ xTimerPeriodInTicks \in [Timer -> Periods]
    BY <1>1, <1>2
  <2>5. pxCurrentTimerList \in Seq(Timer) /\ pxOverflowTimerList \in Seq(Timer)
    BY <1>4, EmptyList
  <2> QED BY <1>4, <2>1, <2>2, <2>3, <2>4, <2>5 DEF TimersTypeOK
<1>6. Listed = {}
  BY <1>4, EmptyList DEF Listed
<1>7. SortedInv
  BY <1>4, <1>6, EmptyList DEF SortedInv
<1>8. DaemonInv
  BY <1>4 DEF DaemonInv
<1>9. DueInv
  BY <1>4, <1>6, EmptyList DEF DueInv
<1>10. SendingInv
  BY <1>4, CommandFacts DEF SendingInv
<1> QED BY <1>5, <1>7, <1>8, <1>9, <1>10 DEF TimersInv

LEMMA StutterKeeps ==
    ASSUME UNCHANGED timersVars
    PROVE  TimersInv' = TimersInv /\ WakesInTime' = WakesInTime
<1>1. /\ UNCHANGED <<xTickCount, xLastTime, xTimerQueue, sending, called, asserted, hurried>>
      /\ UNCHANGED <<pxCurrentTimerList, pxOverflowTimerList, xTimerItemValue>>
      /\ UNCHANGED <<xTimerPeriodInTicks, ucStatus, asks>>
      /\ UNCHANGED <<daemonAt, xMessage, xTimeNow, xNextExpireTime, xDaemonWait>>
  BY DEF timersVars, lists, timers, daemon
<1>2. \A t : Deadline(t)' = Deadline(t)
  BY <1>1 DEF Deadline, FromStart, Age, InList, Reloads, LastReload, TurnIsOver, Wrapped
<1>3. TimersTypeOK' = TimersTypeOK
  BY <1>1 DEF TimersTypeOK
<1>4. SortedInv' = SortedInv /\ DaemonInv' = DaemonInv /\ SendingInv' = SendingInv
  BY <1>1 DEF SortedInv, DaemonInv, SendingInv, Listed, Age
<1>5. DueInv' = DueInv
  BY <1>1, <1>2 DEF DueInv, Listed
<1>6. WakesInTime' = WakesInTime
  BY <1>1, <1>2 DEF WakesInTime
<1> QED BY <1>3, <1>4, <1>5, <1>6 DEF TimersInv

LEMMA StepKeeps == ASSUME TimersInv, TimersNext PROVE Kept
<1>1. CASE Daemon
  BY <1>1, SwitchesFirstKeeps, FindsExpiredKeeps, BlocksKeeps, prvProcessExpiredTimerKeeps, SwitchOneKeeps,
     SwitchListsKeeps, QueueIsEmptyKeeps, ReceivesCommandKeeps, SamplesTimeKeeps, StartsTimerKeeps,
     EndsKeeps, ChangesPeriodKeeps DEF Daemon
<1>2. CASE \E m \in Commands : xTimerGenericCommand(m)
  BY <1>2, AskingKeeps
<1>3. CASE Sent
  BY <1>3, SentKeeps
<1>4. CASE \E t \in Timer : vTimerSetReloadMode(t)
  BY <1>4, SetReloadModeKeeps
<1>5. CASE xTaskIncrementTick
  BY <1>5, TickKeeps
<1>6. CASE Stopped
  BY <1>6, StutterKeeps DEF Stopped, Kept, timersVars
<1> QED BY <1>1, <1>2, <1>3, <1>4, <1>5, <1>6 DEF TimersNext

\* The lists are sorted, no timer is listed twice or while a command for it is handled, a
\* listed timer is due within its period, and what the daemon has sampled is what it acts on.
THEOREM TimersInvariant == TimersSpec => []TimersInv
<1>1. TimersInv /\ [TimersNext]_timersVars => TimersInv'
  BY StepKeeps, StutterKeeps DEF Kept
<1> QED BY <1>1, StartKeeps, PTL DEF TimersSpec

\* Every variable of the timers stays in its type: the queue is never over its length.
THEOREM TimersTypesHold == TimersSpec => []TimersTypeOK
<1>1. TimersInv => TimersTypeOK
  BY DEF TimersInv
<1> QED BY <1>1, TimersInvariant, PTL

LEMMA WaitIsShort ==
    ASSUME TimersInv, daemonAt = "loop", ~Wrapped, ~Due, xTimerQueue = << >>, NEW t \in Timer
    PROVE  WaitsFor <= Deadline(t)
<1>1. TimersTypeOK /\ SortedInv /\ xMessage = NoCommand /\ xMessage.timer # t
  <2>1. xMessage = NoCommand
    BY DEF TimersInv, DaemonInv
  <2> QED BY <2>1, CommandFacts, TurnFacts DEF TimersInv
<1>2. PICK now, last, m, x \in Int :
         /\ now = xTickCount /\ last = xLastTime /\ m = TickModulus /\ x = xTimerItemValue[t]
         /\ 0 <= now /\ now < m /\ 0 <= x /\ x < m /\ last <= now /\ Forever = m + 1
  BY <1>1, Numbers DEF Wrapped
<1>3. ~TurnIsOver
  BY <1>2 DEF TurnIsOver, Wrapped
<1>4. CASE t \notin Listed
  <2>1. Reloads(t) = {}
    BY DEF Reloads
  <2>2. Deadline(t) = Forever
    BY <1>1, <1>4, <2>1, DeadlineAt
  <2>3. CASE pxCurrentTimerList = << >> /\ pxOverflowTimerList = << >>
    BY <1>2, <2>2, <2>3 DEF WaitsFor
  <2>4. CASE ~(pxCurrentTimerList = << >> /\ pxOverflowTimerList = << >>)
    <3>1. NextExpireTime \in Ticks
      BY <1>1, HeadIn, TypeParts, NoTimePasses DEF NextExpireTime, TimersTypeOK
    <3>2. WaitsFor \in Nat /\ WaitsFor < TickModulus
      BY <1>1, <2>4, <3>1, AgeIs, TypeParts, Numbers DEF WaitsFor
    <3> QED BY <1>2, <2>2, <3>2
  <2> QED BY <2>3, <2>4
<1>5. CASE t \in Listed
  <2>1. TwoLists(pxCurrentTimerList, pxOverflowTimerList, xTimerItemValue)
    BY <1>1, ListsAre
  <2>2. ~(pxCurrentTimerList = << >> /\ pxOverflowTimerList = << >>)
    BY <1>5, EmptyList DEF Listed
  <2>3. WaitsFor = (NextExpireTime - xTickCount) % TickModulus
    BY <2>2 DEF WaitsFor
  <2>4. t \in ToSet(pxOverflowTimerList) => Deadline(t) = x - now + m
    BY <1>1, <1>2, <1>3, DeadlineAt
  <2>5. t \in ToSet(pxCurrentTimerList) => Deadline(t) = x - now
    <3>1. t \in ToSet(pxCurrentTimerList) => Deadline(t) = x - now - 0
      BY <1>1, <1>2, <1>3, DeadlineAt
    <3> QED BY <1>2, <3>1
  <2>6. CASE pxCurrentTimerList = << >>
    <3>1. NextExpireTime = 0 /\ 0 \in Ticks /\ xTickCount \in Ticks
      BY <1>1, <2>6, NoTimePasses, TypeParts DEF NextExpireTime
    <3>2. WaitsFor = IF xTickCount <= 0 THEN 0 - xTickCount ELSE 0 - xTickCount + TickModulus
      BY <2>3, <3>1, AgeIs
    <3>3. t \in ToSet(pxOverflowTimerList)
      BY <1>5, <2>6, EmptyList DEF Listed
    <3> QED BY <1>2, <2>4, <3>2, <3>3
  <2>7. CASE pxCurrentTimerList # << >>
    <3>1. /\ NextExpireTime = xTimerItemValue[Head(pxCurrentTimerList)]
          /\ \A u \in ToSet(pxCurrentTimerList) : NextExpireTime <= xTimerItemValue[u]
          /\ NextExpireTime \in Ticks /\ xTickCount \in Ticks
      BY <1>1, <2>1, <2>7, TailOfLists, TypeParts DEF NextExpireTime
    <3>2. PICK n \in Int : n = NextExpireTime /\ n < m
      BY <1>2, <3>1, Numbers
    <3>3. n > now
      BY <1>2, <2>7, <3>2 DEF Due
    <3>4. WaitsFor = IF now <= n THEN n - now ELSE n - now + m
      BY <1>2, <2>3, <3>1, <3>2, AgeIs
    <3>5. t \in ToSet(pxCurrentTimerList) => n <= x
      BY <1>2, <3>1, <3>2
    <3> QED BY <1>2, <1>5, <2>4, <2>5, <3>2, <3>3, <3>4, <3>5 DEF Listed
  <2> QED BY <2>6, <2>7
<1> QED BY <1>4, <1>5

LEMMA WakesKept ==
    ASSUME TimersInv, TimersInv', WakesInTime, TimersNext, daemonAt' = "blocked"
    PROVE  WakesInTime'
<1>1. CASE Daemon
  <2>1. Blocks
    BY <1>1 DEF Daemon, SwitchesFirst, FindsExpired, prvProcessExpiredTimer, SwitchOne, SwitchLists,
          QueueIsEmpty, ReceivesCommand, SamplesTime, StartsTimer, StopsTimer, ChangesPeriod, DeletesTimer,
          Handles, daemon
  <2>2. /\ UNCHANGED <<lists, timers, xTimerQueue, xMessage, xTickCount, xTimeNow>>
        /\ CallsNothing /\ daemonAt = "loop" /\ ~Wrapped /\ ~Due /\ xTimerQueue = << >>
        /\ xDaemonWait' = WaitsFor /\ xLastTime' = xTickCount
    BY <2>1 DEF Blocks
  <2>3. ~TurnIsOver /\ ~TurnIsOver'
    <3>1. xTickCount \in Nat
      BY Numbers DEF TimersInv
    <3> QED BY <2>2, <3>1 DEF TurnIsOver, Wrapped
  <2>4. \A t \in Timer : Deadline(t)' = Deadline(t)
    BY <2>2, <2>3, LookingKeeps DEF TimersInv, CallsNothing
  <2> QED BY <2>2, <2>4, WaitIsShort DEF WakesInTime
<1>2. CASE (\E m \in Commands : xTimerGenericCommand(m)) \/ (\E t \in Timer : vTimerSetReloadMode(t))
  <2>1. /\ UNCHANGED <<lists, xTimerPeriodInTicks, xTimerQueue, xMessage, xTickCount, xLastTime, xTimeNow,
                       daemonAt, xDaemonWait>>
        /\ called' = NoneCalled
    BY <1>2 DEF CallsNothing, xTimerGenericCommand, vTimerSetReloadMode, daemon, timers
  <2>2. TurnIsOver' <=> TurnIsOver
    BY <2>1 DEF TurnIsOver, Wrapped
  <2>3. \A t \in Timer : Deadline(t)' = Deadline(t)
    BY <2>1, <2>2, SameQueue, AsideKeeps DEF TimersInv
  <2> QED BY <2>1, <2>3 DEF WakesInTime
<1>3. CASE Sent
  BY <1>3 DEF Sent, Post
<1>4. CASE xTaskIncrementTick
  <2>1. /\ UNCHANGED <<lists, xTimerQueue, xMessage>>
        /\ daemonAt = "blocked"
        /\ \/ xDaemonWait = Forever /\ xDaemonWait' = xDaemonWait
           \/ xDaemonWait > 1 /\ xDaemonWait' = xDaemonWait - 1
    <3>1. xDaemonWait \in Nat
      BY TurnFacts DEF TimersInv, TimersTypeOK
    <3> QED BY <1>4, <3>1 DEF xTaskIncrementTick
  <2>2. xTimerQueue = << >> /\ \A t \in Timer : xDaemonWait <= Deadline(t)
    BY <2>1 DEF WakesInTime
  <2>3. ASSUME NEW t \in Timer PROVE xDaemonWait' <= Deadline(t)'
    <3>1. PICK d, w, f \in Int : d = Deadline(t) /\ w = xDaemonWait /\ f = Forever /\ w <= f
      <4>1. xDaemonWait \in Int /\ Forever \in Int /\ xDaemonWait <= Forever
        BY TurnFacts DEF TimersInv, TimersTypeOK
      <4> QED BY <4>1, DeadlineType DEF TimersInv
    <3>2. w <= d
      BY <2>2, <3>1
    <3>3. CASE d # f
      <4>1. Deadline(t)' = d - 1
        BY <1>4, <3>1, <3>3, TickMovesDeadlines DEF TimersInv
      <4> QED BY <2>1, <3>1, <3>2, <3>3, <4>1
    <3>4. CASE d = f
      <4>1. t \notin Listed
        <5>1. t \in Listed => Deadline(t) < TickModulus
          BY ListedDeadline
        <5>2. TickModulus \in Nat /\ Forever = TickModulus + 1
          BY Numbers
        <5> QED BY <3>1, <3>4, <5>1, <5>2
      <4>2. t \notin Listed' /\ xMessage' = NoCommand /\ Reloads(t)' = {}
        <5>1. xMessage = NoCommand
          BY <2>1 DEF TimersInv, DaemonInv
        <5> QED BY <2>1, <2>2, <4>1, <5>1 DEF Listed, lists, Reloads
      <4>3. Deadline(t)' = Forever
        BY <4>2, DeadlineThen, CommandFacts, TurnFacts DEF TimersInv
      <4> QED BY <2>1, <3>1, <4>3
    <3> QED BY <3>3, <3>4
  <2> QED BY <2>1, <2>2, <2>3 DEF WakesInTime
<1>5. CASE Stopped
  BY <1>5, StutterKeeps DEF Stopped
<1> QED BY <1>1, <1>2, <1>3, <1>4, <1>5 DEF TimersNext

\* A blocked daemon wakes for every timer no later than it is due, also where that is after
\* a wrap of the tick count.
THEOREM DaemonWakesInTime == TimersSpec => []WakesInTime
<1>1. TimersInit => WakesInTime
  BY DEF TimersInit, WakesInTime
<1>2. TimersInv /\ TimersInv' /\ WakesInTime /\ [TimersNext]_timersVars => WakesInTime'
  <2> SUFFICES ASSUME TimersInv, TimersInv', WakesInTime, [TimersNext]_timersVars PROVE WakesInTime'
    OBVIOUS
  <2>1. CASE TimersNext /\ daemonAt' = "blocked"
    BY <2>1, WakesKept
  <2>2. CASE daemonAt' # "blocked"
    BY <2>2 DEF WakesInTime
  <2>3. CASE UNCHANGED timersVars
    BY <2>3, StutterKeeps
  <2> QED BY <2>1, <2>2, <2>3
<1> QED BY <1>1, <1>2, TimersInvariant, PTL DEF TimersSpec

LEMMA LoadIs ==
    /\ TimersTypeOK =>
         \A u, k : k \in Load(u) <=>
            \/ k \in 1 .. Len(xTimerQueue) /\ xTimerQueue[k].timer = u
            \/ k = 0 /\ u \in Listed
            \/ k = -1 /\ xMessage.timer = u
            \/ k = -2 /\ sending.timer = u
    /\ TimersTypeOK' =>
         \A u, k : k \in Load(u)' <=>
            \/ k \in 1 .. Len(xTimerQueue') /\ xTimerQueue'[k].timer = u
            \/ k = 0 /\ u \in Listed'
            \/ k = -1 /\ xMessage'.timer = u
            \/ k = -2 /\ sending'.timer = u
<1>1. TimersTypeOK => DOMAIN xTimerQueue = 1 .. Len(xTimerQueue)
  BY TypeParts
<1>2. TimersTypeOK' => DOMAIN xTimerQueue' = 1 .. Len(xTimerQueue')
  <2>1. TimersTypeOK' => xTimerQueue' \in Seq(Commands)
    BY DEF TimersTypeOK
  <2> QED BY <2>1, LenProperties
<1> QED BY <1>1, <1>2 DEF Load

\* Nothing new is asked.
LEMMA QuietLoad ==
    ASSUME TimersTypeOK, TimersTypeOK', LoadInv, xTimerQueue' = xTimerQueue, Listed' \subseteq Listed,
           xMessage' \in {xMessage, NoCommand}, sending' \in {sending, NoCommand}
    PROVE  LoadInv'
<1>1. ASSUME NEW u \in Timer PROVE Load(u)' \subseteq Load(u)
  <2>1. xMessage'.timer = u => xMessage.timer = u
    BY CommandFacts, TurnFacts
  <2>2. sending'.timer = u => sending.timer = u
    BY CommandFacts, TurnFacts
  <2> QED BY <2>1, <2>2, LoadIs
<1> QED BY <1>1 DEF LoadInv, AtMostTwo

\* A timer goes from one place to another.
LEMMA LoadMoves ==
    ASSUME LoadInv, NEW t, NEW from \in Load(t), NEW to,
           \A u \in Timer : u # t => Load(u)' \subseteq Load(u),
           Load(t)' \subseteq (Load(t) \ {from}) \cup {to}
    PROVE  LoadInv'
<1>1. ASSUME NEW u \in Timer, u # t PROVE AtMostTwo(Load(u))'
  BY <1>1 DEF LoadInv, AtMostTwo
<1>2. ASSUME t \in Timer PROVE AtMostTwo(Load(t))'
  <2>1. AtMostTwo(Load(t))
    BY <1>2 DEF LoadInv
  <2> QED BY <2>1 DEF AtMostTwo
<1> QED BY <1>1, <1>2 DEF LoadInv

LEMMA AppendIs ==
    ASSUME TimersTypeOK, NEW m, xTimerQueue' = Append(xTimerQueue, m)
    PROVE  /\ Len(xTimerQueue') = Len(xTimerQueue) + 1
           /\ \A k \in 1 .. Len(xTimerQueue) : xTimerQueue'[k] = xTimerQueue[k]
           /\ xTimerQueue'[Len(xTimerQueue) + 1] = m
<1>1. xTimerQueue \in Seq(Commands) /\ Len(xTimerQueue) \in Nat
  BY TypeParts
<1> QED BY <1>1

\* ... and to the end of the queue.
LEMMA LoadQueues ==
    ASSUME TimersTypeOK, TimersTypeOK', LoadInv, NEW t \in Timer, NEW m, m.timer = t,
           Len(xTimerQueue') = Len(xTimerQueue) + 1, xTimerQueue'[Len(xTimerQueue) + 1] = m,
           \A k \in 1 .. Len(xTimerQueue) : xTimerQueue'[k] = xTimerQueue[k],
           NEW from \in {0, -1, -2}, from \in Load(t),
           from \notin Load(t)', Listed' \subseteq Listed,
           xMessage' \in {xMessage, NoCommand}, sending' \in {sending, NoCommand}
    PROVE  LoadInv'
<1>1. Len(xTimerQueue) \in Nat
  BY TypeParts
<1>2. PICK n, q, r :
        /\ n \in Nat /\ n = Len(xTimerQueue) /\ q = xTimerQueue /\ r = xTimerQueue'
        /\ Len(r) = n + 1 /\ r[n + 1] = m /\ \A k \in 1 .. n : r[k] = q[k]
  BY <1>1
<1>3. ASSUME NEW u \in Timer, NEW k \in Load(u)'
      PROVE  k \in Load(u) \/ (u = t /\ k = n + 1)
  <2>1. (xMessage'.timer = u => xMessage.timer = u) /\ (sending'.timer = u => sending.timer = u)
    BY CommandFacts, TurnFacts
  <2>2. /\ \/ k \in 1 .. Len(xTimerQueue') /\ xTimerQueue'[k].timer = u
           \/ k = 0 /\ u \in Listed'
           \/ k = -1 /\ xMessage'.timer = u
           \/ k = -2 /\ sending'.timer = u
        /\ \/ k \in 1 .. Len(xTimerQueue) /\ xTimerQueue[k].timer = u
           \/ k = 0 /\ u \in Listed
           \/ k = -1 /\ xMessage.timer = u
           \/ k = -2 /\ sending.timer = u
           => k \in Load(u)
    BY <1>3, LoadIs
  <2>3. CASE k \in 1 .. Len(xTimerQueue') /\ xTimerQueue'[k].timer = u
    <3>1. k \in 1 .. n + 1 /\ r[k].timer = u
      BY <1>2, <2>3
    <3>2. k \in 1 .. n \/ k = n + 1
      BY <1>2, <3>1
    <3>3. CASE k \in 1 .. n
      <4>1. q[k].timer = u /\ k \in 1 .. Len(xTimerQueue)
        BY <1>2, <3>1, <3>3
      <4>2. xTimerQueue[k].timer = u
        BY <1>2, <4>1
      <4>3. k \in Load(u)
        BY <2>2, <4>1, <4>2
      <4> QED BY <4>3
    <3>4. CASE k = n + 1
      <4>1. r[k] = m
        BY <1>2, <3>4
      <4>2. m.timer = u
        BY <3>1, <4>1
      <4>3. u = t
        BY <4>2
      <4> QED BY <3>4, <4>3
    <3> QED BY <3>2, <3>3, <3>4
  <2> QED BY <2>1, <2>2, <2>3
<1>4. \A u \in Timer : u # t => Load(u)' \subseteq Load(u)
  BY <1>3
<1>5. Load(t)' \subseteq (Load(t) \ {from}) \cup {n + 1}
  BY <1>3
<1> QED BY <1>4, <1>5, LoadMoves

\* A command that is handled puts its timer in a list.
LEMMA LoadLists ==
    ASSUME TimersTypeOK, TimersTypeOK', LoadInv, NEW t \in Timer, xMessage.timer = t,
           xMessage' = NoCommand, xTimerQueue' = xTimerQueue, sending' = sending,
           Listed' \subseteq Listed \cup {t}
    PROVE  LoadInv'
<1>1. xMessage'.timer \notin Timer
  BY CommandFacts, TurnFacts
<1>2. -1 \in Load(t)
  BY LoadIs
<1>3. \A u \in Timer : u # t => Load(u)' \subseteq Load(u)
  BY <1>1, LoadIs
<1>4. Load(t)' \subseteq (Load(t) \ {-1}) \cup {0}
  <2>1. ASSUME NEW k \in Load(t)' PROVE k # -1 /\ (k = 0 \/ k \in Load(t))
    BY <1>1, LoadIs
  <2> QED BY <2>1
<1> QED BY <1>2, <1>3, <1>4, LoadMoves

\* The daemon's own command for a timer that it takes out of a list, or has started.
LEMMA LoadReloads ==
    ASSUME TimersTypeOK, TimersTypeOK', LoadInv, NEW t \in Timer, NEW time, Reload(t, time),
           NEW from \in {0, -1}, from \in Load(t), from \notin Load(t)', Listed' \subseteq Listed,
           xMessage' \in {xMessage, NoCommand}, sending' = sending
    PROVE  LoadInv'
<1>0. Command("reload", t, time).timer = t
  BY DEF Command
<1>1. PICK m : m = Command("reload", t, time) /\ m.timer = t
  BY <1>0
<1>2. CASE xTimerQueue' = Append(xTimerQueue, m)
  BY <1>1, <1>2, AppendIs, LoadQueues
<1>3. CASE xTimerQueue' = xTimerQueue
  BY <1>3, QuietLoad
<1> QED BY <1>1, <1>2, <1>3 DEF Reload

LEMMA InsertedListed ==
    ASSUME TimersInv, NEW c, NEW t \in Timer, NEW expiry \in Ticks, NEW now, Insert(c, t, expiry, now),
           \/ c = pxCurrentTimerList /\ t \notin Listed
           \/ c = Tail(pxCurrentTimerList) /\ pxCurrentTimerList # << >> /\ t = Head(pxCurrentTimerList)
    PROVE  Listed' = Listed \cup {t}
<1>1. TwoLists(pxCurrentTimerList, pxOverflowTimerList, xTimerItemValue)
  BY ListsAre DEF TimersInv
<1>2. /\ TwoLists(c, pxOverflowTimerList, xTimerItemValue)
      /\ t \notin ToSet(c) \cup ToSet(pxOverflowTimerList)
      /\ ToSet(c) \cup {t} = ToSet(pxCurrentTimerList) \cup {t}
  <2>1. CASE c = pxCurrentTimerList /\ t \notin Listed
    BY <1>1, <2>1 DEF Listed
  <2>2. CASE c = Tail(pxCurrentTimerList) /\ pxCurrentTimerList # << >> /\ t = Head(pxCurrentTimerList)
    BY <1>1, <2>2, TailOfLists
  <2> QED BY <2>1, <2>2
<1>3. /\ expiry <= now => /\ ToSet(pxOverflowTimerList') = ToSet(pxOverflowTimerList) \cup {t}
                          /\ ToSet(pxCurrentTimerList') = ToSet(c)
      /\ ~(expiry <= now) => /\ ToSet(pxCurrentTimerList') = ToSet(c) \cup {t}
                             /\ ToSet(pxOverflowTimerList') = ToSet(pxOverflowTimerList)
  BY <1>2, InsertsTimer
<1> QED BY <1>2, <1>3 DEF Listed

LEMMA RemovedListed ==
    ASSUME TimersInv, pxCurrentTimerList # << >>, RemoveHead, pxOverflowTimerList' = pxOverflowTimerList,
           NEW t, t = Head(pxCurrentTimerList)
    PROVE  Listed' = Listed \ {t} /\ t \in Listed /\ t \in Timer
<1>1. TwoLists(pxCurrentTimerList, pxOverflowTimerList, xTimerItemValue)
  BY ListsAre DEF TimersInv
<1>2. /\ ToSet(pxCurrentTimerList') = ToSet(pxCurrentTimerList) \ {t}
      /\ t \in Timer /\ t \in ToSet(pxCurrentTimerList) /\ t \notin ToSet(pxOverflowTimerList)
  BY <1>1, RemovesHead, TailOfLists
<1> QED BY <1>2 DEF Listed

LEMMA LoadStep == ASSUME TimersInv, TimersInv', LoadInv, TimersNext, ~hurried' PROVE LoadInv'
<1>1. TimersTypeOK /\ TimersTypeOK' /\ SortedInv /\ DaemonInv
  BY DEF TimersInv
<1>2. CASE SwitchesFirst \/ FindsExpired \/ Blocks \/ QueueIsEmpty \/ SamplesTime
  BY <1>1, <1>2, QuietLoad
     DEF SwitchesFirst, FindsExpired, Blocks, QueueIsEmpty, SamplesTime, Listed, lists
<1>3. CASE xTaskIncrementTick \/ \E t \in Timer : vTimerSetReloadMode(t)
  BY <1>1, <1>3, QuietLoad DEF xTaskIncrementTick, vTimerSetReloadMode, Listed, lists, daemon
<1>4. CASE StopsTimer \/ DeletesTimer
  BY <1>1, <1>4, QuietLoad DEF StopsTimer, DeletesTimer, Handles, Listed, lists
<1>5. CASE SwitchLists
  <2>1. Listed' = Listed
    BY <1>5 DEF SwitchLists, Listed
  <2> QED BY <1>1, <1>5, <2>1, QuietLoad DEF SwitchLists
<1>6. CASE prvProcessExpiredTimer
  <2>1. PICK t, expiry : /\ t = Head(pxCurrentTimerList)
                         /\ expiry = Plus(xNextExpireTime, xTimerPeriodInTicks[t])
    OBVIOUS
  <2>2. pxCurrentTimerList # << >> /\ xMessage' = xMessage /\ sending' = sending
    BY <1>1, <1>6 DEF prvProcessExpiredTimer, DaemonInv
  <2>3. t \in Timer /\ t \in Listed
    BY <1>1, <2>1, <2>2, ListsAre, TailOfLists DEF Listed
  <2>4. expiry \in Ticks
    BY <1>1, <2>1, <2>3, TypeParts, PeriodFacts, PlusIs
  <2>5. \/ RemoveHead /\ pxOverflowTimerList' = pxOverflowTimerList /\ xTimerQueue' = xTimerQueue
        \/ RemoveHead /\ pxOverflowTimerList' = pxOverflowTimerList /\ Reload(t, xNextExpireTime)
        \/ Insert(Tail(pxCurrentTimerList), t, expiry, xTimeNow) /\ xTimerQueue' = xTimerQueue
    BY <1>6, <2>1 DEF prvProcessExpiredTimer
  <2>6. CASE RemoveHead /\ pxOverflowTimerList' = pxOverflowTimerList /\ xTimerQueue' = xTimerQueue
    BY <1>1, <2>1, <2>2, <2>6, RemovedListed, QuietLoad
  <2>7. CASE RemoveHead /\ pxOverflowTimerList' = pxOverflowTimerList /\ Reload(t, xNextExpireTime)
    <3>1. Listed' = Listed \ {t}
      BY <2>1, <2>2, <2>7, RemovedListed
    <3>2. 0 \in Load(t) /\ 0 \notin Load(t)'
      BY <1>1, <2>3, <3>1, LoadIs
    <3> QED BY <1>1, <2>2, <2>3, <2>7, <3>1, <3>2, LoadReloads
  <2>8. CASE Insert(Tail(pxCurrentTimerList), t, expiry, xTimeNow) /\ xTimerQueue' = xTimerQueue
    <3>1. Listed' = Listed
      BY <2>1, <2>2, <2>3, <2>4, <2>8, InsertedListed
    <3> QED BY <1>1, <2>2, <2>8, <3>1, QuietLoad
  <2> QED BY <2>5, <2>6, <2>7, <2>8
<1>7. CASE SwitchOne
  <2>1. PICK t, next, reload : /\ t = Head(pxCurrentTimerList) /\ next = xTimerItemValue[t]
                               /\ reload = Plus(next, xTimerPeriodInTicks[t])
    OBVIOUS
  <2>2. /\ pxCurrentTimerList # << >> /\ xMessage' = xMessage /\ sending' = sending
        /\ pxOverflowTimerList' = pxOverflowTimerList
    BY <1>7 DEF SwitchOne, daemon
  <2>3. t \in Timer /\ t \in Listed
    BY <1>1, <2>1, <2>2, ListsAre, TailOfLists DEF Listed
  <2>4. reload \in Ticks /\ next \in Ticks /\ reload \in Nat /\ next \in Nat
    BY <1>1, <2>1, <2>3, TypeParts, PeriodFacts, PlusIs, Numbers
  <2>5. \/ RemoveHead /\ xTimerQueue' = xTimerQueue
        \/ RemoveHead /\ Reload(t, next)
        \/ /\ reload > next /\ xTimerQueue' = xTimerQueue
           /\ xTimerItemValue' = [xTimerItemValue EXCEPT ![t] = reload]
           /\ pxCurrentTimerList' = vListInsert(Tail(pxCurrentTimerList), t, xTimerItemValue')
    BY <1>7, <2>1 DEF SwitchOne
  <2>6. CASE RemoveHead /\ xTimerQueue' = xTimerQueue
    BY <1>1, <2>1, <2>2, <2>6, RemovedListed, QuietLoad
  <2>7. CASE RemoveHead /\ Reload(t, next)
    <3>1. Listed' = Listed \ {t}
      BY <2>1, <2>2, <2>7, RemovedListed
    <3>2. 0 \in Load(t) /\ 0 \notin Load(t)'
      BY <1>1, <2>3, <3>1, LoadIs
    <3> QED BY <1>1, <2>2, <2>3, <2>7, <3>1, <3>2, LoadReloads
  <2>8. CASE /\ reload > next /\ xTimerQueue' = xTimerQueue
             /\ xTimerItemValue' = [xTimerItemValue EXCEPT ![t] = reload]
             /\ pxCurrentTimerList' = vListInsert(Tail(pxCurrentTimerList), t, xTimerItemValue')
    <3>1. ~(reload <= next)
      BY <2>4, <2>8
    <3>2. Insert(Tail(pxCurrentTimerList), t, reload, next)
      BY <2>2, <2>8, <3>1 DEF Insert
    <3>3. Listed' = Listed
      BY <2>1, <2>2, <2>3, <2>4, <3>2, InsertedListed
    <3> QED BY <1>1, <2>2, <2>8, <3>3, QuietLoad
  <2> QED BY <2>5, <2>6, <2>7, <2>8
<1>8. CASE ChangesPeriod
  <2>1. PICK t, expiry : t = xMessage.timer /\ expiry = Plus(xTimeNow, xMessage.value)
    OBVIOUS
  <2>2. /\ Insert(pxCurrentTimerList, t, expiry, xTimeNow) /\ daemonAt = "handle"
        /\ xMessage.id = "changePeriod" /\ xMessage' = NoCommand
        /\ xTimerQueue' = xTimerQueue /\ sending' = sending
    BY <1>8, <2>1 DEF ChangesPeriod, Handles
  <2>3. t \in Timer /\ xMessage.value \in Periods
    BY <1>1, <2>1, <2>2, TypeParts, CommandFacts DEF DaemonInv
  <2>4. expiry \in Ticks /\ t \notin Listed
    BY <1>1, <2>1, <2>3, TypeParts, PeriodFacts, PlusIs DEF SortedInv
  <2>5. Listed' = Listed \cup {t}
    BY <2>2, <2>3, <2>4, InsertedListed
  <2> QED BY <1>1, <2>1, <2>2, <2>3, <2>5, LoadLists
<1>9. CASE StartsTimer
  <2>1. PICK t, expiry : /\ t = xMessage.timer
                         /\ expiry = Plus(xMessage.value, xTimerPeriodInTicks[t])
    OBVIOUS
  <2>2. /\ daemonAt = "handle" /\ xMessage.id \in {"start", "reload"} /\ xMessage' = NoCommand
        /\ sending' = sending
        /\ \/ UNCHANGED lists /\ xTimerQueue' = xTimerQueue
           \/ UNCHANGED lists /\ Reload(t, expiry)
           \/ Insert(pxCurrentTimerList, t, expiry, xTimeNow) /\ xTimerQueue' = xTimerQueue
    BY <1>9, <2>1 DEF StartsTimer, Handles
  <2>3. t \in Timer /\ xMessage.value \in Ticks
    BY <1>1, <2>1, <2>2, TypeParts, CommandFacts DEF DaemonInv, Starts
  <2>4. expiry \in Ticks /\ t \notin Listed
    BY <1>1, <2>1, <2>3, TypeParts, PeriodFacts, PlusIs DEF SortedInv
  <2>5. CASE UNCHANGED lists /\ xTimerQueue' = xTimerQueue
    BY <1>1, <2>2, <2>5, QuietLoad DEF lists, Listed
  <2>6. CASE UNCHANGED lists /\ Reload(t, expiry)
    <3>1. Listed' = Listed
      BY <2>6 DEF lists, Listed
    <3>2. xMessage'.timer # t
      BY <2>2, <2>3, CommandFacts, TurnFacts
    <3>3. -1 \in Load(t) /\ -1 \notin Load(t)'
      BY <1>1, <2>1, <3>2, LoadIs
    <3> QED BY <1>1, <2>2, <2>3, <2>6, <3>1, <3>3, LoadReloads
  <2>7. CASE Insert(pxCurrentTimerList, t, expiry, xTimeNow) /\ xTimerQueue' = xTimerQueue
    <3>1. Listed' = Listed \cup {t}
      BY <2>3, <2>4, <2>7, InsertedListed
    <3> QED BY <1>1, <2>1, <2>2, <2>3, <2>7, <3>1, LoadLists
  <2> QED BY <2>2, <2>5, <2>6, <2>7
<1>10. CASE Sent
  <2>1. PICK m : m = sending
    OBVIOUS
  <2>2. /\ m \in Commands /\ xTimerQueue' = Append(xTimerQueue, m) /\ sending' = NoCommand
        /\ xMessage' = xMessage /\ Listed' = Listed
    BY <1>1, <1>10, <2>1, TypeParts DEF Sent, Post, lists, Listed
  <2>3. PICK t \in Timer : t = m.timer
    BY <2>2, CommandFacts
  <2>4. sending'.timer # t
    BY <2>2, <2>3, CommandFacts, TurnFacts
  <2>5. -2 \in Load(t) /\ -2 \notin Load(t)'
    BY <1>1, <2>1, <2>3, <2>4, LoadIs
  <2> QED BY <1>1, <2>2, <2>3, <2>5, AppendIs, LoadQueues
<1>11. ASSUME NEW m \in Commands, xTimerGenericCommand(m) PROVE LoadInv'
  <2>1. /\ xTimerQueue' = xTimerQueue /\ xMessage' = xMessage /\ sending' = m /\ sending = NoCommand
        /\ Listed' = Listed /\ ~InQueue(m.timer) /\ xMessage.timer # m.timer
    BY <1>11 DEF xTimerGenericCommand, UnderWay, lists, daemon, Listed
  <2>2. \A k \in 1 .. Len(xTimerQueue) : xTimerQueue[k].timer # m.timer
    BY <1>1, <2>1, TypeParts DEF InQueue
  <2>3. ASSUME NEW u \in Timer, u # m.timer PROVE Load(u)' \subseteq Load(u)
    BY <1>1, <2>1, <2>3, LoadIs
  <2>4. Load(m.timer)' \subseteq {0, -2}
    <3>1. ASSUME NEW k \in Load(m.timer)' PROVE k \in {0, -2}
      BY <1>1, <2>1, <2>2, <3>1, LoadIs
    <3> QED BY <3>1
  <2>5. ASSUME NEW u \in Timer PROVE AtMostTwo(Load(u))'
    <3>1. CASE u = m.timer
      BY <2>4, <3>1 DEF AtMostTwo
    <3>2. CASE u # m.timer
      BY <2>3, <3>2 DEF LoadInv, AtMostTwo
    <3> QED BY <3>1, <3>2
  <2> QED BY <2>5 DEF LoadInv
<1>12. CASE ReceivesCommand
  <2>1. /\ xTimerQueue # << >> /\ xTimerQueue' = Tail(xTimerQueue) /\ xMessage' = Head(xTimerQueue)
        /\ sending' = sending /\ daemonAt = "commands"
        /\ pxCurrentTimerList' = TakenOut(pxCurrentTimerList)
        /\ pxOverflowTimerList' = TakenOut(pxOverflowTimerList)
    BY <1>12 DEF ReceivesCommand
  <2>2. xMessage = NoCommand /\ \A u \in Timer : xMessage.timer # u
    BY <1>1, <2>1, CommandFacts, TurnFacts DEF DaemonInv
  <2>3. PICK n \in Nat \ {0} : n = Len(xTimerQueue)
    BY <1>1, <2>1, TypeParts, EmptySeq, LenProperties
  <2>4. /\ Len(xTimerQueue') = n - 1 /\ xMessage' = xTimerQueue[1]
        /\ \A k \in 1 .. n - 1 : xTimerQueue'[k] = xTimerQueue[k + 1]
    BY <1>1, <2>1, <2>3, TypeParts, HeadTailProperties
  <2>5. Listed' \subseteq Listed
    <3>1. PICK t : t = xMessage'.timer
      OBVIOUS
    <3>2. /\ pxCurrentTimerList' = IF Contains(pxCurrentTimerList, t)
                                   THEN uxListRemove(pxCurrentTimerList, t) ELSE pxCurrentTimerList
          /\ pxOverflowTimerList' = IF Contains(pxOverflowTimerList, t)
                                    THEN uxListRemove(pxOverflowTimerList, t) ELSE pxOverflowTimerList
      BY <2>1, <3>1 DEF TakenOut
    <3>3. TwoLists(pxCurrentTimerList, pxOverflowTimerList, xTimerItemValue)
      BY <1>1, ListsAre
    <3>4. ToSet(pxCurrentTimerList') = ToSet(pxCurrentTimerList) \ {t}
      BY <3>2, <3>3, TakesOut DEF TwoLists
    <3>5. ToSet(pxOverflowTimerList') = ToSet(pxOverflowTimerList) \ {t}
      BY <3>2, <3>3, TakesOut DEF TwoLists
    <3> QED BY <3>4, <3>5 DEF Listed
  <2>6. ASSUME NEW u \in Timer, NEW k \in Load(u)'
        PROVE  /\ k \in Int
               /\ k >= 1 => k + 1 \in Load(u)
               /\ k = -1 => 1 \in Load(u)
               /\ k \in {0, -2} => k \in Load(u)
               /\ k >= 1 \/ k \in {0, -1, -2}
    <3>1. \/ k \in 1 .. n - 1 /\ xTimerQueue'[k].timer = u
          \/ k = 0 /\ u \in Listed'
          \/ k = -1 /\ xMessage'.timer = u
          \/ k = -2 /\ sending'.timer = u
      BY <1>1, <2>4, <2>6, LoadIs
    <3>2. CASE k \in 1 .. n - 1 /\ xTimerQueue'[k].timer = u
      <4>1. k + 1 \in 1 .. Len(xTimerQueue) /\ xTimerQueue[k + 1].timer = u /\ k \in Int /\ k >= 1
        BY <2>3, <2>4, <3>2
      <4> QED BY <1>1, <4>1, LoadIs
    <3>3. CASE k = 0 /\ u \in Listed'
      BY <1>1, <2>5, <3>3, LoadIs
    <3>4. CASE k = -1 /\ xMessage'.timer = u
      <4>1. 1 \in 1 .. Len(xTimerQueue) /\ xTimerQueue[1].timer = u
        BY <2>3, <2>4, <3>4
      <4> QED BY <1>1, <3>4, <4>1, LoadIs
    <3>5. CASE k = -2 /\ sending'.timer = u
      BY <1>1, <2>1, <3>5, LoadIs
    <3> QED BY <3>1, <3>2, <3>3, <3>4, <3>5
  <2>7. ASSUME NEW u \in Timer PROVE AtMostTwo(Load(u))'
    <3> DEFINE f(k) == IF k >= 1 THEN k + 1 ELSE IF k = -1 THEN 1 ELSE k
    <3>1. \A k \in Load(u)' : f(k) \in Load(u) /\ k \in Int /\ k >= -2
      BY <2>6
    <3>2. \A k, l \in Int : k >= -2 /\ l >= -2 /\ f(k) = f(l) => k = l
      OBVIOUS
    <3>3. AtMostTwo(Load(u))
      BY DEF LoadInv
    <3> HIDE DEF f
    <3>4. ASSUME NEW k \in Load(u)', NEW l \in Load(u)', NEW n1 \in Load(u)'
          PROVE  k = l \/ l = n1 \/ k = n1
      <4>1. f(k) \in Load(u) /\ f(l) \in Load(u) /\ f(n1) \in Load(u)
        BY <3>1
      <4>2. f(k) = f(l) \/ f(l) = f(n1) \/ f(k) = f(n1)
        BY <3>3, <4>1 DEF AtMostTwo
      <4> QED BY <3>1, <3>2, <4>2
    <3> QED BY <3>4 DEF AtMostTwo
  <2> QED BY <2>7 DEF LoadInv
<1>13. CASE Stopped
  BY <1>1, <1>13, QuietLoad DEF Stopped, timersVars, lists, daemon, Listed
<1> QED BY <1>2, <1>3, <1>4, <1>5, <1>6, <1>7, <1>8, <1>9, <1>10, <1>11, <1>12, <1>13 DEF TimersNext, Daemon

LEMMA LoadStarts == TimersInit => LoadInv
<1> SUFFICES ASSUME TimersInit, NEW u \in Timer PROVE AtMostTwo(Load(u))
  BY DEF LoadInv
<1>1. /\ pxCurrentTimerList = << >> /\ pxOverflowTimerList = << >> /\ xTimerQueue = << >>
      /\ xMessage = NoCommand /\ sending = NoCommand
  BY DEF TimersInit
<1>2. Load(u) = {}
  <2>1. Listed = {} /\ NoCommand.timer # u /\ DOMAIN xTimerQueue = {}
    BY <1>1, EmptyList, CommandFacts, TurnFacts DEF Listed
  <2> QED BY <1>1, <2>1 DEF Load
<1> QED BY <1>2 DEF AtMostTwo

\* That the application was in haste is not forgotten.
LEMMA HurriedStays == ASSUME [TimersNext]_timersVars, hurried \in BOOLEAN PROVE hurried => hurried'
<1>1. CASE UNCHANGED timersVars \/ Stopped
  BY <1>1 DEF timersVars, Stopped
<1>2. CASE Daemon
  <2> USE DEF CallsNothing, Calls
  <2>1. UNCHANGED hurried
    BY <1>2 DEF Daemon, SwitchesFirst, FindsExpired, Blocks, prvProcessExpiredTimer, SwitchOne, SwitchLists,
          QueueIsEmpty, ReceivesCommand, SamplesTime, StartsTimer, StopsTimer, ChangesPeriod, DeletesTimer
  <2> QED BY <2>1
<1>3. CASE (\E m \in Commands : xTimerGenericCommand(m)) \/ (\E t \in Timer : vTimerSetReloadMode(t))
  BY <1>3 DEF xTimerGenericCommand, vTimerSetReloadMode, CallsNothing
<1>4. CASE Sent \/ xTaskIncrementTick
  BY <1>4 DEF Sent, xTaskIncrementTick, CallsNothing
<1> QED BY <1>1, <1>2, <1>3, <1>4 DEF TimersNext

\* Until the application asks for a timer that has a message under way, a timer is at most twice
\* among the list it is in, the commands that wait for the daemon, the one it handles and the one
\* that waits for a place in the queue.
LEMMA TwiceUnlessHurried == TimersSpec => [](hurried \/ LoadInv)
<1>1. TimersInv /\ TimersInv' /\ (hurried \/ LoadInv) /\ [TimersNext]_timersVars => (hurried \/ LoadInv)'
  <2>1. UNCHANGED timersVars => LoadInv' = LoadInv
    BY DEF timersVars, lists, daemon, LoadInv, Load, Listed
  <2>2. TimersInv => hurried \in BOOLEAN
    BY DEF TimersInv, TimersTypeOK
  <2> QED BY <2>1, <2>2, LoadStep, HurriedStays
<1> QED BY <1>1, LoadStarts, TimersInvariant, PTL DEF TimersSpec

\* The queue has room for two commands of every timer.
QueueHasRoom == IsFiniteSet(Timer) /\ 2 * Cardinality(Timer) <= QueueLength

\* A timer that is listed, or whose command is handled, is once in the queue at most: there is
\* room for one more.
LEMMA RoomForOne ==
    ASSUME TimersTypeOK, LoadInv, QueueHasRoom, NEW t \in Timer, t \in Listed \/ xMessage.timer = t
    PROVE  Len(xTimerQueue) < QueueLength
<1>1. PICK n, q : n \in Nat /\ n = Len(xTimerQueue) /\ q = xTimerQueue
  BY TypeParts
<1>2. \A k \in 1 .. n : q[k].timer \in Timer
  BY <1>1, TypeParts, CommandFacts
<1> DEFINE earlier(k) == \E j \in 1 .. n : j < k /\ q[j].timer = q[k].timer
           f == [k \in 1 .. n |-> <<q[k].timer, earlier(k)>>]
           T == (Timer \X BOOLEAN) \ {<<t, TRUE>>}
<1>3. ASSUME NEW k \in 1 .. n, NEW l \in 1 .. n, NEW j \in 1 .. n,
             q[k].timer = q[l].timer, q[l].timer = q[j].timer
      PROVE  k = l \/ l = j \/ k = j
  <2>1. PICK u \in Timer : u = q[k].timer
    BY <1>2
  <2>2. k \in Load(u) /\ l \in Load(u) /\ j \in Load(u)
    BY <1>1, <1>3, <2>1, LoadIs
  <2> QED BY <2>2 DEF LoadInv, AtMostTwo
<1>4. ASSUME NEW k \in 1 .. n, NEW l \in 1 .. n, q[k].timer = t, q[l].timer = t
      PROVE  k = l
  <2>1. PICK from \in {0, -1} : from \in Load(t)
    BY LoadIs
  <2>2. k \in Load(t) /\ l \in Load(t) /\ AtMostTwo(Load(t))
    BY <1>1, <1>4, LoadIs DEF LoadInv
  <2>3. k # from /\ l # from
    BY <1>1
  <2> QED BY <2>1, <2>2, <2>3 DEF AtMostTwo
<1>5. \A k \in 1 .. n : f[k] \in T
  <2> SUFFICES ASSUME NEW k \in 1 .. n PROVE f[k] \in T
    OBVIOUS
  <2>1. ~(q[k].timer = t /\ earlier(k))
    <3> SUFFICES ASSUME q[k].timer = t, NEW j \in 1 .. n, j < k, q[j].timer = q[k].timer PROVE FALSE
      OBVIOUS
    <3>1. j = k
      BY <1>4
    <3> QED BY <1>1, <3>1
  <2>2. earlier(k) \in BOOLEAN
    OBVIOUS
  <2> HIDE DEF earlier
  <2>3. f[k] = <<q[k].timer, earlier(k)>>
    OBVIOUS
  <2> QED BY <1>2, <2>1, <2>2, <2>3
<1>6. ASSUME NEW k \in 1 .. n, NEW l \in 1 .. n, f[k] = f[l]
      PROVE  k = l
  <2>1. q[k].timer = q[l].timer /\ (earlier(k) <=> earlier(l))
    <3> HIDE DEF earlier
    <3>1. f[k] = <<q[k].timer, earlier(k)>> /\ f[l] = <<q[l].timer, earlier(l)>>
      OBVIOUS
    <3> QED BY <1>6, <3>1
  <2>2. SUFFICES ASSUME k # l PROVE FALSE
    OBVIOUS
  <2>3. \E a, b \in 1 .. n : a < b /\ q[a].timer = q[b].timer /\ (earlier(a) <=> earlier(b))
    BY <1>1, <2>1, <2>2
  <2>4. PICK a \in 1 .. n, b \in 1 .. n : a < b /\ q[a].timer = q[b].timer /\ (earlier(a) <=> earlier(b))
    BY <2>3
  <2>5. earlier(b)
    BY <2>4
  <2>6. PICK c \in 1 .. n : c < a /\ q[c].timer = q[a].timer
    BY <2>4, <2>5
  <2>7. c = a \/ a = b \/ c = b
    BY <1>3, <2>4, <2>6
  <2> QED BY <1>1, <2>4, <2>6, <2>7
<1>7. f \in Injection(1 .. n, T)
  <2>1. f \in [1 .. n -> T]
    BY <1>5
  <2> HIDE DEF f, T
  <2>2. DOMAIN f = 1 .. n
    BY <2>1
  <2> QED BY <1>6, <2>1, <2>2 DEF Injection, IsInjective
<1>8. IsFiniteSet(T) /\ Cardinality(T) = 2 * Cardinality(Timer) - 1 /\ Cardinality(Timer) \in Nat
  <2>1. IsFiniteSet(Timer) /\ Cardinality(Timer) \in Nat
    BY FS_CardinalityType DEF QueueHasRoom
  <2>2. IsFiniteSet({TRUE}) /\ Cardinality({TRUE}) = 1
    BY FS_Singleton
  <2>3. IsFiniteSet(BOOLEAN) /\ Cardinality(BOOLEAN) = 2
    <3>1. {TRUE} \cup {FALSE} = BOOLEAN /\ FALSE \notin {TRUE}
      OBVIOUS
    <3>2. PICK S, y : S = {TRUE} /\ y = FALSE
      OBVIOUS
    <3>3. IsFiniteSet(S) /\ Cardinality(S) = 1 /\ y \notin S
      BY <2>2, <3>1, <3>2
    <3>4. IsFiniteSet(S \cup {y}) /\ Cardinality(S \cup {y}) = IF y \in S THEN Cardinality(S) ELSE Cardinality(S) + 1
      BY <3>3, FS_AddElement
    <3>5. S \cup {y} = BOOLEAN
      BY <3>1, <3>2
    <3> QED BY <3>3, <3>4, <3>5
  <2>4. IsFiniteSet(Timer \X BOOLEAN) /\ Cardinality(Timer \X BOOLEAN) = Cardinality(Timer) * Cardinality(BOOLEAN)
    BY <2>1, <2>3, FS_Product
  <2>5. <<t, TRUE>> \in Timer \X BOOLEAN
    OBVIOUS
  <2>6. IsFiniteSet(T) /\ Cardinality(T) = Cardinality(Timer \X BOOLEAN) - 1
    BY <2>4, <2>5, FS_RemoveElement
  <2>7. Cardinality(Timer) * 2 = 2 * Cardinality(Timer)
    BY <2>1
  <2> HIDE DEF T
  <2> QED BY <2>1, <2>3, <2>4, <2>6, <2>7
<1>9. Cardinality(1 .. n) <= Cardinality(T)
  <2>1. IsFiniteSet(T)
    BY <1>8
  <2> HIDE DEF f, T
  <2> QED BY <1>7, <2>1, FS_Injection
<1>10. Cardinality(1 .. n) = n
  <2>1. 1 \in Int /\ n \in Int
    BY <1>1
  <2>2. Cardinality(1 .. n) = IF 1 > n THEN 0 ELSE n - 1 + 1
    BY <2>1, FS_Interval
  <2> QED BY <1>1, <2>2
<1> HIDE DEF T
<1> QED BY <1>1, <1>8, <1>9, <1>10, TurnFacts DEF QueueHasRoom

LEMMA ReloadHasRoom ==
    ASSUME TimersTypeOK, LoadInv, QueueHasRoom, NEW t \in Timer, t \in Listed \/ xMessage.timer = t,
           NEW time, Reload(t, time)
    PROVE  asserted' = asserted
BY RoomForOne DEF Reload

LEMMA NeverAsserts ==
    ASSUME TimersInv, LoadInv, QueueHasRoom, ~asserted, TimersNext
    PROVE  ~asserted'
<1>1. TimersTypeOK /\ SortedInv /\ DaemonInv
  BY DEF TimersInv
<1>2. CASE prvProcessExpiredTimer
  <2>1. PICK t : t = Head(pxCurrentTimerList)
    OBVIOUS
  <2>2. pxCurrentTimerList # << >>
    BY <1>1, <1>2 DEF prvProcessExpiredTimer, DaemonInv
  <2>3. t \in Timer /\ t \in Listed
    BY <1>1, <2>1, <2>2, ListsAre, TailOfLists DEF Listed
  <2>4. Reload(t, xNextExpireTime) \/ asserted' = asserted
    BY <1>2, <2>1 DEF prvProcessExpiredTimer
  <2> QED BY <1>1, <2>3, <2>4, ReloadHasRoom
<1>3. CASE SwitchOne
  <2>1. PICK t : t = Head(pxCurrentTimerList)
    OBVIOUS
  <2>2. pxCurrentTimerList # << >>
    BY <1>3 DEF SwitchOne
  <2>3. t \in Timer /\ t \in Listed
    BY <1>1, <2>1, <2>2, ListsAre, TailOfLists DEF Listed
  <2>4. Reload(t, xTimerItemValue[t]) \/ asserted' = asserted
    BY <1>3, <2>1 DEF SwitchOne
  <2> QED BY <1>1, <2>3, <2>4, ReloadHasRoom
<1>4. CASE StartsTimer
  <2>1. PICK t, expiry : /\ t = xMessage.timer
                         /\ expiry = Plus(xMessage.value, xTimerPeriodInTicks[t])
    OBVIOUS
  <2>2. Reload(t, expiry) \/ asserted' = asserted
    BY <1>4, <2>1 DEF StartsTimer
  <2>3. t \in Timer
    BY <1>1, <1>4, <2>1, TypeParts, CommandFacts DEF StartsTimer, Handles, DaemonInv
  <2> QED BY <1>1, <2>1, <2>2, <2>3, ReloadHasRoom
<1>5. CASE SwitchesFirst \/ FindsExpired \/ Blocks \/ SwitchLists \/ QueueIsEmpty \/ ReceivesCommand
           \/ SamplesTime \/ StopsTimer \/ ChangesPeriod \/ DeletesTimer \/ Sent \/ xTaskIncrementTick
  BY <1>5 DEF SwitchesFirst, FindsExpired, Blocks, SwitchLists, QueueIsEmpty, ReceivesCommand, SamplesTime,
     StopsTimer, ChangesPeriod, DeletesTimer, Sent, xTaskIncrementTick
<1>6. CASE (\E m \in Commands : xTimerGenericCommand(m)) \/ (\E t \in Timer : vTimerSetReloadMode(t))
  BY <1>6 DEF xTimerGenericCommand, vTimerSetReloadMode
<1>7. CASE Stopped
  BY <1>7 DEF Stopped, timersVars
<1> QED BY <1>2, <1>3, <1>4, <1>5, <1>6, <1>7 DEF TimersNext, Daemon

\* With two places in the queue for every timer, the daemon's own commands find one, and no
\* assertion fails, until the application asks for a timer that has a message under way.
THEOREM DaemonFindsRoom == ASSUME QueueHasRoom PROVE TimersSpec => []ReloadsAreSent
<1>1. TimersInit => ReloadsAreSent
  BY DEF TimersInit, ReloadsAreSent
<1>2. TimersInv /\ (hurried \/ LoadInv) /\ ReloadsAreSent /\ [TimersNext]_timersVars => ReloadsAreSent'
  <2>1. UNCHANGED timersVars => UNCHANGED <<asserted, hurried>>
    BY DEF timersVars
  <2>2. TimersInv => hurried \in BOOLEAN
    BY DEF TimersInv, TimersTypeOK
  <2> QED BY <2>1, <2>2, NeverAsserts, HurriedStays DEF ReloadsAreSent
<1> QED BY <1>1, <1>2, TimersInvariant, TwiceUnlessHurried, PTL DEF TimersSpec

LEMMA StepIsTimely ==
    ASSUME TimersInv, TimersNext, ~asserted', NEW t \in Timer
    PROVE  /\ called'[t] > 0 => Deadline(t) <= 0
           /\ Deadline(t) # Forever /\ ~TakesCommandFor(t) =>
                 CASE called'[t] = 0 ->
                         Deadline(t)' = Deadline(t) - ((xTickCount' - xTickCount) % TickModulus)
                   [] called'[t] > 0 /\ ucStatus[t].autoReload ->
                         Deadline(t)' = Deadline(t) + xTimerPeriodInTicks[t]
                   [] OTHER -> Reloads(t) # {} \/ Deadline(t)' = Forever
BY StepKeeps DEF Kept, Timely

\* Whatever is asked, and until an assertion stops the program: a callback is called when its timer
\* is due and never before, an auto-reload timer is due again one period after it was due, and no
\* deadline moves but by a command.
THEOREM TimersExpireWhenDue == TimersSpec => ExpiresWhenDue
<1> USE DEF ExpiresWhenDue
<1>1. TimersInv /\ [TimersNext]_timersVars =>
        [ ~asserted' => \A t \in Timer :
           /\ called'[t] > 0 => Deadline(t) <= 0
           /\ Deadline(t) # Forever /\ ~TakesCommandFor(t) =>
                 CASE called'[t] = 0 ->
                         Deadline(t)' = Deadline(t) - ((xTickCount' - xTickCount) % TickModulus)
                   [] called'[t] > 0 /\ ucStatus[t].autoReload ->
                         Deadline(t)' = Deadline(t) + xTimerPeriodInTicks[t]
                   [] OTHER -> Reloads(t) # {} \/ Deadline(t)' = Forever ]_timersVars
  BY StepIsTimely
<1> QED BY <1>1, TimersInvariant, PTL DEF TimersSpec
=============================================================================
