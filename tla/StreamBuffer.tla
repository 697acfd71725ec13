---------------------------- MODULE StreamBuffer ----------------------------
(***************************************************************************)
(* A stream buffer or message buffer (stream_buffer.c) between one writer  *)
(* and one reader, each a task or an interrupt, with the task              *)
(* notifications (tasks.c) the tasks block on.                             *)
(*                                                                         *)
(* The buffer has no lock: writer and reader each own one index.  Every    *)
(* write to an index and every critical section is an action of its own.   *)
(* Bytes are copied before the index that publishes or frees them moves,   *)
(* so a copy is one action with the move.  The length of a message takes   *)
(* one cell of the buffer.                                                 *)
(***************************************************************************)
EXTENDS Integers, Sequences, FiniteSets

CONSTANTS Bytes,
          Frames,           \* what is sent in one call
          BufferSize,       \* xBufferSizeBytes, as the buffer is created with
          MaxLength,        \* bound: the bytes of one call
          TriggerLevels,    \* the trigger levels that are set
          WaitsOf,          \* the block times each task passes
          Careless          \* uses that are allowed but are not safe in every
                            \* setting: "putBack", "reset", "level"

Tasks  == {"writer", "reader"}
Waits  == {"none", "finite", "forever"}
Pieces == UNION {[1..n -> Bytes] : n \in 1..MaxLength}

xLength == BufferSize + 1
Cells   == 0..xLength - 1

\* The trigger level is no more than xLength (configASSERT).
ASSUME StreamAssumption ==
    /\ BufferSize \in Nat \ {0} /\ MaxLength \in 1..BufferSize
    /\ Bytes \cap Nat = {} /\ Frames \subseteq Pieces
    /\ TriggerLevels \subseteq 1..xLength
    /\ WaitsOf \in [Tasks -> SUBSET Waits]
    /\ Careless \subseteq {"putBack", "reset", "level"}

VARIABLES
    setting,             \* [message, context, above]: a message buffer or not, what
                         \* each side is ("task" or "isr"), the higher of the tasks
    pucBuffer, xHead, xTail, xTriggerLevelBytes,
    xTaskWaitingToReceive, xTaskWaitingToSend,    \* TRUE: the one task
    ucNotifyState, blocked,                       \* of each task
    pc, xTicksToWait,                             \* of each task's call
    pvTxData, xSpace,                             \* of the writer's call
    xBufferLengthBytes, xBytesAvailable, xNextMessageLength,    \* of the reader's
    pvRxData

buffer == <<pucBuffer, xHead, xTail>>
flags  == <<xTaskWaitingToReceive, xTaskWaitingToSend>>
notify == <<ucNotifyState, blocked>>
calls  == <<pc, xTicksToWait>>
sends  == <<pvTxData, xSpace>>
reads  == <<xBufferLengthBytes, xBytesAvailable, xNextMessageLength, pvRxData>>
vars   == <<setting, buffer, xTriggerLevelBytes, flags, notify, calls, sends, reads>>

PCs == {"idle", "check", "wait", "waited", "forget", "timeOut",     \* both
        "look", "write", "data", "sent", "notify",                  \* the writer
        "length", "putBack", "peeked", "read", "received"}          \* the reader

Init ==
    /\ setting \in [message : BOOLEAN, context : [Tasks -> {"task", "isr"}], above : Tasks]
    /\ setting.context["writer"] = "isr" => setting.above = "writer"
    /\ setting.context["reader"] = "isr" => setting.above = "reader"
    /\ pucBuffer \in [Cells -> {0}] /\ xHead = 0 /\ xTail = 0 /\ xTriggerLevelBytes = 1
    /\ xTaskWaitingToReceive = FALSE /\ xTaskWaitingToSend = FALSE
    /\ ucNotifyState = [t \in Tasks |-> "notWaiting"] /\ blocked = {}
    /\ pc = [t \in Tasks |-> "idle"] /\ xTicksToWait = [t \in Tasks |-> "none"]
    /\ pvTxData = << >> /\ xSpace = 0
    /\ xBufferLengthBytes = 0 /\ xBytesAvailable = 0 /\ xNextMessageLength = 0
    /\ pvRxData = << >>
-----------------------------------------------------------------------------
(* Who runs. *)

Other(t) == IF t = "writer" THEN "reader" ELSE "writer"

InCall(t) == pc[t] # "idle"

\* Of two tasks in a call the higher goes on, unless it is blocked.
Executes(t) ==
    /\ setting.context[t] = "task" /\ t \notin blocked
    /\ setting.above = t \/ ~InCall(Other(t)) \/ Other(t) \in blocked

At(t, place) == Executes(t) /\ pc[t] = place

Goto(t, place) == pc' = [pc EXCEPT ![t] = place]

Interrupts(t) == setting.context[t] = "isr"

\* The writer may come between two steps of the reader.
WriterComesBetween == Interrupts("writer") \/ setting.above = "writer"
-----------------------------------------------------------------------------
(* The buffer. *)

LengthCells == IF setting.message THEN 1 ELSE 0

xRequiredSpace == LengthCells + Len(pvTxData)

prvBytesInBuffer == (xLength + xHead - xTail) % xLength

\* Mutant: the cell that is kept free is given away.
SpacesAvailableAll == ((xLength + xTail - xHead - 1) % xLength) + 1

xStreamBufferSpacesAvailable == (xLength + xTail - xHead - 1) % xLength

prvWriteBytesToBuffer(cells) ==
    /\ pucBuffer' = [c \in Cells |-> LET i == (c - xHead) % xLength
                                     IN  IF i < Len(cells) THEN cells[i + 1] ELSE pucBuffer[c]]
    /\ xHead' = (xHead + Len(cells)) % xLength
    /\ UNCHANGED xTail

\* The n cells that are read next.
Ahead(n) == [i \in 1..n |-> pucBuffer[(xTail + i - 1) % xLength]]

Consume(n) == xTail' = (xTail + n) % xLength /\ UNCHANGED <<pucBuffer, xHead>>

Smaller(m, n) == IF m < n THEN m ELSE n
-----------------------------------------------------------------------------
(* Task notifications without a value (xTaskNotify with eNoAction). *)

NotifyState(t, state) == ucNotifyState' = [ucNotifyState EXCEPT ![t] = state]

xTaskGenericNotify(t) ==
    /\ NotifyState(t, "received")
    /\ blocked' = IF ucNotifyState[t] = "waiting" THEN blocked \ {t} ELSE blocked

xTaskNotifyStateClear(t) ==
    /\ ucNotifyState' = [ucNotifyState EXCEPT ![t] = IF @ = "received" THEN "notWaiting" ELSE @]
    /\ UNCHANGED blocked

\* sbSEND_COMPLETED and sbRECEIVE_COMPLETED, and their forms for interrupts.
SendCompleted ==
    /\ IF xTaskWaitingToReceive THEN xTaskGenericNotify("reader") ELSE UNCHANGED notify
    /\ xTaskWaitingToReceive' = FALSE
    /\ UNCHANGED xTaskWaitingToSend

ReceiveCompleted ==
    /\ IF xTaskWaitingToSend THEN xTaskGenericNotify("writer") ELSE UNCHANGED notify
    /\ xTaskWaitingToSend' = FALSE
    /\ UNCHANGED xTaskWaitingToReceive

\* The two critical sections of xTaskNotifyWait.
NotifyWait(t) ==
    /\ At(t, "wait")
    /\ IF ucNotifyState[t] = "received"
       THEN UNCHANGED notify
       ELSE NotifyState(t, "waiting") /\ blocked' = blocked \cup {t}
    /\ Goto(t, "waited")
    /\ UNCHANGED <<setting, buffer, xTriggerLevelBytes, flags, xTicksToWait, sends, reads>>

NotifyWaited(t) ==
    /\ At(t, "waited")
    /\ NotifyState(t, "notWaiting")
    /\ Goto(t, "forget")
    /\ UNCHANGED <<setting, buffer, xTriggerLevelBytes, flags, blocked, xTicksToWait, sends, reads>>

\* The tick ends a wait that has a block time.
TickWakes(t) ==
    /\ t \in blocked /\ xTicksToWait[t] = "finite"
    /\ blocked' = blocked \ {t}
    /\ xTicksToWait' = [xTicksToWait EXCEPT ![t] = "elapsed"]
    /\ UNCHANGED <<setting, buffer, xTriggerLevelBytes, flags, ucNotifyState, pc, sends, reads>>

\* The application notifies the task for a reason of its own; a notification
\* outside these steps is still there at the next check.
NotifiedByOther(t) ==
    /\ pc[t] \in {"check", "wait", "waited"}
    /\ xTaskGenericNotify(t)
    /\ UNCHANGED <<setting, buffer, xTriggerLevelBytes, flags, calls, sends, reads>>

\* prvTaskIsTaskSuspended takes a task that waits without block time for a
\* suspended one, and vTaskResume makes it ready.
vTaskResume(t) ==
    /\ t \in blocked /\ xTicksToWait[t] = "forever"
    /\ blocked' = blocked \ {t}
    /\ UNCHANGED <<setting, buffer, xTriggerLevelBytes, flags, ucNotifyState, calls, sends, reads>>
-----------------------------------------------------------------------------
(* xStreamBufferSend. *)

WriterOnly == UNCHANGED <<setting, xTriggerLevelBytes, reads>>

SendReturns ==
    /\ Goto("writer", "idle")
    /\ pvTxData' = << >> /\ xSpace' = 0
    /\ xTicksToWait' = [xTicksToWait EXCEPT !["writer"] = "none"]

xStreamBufferSend(frame, ticks) ==
    /\ At("writer", "idle") /\ ticks \in WaitsOf["writer"]
    /\ pvTxData' = frame
    /\ xTicksToWait' = [xTicksToWait EXCEPT !["writer"] = ticks]
    /\ Goto("writer", IF ticks = "none" THEN "look" ELSE "check")
    /\ WriterOnly /\ UNCHANGED <<buffer, flags, notify, xSpace>>

\* The critical section of the loop: to wait, or to write.
CheckSpace ==
    /\ At("writer", "check")
    /\ xSpace' = xStreamBufferSpacesAvailable
    /\ IF xStreamBufferSpacesAvailable < xRequiredSpace
       THEN /\ xTaskNotifyStateClear("writer")
            /\ xTaskWaitingToSend' = TRUE
            /\ Goto("writer", "wait")
       ELSE UNCHANGED <<notify, xTaskWaitingToSend>> /\ Goto("writer", "write")
    /\ WriterOnly /\ UNCHANGED <<buffer, xTaskWaitingToReceive, pvTxData, xTicksToWait>>

ForgetSender ==
    /\ At("writer", "forget")
    /\ xTaskWaitingToSend' = FALSE
    /\ Goto("writer", "timeOut")
    /\ WriterOnly /\ UNCHANGED <<buffer, xTaskWaitingToReceive, notify, xTicksToWait, sends>>

\* xTaskCheckForTimeOut: a wait that was ended by a notification may be out of
\* time as well.
SendTimeOut ==
    /\ At("writer", "timeOut")
    /\ \/ xTicksToWait["writer"] # "forever" /\ Goto("writer", "look")
       \/ xTicksToWait["writer"] # "elapsed" /\ Goto("writer", "check")
    /\ WriterOnly /\ UNCHANGED <<buffer, flags, notify, xTicksToWait, sends>>

LookForSpace ==
    /\ At("writer", "look")
    /\ xSpace' = IF xSpace = 0 THEN xStreamBufferSpacesAvailable ELSE xSpace
    /\ Goto("writer", "write")
    /\ WriterOnly /\ UNCHANGED <<buffer, flags, notify, xTicksToWait, pvTxData>>

\* prvWriteMessageToBuffer: what fits of a stream, the length of a message, or
\* nothing.
\* Mutant: a message is begun that does not fit.
RefusesWhenFull == xSpace = 0

Refuses == xSpace = 0 \/ (setting.message /\ xSpace < xRequiredSpace)

Write ==
    /\ At("writer", "write") /\ ~Refuses
    /\ IF setting.message
       THEN prvWriteBytesToBuffer(<<Len(pvTxData)>>) /\ Goto("writer", "data")
       ELSE prvWriteBytesToBuffer(SubSeq(pvTxData, 1, Smaller(Len(pvTxData), xSpace)))
            /\ Goto("writer", "sent")
    /\ WriterOnly /\ UNCHANGED <<flags, notify, xTicksToWait, sends>>

WriteRefused ==
    /\ At("writer", "write") /\ Refuses
    /\ SendReturns
    /\ WriterOnly /\ UNCHANGED <<buffer, flags, notify>>

WriteData ==
    /\ At("writer", "data")
    /\ prvWriteBytesToBuffer(pvTxData)
    /\ Goto("writer", "sent")
    /\ WriterOnly /\ UNCHANGED <<flags, notify, xTicksToWait, sends>>

\* Mutant: the reader is notified above the trigger level.
SentAboveLevel ==
    /\ At("writer", "sent")
    /\ IF prvBytesInBuffer > xTriggerLevelBytes
       THEN Goto("writer", "notify") /\ UNCHANGED <<xTicksToWait, sends>>
       ELSE SendReturns
    /\ WriterOnly /\ UNCHANGED <<buffer, flags, notify>>

Sent ==
    /\ At("writer", "sent")
    /\ IF prvBytesInBuffer >= xTriggerLevelBytes
       THEN Goto("writer", "notify") /\ UNCHANGED <<xTicksToWait, sends>>
       ELSE SendReturns
    /\ WriterOnly /\ UNCHANGED <<buffer, flags, notify>>

NotifyReader ==
    /\ At("writer", "notify")
    /\ SendCompleted
    /\ SendReturns
    /\ WriterOnly /\ UNCHANGED buffer

\* No task runs before an interrupt ends.
xStreamBufferSendFromISR(frame) ==
    LET space == xStreamBufferSpacesAvailable
        cells == IF setting.message THEN <<Len(frame)>> \o frame
                                    ELSE SubSeq(frame, 1, Smaller(Len(frame), space))
    IN  /\ Interrupts("writer") /\ space > 0 /\ Len(cells) <= space
        /\ prvWriteBytesToBuffer(cells)
        /\ IF prvBytesInBuffer + Len(cells) >= xTriggerLevelBytes
           THEN SendCompleted
           ELSE UNCHANGED <<flags, notify>>
        /\ pvTxData' = frame
        /\ WriterOnly /\ UNCHANGED <<calls, xSpace>>
-----------------------------------------------------------------------------
(* xStreamBufferReceive. *)

ReaderOnly == UNCHANGED <<setting, xTriggerLevelBytes, sends>>

ReceiveReturns ==
    /\ Goto("reader", "idle")
    /\ xBufferLengthBytes' = 0 /\ xBytesAvailable' = 0 /\ xNextMessageLength' = 0
    /\ pvRxData' = << >>
    /\ xTicksToWait' = [xTicksToWait EXCEPT !["reader"] = "none"]

xStreamBufferReceive(size, ticks) ==
    /\ At("reader", "idle") /\ ticks \in WaitsOf["reader"]
    /\ xBufferLengthBytes' = size
    /\ xTicksToWait' = [xTicksToWait EXCEPT !["reader"] = ticks]
    /\ Goto("reader", IF ticks = "none" THEN "look" ELSE "check")
    /\ ReaderOnly /\ UNCHANGED <<buffer, flags, notify, xBytesAvailable, xNextMessageLength, pvRxData>>

Reads == IF setting.message THEN "length" ELSE "read"

CheckBytes ==
    /\ At("reader", "check")
    /\ xBytesAvailable' = prvBytesInBuffer
    /\ IF prvBytesInBuffer <= LengthCells
       THEN /\ xTaskNotifyStateClear("reader")
            /\ xTaskWaitingToReceive' = TRUE
            /\ Goto("reader", "wait")
       ELSE UNCHANGED <<notify, xTaskWaitingToReceive>> /\ Goto("reader", Reads)
    /\ ReaderOnly /\ UNCHANGED <<buffer, xTaskWaitingToSend, xTicksToWait, xBufferLengthBytes,
                                 xNextMessageLength, pvRxData>>

ForgetReceiver ==
    /\ At("reader", "forget")
    /\ xTaskWaitingToReceive' = FALSE
    /\ Goto("reader", "look")
    /\ ReaderOnly /\ UNCHANGED <<buffer, xTaskWaitingToSend, notify, xTicksToWait, reads>>

LookForBytes ==
    /\ At("reader", "look") /\ prvBytesInBuffer > LengthCells
    /\ xBytesAvailable' = prvBytesInBuffer
    /\ Goto("reader", Reads)
    /\ ReaderOnly /\ UNCHANGED <<buffer, flags, notify, xTicksToWait, xBufferLengthBytes,
                                 xNextMessageLength, pvRxData>>

NothingThere ==
    /\ At("reader", "look") /\ prvBytesInBuffer <= LengthCells
    /\ ReceiveReturns
    /\ ReaderOnly /\ UNCHANGED <<buffer, flags, notify>>

\* prvReadMessageFromBuffer: the length is taken out, and put back if the message
\* is longer than the caller's buffer.  An application that is careful does not
\* pass a short one where the writer comes between.
ReadLength ==
    /\ At("reader", "length")
    /\ xNextMessageLength' = Ahead(1)[1]
    /\ xBytesAvailable' = xBytesAvailable - 1
    /\ Consume(1)
    /\ Goto("reader", IF Ahead(1)[1] > xBufferLengthBytes THEN "putBack" ELSE "read")
    /\ ReaderOnly /\ UNCHANGED <<flags, notify, xTicksToWait, xBufferLengthBytes, pvRxData>>

PutBack ==
    /\ At("reader", "putBack")
    /\ xTail' = (xTail - 1) % xLength /\ UNCHANGED <<pucBuffer, xHead>>
    /\ ReceiveReturns
    /\ ReaderOnly /\ UNCHANGED <<flags, notify>>

ReadData ==
    LET wanted == IF setting.message THEN xNextMessageLength ELSE xBufferLengthBytes
        n      == Smaller(xBytesAvailable, wanted)
    IN  /\ At("reader", "read")
        /\ pvRxData' = Ahead(n)
        /\ Consume(n)
        /\ Goto("reader", "received")
        /\ ReaderOnly /\ UNCHANGED <<flags, notify, xTicksToWait, xBufferLengthBytes,
                                     xBytesAvailable, xNextMessageLength>>

NotifyWriter ==
    /\ At("reader", "received")
    /\ ReceiveCompleted
    /\ ReceiveReturns
    /\ ReaderOnly /\ UNCHANGED buffer

xStreamBufferReceiveFromISR(size) ==
    /\ Interrupts("reader") /\ prvBytesInBuffer > LengthCells
    /\ LET length == Ahead(1)[1]
           n      == Smaller(prvBytesInBuffer, size)
       IN  IF setting.message
           THEN /\ length <= size
                /\ pvRxData' = Tail(Ahead(length + 1))
                /\ Consume(length + 1)
           ELSE pvRxData' = Ahead(n) /\ Consume(n)
    /\ ReceiveCompleted
    /\ ReaderOnly /\ UNCHANGED <<calls, xBufferLengthBytes, xBytesAvailable, xNextMessageLength>>

\* xStreamBufferNextMessageLengthBytes reads the length and puts it back; with no
\* more than a length there it changes nothing.
xStreamBufferNextMessageLengthBytes ==
    /\ At("reader", "idle") /\ setting.message /\ prvBytesInBuffer > LengthCells
    /\ WriterComesBetween => "putBack" \in Careless
    /\ xNextMessageLength' = Ahead(1)[1]
    /\ Consume(1)
    /\ Goto("reader", "peeked")
    /\ ReaderOnly /\ UNCHANGED <<flags, notify, xTicksToWait, xBufferLengthBytes,
                                 xBytesAvailable, pvRxData>>

PutLengthBack ==
    /\ At("reader", "peeked")
    /\ xTail' = (xTail - 1) % xLength /\ UNCHANGED <<pucBuffer, xHead>>
    /\ ReceiveReturns
    /\ ReaderOnly /\ UNCHANGED <<flags, notify>>
-----------------------------------------------------------------------------
(* Both sides. *)

\* Only a buffer that no task waits on is reset.  A careful application also
\* waits for the calls of both sides to end.
xStreamBufferReset ==
    /\ ~xTaskWaitingToReceive /\ ~xTaskWaitingToSend
    /\ ~InCall("reader") /\ (InCall("writer") => "reset" \in Careless)
    /\ pucBuffer' = [c \in Cells |-> 0] /\ xHead' = 0 /\ xTail' = 0
    /\ UNCHANGED <<setting, xTriggerLevelBytes, flags, notify, calls, sends, reads>>

\* A careful application does not change the level a task waits for.
xStreamBufferSetTriggerLevel(level) ==
    /\ ~setting.message /\ level <= xLength
    /\ InCall("reader") => "level" \in Careless
    /\ xTriggerLevelBytes' = level
    /\ UNCHANGED <<setting, buffer, flags, notify, calls, sends, reads>>

Writer ==
    \/ CheckSpace \/ NotifyWait("writer") \/ NotifyWaited("writer") \/ ForgetSender \/ SendTimeOut
    \/ LookForSpace \/ Write \/ WriteRefused \/ WriteData \/ Sent \/ NotifyReader

Reader ==
    \/ CheckBytes \/ NotifyWait("reader") \/ NotifyWaited("reader") \/ ForgetReceiver
    \/ LookForBytes \/ NothingThere \/ ReadLength \/ PutBack \/ ReadData \/ NotifyWriter
    \/ PutLengthBack

\* The sizes a reader may ask for: where the writer comes between two of its
\* steps, a careful one has room for every message.
Sizes == IF setting.message /\ WriterComesBetween /\ "putBack" \notin Careless
         THEN {MaxLength}
         ELSE 1..MaxLength

Next ==
    \/ \E frame \in Frames :
          \/ \E ticks \in Waits : xStreamBufferSend(frame, ticks)
          \/ xStreamBufferSendFromISR(frame)
    \/ \E size \in Sizes, ticks \in Waits : xStreamBufferReceive(size, ticks)
    \/ \E size \in 1..MaxLength : xStreamBufferReceiveFromISR(size)
    \/ xStreamBufferNextMessageLengthBytes
    \/ Writer \/ Reader
    \/ xStreamBufferReset \/ \E level \in TriggerLevels : xStreamBufferSetTriggerLevel(level)
    \/ \E t \in Tasks : TickWakes(t) \/ NotifiedByOther(t) \/ vTaskResume(t)

Spec == Init /\ [][Next]_vars
-----------------------------------------------------------------------------
(* Properties. *)

TypeOK ==
    /\ setting \in [message : BOOLEAN, context : [Tasks -> {"task", "isr"}], above : Tasks]
    /\ \A c \in Cells : pucBuffer[c] \in Bytes \/ pucBuffer[c] \in 0..MaxLength
    /\ xHead \in Cells /\ xTail \in Cells /\ xTriggerLevelBytes \in 1..xLength
    /\ xTaskWaitingToReceive \in BOOLEAN /\ xTaskWaitingToSend \in BOOLEAN
    /\ ucNotifyState \in [Tasks -> {"notWaiting", "waiting", "received"}] /\ blocked \subseteq Tasks
    /\ pc \in [Tasks -> PCs] /\ xTicksToWait \in [Tasks -> Waits \cup {"elapsed"}]
    /\ pvTxData \in Frames \cup {<< >>} /\ xSpace \in 0..BufferSize
    /\ xBufferLengthBytes \in 0..MaxLength /\ xBytesAvailable \in 0..BufferSize
    /\ xNextMessageLength \in 0..MaxLength
    /\ pvRxData \in Pieces \cup {<< >>}

\* What is in the buffer: the length the reader took out belongs to it still.
Unread ==
    LET cells == Ahead(prvBytesInBuffer)
    IN  IF setting.message /\ pc["reader"] \in {"putBack", "peeked", "read"}
        THEN <<xNextMessageLength>> \o cells
        ELSE cells

\* The whole messages in a sequence of cells; one that is being written is not.
Messages(cells) ==
    LET ends(i) == IF cells[i] \in 1..MaxLength THEN i + cells[i] ELSE Len(cells) + 1
        from[i \in 1..Len(cells) + 1] ==
            IF i > Len(cells) \/ ends(i) > Len(cells)
            THEN << >>
            ELSE <<SubSeq(cells, i + 1, ends(i))>> \o from[ends(i) + 1]
    IN  from[1]

Queued == IF setting.message THEN Messages(Unread) ELSE [i \in DOMAIN Unread |-> <<Unread[i]>>]

\* What is received is what was sent, message by message or byte by byte, in
\* whatever order the steps of the two sides come.
Sides == INSTANCE Channel WITH whole <- setting.message, queue <- Queued, Users <- Tasks,
                               calling <- {t \in Tasks : InCall(t)},
                               offer <- pvTxData, delivered <- pvRxData
ChannelSpec == Sides!Spec

\* A task that waits for bytes, or for space, is not left waiting when they are
\* there: the other side is on its way to notify it; and the two never wait for each
\* other, one for the level and the other for space.
WaitersAreNotified ==
    /\ "reader" \in blocked /\ prvBytesInBuffer >= xTriggerLevelBytes
          => pc["writer"] \in {"data", "sent", "notify"}
    /\ "writer" \in blocked /\ xStreamBufferSpacesAvailable >= xRequiredSpace
          => pc["reader"] \in {"putBack", "peeked", "read", "received"}
    /\ blocked # Tasks

\* A length that is put back leaves the messages in the buffer as they were.
\* prvReadMessageFromBuffer and xStreamBufferNextMessageLengthBytes do so only
\* where the writer does not come between.
PutBackKeepsMessages == [][PutBack \/ PutLengthBack => UNCHANGED Queued]_vars
=============================================================================
