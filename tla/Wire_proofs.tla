----------------------------- MODULE Wire_proofs -----------------------------
(***************************************************************************)
(* Proofs about the Wire library, for every heap and every length of its   *)
(* buffers.  The invariant has three parts: types; what holds of the       *)
(* driver and the calls also when transfers outlive their wait; and what   *)
(* the buffers hold as long as none has and the program has not failed.    *)
(***************************************************************************)
EXTENDS Wire, SequenceTheorems, TLAPS

Transfers == {NoTransfer} \cup [dir : {"read", "write"}, buffer : Blocks, count : Quantities \cup 1 .. BUFFER_LENGTH]
Drivers   == [open : BOOLEAN, current : Transfers, waiting : 0 .. QueueBound, refused : BOOLEAN]

TypeInv ==
    /\ TypeOK
    /\ memory \in [Blocks -> Seq(Bytes)]
    /\ driver \in Drivers
    /\ transaction \in [addressed : BOOLEAN, transfer : Transfers]
    /\ outlived \in BOOLEAN /\ stale \in BOOLEAN

\* A driver at work is open, and open while its handle is known; only a transfer that
\* the structure still describes waits.
OpenInv ==
    /\ driver.current # NoTransfer => driver.open
    /\ handle => driver.open
    /\ driver.waiting > 0 => driver.current # NoTransfer
    /\ handle /\ driver.waiting > 0 => transaction.transfer # NoTransfer

\* A call that began with the driver idle and the semaphore taken meets no transfer but
\* its own; one that did not began after a transfer had outlived its wait.
OwnInv ==
    /\ stale => outlived
    /\ ~stale => driver.waiting = 0
    /\ ~stale /\ driver.current.dir = "read" => readAvailable = 0
    /\ pc \in {"reading", "writing"} /\ ~outlived /\ driver.current # NoTransfer => handle
    /\ writeBuffer # NULL /\ writeAvailable >= BUFFER_LENGTH => told
    /\ TransfersUseLiveBuffers /\ NothingLeftOver /\ FailuresHaveCauses

\* The two buffers are different blocks, and hold what their lengths say.
BufferInv ==
    /\ readBuffer # NULL => readBuffer # writeBuffer
    /\ readBuffer = NULL => readBufferSize = 0
    /\ writeBuffer # NULL => Len(memory[writeBuffer]) = writeAvailable
    /\ readAvailable > 0 => Len(memory[readBuffer]) = readBufferSize

\* A call that waits has a buffer, and sends or fills all of it.
CallInv ==
    /\ pc = "writing" => writeBuffer # NULL /\ writeAvailable > 0
    /\ pc = "writing" /\ driver.current # NoTransfer => driver.current.count = writeAvailable
    /\ pc = "reading" => readBuffer # NULL /\ readBufferSize > 0 /\ readAvailable = 0
    /\ pc = "reading" /\ semaphore = 1 => Len(memory[readBuffer]) = readBufferSize

IInv == TypeInv /\ OpenInv /\ OwnInv /\ (~Lost => BufferInv /\ CallInv)

\* The invariant while nothing is lost.
Sound == IInv /\ ~Lost
-----------------------------------------------------------------------------
(* Facts about bytes. *)

\* Frames are sequences of bytes.
LEMMA FrameIsSeq ==
    ASSUME NEW n \in Nat, NEW frame \in [1 .. n -> Bytes]
    PROVE  frame \in Seq(Bytes) /\ Len(frame) = n
BY SeqDef

\* What write() stores is as much of the frame as there is room for.
LEMMA StoredBytes ==
    ASSUME NEW frame \in Frames, NEW room \in Nat \ {0}
    PROVE  /\ Stored(frame, room) \in Seq(Bytes)
           /\ Len(Stored(frame, room)) \in 1 .. room
           /\ Len(Stored(frame, room)) <= MaxQuantity
<1>1. PICK n \in Quantities : frame \in [1 .. n -> Bytes]
  BY DEF Frames
<1>2. n \in Nat \ {0} /\ n <= MaxQuantity /\ MaxQuantity \in Nat
  BY <1>1, WireAssumption DEF Quantities
<1>3. frame \in Seq(Bytes) /\ Len(frame) = n
  BY <1>1, <1>2, FrameIsSeq
<1> DEFINE m == IF n < room THEN n ELSE room
<1>4. m \in 1 .. n /\ m <= room
  BY <1>2
<1>5. SubSeq(frame, 1, m) \in Seq(Bytes) /\ Len(SubSeq(frame, 1, m)) = m
  <2>1. \A i \in 1 .. m : frame[i] \in Bytes
    BY <1>1, <1>2, <1>4
  <2> HIDE DEF m
  <2>2. m \in Int /\ 1 \in Int /\ 1 <= m
    BY <1>2, <1>4
  <2> QED
    BY <2>1, <2>2, SubSeqProperties
<1>6. Stored(frame, room) = SubSeq(frame, 1, m)
  BY <1>3 DEF Stored
<1> HIDE DEF m
<1> QED
  BY <1>2, <1>4, <1>5, <1>6

\* A block that holds n bytes has them as its contents.
LEMMA WholeContents ==
    ASSUME memory \in [Blocks -> Seq(Bytes)], NEW b \in Blocks
    PROVE  Contents(b, Len(memory[b])) = memory[b]
<1>1. memory[b] \in Seq(Bytes)
  OBVIOUS
<1>2. Len(memory[b]) \in Nat
  BY <1>1, LenProperties
<1>3. Contents(b, Len(memory[b])) = SubSeq(memory[b], 1, Len(memory[b]))
  BY <1>2 DEF Contents
<1> QED
  BY <1>1, <1>3, SubSeqFull

\* What a block has of its first n bytes is bytes.
LEMMA ContentsAreBytes ==
    ASSUME memory \in [Blocks -> Seq(Bytes)], NEW b \in Blocks, NEW n \in Nat
    PROVE  Contents(b, n) \in Seq(Bytes)
<1> DEFINE s == memory[b]
           m == IF n < Len(s) THEN n ELSE Len(s)
<1>1. s \in Seq(Bytes) /\ Len(s) \in Nat
  BY LenProperties
<1>2. m \in Nat /\ m <= Len(s)
  BY <1>1
<1>3. \A i \in 1 .. m : s[i] \in Bytes
  BY <1>1, <1>2, ElementOfSeq
<1>4. Contents(b, n) = SubSeq(s, 1, m)
  BY DEF Contents
<1> HIDE DEF s, m
<1>5. CASE m = 0
  BY <1>1, <1>4, <1>5, SubSeqEmpty, EmptySeq
<1>6. CASE m # 0
  <2>1. m \in Int /\ 1 \in Int /\ 1 <= m
    BY <1>2, <1>6
  <2> QED
    BY <1>3, <1>4, <2>1, SubSeqProperties
<1> QED
  BY <1>5, <1>6

\* A block that is freed leaves every other as it was.
LEMMA FreedMemory ==
    ASSUME memory \in [Blocks -> Seq(Bytes)], NEW b
    PROVE  /\ Freed(b) \in [Blocks -> Seq(Bytes)]
           /\ \A c \in Blocks : c # b => Freed(b)[c] = memory[c]
<1>1. << >> \in Seq(Bytes)
  BY EmptySeq
<1> QED
  BY <1>1 DEF Freed
-----------------------------------------------------------------------------
(* Types, whatever outlives what. *)

Quiet ==
    begin \/ end \/ setClock \/ SlaveCall \/ beginTransmission \/ EndsAtOnce \/ EndsWithoutStop
    \/ RequestsAfterError

Failure == WriteOverruns \/ WriteWithoutMemory \/ CompletesForNobody \/ FillsFreedBlock

\* write() keeps its index within the buffer: it stores what there is room for.
LEMMA WriteStores ==
    ASSUME TypeInv, write
    PROVE  /\ \E b \in Blocks, bytes \in Seq(Bytes) :
              /\ (writeBuffer = NULL => b # readBuffer) /\ (writeBuffer # NULL => b = writeBuffer)
              /\ Len(bytes) \in 1 .. MaxQuantity /\ Queued + Len(bytes) \in 1 .. BUFFER_LENGTH
              /\ writeBuffer' = b /\ writeAvailable' = Queued + Len(bytes)
              /\ memory' = [memory EXCEPT ![b] = Contents(b, Queued) \o bytes]
           /\ writeAvailable' >= BUFFER_LENGTH => told'
<1>1. PICK frame \in Frames, b \in IF writeBuffer = NULL THEN NotIn({readBuffer}) ELSE {writeBuffer} :
          /\ writeBuffer' = b
          /\ writeAvailable' = Queued + Len(Stored(frame, BUFFER_LENGTH - Queued))
          /\ memory' = [memory EXCEPT ![b] = Contents(b, Queued) \o Stored(frame, BUFFER_LENGTH - Queued)]
          /\ told' = (Count(frame, BUFFER_LENGTH - Queued) < Len(frame))
  BY DEF write
<1> DEFINE room  == BUFFER_LENGTH - Queued
           bytes == Stored(frame, room)
<1>2. Queued \in 0 .. BUFFER_LENGTH /\ Queued < BUFFER_LENGTH
  BY WireAssumption DEF write, TypeInv, TypeOK, Queued
<1>3. room \in Nat \ {0} /\ Queued \in Nat /\ BUFFER_LENGTH \in Nat /\ Queued + room = BUFFER_LENGTH
  BY <1>2, WireAssumption
<1>4. b \in Blocks /\ (writeBuffer = NULL => b # readBuffer) /\ (writeBuffer # NULL => b = writeBuffer)
  BY <1>1 DEF NotIn, TypeInv, TypeOK
<1>5. Len(frame) \in Nat
  <2>1. PICK n \in Quantities : frame \in [1 .. n -> Bytes]
    BY DEF Frames
  <2>2. n \in Nat
    BY WireAssumption DEF Quantities
  <2> QED
    BY <2>1, <2>2, FrameIsSeq
<1> HIDE DEF room
<1>6. /\ bytes \in Seq(Bytes) /\ Len(bytes) \in 1 .. room /\ Len(bytes) <= MaxQuantity
      /\ Len(bytes) >= room => Len(frame) >= room
  <2>1. bytes \in Seq(Bytes) /\ Len(bytes) \in 1 .. room /\ Len(bytes) <= MaxQuantity
    BY <1>3, StoredBytes
  <2>2. CASE Len(frame) < room
    <3>1. bytes = SubSeq(frame, 1, Len(frame))
      BY <2>2 DEF Stored
    <3>2. frame \in Seq(Bytes)
      <4>1. PICK n \in Quantities : frame \in [1 .. n -> Bytes]
        BY DEF Frames
      <4> QED
        BY <4>1, FrameIsSeq, WireAssumption DEF Quantities
    <3>3. bytes = frame
      BY <3>1, <3>2, SubSeqFull
    <3> QED
      BY <1>3, <1>5, <2>1, <2>2, <3>3
  <2> QED
    BY <1>3, <1>5, <2>1, <2>2
<1> HIDE DEF bytes
<1>7. told' = (Count(frame, room) < Len(frame)) /\ writeAvailable' = Queued + Len(bytes)
      /\ memory' = [memory EXCEPT ![b] = Contents(b, Queued) \o bytes] /\ writeBuffer' = b
  BY <1>1 DEF bytes, room
<1>8. writeAvailable' >= BUFFER_LENGTH => told'
  <2> SUFFICES ASSUME writeAvailable' >= BUFFER_LENGTH
               PROVE  told'
    OBVIOUS
  <2>1. Len(bytes) >= room
    BY <1>3, <1>6, <1>7
  <2>2. Len(frame) >= room
    BY <1>6, <2>1
  <2>3. Count(frame, room) = room - 1
    BY <1>3, <1>5, <2>2 DEF Count
  <2>4. Count(frame, room) < Len(frame)
    BY <1>3, <1>5, <2>2, <2>3
  <2> QED
    BY <1>7, <2>4, Zenon
<1>9. Len(bytes) \in 1 .. MaxQuantity /\ Queued + Len(bytes) \in 1 .. BUFFER_LENGTH
  BY <1>3, <1>6, WireAssumption
<1>10. \E c \in Blocks, more \in Seq(Bytes) :
           /\ (writeBuffer = NULL => c # readBuffer) /\ (writeBuffer # NULL => c = writeBuffer)
           /\ Len(more) \in 1 .. MaxQuantity /\ Queued + Len(more) \in 1 .. BUFFER_LENGTH
           /\ writeBuffer' = c /\ writeAvailable' = Queued + Len(more)
           /\ memory' = [memory EXCEPT ![c] = Contents(c, Queued) \o more]
  BY <1>4, <1>6, <1>7, <1>9
<1> QED
  BY <1>8, <1>10, Zenon

LEMMA StartTypes ==
    ASSUME TypeInv, NEW dir \in {"read", "write"}, NEW b \in Blocks,
           NEW n \in Quantities \cup 1 .. BUFFER_LENGTH, NEW addressed \in BOOLEAN, Start(dir, b, n, addressed)
    PROVE  /\ driver' \in Drivers /\ transaction' \in [addressed : BOOLEAN, transfer : Transfers]
           /\ status' \in {"SUCCESS", "FAILED"}
<1> DEFINE t == [dir |-> dir, buffer |-> b, count |-> n]
<1>1. t \in Transfers
  BY DEF Transfers
<1>2. driver \in Drivers /\ transaction \in [addressed : BOOLEAN, transfer : Transfers]
  BY DEF TypeInv
<1>3. CASE CanTransfer(addressed)
  <2>1. transaction' = [addressed |-> TRUE, transfer |-> t] /\ I2C_transfer(t) /\ status' = "SUCCESS"
    BY <1>3 DEF Start
  <2> HIDE DEF t
  <2>2. CASE driver.current = NoTransfer
    BY <1>1, <1>2, <2>1, <2>2 DEF I2C_transfer, Drivers
  <2>3. CASE driver.current # NoTransfer
    <3>1. driver.waiting < QueueBound /\ driver' = [driver EXCEPT !.waiting = driver.waiting + 1]
      BY <2>1, <2>3 DEF I2C_transfer
    <3>2. driver.waiting + 1 \in 0 .. QueueBound
      BY <1>2, <3>1, WireAssumption DEF Drivers
    <3>3. driver' \in Drivers
      BY <1>2, <3>1, <3>2 DEF Drivers
    <3> QED
      BY <1>1, <2>1, <3>3
  <2> QED
    BY <2>2, <2>3
<1>4. CASE ~CanTransfer(addressed)
  BY <1>2, <1>4 DEF Start
<1> QED
  BY <1>3, <1>4

LEMMA QuietTypes ==
    ASSUME TypeInv, Quiet
    PROVE  TypeInv'
<1>1. /\ UNCHANGED <<reading, writing, memory, history>> /\ pc' = "ready" /\ status' = "SUCCESS"
      /\ error' \in Errors /\ semaphore' \in 0 .. 1
  BY DEF Quiet, begin, end, setClock, SlaveCall, beginTransmission, EndsAtOnce, EndsWithoutStop,
         RequestsAfterError, Returns, ReturnsSaying, Errors, TypeInv, TypeOK
<1>2. handle' \in BOOLEAN /\ openCalled' \in BOOLEAN /\ driver' \in Drivers
      /\ transaction' \in [addressed : BOOLEAN, transfer : Transfers]
  <2>1. handle \in BOOLEAN /\ openCalled \in BOOLEAN /\ driver \in Drivers
        /\ transaction \in [addressed : BOOLEAN, transfer : Transfers]
    BY DEF TypeInv, TypeOK
  <2>2. NoTransfer \in Transfers /\ 0 \in 0 .. QueueBound
    BY WireAssumption DEF Transfers
  <2>3. SetMasterConfig => handle' \in BOOLEAN /\ driver' \in Drivers
    BY <2>1 DEF SetMasterConfig, I2C_open, Drivers
  <2> USE DEF descriptor
  <2>4. CASE begin \/ end
    <3>1. CASE begin
      BY <2>1, <3>1 DEF begin
    <3>2. CASE end
      <4>1. driver' \in Drivers
        BY <2>1, <2>2, <3>2 DEF end, Drivers
      <4>2. transaction' = [addressed |-> FALSE, transfer |-> NoTransfer] /\ handle' = FALSE /\ openCalled' = FALSE
        BY <3>2 DEF end
      <4> QED
        BY <2>2, <4>1, <4>2
    <3> QED
      BY <2>4, <3>1, <3>2
  <2>5. CASE setClock \/ beginTransmission
    BY <2>1, <2>3, <2>5 DEF setClock, beginTransmission
  <2>6. CASE SlaveCall \/ EndsAtOnce \/ EndsWithoutStop \/ RequestsAfterError
    BY <2>1, <2>6 DEF SlaveCall, EndsAtOnce, EndsWithoutStop, RequestsAfterError
  <2> QED
    BY <2>4, <2>5, <2>6 DEF Quiet
<1>3. driver'.waiting \in 0 .. QueueBound
  BY <1>2 DEF Drivers
<1> QED
  BY <1>1, <1>2, <1>3 DEF TypeInv, TypeOK, reading, writing, history, Undefined

LEMMA WriteTypes ==
    ASSUME TypeInv, write
    PROVE  TypeInv'
<1>1. PICK b \in Blocks, bytes \in Seq(Bytes) :
          /\ Len(bytes) \in 1 .. MaxQuantity /\ Queued + Len(bytes) \in 1 .. BUFFER_LENGTH
          /\ writeBuffer' = b /\ writeAvailable' = Queued + Len(bytes)
          /\ memory' = [memory EXCEPT ![b] = Contents(b, Queued) \o bytes]
  BY WriteStores
<1>2. UNCHANGED <<error, reading, semaphore, descriptor, driver, outlived, stale>>
      /\ pc' = "ready" /\ status' = "SUCCESS"
  BY DEF write, Returns, ReturnsSaying
<1>3. memory \in [Blocks -> Seq(Bytes)] /\ Queued \in Nat
  BY WireAssumption DEF TypeInv, TypeOK, Queued
<1>4. Contents(b, Queued) \o bytes \in Seq(Bytes)
  BY <1>3, ContentsAreBytes, ConcatProperties
<1>5. memory' \in [Blocks -> Seq(Bytes)]
  BY <1>1, <1>3, <1>4
<1>6. writeAvailable' \in 0 .. BUFFER_LENGTH /\ writeBuffer' \in Blocks
  BY <1>1, WireAssumption
<1> QED
  BY <1>2, <1>5, <1>6 DEF TypeInv, TypeOK, reading, descriptor, Undefined

LEMMA TransfersTypes ==
    ASSUME TypeInv, Transmits \/ \E n \in Quantities : Requests(n)
    PROVE  TypeInv'
<1>1. error' = error /\ semaphore' = semaphore /\ handle' = handle /\ openCalled' = openCalled
      /\ UNCHANGED <<writing, told, outlived>> /\ stale' \in BOOLEAN /\ pc' \in {"writing", "reading"}
  BY DEF Transmits, Requests, Begins
<1>2. CASE Transmits
  <2>1. Start("write", writeBuffer, writeAvailable, transaction.addressed) /\ UNCHANGED <<reading, memory>>
    BY <1>2 DEF Transmits
  <2>2. writeBuffer \in Blocks /\ writeAvailable \in 1 .. BUFFER_LENGTH /\ transaction.addressed \in BOOLEAN
    BY <1>2, WireAssumption DEF Transmits, TypeInv, TypeOK
  <2>3. /\ driver' \in Drivers /\ transaction' \in [addressed : BOOLEAN, transfer : Transfers]
        /\ status' \in {"SUCCESS", "FAILED"}
    BY <2>1, <2>2, StartTypes
  <2> QED
    BY <1>1, <2>1, <2>3 DEF TypeInv, TypeOK, Drivers, reading, writing
<1>3. CASE \E n \in Quantities : Requests(n)
  <2>1. PICK n \in Quantities, b \in NotIn({writeBuffer}) :
            /\ readBuffer' = b /\ memory' = [Freed(readBuffer) EXCEPT ![b] = << >>]
            /\ Start("read", b, n, TRUE) /\ readBufferSize' = n /\ readAvailable' = 0
    BY <1>3 DEF Requests
  <2>2. b \in Blocks /\ n \in 0 .. MaxQuantity /\ 0 \in 0 .. n
    BY WireAssumption DEF NotIn, Quantities
  <2>3. /\ driver' \in Drivers /\ transaction' \in [addressed : BOOLEAN, transfer : Transfers]
        /\ status' \in {"SUCCESS", "FAILED"}
    BY <2>1, <2>2, StartTypes
  <2>4. memory' \in [Blocks -> Seq(Bytes)]
    BY <2>1, <2>2, FreedMemory, EmptySeq DEF TypeInv
  <2> QED
    BY <1>1, <2>1, <2>2, <2>3, <2>4 DEF TypeInv, TypeOK, Drivers, writing
<1> QED
  BY <1>2, <1>3

LEMMA ReturnTypes ==
    ASSUME TypeInv, Transmitted \/ NotTransmitted \/ Received \/ NotReceived \/ RequestsWithoutMemory \/ read
    PROVE  TypeInv'
<1> USE DEF Returns, ReturnsSaying, reading, writing, descriptor
<1>1. Freed(writeBuffer) \in [Blocks -> Seq(Bytes)] /\ Freed(readBuffer) \in [Blocks -> Seq(Bytes)]
  BY FreedMemory DEF TypeInv
<1>2. 0 \in 0 .. MaxQuantity /\ 0 \in 0 .. 0 /\ 0 \in 0 .. BUFFER_LENGTH /\ 0 \in 0 .. 1
  BY WireAssumption
<1>3. pc' = "ready" /\ status' = "SUCCESS" /\ driver' = driver
      /\ handle' = handle /\ openCalled' = openCalled
  BY DEF Transmitted, NotTransmitted, Received, NotReceived, RequestsWithoutMemory, read
<1>4. CASE Transmitted
  BY <1>1, <1>2, <1>3, <1>4 DEF Transmitted, Takes, BufferFreed, TypeInv, TypeOK, Errors, Undefined
<1>5. CASE NotTransmitted \/ NotReceived
  BY <1>2, <1>3, <1>5 DEF NotTransmitted, NotReceived, TimesOut, TypeInv, TypeOK, Errors, Undefined
<1>6. CASE Received
  <2>1. readAvailable' \in 0 .. readBufferSize
    BY <1>6, WireAssumption DEF Received, TypeInv, TypeOK
  <2> QED
    BY <1>2, <1>3, <1>6, <2>1 DEF Received, Takes, TypeInv, TypeOK, Undefined
<1>7. CASE RequestsWithoutMemory
  <2>1. transaction' \in [addressed : BOOLEAN, transfer : Transfers]
    BY <1>7 DEF RequestsWithoutMemory, TypeInv
  <2> QED
    BY <1>1, <1>2, <1>3, <1>7, <2>1 DEF RequestsWithoutMemory, Begins, TypeInv, TypeOK, Undefined
<1>8. CASE read
  <2>1. readAvailable \in 1 .. readBufferSize /\ readBufferSize \in 0 .. MaxQuantity
        /\ readAvailable' = readAvailable - 1
    BY <1>8, WireAssumption DEF read, TypeInv, TypeOK
  <2>2. IF readAvailable = 1
        THEN readBuffer' = NULL /\ readBufferSize' = 0 /\ memory' = Freed(readBuffer)
        ELSE UNCHANGED <<readBuffer, readBufferSize, memory>>
    BY <1>8 DEF read
  <2>3. readAvailable' \in 0 .. readBufferSize' /\ readBufferSize' \in 0 .. MaxQuantity
    BY <1>2, <2>1, <2>2, WireAssumption
  <2>4. UNCHANGED <<error, writing, semaphore, descriptor, driver, history>>
    BY <1>8 DEF read
  <2> QED
    BY <1>1, <1>3, <2>2, <2>3, <2>4 DEF TypeInv, TypeOK, history, Undefined
<1> QED
  BY <1>4, <1>5, <1>6, <1>7, <1>8

LEMMA CompleteTypes ==
    ASSUME TypeInv, Complete
    PROVE  TypeInv'
<1>1. UNCHANGED <<error, reading, writing, descriptor, pc, status, history>> /\ semaphore' = 1
  BY DEF Complete
<1>2. driver.current \in Transfers /\ driver.current # NoTransfer
  BY DEF Complete, TypeInv, Drivers
<1>3. driver' \in Drivers
  <2>1. driver \in Drivers /\ transaction.transfer \in Transfers /\ NoTransfer \in Transfers
    BY DEF TypeInv, Transfers
  <2>2. driver' = IF driver.waiting = 0
                  THEN [driver EXCEPT !.current = NoTransfer]
                  ELSE [driver EXCEPT !.current = transaction.transfer, !.waiting = @ - 1]
    BY DEF Complete
  <2>3. CASE driver.waiting = 0
    BY <2>1, <2>2, <2>3 DEF Drivers
  <2>4. CASE driver.waiting # 0
    <3>1. driver' = [driver EXCEPT !.current = transaction.transfer, !.waiting = driver.waiting - 1]
      BY <2>2, <2>4
    <3>2. driver.waiting - 1 \in 0 .. QueueBound
      BY <2>1, <2>4, WireAssumption DEF Drivers
    <3> QED
      BY <2>1, <3>1, <3>2 DEF Drivers
  <2> QED
    BY <2>3, <2>4
<1>4. memory' \in [Blocks -> Seq(Bytes)]
  <2>1. CASE driver.current.dir = "write"
    BY <2>1 DEF Complete, TypeInv
  <2>2. CASE driver.current.dir # "write"
    <3>1. PICK frame \in [1 .. driver.current.count -> Bytes] :
              memory' = [memory EXCEPT ![driver.current.buffer] = frame]
      BY <2>2 DEF Complete
    <3>2. driver.current.count \in Nat
      BY <1>2, WireAssumption DEF Transfers, Quantities
    <3>3. frame \in Seq(Bytes)
      BY <3>2, FrameIsSeq
    <3> QED
      BY <3>1, <3>3 DEF TypeInv
  <2> QED
    BY <2>1, <2>2
<1> QED
  BY <1>1, <1>3, <1>4 DEF TypeInv, TypeOK, Drivers, reading, writing, descriptor, history

LEMMA TypeKept ==
    ASSUME TypeInv, [Next]_vars
    PROVE  TypeInv'
<1>1. CASE Failure
  <2>1. UNCHANGED <<error, reading, writing, semaphore, descriptor, driver, memory, bus, status, history>>
        /\ pc' \in Undefined
    BY <1>1 DEF Failure, WriteOverruns, WriteWithoutMemory, CompletesForNobody, FillsFreedBlock, Fails, Undefined
  <2> QED
    BY <2>1 DEF TypeInv, TypeOK, reading, writing, descriptor, history
<1>2. CASE Stopped \/ UNCHANGED vars
  BY <1>2 DEF Stopped, vars, TypeInv, TypeOK, reading, writing, descriptor, history
<1> QED
  BY <1>1, <1>2, QuietTypes, WriteTypes, TransfersTypes, ReturnTypes, CompleteTypes
     DEF Next, requestFrom, Quiet, Failure
-----------------------------------------------------------------------------
(* The driver and the calls, also when transfers outlive their wait. *)

LEMMA SameOpen ==
    ASSUME OpenInv, driver' = driver, handle' = handle \/ handle' = FALSE,
           transaction'.transfer = transaction.transfer \/ handle' = FALSE
    PROVE  OpenInv'
BY DEF OpenInv

LEMMA OpenKept ==
    ASSUME TypeInv, OpenInv, [Next]_vars
    PROVE  OpenInv'
<1> USE DEF descriptor
<1>1. driver \in Drivers /\ transaction \in [addressed : BOOLEAN, transfer : Transfers] /\ handle \in BOOLEAN
  BY DEF TypeInv, TypeOK
<1>2. CASE setClock \/ beginTransmission
  <2>1. transaction'.transfer = transaction.transfer
    BY <1>1, <1>2 DEF setClock, beginTransmission
  <2>2. SetMasterConfig \/ UNCHANGED <<handle, driver>>
    BY <1>2 DEF setClock, beginTransmission
  <2>3. CASE UNCHANGED <<handle, driver>>
    BY <2>1, <2>3, SameOpen
  <2>4. CASE ~handle /\ I2C_open
    BY <1>1, <2>1, <2>4, WireAssumption DEF I2C_open, OpenInv, Drivers
  <2> QED
    BY <2>2, <2>3, <2>4 DEF SetMasterConfig
<1>3. CASE begin
  BY <1>3, SameOpen DEF begin
<1>4. CASE end
  <2>1. CASE handle
    BY <1>1, <1>4, <2>1 DEF end, OpenInv, Drivers
  <2>2. CASE ~handle
    BY <1>4, <2>2, SameOpen DEF end
  <2> QED
    BY <2>1, <2>2
<1>5. CASE Transmits \/ \E n \in Quantities : Requests(n)
  <2>1. ASSUME NEW dir \in {"read", "write"}, NEW b, NEW n, NEW addressed, Start(dir, b, n, addressed), handle' = handle
        PROVE  OpenInv'
    <3> DEFINE t == [dir |-> dir, buffer |-> b, count |-> n]
    <3>1. t # NoTransfer
      BY DEF NoTransfer
    <3>2. CASE CanTransfer(addressed)
      <4>1. transaction' = [addressed |-> TRUE, transfer |-> t] /\ I2C_transfer(t) /\ handle /\ handle' = handle
        BY <2>1, <3>2 DEF Start, CanTransfer
      <4> HIDE DEF t
      <4>2. transaction'.transfer # NoTransfer
        BY <3>1, <4>1
      <4>3. CASE driver.current = NoTransfer
        BY <1>1, <3>1, <4>1, <4>2, <4>3 DEF I2C_transfer, OpenInv, Drivers
      <4>4. CASE driver.current # NoTransfer
        <5>1. driver' = [driver EXCEPT !.waiting = driver.waiting + 1]
          BY <4>1, <4>4 DEF I2C_transfer
        <5> QED
          BY <1>1, <4>1, <4>2, <4>4, <5>1 DEF OpenInv, Drivers
      <4> QED
        BY <4>3, <4>4
    <3>3. CASE ~CanTransfer(addressed)
      <4>1. transaction'.transfer = transaction.transfer /\ driver' = driver
        BY <1>1, <2>1, <3>3 DEF Start
      <4> QED
        BY <2>1, <4>1, SameOpen
    <3> QED
      BY <3>2, <3>3
  <2>2. CASE Transmits
    BY <2>1, <2>2 DEF Transmits
  <2>3. CASE \E n \in Quantities : Requests(n)
    BY <2>1, <2>3 DEF Requests
  <2> QED
    BY <1>5, <2>2, <2>3
<1>6. CASE Complete
  <2>1. handle' = handle /\ transaction' = transaction /\ handle
    BY <1>6 DEF Complete
  <2>2. CASE driver.waiting = 0
    BY <1>1, <1>6, <2>1, <2>2 DEF Complete, OpenInv, Drivers
  <2>3. CASE driver.waiting # 0
    <3>1. driver' = [driver EXCEPT !.current = transaction.transfer, !.waiting = driver.waiting - 1]
      BY <1>6, <2>3 DEF Complete
    <3>2. driver.waiting > 0 /\ driver.open
      BY <1>1, <2>1, <2>3, WireAssumption DEF OpenInv, Drivers
    <3> QED
      BY <1>1, <2>1, <3>1, <3>2 DEF OpenInv, Drivers
  <2> QED
    BY <2>2, <2>3
<1>7. CASE \/ SlaveCall \/ write \/ EndsAtOnce \/ EndsWithoutStop \/ Transmitted \/ NotTransmitted
           \/ RequestsWithoutMemory \/ RequestsAfterError \/ Received \/ NotReceived \/ read
           \/ Failure \/ Stopped \/ UNCHANGED vars
  <2>1. driver' = driver /\ handle' = handle
    BY <1>7 DEF SlaveCall, write, EndsAtOnce, EndsWithoutStop, Transmitted, NotTransmitted,
                RequestsWithoutMemory, RequestsAfterError, Received, NotReceived, read, Failure,
                WriteOverruns, WriteWithoutMemory, CompletesForNobody, FillsFreedBlock, Fails, Stopped, vars
  <2>2. transaction'.transfer = transaction.transfer
    BY <1>1, <1>7 DEF SlaveCall, write, EndsAtOnce, EndsWithoutStop, Transmitted, NotTransmitted,
                RequestsWithoutMemory, RequestsAfterError, Received, NotReceived, read, Failure,
                WriteOverruns, WriteWithoutMemory, CompletesForNobody, FillsFreedBlock, Fails, Stopped, vars
  <2> QED
    BY <2>1, <2>2, SameOpen
<1> QED
  BY <1>2, <1>3, <1>4, <1>5, <1>6, <1>7 DEF Next, requestFrom, Failure

\* What a ready library owns: no transfer of its own is left, or its wait was outlived.
ReadyInv ==
    /\ stale => outlived
    /\ ~stale => driver.waiting = 0
    /\ ~stale /\ driver.current.dir = "read" => readAvailable = 0
    /\ ~outlived => driver.current = NoTransfer /\ semaphore = 0
    /\ writeBuffer # NULL /\ writeAvailable >= BUFFER_LENGTH => told
    /\ TransfersUseLiveBuffers

LEMMA ReadyOwns == pc = "ready" => (OwnInv <=> ReadyInv)
BY DEF ReadyInv, OwnInv, NothingLeftOver, FailuresHaveCauses

LEMMA NextReadyOwns == pc' = "ready" /\ ReadyInv' => OwnInv'
<1>1. (pc = "ready" => (OwnInv <=> ReadyInv))'
  BY ReadyOwns, PTL
<1> QED
  BY <1>1

\* A driver that is as it was, or at rest, and buffers that are as they were.
LEMMA SameReady ==
    ASSUME ReadyInv, UNCHANGED <<reading, writing, history>>, semaphore' \in {0, semaphore},
           \/ driver'.current = driver.current /\ driver'.waiting = driver.waiting
           \/ driver'.current = NoTransfer /\ driver'.waiting = 0
    PROVE  ReadyInv'
<1>1. NoTransfer.dir = "none"
  BY DEF NoTransfer
<1> QED
  BY <1>1 DEF ReadyInv, TransfersUseLiveBuffers, reading, writing, history

LEMMA QuietOwn ==
    ASSUME TypeInv, OpenInv, OwnInv, Quiet
    PROVE  OwnInv'
<1>1. pc = "ready" /\ pc' = "ready" /\ UNCHANGED <<reading, writing, history>> /\ semaphore' \in {0, semaphore}
  BY DEF Quiet, begin, end, setClock, SlaveCall, beginTransmission, EndsAtOnce, EndsWithoutStop,
         RequestsAfterError, Returns, ReturnsSaying, Calls
<1>2. driver \in Drivers
  BY DEF TypeInv
<1>3. \/ driver'.current = driver.current /\ driver'.waiting = driver.waiting
      \/ driver'.current = NoTransfer /\ driver'.waiting = 0
  <2>1. SetMasterConfig => driver'.current = driver.current /\ driver'.waiting = driver.waiting
    BY <1>2 DEF SetMasterConfig, I2C_open, Drivers
  <2>2. CASE end
    BY <1>2, <2>2 DEF end, Drivers
  <2>3. CASE setClock \/ beginTransmission
    BY <2>1, <2>3 DEF setClock, beginTransmission
  <2>4. CASE begin \/ SlaveCall \/ EndsAtOnce \/ EndsWithoutStop \/ RequestsAfterError
    BY <2>4 DEF begin, SlaveCall, EndsAtOnce, EndsWithoutStop, RequestsAfterError
  <2> QED
    BY <2>2, <2>3, <2>4 DEF Quiet
<1> QED
  BY <1>1, <1>3, ReadyOwns, SameReady, NextReadyOwns

LEMMA WriteOwn ==
    ASSUME TypeInv, OwnInv, write
    PROVE  OwnInv'
<1>1. pc = "ready" /\ pc' = "ready" /\ UNCHANGED <<reading, semaphore, driver, outlived, stale>>
  BY DEF write, Calls, Returns, ReturnsSaying
<1>2. /\ writeBuffer # NULL => writeBuffer' = writeBuffer
      /\ writeAvailable' >= writeAvailable \/ writeBuffer = NULL
      /\ writeAvailable' \in Nat /\ writeAvailable \in Nat
      /\ writeAvailable' >= BUFFER_LENGTH => told'
  <2>1. PICK b \in Blocks, bytes \in Seq(Bytes) :
            /\ writeBuffer # NULL => b = writeBuffer
            /\ Len(bytes) \in 1 .. MaxQuantity
            /\ writeBuffer' = b /\ writeAvailable' = Queued + Len(bytes)
    BY WriteStores
  <2>2. writeAvailable \in Nat /\ MaxQuantity \in Nat
    BY WireAssumption DEF TypeInv, TypeOK
  <2>3. writeAvailable' >= BUFFER_LENGTH => told'
    BY WriteStores
  <2> QED
    BY <2>1, <2>2, <2>3 DEF Queued
<1>3. driver.current.dir = "write" => driver.current.buffer # NULL /\ driver.current.count \in Nat
  BY WireAssumption DEF TypeInv, Drivers, Transfers, NoTransfer, Quantities
<1>4. ReadyInv'
  BY <1>1, <1>2, <1>3, ReadyOwns DEF ReadyInv, TransfersUseLiveBuffers, reading
<1> QED
  BY <1>1, <1>4, NextReadyOwns

LEMMA ReadOwn ==
    ASSUME TypeInv, OpenInv, OwnInv, read \/ RequestsWithoutMemory
    PROVE  OwnInv'
<1>1. pc = "ready" /\ pc' = "ready" /\ UNCHANGED <<writing, semaphore, driver, outlived, told>>
  BY DEF read, RequestsWithoutMemory, Calls, Returns, ReturnsSaying, history
<1>2. driver \in Drivers /\ semaphore \in 0 .. 1 /\ readAvailable \in Nat /\ NoTransfer.dir = "none"
  BY WireAssumption DEF TypeInv, TypeOK, NoTransfer
<1>3. CASE read
  <2>1. readAvailable > 0 /\ stale' = stale
    BY <1>3 DEF read, history
  <2>2. ~stale => driver.current.dir # "read"
    BY <1>2, <2>1 DEF OwnInv
  <2>3. ReadyInv'
    BY <1>1, <2>1, <2>2, ReadyOwns DEF ReadyInv, TransfersUseLiveBuffers, writing
  <2> QED
    BY <1>1, <2>3, NextReadyOwns
<1>4. CASE RequestsWithoutMemory
  <2>1. stale' = (driver.current # NoTransfer \/ semaphore = 1)
    BY <1>4 DEF RequestsWithoutMemory, Begins
  <2>2. CASE driver.current # NoTransfer \/ semaphore = 1
    <3>1. stale'
      BY <2>1, <2>2
    <3>2. outlived
      BY <1>1, <1>2, <2>2, ReadyOwns DEF ReadyInv
    <3>3. ReadyInv'
      BY <1>1, <3>1, <3>2, ReadyOwns DEF ReadyInv, TransfersUseLiveBuffers, writing
    <3> QED
      BY <1>1, <3>3, NextReadyOwns
  <2>3. CASE driver.current = NoTransfer /\ semaphore # 1
    <3>1. ~stale'
      BY <2>1, <2>3
    <3>2. driver.waiting = 0 /\ semaphore = 0
      BY <1>2, <2>3 DEF OpenInv, Drivers
    <3>3. ReadyInv'
      BY <1>1, <1>2, <2>3, <3>1, <3>2, ReadyOwns DEF ReadyInv, TransfersUseLiveBuffers, writing
    <3> QED
      BY <1>1, <3>3, NextReadyOwns
  <2> QED
    BY <2>2, <2>3
<1> QED
  BY <1>3, <1>4

\* A transfer that begins while the driver rests and the semaphore is taken is alone.
LEMMA StartOwn ==
    ASSUME TypeInv, OpenInv, OwnInv, pc = "ready", Begins, NEW dir \in {"read", "write"}, NEW b, NEW n,
           NEW addressed, Start(dir, b, n, addressed), UNCHANGED <<semaphore, outlived, handle>>
    PROVE  LET t == [dir |-> dir, buffer |-> b, count |-> n] IN
           /\ stale' => outlived
           /\ ~stale' => /\ driver'.waiting = 0 /\ semaphore' = 0
                         /\ \/ driver'.current = t /\ status' = "SUCCESS" /\ handle
                            \/ driver'.current = NoTransfer
<1> DEFINE t == [dir |-> dir, buffer |-> b, count |-> n]
<1>1. driver \in Drivers /\ semaphore \in 0 .. 1
  BY DEF TypeInv, TypeOK
<1>2. stale' = (driver.current # NoTransfer \/ semaphore = 1)
  BY DEF Begins
<1>3. CASE driver.current # NoTransfer \/ semaphore = 1
  <2>1. stale'
    BY <1>2, <1>3
  <2>2. outlived
    BY <1>1, <1>3, ReadyOwns DEF ReadyInv
  <2> QED
    BY <2>1, <2>2
<1>4. CASE driver.current = NoTransfer /\ semaphore # 1
  <2>1. ~stale'
    BY <1>2, <1>4
  <2>2. driver.waiting = 0 /\ semaphore = 0
    BY <1>1, <1>4 DEF OpenInv, Drivers
  <2>3. CASE CanTransfer(addressed)
    <3>1. driver' = [driver EXCEPT !.current = t] /\ status' = "SUCCESS" /\ handle
      BY <1>4, <2>3 DEF Start, I2C_transfer, CanTransfer
    <3>2. driver'.current = t /\ driver'.waiting = 0
      BY <1>1, <2>2, <3>1 DEF Drivers
    <3> QED
      BY <2>1, <2>2, <3>1, <3>2
  <2>4. CASE ~CanTransfer(addressed)
    <3>1. driver' = driver
      BY <2>4 DEF Start
    <3> QED
      BY <1>4, <2>1, <2>2, <3>1
  <2> QED
    BY <2>3, <2>4
<1> QED
  BY <1>3, <1>4

LEMMA TransmitsOwn ==
    ASSUME TypeInv, OpenInv, OwnInv, Transmits
    PROVE  OwnInv'
<1> DEFINE t == [dir |-> "write", buffer |-> writeBuffer, count |-> writeAvailable]
<1>1. pc = "ready" /\ pc' = "writing" /\ UNCHANGED <<reading, writing, semaphore, handle, told, outlived>>
  BY DEF Transmits, Calls
<1>2. /\ stale' => outlived
      /\ ~stale' => /\ driver'.waiting = 0 /\ semaphore' = 0
                    /\ \/ driver'.current = t /\ status' = "SUCCESS" /\ handle
                       \/ driver'.current = NoTransfer
  BY <1>1, StartOwn DEF Transmits
<1>3. writeAvailable \in Nat
  BY WireAssumption DEF TypeInv, TypeOK
<1> QED
  BY <1>1, <1>2, <1>3 DEF OwnInv, TransfersUseLiveBuffers, NothingLeftOver, FailuresHaveCauses, NoTransfer, reading, writing

LEMMA RequestsOwn ==
    ASSUME TypeInv, OpenInv, OwnInv, NEW n \in Quantities, Requests(n)
    PROVE  OwnInv'
<1>1. PICK b \in Blocks : readBuffer' = b /\ Start("read", b, n, TRUE)
  BY DEF Requests, NotIn
<1> DEFINE t == [dir |-> "read", buffer |-> b, count |-> n]
<1>2. pc = "ready" /\ pc' = "reading" /\ UNCHANGED <<writing, semaphore, handle, told, outlived>>
      /\ Begins /\ readBufferSize' = n /\ readAvailable' = 0
  BY DEF Requests, Calls
<1>3. /\ stale' => outlived
      /\ ~stale' => /\ driver'.waiting = 0 /\ semaphore' = 0
                    /\ \/ driver'.current = t /\ status' = "SUCCESS" /\ handle
                       \/ driver'.current = NoTransfer
  BY <1>1, <1>2, StartOwn
<1> QED
  BY <1>1, <1>2, <1>3 DEF OwnInv, TransfersUseLiveBuffers, NothingLeftOver, FailuresHaveCauses, NoTransfer, writing

\* A call that takes the completion of its own transfer leaves the driver at rest.
LEMMA TakenOwn ==
    ASSUME TypeInv, OpenInv, OwnInv, Transmitted \/ Received
    PROVE  OwnInv'
<1>1. /\ pc \in {"reading", "writing"} /\ pc' = "ready" /\ semaphore = 1 /\ semaphore' = 0
      /\ UNCHANGED <<readBuffer, readBufferSize, driver, outlived, stale>>
  BY DEF Transmitted, Received, Takes, Returns, ReturnsSaying, reading
<1>2. ~stale => driver.current = NoTransfer
  BY <1>1 DEF OwnInv, NothingLeftOver
<1>3. \/ UNCHANGED <<writing, told>>
      \/ writeBuffer' = NULL
  BY DEF Transmitted, Received, BufferFreed, writing
<1>4. ReadyInv'
  BY <1>1, <1>2, <1>3 DEF OwnInv, ReadyInv, TransfersUseLiveBuffers, NoTransfer, writing
<1> QED
  BY <1>1, <1>4, NextReadyOwns

LEMMA TimedOutOwn ==
    ASSUME TypeInv, OpenInv, OwnInv, NotTransmitted \/ NotReceived
    PROVE  OwnInv'
<1>1. /\ pc \in {"reading", "writing"} /\ pc' = "ready" /\ semaphore = 0 /\ semaphore' = 0
      /\ UNCHANGED <<reading, writing, driver, told, stale>>
  BY DEF NotTransmitted, NotReceived, TimesOut, Returns, ReturnsSaying
<1>2. outlived' = (outlived \/ driver.current # NoTransfer)
  BY DEF NotTransmitted, NotReceived, TimesOut
<1>3. ReadyInv'
  BY <1>1, <1>2 DEF OwnInv, ReadyInv, TransfersUseLiveBuffers, reading, writing
<1> QED
  BY <1>1, <1>3, NextReadyOwns

LEMMA CompleteOwn ==
    ASSUME TypeInv, OpenInv, OwnInv, Complete
    PROVE  OwnInv'
<1>1. /\ UNCHANGED <<reading, writing, handle, pc, status, history>> /\ semaphore' = 1
      /\ driver.current # NoTransfer /\ pc \notin Undefined
  BY DEF Complete, descriptor
<1>2. driver \in Drivers /\ pc \in {"ready", "writing", "reading"}
  BY <1>1 DEF TypeInv, TypeOK
<1>3. CASE stale
  <2>1. outlived
    BY <1>3 DEF OwnInv
  <2> QED
    BY <1>1, <1>2, <1>3, <2>1 DEF OwnInv, TransfersUseLiveBuffers, NothingLeftOver, FailuresHaveCauses,
       Undefined, reading, writing, history
<1>4. CASE ~stale
  <2>1. driver' = [driver EXCEPT !.current = NoTransfer] /\ driver.waiting = 0
    BY <1>4 DEF Complete, OwnInv
  <2>2. driver'.current = NoTransfer /\ driver'.waiting = 0 /\ NoTransfer.dir = "none"
    BY <1>2, <2>1 DEF Drivers, NoTransfer
  <2>3. pc = "ready" => outlived
    BY <1>1 DEF OwnInv, NothingLeftOver
  <2>4. pc # "ready" => status = "SUCCESS"
    BY <1>1, <1>2, <1>4 DEF OwnInv, NothingLeftOver
  <2>5. TransfersUseLiveBuffers'
    BY <2>2 DEF TransfersUseLiveBuffers
  <2>6. NothingLeftOver'
    BY <1>1, <2>2, <2>3, <2>4 DEF NothingLeftOver, history
  <2> QED
    BY <1>1, <1>4, <2>2, <2>5, <2>6 DEF OwnInv, FailuresHaveCauses, Undefined, reading, writing, history
<1> QED
  BY <1>3, <1>4

\* Each way to fail has its cause.
LEMMA FailureOwn ==
    ASSUME TypeInv, OwnInv, Failure
    PROVE  OwnInv'
<1>1. UNCHANGED <<reading, writing, semaphore, handle, driver, status, history>>
  BY DEF Failure, WriteOverruns, WriteWithoutMemory, CompletesForNobody, FillsFreedBlock, Fails, descriptor
<1>2. pc' \in Undefined
  BY DEF Failure, WriteOverruns, WriteWithoutMemory, CompletesForNobody, FillsFreedBlock, Fails, Undefined
<1>3. pc \in {"ready", "writing", "reading"}
  BY DEF Failure, WriteOverruns, WriteWithoutMemory, CompletesForNobody, FillsFreedBlock, Calls,
         TypeInv, TypeOK, Undefined
<1>4. FailuresHaveCauses'
  <2>1. CASE WriteOverruns
    <3>1. pc' = "overrun" /\ Queued >= BUFFER_LENGTH /\ told' = told
      BY <2>1 DEF WriteOverruns, Fails, history
    <3>2. writeBuffer # NULL /\ writeAvailable >= BUFFER_LENGTH
      BY <3>1, WireAssumption DEF Queued
    <3>3. told
      BY <3>2 DEF OwnInv
    <3> QED
      BY <3>1, <3>3 DEF FailuresHaveCauses
  <2>2. CASE WriteWithoutMemory
    BY <2>2 DEF WriteWithoutMemory, Fails, FailuresHaveCauses
  <2>3. CASE CompletesForNobody
    <3>1. outlived
      BY <1>3, <2>3 DEF CompletesForNobody, OwnInv, NothingLeftOver
    <3> QED
      BY <1>1, <2>3, <3>1 DEF CompletesForNobody, Fails, FailuresHaveCauses, history
  <2>4. CASE FillsFreedBlock
    <3>1. driver.current.dir = "read" /\ ~(driver.current.buffer = readBuffer /\ driver.current.count <= readBufferSize)
      BY <2>4 DEF FillsFreedBlock, ReadsIntoBuffer
    <3>2. readBufferSize \in Nat
      BY WireAssumption DEF TypeInv, TypeOK
    <3>3. outlived
      BY <3>1, <3>2 DEF OwnInv, TransfersUseLiveBuffers
    <3> QED
      BY <1>1, <2>4, <3>3 DEF FillsFreedBlock, Fails, FailuresHaveCauses, history
  <2> QED
    BY <2>1, <2>2, <2>3, <2>4 DEF Failure
<1>5. TransfersUseLiveBuffers'
  BY <1>1 DEF OwnInv, TransfersUseLiveBuffers, reading, writing, history
<1>6. NothingLeftOver'
  BY <1>2 DEF NothingLeftOver, Undefined
<1> QED
  BY <1>1, <1>2, <1>4, <1>5, <1>6 DEF OwnInv, Undefined, reading, writing, history

LEMMA OwnKept ==
    ASSUME TypeInv, OpenInv, OwnInv, [Next]_vars
    PROVE  OwnInv'
<1>1. CASE Stopped \/ UNCHANGED vars
  BY <1>1 DEF Stopped, vars, OwnInv, TransfersUseLiveBuffers, NothingLeftOver, FailuresHaveCauses,
              reading, writing, descriptor, history
<1>2. CASE Transmits \/ \E n \in Quantities : Requests(n)
  BY <1>2, TransmitsOwn, RequestsOwn
<1> QED
  BY <1>1, <1>2, QuietOwn, WriteOwn, ReadOwn, TakenOwn, TimedOutOwn, CompleteOwn, FailureOwn
     DEF Next, requestFrom, Quiet, Failure
-----------------------------------------------------------------------------
(* The buffers, while no transfer has outlived its wait. *)

LEMMA SoundFacts ==
    ASSUME Sound
    PROVE  /\ TypeOK /\ BufferInv /\ CallInv /\ memory \in [Blocks -> Seq(Bytes)]
           /\ ~stale /\ ~outlived /\ pc \in {"ready", "writing", "reading"}
           /\ driver.current \in Transfers /\ driver.waiting = 0
           /\ pc = "ready" => driver.current = NoTransfer /\ semaphore = 0
           /\ semaphore = 1 => driver.current = NoTransfer /\ status = "SUCCESS"
           /\ driver.current # NoTransfer => semaphore = 0 /\ status = "SUCCESS"
           /\ driver.current.dir = "read" =>
                 pc = "reading" /\ driver.current.buffer = readBuffer /\ driver.current.count = readBufferSize
           /\ driver.current.dir = "write" =>
                 pc = "writing" /\ driver.current.buffer = writeBuffer /\ driver.current.count = writeAvailable
<1>1. /\ TypeOK /\ BufferInv /\ CallInv /\ memory \in [Blocks -> Seq(Bytes)]
      /\ ~stale /\ ~outlived /\ pc \in {"ready", "writing", "reading"}
      /\ driver.current \in Transfers /\ driver.waiting = 0
  BY DEF Sound, IInv, TypeInv, TypeOK, OwnInv, Lost, Drivers
<1>2. NothingLeftOver /\ TransfersUseLiveBuffers
  BY DEF Sound, IInv, OwnInv
<1>3. /\ pc = "ready" => driver.current = NoTransfer /\ semaphore = 0
      /\ semaphore = 1 => driver.current = NoTransfer /\ status = "SUCCESS"
      /\ driver.current # NoTransfer => semaphore = 0 /\ status = "SUCCESS"
  BY <1>1, <1>2 DEF NothingLeftOver, TypeOK
<1>4. NoTransfer.dir = "none"
  BY DEF NoTransfer
<1>5. driver.current # NoTransfer => driver.current.dir = IF pc = "reading" THEN "read" ELSE "write"
  BY <1>1, <1>2, <1>3 DEF NothingLeftOver
<1> QED
  BY <1>1, <1>2, <1>3, <1>4, <1>5 DEF TransfersUseLiveBuffers, CallInv

\* A buffer of the library is a block, or there is none.
LEMMA BuffersAreBlocks ==
    ASSUME Sound
    PROVE  /\ readBuffer # NULL => readBuffer \in Blocks
           /\ writeBuffer # NULL => writeBuffer \in Blocks
BY SoundFacts DEF TypeOK

\* The bytes that are queued.
QueuedBytes == IF writeBuffer = NULL THEN << >> ELSE memory[writeBuffer]

\* The write buffer holds just the bytes that are queued.
LEMMA WriteContents ==
    ASSUME Sound, writeBuffer # NULL
    PROVE  Contents(writeBuffer, writeAvailable) = memory[writeBuffer]
<1>1. writeBuffer \in Blocks /\ Len(memory[writeBuffer]) = writeAvailable /\ memory \in [Blocks -> Seq(Bytes)]
  BY SoundFacts, BuffersAreBlocks DEF BufferInv
<1> QED
  BY <1>1, WholeContents

\* write() adds bytes at the end of the queued ones, in a block that is not the read
\* buffer.
LEMMA WriteAdds ==
    ASSUME Sound, write
    PROVE  /\ QueuedBytes \in Seq(Bytes) /\ Len(QueuedBytes) = Queued
           /\ \E b \in Blocks, bytes \in Seq(Bytes) :
                 /\ b # readBuffer /\ Len(bytes) \in 1 .. MaxQuantity
                 /\ writeBuffer' = b /\ writeAvailable' = Queued + Len(bytes)
                 /\ memory' = [memory EXCEPT ![b] = QueuedBytes \o bytes]
<1>1. PICK b \in Blocks, bytes \in Seq(Bytes) :
          /\ (writeBuffer = NULL => b # readBuffer) /\ (writeBuffer # NULL => b = writeBuffer)
          /\ Len(bytes) \in 1 .. MaxQuantity
          /\ writeBuffer' = b /\ writeAvailable' = Queued + Len(bytes)
          /\ memory' = [memory EXCEPT ![b] = Contents(b, Queued) \o bytes]
  BY WriteStores DEF Sound, IInv
<1>2. b # readBuffer
  BY <1>1, SoundFacts, WireAssumption DEF BufferInv
<1>3. Contents(b, Queued) = QueuedBytes /\ QueuedBytes \in Seq(Bytes) /\ Len(QueuedBytes) = Queued
  <2>1. memory[b] \in Seq(Bytes) /\ Len(memory[b]) \in Nat
    BY SoundFacts, LenProperties
  <2>2. CASE writeBuffer = NULL
    <3>1. Contents(b, Queued) = SubSeq(memory[b], 1, 0) /\ Queued = 0
      BY <2>1, <2>2 DEF Contents, Queued
    <3> QED
      BY <2>1, <2>2, <3>1, SubSeqEmpty, EmptySeq DEF QueuedBytes
  <2>3. CASE writeBuffer # NULL
    <3>1. Contents(b, Queued) = memory[b] /\ Queued = writeAvailable
      BY <1>1, <2>3, WriteContents DEF Queued
    <3> QED
      BY <1>1, <2>1, <2>3, <3>1, SoundFacts DEF BufferInv, QueuedBytes
  <2> QED
    BY <2>2, <2>3
<1> QED
  BY <1>1, <1>2, <1>3

LEMMA QuietSound ==
    ASSUME Sound, Quiet
    PROVE  BufferInv' /\ CallInv'
<1>1. pc' = "ready" /\ UNCHANGED <<reading, writing, memory>>
  BY DEF Quiet, begin, end, setClock, SlaveCall, beginTransmission, EndsAtOnce, EndsWithoutStop,
         RequestsAfterError, Returns, ReturnsSaying
<1> QED
  BY <1>1, SoundFacts DEF BufferInv, CallInv, reading, writing

LEMMA WriteSound ==
    ASSUME Sound, write
    PROVE  BufferInv' /\ CallInv'
<1>1. PICK b \in Blocks, bytes \in Seq(Bytes) :
          /\ b # readBuffer
          /\ writeBuffer' = b /\ writeAvailable' = Queued + Len(bytes)
          /\ memory' = [memory EXCEPT ![b] = QueuedBytes \o bytes]
  BY WriteAdds
<1>2. pc' = "ready" /\ UNCHANGED reading
  BY DEF write, Returns, ReturnsSaying
<1>3. Len(QueuedBytes \o bytes) = Queued + Len(bytes)
  BY WriteAdds, ConcatProperties
<1>4. memory \in [Blocks -> Seq(Bytes)] /\ (readAvailable > 0 => readBuffer \in Blocks)
  BY SoundFacts, WireAssumption DEF TypeOK, BufferInv
<1> QED
  BY <1>1, <1>2, <1>3, <1>4, SoundFacts, WireAssumption DEF BufferInv, CallInv, reading

LEMMA TransmitsSound ==
    ASSUME Sound, OwnInv', ~Lost', Transmits
    PROVE  BufferInv' /\ CallInv'
<1>1. pc' = "writing" /\ UNCHANGED <<reading, writing, memory>> /\ writeBuffer # NULL /\ writeAvailable > 0
      /\ pc = "ready"
  BY DEF Transmits, Calls
<1>2. driver'.current \in {NoTransfer, [dir |-> "write", buffer |-> writeBuffer, count |-> writeAvailable]}
  <2>1. driver.current = NoTransfer /\ driver \in Drivers
    BY <1>1, SoundFacts DEF Sound, IInv, TypeInv
  <2>2. Start("write", writeBuffer, writeAvailable, transaction.addressed)
    BY DEF Transmits
  <2> QED
    BY <2>1, <2>2 DEF Start, I2C_transfer, Drivers
<1> QED
  BY <1>1, <1>2, SoundFacts DEF BufferInv, CallInv, reading, writing

LEMMA TransmittedSound ==
    ASSUME Sound, Transmitted
    PROVE  BufferInv' /\ CallInv'
<1>1. pc' = "ready" /\ BufferFreed /\ UNCHANGED reading
  BY SoundFacts DEF Transmitted, Takes, ReturnsSaying
<1>2. memory' = Freed(writeBuffer) /\ writeBuffer' = NULL
  BY <1>1 DEF BufferFreed
<1>3. \A c \in Blocks : c # writeBuffer => memory'[c] = memory[c]
  BY <1>2, SoundFacts, FreedMemory
<1>4. readAvailable > 0 => readBuffer \in Blocks /\ readBuffer # writeBuffer
  BY SoundFacts, WireAssumption DEF TypeOK, BufferInv
<1> QED
  BY <1>1, <1>2, <1>3, <1>4, SoundFacts DEF BufferInv, CallInv, reading

LEMMA RequestsSound ==
    ASSUME Sound, NEW n \in Quantities, Requests(n)
    PROVE  BufferInv' /\ CallInv'
<1>1. PICK b \in NotIn({writeBuffer}) :
          /\ readBuffer' = b /\ memory' = [Freed(readBuffer) EXCEPT ![b] = << >>]
  BY DEF Requests
<1>2. pc = "ready" /\ pc' = "reading" /\ semaphore' = semaphore
      /\ readBufferSize' = n /\ readAvailable' = 0 /\ UNCHANGED writing
  BY DEF Requests, Calls
<1>3. b \in Blocks /\ b # writeBuffer /\ b # NULL /\ n \in Nat /\ n > 0
  BY WireAssumption DEF NotIn, Quantities
<1>4. /\ Freed(readBuffer) \in [Blocks -> Seq(Bytes)]
      /\ \A c \in Blocks : c # readBuffer => Freed(readBuffer)[c] = memory[c]
  BY SoundFacts, FreedMemory
<1>5. writeBuffer # NULL => writeBuffer \in Blocks /\ writeBuffer # readBuffer
  BY SoundFacts DEF TypeOK, BufferInv
<1>6. writeBuffer # NULL => memory'[writeBuffer] = memory[writeBuffer]
  BY <1>1, <1>3, <1>4, <1>5
<1>7. semaphore = 0
  BY <1>2, SoundFacts
<1> QED
  BY <1>1, <1>2, <1>3, <1>6, <1>7, SoundFacts DEF BufferInv, CallInv, writing

\* A request that fails for want of memory, and the read of the last byte, free the read
\* buffer and leave the write buffer alone.
LEMMA ReadBufferFreed ==
    ASSUME Sound, pc' = "ready", UNCHANGED writing,
           readBuffer' = NULL, readBufferSize' = 0, readAvailable' = 0, memory' = Freed(readBuffer)
    PROVE  BufferInv' /\ CallInv'
<1>1. \A c \in Blocks : c # readBuffer => memory'[c] = memory[c]
  BY SoundFacts, FreedMemory
<1>2. writeBuffer # NULL => writeBuffer \in Blocks /\ writeBuffer # readBuffer
  BY SoundFacts DEF TypeOK, BufferInv
<1> QED
  BY <1>1, <1>2, SoundFacts DEF BufferInv, CallInv, writing

LEMMA ReadSound ==
    ASSUME Sound, read \/ RequestsWithoutMemory
    PROVE  BufferInv' /\ CallInv'
<1>1. pc' = "ready" /\ UNCHANGED writing
  BY DEF read, RequestsWithoutMemory, Returns, ReturnsSaying
<1>2. CASE read /\ readAvailable # 1
  <2>1. readAvailable > 0 /\ UNCHANGED <<readBuffer, readBufferSize, memory>>
    BY <1>2 DEF read
  <2> QED
    BY <1>1, <2>1, SoundFacts DEF BufferInv, CallInv, writing
<1>3. CASE (read /\ readAvailable = 1) \/ RequestsWithoutMemory
  <2>1. readBuffer' = NULL /\ readBufferSize' = 0 /\ readAvailable' = 0 /\ memory' = Freed(readBuffer)
    BY <1>3 DEF read, RequestsWithoutMemory
  <2> QED
    BY <1>1, <2>1, ReadBufferFreed
<1> QED
  BY <1>2, <1>3

\* The wait of a request is over, or that of a write that was not taken.
LEMMA WaitsSound ==
    ASSUME Sound, Received \/ NotReceived \/ NotTransmitted
    PROVE  BufferInv' /\ CallInv'
<1>1. pc' = "ready" /\ UNCHANGED <<readBuffer, readBufferSize, writing, memory>>
  BY DEF Received, NotReceived, NotTransmitted, Returns, ReturnsSaying, reading
<1>2. \/ UNCHANGED readAvailable
      \/ pc = "reading" /\ semaphore = 1
  BY DEF Received, NotReceived, NotTransmitted, Takes, reading
<1> QED
  BY <1>1, <1>2, SoundFacts DEF BufferInv, CallInv, writing

\* The interrupt finds the call that waits for it, and writes into the read buffer only.
LEMMA CompletesOwn ==
    ASSUME Sound, Complete
    PROVE  /\ status = "SUCCESS" /\ semaphore = 0 /\ semaphore' = 1
           /\ driver'.current = NoTransfer
           /\ \/ /\ pc = "writing" /\ memory' = memory
                 /\ \/ bus' = [turn |-> 1 - bus.turn, kind |-> "write",
                                 bytes |-> Contents(writeBuffer, writeAvailable)]
                    \/ UNCHANGED bus
              \/ /\ pc = "reading"
                 /\ \E frame \in [1 .. readBufferSize -> Bytes] :
                       /\ memory' = [memory EXCEPT ![readBuffer] = frame]
                       /\ \/ bus' = [turn |-> 1 - bus.turn, kind |-> "read", bytes |-> frame]
                          \/ UNCHANGED bus
<1>1. driver.current # NoTransfer /\ semaphore' = 1
  BY DEF Complete
<1>2. status = "SUCCESS" /\ semaphore = 0 /\ driver.waiting = 0 /\ driver \in Drivers
  BY <1>1, SoundFacts DEF Sound, IInv, TypeInv
<1>3. driver'.current = NoTransfer
  BY <1>2 DEF Complete, Drivers
<1>4. driver.current.dir \in {"read", "write"}
  BY <1>1, SoundFacts DEF Transfers
<1>5. CASE driver.current.dir = "write"
  BY <1>1, <1>2, <1>3, <1>5, SoundFacts DEF Complete
<1>6. CASE driver.current.dir = "read"
  BY <1>1, <1>2, <1>3, <1>6, SoundFacts DEF Complete
<1> QED
  BY <1>4, <1>5, <1>6

LEMMA CompleteSound ==
    ASSUME Sound, Complete
    PROVE  BufferInv' /\ CallInv'
<1>1. UNCHANGED <<reading, writing, pc>>
  BY DEF Complete
<1>2. CASE pc # "reading"
  BY <1>1, <1>2, CompletesOwn, SoundFacts DEF BufferInv, CallInv, reading, writing
<1>3. CASE pc = "reading"
  <2>1. PICK frame \in [1 .. readBufferSize -> Bytes] : memory' = [memory EXCEPT ![readBuffer] = frame]
    BY <1>3, CompletesOwn
  <2>2. Len(frame) = readBufferSize
    <3>1. readBufferSize \in Nat
      BY SoundFacts, WireAssumption DEF TypeOK
    <3> QED
      BY <3>1, FrameIsSeq
  <2>3. readBuffer \in Blocks /\ readBuffer # writeBuffer /\ memory \in [Blocks -> Seq(Bytes)]
    BY <1>3, SoundFacts, BuffersAreBlocks DEF CallInv, BufferInv
  <2>4. writeBuffer # NULL => memory'[writeBuffer] = memory[writeBuffer]
    BY <2>1, <2>3, BuffersAreBlocks
  <2> QED
    BY <1>1, <1>3, <2>1, <2>2, <2>3, <2>4, CompletesOwn, SoundFacts DEF BufferInv, CallInv, reading, writing
<1> QED
  BY <1>2, <1>3

\* What is lost stays lost.
LEMMA LostStays ==
    ASSUME TypeInv, [Next]_vars, Lost
    PROVE  Lost'
<1>1. CASE pc \in Undefined
  BY <1>1 DEF Next, Lost, Undefined, begin, end, setClock, SlaveCall, beginTransmission, write, WriteOverruns,
     WriteWithoutMemory, EndsAtOnce, EndsWithoutStop, Transmits, Transmitted, NotTransmitted, requestFrom, Requests,
     RequestsWithoutMemory, RequestsAfterError, Received, NotReceived, read, Complete, CompletesForNobody,
     FillsFreedBlock, Stopped, Calls, vars
<1>2. CASE outlived
  <2>1. outlived' = outlived \/ outlived' = (outlived \/ driver.current # NoTransfer)
    BY DEF Next, begin, end, setClock, SlaveCall, beginTransmission, write, WriteOverruns,
     WriteWithoutMemory, EndsAtOnce, EndsWithoutStop, Transmits, Transmitted, NotTransmitted, requestFrom, Requests,
     RequestsWithoutMemory, RequestsAfterError, Received, NotReceived, read, Complete, CompletesForNobody,
     FillsFreedBlock, Fails, Stopped, Takes, TimesOut, vars, history
  <2> QED
    BY <1>2, <2>1 DEF Lost
<1> QED
  BY <1>1, <1>2 DEF Lost
-----------------------------------------------------------------------------
(* The theorems about the invariant. *)

LEMMA InitHolds ==
    ASSUME Init
    PROVE  IInv
<1>1. TypeOK
  <2>1. 0 \in 0 .. MaxQuantity /\ 0 \in 0 .. 0 /\ 0 \in 0 .. BUFFER_LENGTH
        /\ 0 \in 0 .. 1 /\ 0 \in 0 .. QueueBound
    BY WireAssumption
  <2> QED
    BY <2>1 DEF Init, TypeOK, Errors
<1>2. TypeInv
  <2>1. 0 \in 0 .. QueueBound /\ << >> \in Seq(Bytes)
    BY WireAssumption, EmptySeq
  <2> QED
    BY <1>1, <2>1 DEF Init, TypeInv, Drivers, Transfers
<1>3. OpenInv
  BY DEF Init, OpenInv
<1>4. OwnInv
  <2>1. ~(0 >= BUFFER_LENGTH)
    BY WireAssumption
  <2> QED
    BY <2>1 DEF Init, OwnInv, NothingLeftOver, TransfersUseLiveBuffers, FailuresHaveCauses, NoTransfer
<1>5. BufferInv /\ CallInv
  BY DEF Init, BufferInv, CallInv
<1> QED
  BY <1>2, <1>3, <1>4, <1>5 DEF IInv

LEMMA NextKeeps ==
    ASSUME IInv, [Next]_vars
    PROVE  IInv'
<1>1. TypeInv' /\ OpenInv' /\ OwnInv'
  BY TypeKept, OpenKept, OwnKept DEF IInv
<1>2. ASSUME ~Lost'
      PROVE  BufferInv' /\ CallInv'
  <2>1. Sound
    BY <1>2, LostStays DEF IInv, Sound
  <2>2. CASE Failure
    BY <1>2, <2>2 DEF Failure, WriteOverruns, WriteWithoutMemory, CompletesForNobody, FillsFreedBlock, Fails,
                      Lost, Undefined
  <2>3. CASE Stopped \/ UNCHANGED vars
    BY <2>1, <2>3, SoundFacts DEF Stopped, vars, reading, writing, BufferInv, CallInv
  <2>4. CASE Quiet \/ write \/ read \/ RequestsWithoutMemory \/ \E n \in Quantities : Requests(n)
    BY <2>1, <2>4, QuietSound, WriteSound, ReadSound, RequestsSound
  <2>5. CASE Transmits \/ Transmitted \/ NotTransmitted \/ Received \/ NotReceived \/ Complete
    BY <1>1, <1>2, <2>1, <2>5, TransmitsSound, TransmittedSound, WaitsSound, CompleteSound
  <2> QED
    BY <2>2, <2>3, <2>4, <2>5 DEF Next, requestFrom, Quiet, Failure
<1> QED
  BY <1>1, <1>2 DEF IInv

\* The invariant holds of the library for every heap, length of its buffer and depth of
\* the driver's queue, whatever fails and however long a transfer lasts.
THEOREM Invariance == Spec => []IInv
<1>1. Init => IInv
  BY InitHolds
<1>2. IInv /\ [Next]_vars => IInv'
  BY NextKeeps
<1> QED
  BY <1>1, <1>2, PTL DEF Spec

\* No call returns while its transfer is still in progress, or leaves the semaphore given,
\* until some wait has ended before its transfer; and even then a call that began with the
\* driver idle and the semaphore taken waits for its own transfer only.
THEOREM CallsLeaveNothing == Spec => []NothingLeftOver
<1>1. IInv => NothingLeftOver
  BY DEF IInv, OwnInv
<1> QED
  BY <1>1, Invariance, PTL

\* A transfer keeps its buffer, also when the wait for it has ended, until the application
\* asks for another transfer.
THEOREM BuffersStayLive == Spec => []TransfersUseLiveBuffers
<1>1. IInv => TransfersUseLiveBuffers
  BY DEF IInv, OwnInv
<1> QED
  BY <1>1, Invariance, PTL

\* The library stores past its buffer only where the caller ignored a short count, and it
\* loses its descriptor, or fills a block that was freed, only where a wait was outlived.
THEOREM FailuresAreCaused == Spec => []FailuresHaveCauses
<1>1. IInv => FailuresHaveCauses
  BY DEF IInv, OwnInv
<1> QED
  BY <1>1, Invariance, PTL
-----------------------------------------------------------------------------
(* The library implements its abstract master. *)

\* What the queued and the received bytes are when the buffers hold what they say.
OutgoingView ==
    IF pc = "writing" /\ semaphore = 1 THEN << >> ELSE QueuedBytes

IncomingView ==
    IF pc = "reading" /\ semaphore = 1 THEN memory[readBuffer]
    ELSE IF readAvailable = 0 THEN << >>
    ELSE SubSeq(memory[readBuffer], readBufferSize - readAvailable + 1, readBufferSize)

\* What the master is mapped to.
MasterOutgoing == IF Lost THEN << >> ELSE Outgoing
MasterIncoming == IF Lost THEN << >> ELSE Incoming

LEMMA Views == Sound => MasterOutgoing = OutgoingView /\ MasterIncoming = IncomingView
<1> SUFFICES ASSUME Sound PROVE MasterOutgoing = OutgoingView /\ MasterIncoming = IncomingView
  OBVIOUS
<1>1. ~Lost
  BY DEF Sound
<1>2. semaphore = 1 => status = "SUCCESS"
  BY SoundFacts
<1>3. writeBuffer # NULL => Contents(writeBuffer, writeAvailable) = memory[writeBuffer]
  BY WriteContents
<1> QED
  BY <1>1, <1>2, <1>3 DEF MasterOutgoing, MasterIncoming, Outgoing, OutgoingView, QueuedBytes,
                          Incoming, IncomingView, Completed

LEMMA NextViews == Sound' => (MasterOutgoing = OutgoingView /\ MasterIncoming = IncomingView)'
BY Views, PTL

MasterStep == [Master!Next]_(Master!vars)

\* A master that has lost its bytes, or loses them, may do anything.
LEMMA LosesStep ==
    ASSUME Lost'
    PROVE  MasterStep
<1>1. Master!Lose
  BY DEF Master!Lose
<1> QED
  BY <1>1 DEF MasterStep, Master!Next

\* A step of the master while nothing is lost.
LEMMA KeepsStep ==
    ASSUME Sound, Sound',
           Master!Queue \/ Master!Read \/ Master!Call \/ Master!Request \/ Master!Transmit
              \/ Master!Receive \/ Master!Return
    PROVE  MasterStep
<1>1. Lost = FALSE /\ Lost' = FALSE
  BY DEF Sound, Lost
<1> QED
  BY <1>1 DEF MasterStep, Master!Next

\* A step that leaves both views, the bus and the waiting as they were is a stutter.
LEMMA SameView ==
    ASSUME Sound, Sound', OutgoingView' = OutgoingView, IncomingView' = IncomingView, UNCHANGED bus,
           (pc' # "ready") = (pc # "ready")
    PROVE  MasterStep
<1>1. Lost = FALSE /\ Lost' = FALSE
  BY DEF Sound, Lost
<1>2. MasterOutgoing' = MasterOutgoing /\ MasterIncoming' = MasterIncoming
  BY Views, NextViews
<1> QED
  BY <1>1, <1>2 DEF MasterStep, Master!vars, MasterOutgoing, MasterIncoming

LEMMA QuietStutters ==
    ASSUME Sound, Sound', Quiet
    PROVE  MasterStep
<1>1. pc = "ready" /\ pc' = "ready" /\ UNCHANGED <<reading, writing, memory, bus>>
  BY DEF Quiet, begin, end, setClock, SlaveCall, beginTransmission, EndsAtOnce,
         EndsWithoutStop, RequestsAfterError, Returns, ReturnsSaying, Calls
<1> QED
  BY <1>1, SameView DEF OutgoingView, QueuedBytes, IncomingView, reading, writing

\* Freeing or filling a block that is not the write buffer keeps the queued bytes.
LEMMA QueuedBytesKept ==
    ASSUME Sound, writeBuffer' = writeBuffer,
           \A c \in Blocks : c = writeBuffer => memory'[c] = memory[c]
    PROVE  QueuedBytes' = QueuedBytes
BY BuffersAreBlocks DEF QueuedBytes

LEMMA TransmitsCalls ==
    ASSUME Sound, Sound', Transmits
    PROVE  MasterStep
<1>1. pc = "ready" /\ pc' = "writing" /\ UNCHANGED <<reading, writing, memory, bus>> /\ semaphore = 0 /\ semaphore' = 0
  BY SoundFacts DEF Transmits, Calls
<1>2. OutgoingView' = OutgoingView /\ IncomingView' = IncomingView
  BY <1>1 DEF OutgoingView, QueuedBytes, IncomingView, reading, writing
<1>3. Master!Call
  BY <1>1, <1>2, Views, NextViews DEF Master!Call, MasterOutgoing, MasterIncoming
<1> QED
  BY <1>3, KeepsStep

\* A call that returns leaves the bytes and the bus as they are.
LEMMA ReturnsStep ==
    ASSUME Sound, Sound', pc # "ready", pc' = "ready", UNCHANGED bus,
           OutgoingView' = OutgoingView, IncomingView' = IncomingView
    PROVE  MasterStep
<1>1. Master!Return
  BY Views, NextViews DEF Master!Return, MasterOutgoing, MasterIncoming
<1> QED
  BY <1>1, KeepsStep

LEMMA TransmittedReturns ==
    ASSUME Sound, Sound', Transmitted
    PROVE  MasterStep
<1>1. pc = "writing" /\ pc' = "ready" /\ semaphore = 1 /\ semaphore' = 0
      /\ writeBuffer' = NULL /\ memory' = Freed(writeBuffer) /\ UNCHANGED <<reading, bus>>
  BY SoundFacts DEF Transmitted, Takes, ReturnsSaying, BufferFreed
<1>2. OutgoingView' = OutgoingView
  BY <1>1 DEF OutgoingView, QueuedBytes
<1>3. readAvailable # 0 => readBuffer \in Blocks /\ readBuffer # writeBuffer
  BY SoundFacts, WireAssumption DEF TypeOK, BufferInv
<1>4. readAvailable # 0 => memory'[readBuffer] = memory[readBuffer]
  BY <1>1, <1>3, FreedMemory, SoundFacts
<1>5. IncomingView' = IncomingView
  BY <1>1, <1>4 DEF IncomingView, reading
<1> QED
  BY <1>1, <1>2, <1>5, ReturnsStep

LEMMA TimedOutReturns ==
    ASSUME Sound, Sound', NotTransmitted \/ NotReceived
    PROVE  MasterStep
<1>1. pc # "ready" /\ pc' = "ready" /\ UNCHANGED <<reading, writing, memory, bus>> /\ semaphore = 0 /\ semaphore' = 0
  BY DEF NotTransmitted, NotReceived, TimesOut, Returns, ReturnsSaying
<1> QED
  BY <1>1, ReturnsStep DEF OutgoingView, QueuedBytes, IncomingView, reading, writing

LEMMA ReceivedReturns ==
    ASSUME Sound, Sound', Received
    PROVE  MasterStep
<1>1. pc = "reading" /\ pc' = "ready" /\ semaphore = 1 /\ readAvailable' = readBufferSize
      /\ UNCHANGED <<readBuffer, readBufferSize, writeBuffer, memory, bus>>
  BY SoundFacts DEF Received, Takes, Returns, ReturnsSaying, writing
<1>2. OutgoingView' = OutgoingView
  BY <1>1 DEF OutgoingView, QueuedBytes
<1>3. readBuffer \in Blocks /\ readBufferSize > 0 /\ Len(memory[readBuffer]) = readBufferSize
      /\ memory[readBuffer] \in Seq(Bytes) /\ readBufferSize \in Nat
  BY <1>1, SoundFacts, BuffersAreBlocks, WireAssumption DEF CallInv, TypeOK
<1>4. IncomingView' = SubSeq(memory[readBuffer], 1, Len(memory[readBuffer]))
  BY <1>1, <1>3 DEF IncomingView
<1>5. IncomingView' = memory[readBuffer]
  BY <1>3, <1>4, SubSeqFull
<1>6. IncomingView' = IncomingView
  BY <1>1, <1>5 DEF IncomingView
<1> QED
  BY <1>1, <1>2, <1>6, ReturnsStep

LEMMA WriteQueues ==
    ASSUME Sound, Sound', write
    PROVE  MasterStep
<1>1. PICK b \in Blocks, bytes \in Seq(Bytes) :
          /\ b # readBuffer /\ Len(bytes) \in 1 .. MaxQuantity
          /\ writeBuffer' = b /\ memory' = [memory EXCEPT ![b] = QueuedBytes \o bytes]
  BY WriteAdds
<1>2. pc = "ready" /\ pc' = "ready" /\ UNCHANGED <<reading, bus>>
  BY DEF write, Calls, Returns, ReturnsSaying
<1>3. memory \in [Blocks -> Seq(Bytes)]
  BY SoundFacts
<1>4. OutgoingView = QueuedBytes /\ OutgoingView' = QueuedBytes \o bytes
  BY <1>1, <1>2, <1>3, WireAssumption DEF OutgoingView, QueuedBytes
<1>5. IncomingView' = IncomingView
  BY <1>1, <1>2, <1>3 DEF IncomingView, reading
<1>6. bytes \in Master!Frames
  BY <1>1, LenProperties DEF Master!Frames
<1>7. Master!Queue
  BY <1>2, <1>4, <1>5, <1>6, Views, NextViews DEF Master!Queue, MasterOutgoing, MasterIncoming
<1> QED
  BY <1>7, KeepsStep

\* A request drops the bytes of the last one and leaves what is queued.
LEMMA RequestsDrop ==
    ASSUME Sound, Sound', requestFrom, ~RequestsAfterError
    PROVE  MasterStep
<1>1. PICK b \in Blocks \cup {NULL} :
          /\ b # NULL => b # writeBuffer
          /\ \A c \in Blocks : c # b => memory'[c] = Freed(readBuffer)[c]
  <2>1. Freed(readBuffer) \in [Blocks -> Seq(Bytes)]
    BY FreedMemory, SoundFacts
  <2>2. ASSUME NEW n \in Quantities, Requests(n)
        PROVE  \E b \in Blocks : b # writeBuffer /\ memory' = [Freed(readBuffer) EXCEPT ![b] = << >>]
    BY <2>2 DEF Requests, NotIn
  <2>3. CASE RequestsWithoutMemory
    BY <2>3 DEF RequestsWithoutMemory
  <2> QED
    BY <2>1, <2>2, <2>3 DEF requestFrom
<1>2. pc = "ready" /\ semaphore' = 0 /\ readAvailable' = 0 /\ UNCHANGED <<writing, bus>>
      /\ pc' # "writing"
  BY SoundFacts DEF requestFrom, Requests, RequestsWithoutMemory, Calls, Returns, ReturnsSaying
<1>3. OutgoingView' = OutgoingView
  <2>1. \A c \in Blocks : c = writeBuffer => memory'[c] = memory[c]
    BY <1>1, FreedMemory, SoundFacts, WireAssumption DEF BufferInv
  <2> QED
    BY <1>2, <2>1, QueuedBytesKept DEF OutgoingView, writing
<1>4. IncomingView' = << >>
  BY <1>2 DEF IncomingView
<1>5. (pc' # "ready") \in BOOLEAN
  OBVIOUS
<1>6. Master!Request
  BY <1>2, <1>3, <1>4, <1>5, Views, NextViews DEF Master!Request, MasterOutgoing, MasterIncoming
<1> QED
  BY <1>6, KeepsStep

LEMMA readTakes ==
    ASSUME Sound, Sound', read
    PROVE  MasterStep
<1>1. pc = "ready" /\ pc' = "ready" /\ readAvailable > 0 /\ readAvailable' = readAvailable - 1
      /\ UNCHANGED <<writing, bus>>
      /\ IF readAvailable = 1 THEN memory' = Freed(readBuffer)
                              ELSE UNCHANGED <<readBuffer, readBufferSize, memory>>
  BY DEF read, Calls, Returns, ReturnsSaying
<1> DEFINE m == memory[readBuffer]
           k == readBufferSize - readAvailable + 1
<1>2. m \in Seq(Bytes) /\ Len(m) = readBufferSize /\ readAvailable \in 1 .. readBufferSize
      /\ readBufferSize \in Nat
  <2>1. readBuffer \in Blocks
    BY <1>1, SoundFacts, WireAssumption DEF TypeOK, BufferInv
  <2> QED
    BY <1>1, <2>1, SoundFacts, WireAssumption DEF TypeOK, BufferInv
<1>3. IncomingView = SubSeq(m, k, readBufferSize)
  BY <1>1, <1>2 DEF IncomingView
<1>4. k \in 1 .. readBufferSize /\ readBufferSize \in k .. Len(m)
  BY <1>2
<1> HIDE DEF m, k
<1>5. Tail(IncomingView) = SubSeq(m, k + 1, readBufferSize)
  BY <1>2, <1>3, <1>4, HeadTailOfSubSeq
<1>6. IncomingView # << >>
  <2>1. \A i \in k .. readBufferSize : m[i] \in Bytes
    BY <1>2, <1>4, LenProperties
  <2>2. Len(IncomingView) = readBufferSize - k + 1
    BY <1>2, <1>3, <1>4, <2>1, SubSeqProperties
  <2> QED
    BY <1>2, <1>4, <2>2, EmptySeq
<1>7. IncomingView' = Tail(IncomingView)
  <2>1. CASE readAvailable = 1
    <3>1. SubSeq(m, k + 1, readBufferSize) = << >>
      BY <1>2, <1>4, <2>1, SubSeqEmpty DEF k
    <3>2. IncomingView' = << >>
      BY <1>1, <2>1 DEF IncomingView
    <3> QED
      BY <1>5, <3>1, <3>2
  <2>2. CASE readAvailable # 1
    <3>1. k + 1 = readBufferSize - (readAvailable - 1) + 1 /\ readAvailable - 1 # 0
      BY <1>2, <2>2 DEF k
    <3> QED
      BY <1>1, <1>5, <2>2, <3>1 DEF IncomingView, m
  <2> QED
    BY <2>1, <2>2
<1>8. OutgoingView' = OutgoingView
  <2>1. \A c \in Blocks : c = writeBuffer => memory'[c] = memory[c]
    BY <1>1, FreedMemory, SoundFacts, WireAssumption DEF BufferInv
  <2> QED
    BY <1>1, <2>1, QueuedBytesKept DEF OutgoingView, writing
<1>9. Master!Read
  BY <1>1, <1>6, <1>7, <1>8, Views, NextViews DEF Master!Read, MasterOutgoing, MasterIncoming
<1> QED
  BY <1>9, KeepsStep

LEMMA CompleteTransfers ==
    ASSUME Sound, Sound', Complete
    PROVE  MasterStep
<1>1. semaphore = 0 /\ semaphore' = 1 /\ UNCHANGED <<pc, readBuffer, readBufferSize, readAvailable, writeBuffer>>
  BY CompletesOwn DEF Complete, reading, writing
<1>2. CASE pc = "writing"
  <2>1. writeBuffer \in Blocks /\ writeBuffer # NULL /\ Len(memory[writeBuffer]) > 0
        /\ Contents(writeBuffer, writeAvailable) = memory[writeBuffer]
    BY <1>2, BuffersAreBlocks, WriteContents, SoundFacts, WireAssumption DEF CallInv, BufferInv
  <2>2. memory' = memory
        /\ \/ bus' = [turn |-> 1 - bus.turn, kind |-> "write", bytes |-> memory[writeBuffer]]
           \/ UNCHANGED bus
    BY <1>2, <2>1, CompletesOwn
  <2>3. OutgoingView = memory[writeBuffer] /\ OutgoingView' = << >> /\ OutgoingView # << >>
    BY <1>1, <1>2, <2>1, EmptySeq DEF OutgoingView, QueuedBytes
  <2>4. IncomingView' = IncomingView
    BY <1>1, <1>2, <2>2 DEF IncomingView
  <2>5. Master!Transmit
    BY <1>1, <1>2, <2>2, <2>3, <2>4, Views, NextViews
       DEF Master!Transmit, Master!Transfer, MasterOutgoing, MasterIncoming
  <2> QED
    BY <2>5, KeepsStep
<1>3. CASE pc = "reading"
  <2>1. PICK frame \in [1 .. readBufferSize -> Bytes] :
            /\ memory' = [memory EXCEPT ![readBuffer] = frame]
            /\ \/ bus' = [turn |-> 1 - bus.turn, kind |-> "read", bytes |-> frame]
               \/ UNCHANGED bus
    BY <1>3, CompletesOwn
  <2>2. readBuffer \in Blocks /\ readBuffer # writeBuffer /\ readAvailable = 0
        /\ memory \in [Blocks -> Seq(Bytes)] /\ readBufferSize \in 1 .. MaxQuantity
    BY <1>3, BuffersAreBlocks, SoundFacts, WireAssumption DEF CallInv, BufferInv, TypeOK
  <2>3. frame \in Master!Frames
    BY <2>2 DEF Master!Frames
  <2>4. OutgoingView' = OutgoingView
    <3>1. \A c \in Blocks : c = writeBuffer => memory'[c] = memory[c]
      BY <2>1, <2>2
    <3> QED
      BY <1>1, <1>3, <3>1, QueuedBytesKept DEF OutgoingView
  <2>5. IncomingView = << >> /\ IncomingView' = frame
    BY <1>1, <1>3, <2>1, <2>2 DEF IncomingView
  <2>6. Master!Receive
    BY <1>1, <1>3, <2>1, <2>3, <2>4, <2>5, Views, NextViews
       DEF Master!Receive, Master!Transfer, MasterOutgoing, MasterIncoming
  <2> QED
    BY <2>6, KeepsStep
<1> QED
  BY <1>2, <1>3, CompletesOwn

LEMMA StepImplements ==
    ASSUME IInv, IInv', [Next]_vars
    PROVE  MasterStep
<1>1. CASE Lost'
  BY <1>1, LosesStep
<1>2. CASE ~Lost'
  <2>1. Sound /\ Sound'
    BY <1>2, LostStays DEF IInv, Sound
  <2>2. ~Failure
    BY <1>2 DEF Failure, WriteOverruns, WriteWithoutMemory, CompletesForNobody, FillsFreedBlock, Fails,
                Lost, Undefined
  <2>3. CASE Stopped \/ UNCHANGED vars
    <3>1. UNCHANGED <<reading, writing, memory, bus, pc, semaphore>>
      BY <2>3 DEF Stopped, vars
    <3> QED
      BY <2>1, <3>1, SameView DEF OutgoingView, QueuedBytes, IncomingView, reading, writing
  <2>4. CASE requestFrom /\ ~RequestsAfterError
    BY <2>1, <2>4, RequestsDrop
  <2>5. CASE Quiet \/ Transmits \/ Transmitted \/ NotTransmitted \/ Received \/ NotReceived
    BY <2>1, <2>5, QuietStutters, TransmitsCalls, TransmittedReturns, TimedOutReturns, ReceivedReturns
  <2>6. CASE write \/ read \/ Complete
    BY <2>1, <2>6, WriteQueues, readTakes, CompleteTransfers
  <2> QED
    BY <2>2, <2>3, <2>4, <2>5, <2>6 DEF Next, Quiet, Failure
<1> QED
  BY <1>1, <1>2

\* The library keeps its promise: what write() queues goes out whole, once, in order and
\* during a call, and what a device sends is handed out in order, for every interleaving of
\* the calls with the interrupt, whichever transfers and allocations fail, until the first
\* transfer that outlives its wait or the first failure.
THEOREM Implements == Spec => MasterSpec
<1>1. Init => Master!Init
  BY DEF Init, Master!Init, Outgoing, Incoming, Lost, Undefined
<1>2. IInv /\ IInv' /\ [Next]_vars => [Master!Next]_(Master!vars)
  BY StepImplements DEF MasterStep
<1> QED
  BY <1>1, <1>2, Invariance, PTL DEF Spec, MasterSpec, Master!Spec
=============================================================================
