-------------------------------- MODULE Wire --------------------------------
(***************************************************************************)
(* The Arduino Wire library on the Common IO I2C layer (Wire.cpp and       *)
(* iot_i2c.c), one task calling it, over the I2C driver of the vendor,     *)
(* which is not in the repository and is modelled from how iot_i2c.c uses  *)
(* it and from its header.                                                 *)
(*                                                                         *)
(* A call that transfers hands the one transaction structure to the driver *)
(* and waits up to a second on a binary semaphore, which the completion    *)
(* interrupt gives.  Such a call is two actions, and the interrupt may     *)
(* come before, between or after them: the wait may end before the         *)
(* transfer does.  Buffers are blocks of the heap.                         *)
(*                                                                         *)
(* Where the code leaves what C defines, by storing past a buffer or       *)
(* through NULL, the model stops in a place named for what happened:       *)
(* nothing is known of the program afterwards.                             *)
(***************************************************************************)
EXTENDS Integers, Sequences, FiniteSets

CONSTANTS Bytes,
          Blocks,          \* blocks the heap may hand out
          NULL,
          BUFFER_LENGTH,   \* of the write buffer (32 in Wire.h)
          MaxQuantity,     \* bound: bytes in one write or request
          QueueBound       \* bound: transfers waiting in the driver

ASSUME WireAssumption ==
    /\ NULL \notin Blocks /\ Cardinality(Blocks) >= 2
    /\ BUFFER_LENGTH \in Nat \ {0} /\ MaxQuantity \in Nat \ {0} /\ QueueBound \in Nat

VARIABLES
    error,                        \* transactionContext, from here ...
    readBuffer, readBufferSize, readAvailable,
    writeBuffer, writeAvailable,
    semaphore,                    \* ... to here
    handle, openCalled,           \* of the descriptor: handle # NULL
    transaction,                  \* its I2C_Transaction
    driver,                       \* the driver: open, transfers, refusals
    memory,                       \* what each block holds
    bus,                          \* the last transfer the device saw
    pc,                           \* where the calling task is
    status,                       \* local: what the transfer call returned
    ended,                        \* the last call was endTransmission(1), and returned 0
    told,                         \* history: the last write() into the buffer was told a short count,
    outlived,                     \*   some wait ended with a transfer in progress,
    stale                         \*   and the last transfer call began with one, or with a count

reading    == <<readBuffer, readBufferSize, readAvailable>>
writing    == <<writeBuffer, writeAvailable>>
descriptor == <<handle, openCalled, transaction>>
history    == <<told, outlived, stale>>
vars == <<error, reading, writing, semaphore, descriptor, driver, memory, bus, pc, status, ended, history>>

Errors     == {"SUCCESS", "BUS_TIMEOUT", "FUNCTION_NOT_SUPPORTED"}
Quantities == 1 .. MaxQuantity
Frames     == UNION {[1 .. n -> Bytes] : n \in Quantities}
NoTransfer == [dir |-> "none", buffer |-> NULL, count |-> 0]
Undefined  == {"overrun", "noMemory", "noDescriptor", "freedBlock"}

Init ==
    /\ error = "SUCCESS"
    /\ readBuffer = NULL /\ readBufferSize = 0 /\ readAvailable = 0
    /\ writeBuffer = NULL /\ writeAvailable = 0
    /\ semaphore = 0
    /\ handle = FALSE /\ openCalled = FALSE
    /\ transaction = [addressed |-> FALSE, transfer |-> NoTransfer]
    /\ driver = [open |-> FALSE, current |-> NoTransfer, waiting |-> 0, refused |-> FALSE]
    /\ memory = [b \in Blocks |-> << >>]
    /\ bus = [turn |-> 0, kind |-> "none", bytes |-> << >>]
    /\ pc = "ready" /\ status = "SUCCESS"
    /\ ended = FALSE /\ told = FALSE /\ outlived = FALSE /\ stale = FALSE
-----------------------------------------------------------------------------
(* The driver, the heap and the wait for a transfer. *)

\* What pvPortMalloc may return; what it holds has no meaning.
NotIn(kept) == Blocks \ kept

Freed(b) == IF b = NULL THEN memory ELSE [memory EXCEPT ![b] = << >>]

Contents(b, n) == SubSeq(memory[b], 1, IF n < Len(memory[b]) THEN n ELSE Len(memory[b]))

\* I2C_open: a driver that is open refuses to open again.
I2C_open ==
    IF driver.open
    THEN driver' = [driver EXCEPT !.refused = TRUE] /\ UNCHANGED handle
    ELSE driver' = [driver EXCEPT !.open = TRUE] /\ handle' = TRUE

\* iot_i2c_ioctl(eI2CSetMasterConfig): open the driver unless its handle is known.
SetMasterConfig == IF handle THEN UNCHANGED <<handle, driver>> ELSE I2C_open

\* I2C_transfer: start the transfer, or let it wait behind the one in progress;
\* the driver keeps the address of the structure, and copies it when it starts.
I2C_transfer(t) ==
    IF driver.current = NoTransfer
    THEN driver' = [driver EXCEPT !.current = t]
    ELSE driver.waiting < QueueBound /\ driver' = [driver EXCEPT !.waiting = @ + 1]

CanTransfer(addressed) == handle /\ addressed

\* iot_i2c_read_async and iot_i2c_write_async.
Start(dir, b, n, addressed) ==
    LET t == [dir |-> dir, buffer |-> b, count |-> n]
    IN  IF CanTransfer(addressed)
        THEN /\ transaction' = [addressed |-> TRUE, transfer |-> t]
             /\ I2C_transfer(t)
             /\ status' = "SUCCESS"
        ELSE /\ transaction' = [transaction EXCEPT !.addressed = addressed]
             /\ status' = "FAILED"
             /\ UNCHANGED driver

\* Mutant: the count stays in the semaphore.
Sees == semaphore = 1 /\ UNCHANGED <<semaphore, outlived>>

\* xSemaphoreTake with a second to wait, which a transfer may outlive.
Takes == semaphore = 1 /\ semaphore' = 0 /\ UNCHANGED outlived
TimesOut ==
    /\ semaphore = 0 /\ UNCHANGED semaphore
    /\ outlived' = (outlived \/ driver.current # NoTransfer)

\* A transfer call begins: the driver may be at work, or the semaphore given.
Begins == stale' = (driver.current # NoTransfer \/ semaphore = 1)

\* The block a transfer reads into is still the read buffer, and long enough.
ReadsIntoBuffer(t) == t.dir = "read" => t.buffer = readBuffer /\ t.count <= readBufferSize

\* The completion interrupt: I2C_CallbackInternal, which does not look at
\* transferStatus, and Wire_CallbackInternal.  A device that does not acknowledge
\* leaves in the block what was there.
Complete ==
    LET t == driver.current IN
    /\ pc \notin Undefined /\ t # NoTransfer /\ handle /\ ReadsIntoBuffer(t)
    /\ \/ /\ t.dir = "write"
          /\ \/ bus' = [turn |-> 1 - bus.turn, kind |-> "write", bytes |-> Contents(t.buffer, t.count)]
             \/ UNCHANGED bus
          /\ UNCHANGED memory
       \/ /\ t.dir = "read"
          /\ \E frame \in [1 .. t.count -> Bytes] :
                /\ memory' = [memory EXCEPT ![t.buffer] = frame]
                /\ \/ bus' = [turn |-> 1 - bus.turn, kind |-> "read", bytes |-> frame]
                   \/ UNCHANGED bus
    /\ driver' = IF driver.waiting = 0
                 THEN [driver EXCEPT !.current = NoTransfer]
                 ELSE [driver EXCEPT !.current = transaction.transfer, !.waiting = @ - 1]
    /\ semaphore' = 1
    /\ UNCHANGED <<error, reading, writing, descriptor, pc, status, ended, history>>

\* The program goes where nothing is known of it.
Fails(place) ==
    /\ pc' = place
    /\ UNCHANGED <<error, reading, writing, semaphore, descriptor, driver, memory, bus, status, ended, history>>

\* The interrupt finds no descriptor with the driver's handle, which begin() has
\* forgotten, and writes through NULL.
CompletesForNobody ==
    /\ pc \notin Undefined /\ driver.current # NoTransfer /\ ~handle
    /\ Fails("noDescriptor")

\* The driver has filled a block that was freed, or is now another's.
FillsFreedBlock ==
    /\ pc \notin Undefined /\ ~ReadsIntoBuffer(driver.current)
    /\ Fails("freedBlock")
-----------------------------------------------------------------------------
(* The calls.  An application calls begin() first, and nothing but begin() *)
(* after end().                                                            *)

Calls == pc = "ready" /\ openCalled

ReturnsSaying(done) == pc' = "ready" /\ status' = "SUCCESS" /\ ended' = done

Returns == ReturnsSaying(FALSE)

\* begin(), which each of several sensors may call: iot_i2c_open forgets the handle
\* of the driver; the semaphore is new.
begin ==
    /\ pc = "ready"
    /\ handle' = FALSE /\ openCalled' = TRUE
    /\ semaphore' = 0
    /\ Returns
    /\ UNCHANGED <<error, reading, writing, transaction, driver, memory, bus, history>>

\* end(): iot_i2c_close closes the driver and clears the descriptor.
end ==
    /\ Calls
    /\ driver' = IF handle THEN [driver EXCEPT !.open = FALSE, !.current = NoTransfer, !.waiting = 0]
                           ELSE driver
    /\ handle' = FALSE /\ openCalled' = FALSE
    /\ transaction' = [addressed |-> FALSE, transfer |-> NoTransfer]
    /\ Returns
    /\ UNCHANGED <<error, reading, writing, semaphore, memory, bus, history>>

setClock ==
    /\ Calls
    /\ SetMasterConfig
    /\ error' = "SUCCESS"
    /\ Returns
    /\ UNCHANGED <<reading, writing, semaphore, openCalled, transaction, memory, bus, history>>

\* begin(slaveAddr), onReceive, onRequest: being a slave is not supported.
SlaveCall ==
    /\ Calls
    /\ error' = "FUNCTION_NOT_SUPPORTED"
    /\ Returns
    /\ UNCHANGED <<reading, writing, semaphore, descriptor, driver, memory, bus, history>>

beginTransmission ==
    /\ Calls
    /\ IF error = "SUCCESS"
       THEN transaction' = [transaction EXCEPT !.addressed = TRUE] /\ SetMasterConfig
       ELSE UNCHANGED <<transaction, handle, driver>>
    /\ Returns
    /\ UNCHANGED <<error, reading, writing, semaphore, openCalled, memory, bus, history>>

\* Mutant: write() returns how many bytes it stored.
CountStored(frame, room) == IF Len(frame) < room THEN Len(frame) ELSE room

\* What write() returns: where it fills the buffer, the index of the last byte stored.
Count(frame, room) == IF Len(frame) < room THEN Len(frame) ELSE room - 1

\* The bytes of frame that are stored where there is room for so many.
Stored(frame, room) == SubSeq(frame, 1, IF Len(frame) < room THEN Len(frame) ELSE room)

\* The bytes queued: a buffer that write() allocates has none.
Queued == IF writeBuffer = NULL THEN 0 ELSE writeAvailable

write ==
    /\ Calls /\ error = "SUCCESS" /\ Queued < BUFFER_LENGTH
    /\ \E frame \in Frames, b \in IF writeBuffer = NULL THEN NotIn({readBuffer}) ELSE {writeBuffer} :
          LET room   == BUFFER_LENGTH - Queued
              stored == Stored(frame, room)
          IN  /\ writeBuffer' = b
              /\ writeAvailable' = Queued + Len(stored)
              /\ memory' = [memory EXCEPT ![b] = Contents(b, Queued) \o stored]
              /\ told' = (Count(frame, room) < Len(frame))
    /\ Returns
    /\ UNCHANGED <<error, reading, semaphore, descriptor, driver, bus, outlived, stale>>

\* write() to a buffer that is full: the first byte is stored before the size is
\* looked at, past the end.
WriteOverruns ==
    /\ Calls /\ error = "SUCCESS" /\ Queued >= BUFFER_LENGTH
    /\ Fails("overrun")

\* write() where the heap is exhausted: the byte is stored through NULL.
WriteWithoutMemory ==
    /\ Calls /\ error = "SUCCESS" /\ writeBuffer = NULL
    /\ Fails("noMemory")
-----------------------------------------------------------------------------
(* endTransmission *)

\* endTransmission(1) with bytes to send, up to the wait.
Transmits ==
    /\ Calls /\ error = "SUCCESS" /\ writeAvailable > 0 /\ writeBuffer # NULL
    /\ Begins /\ Start("write", writeBuffer, writeAvailable, transaction.addressed)
    /\ pc' = "writing" /\ ended' = FALSE
    /\ UNCHANGED <<error, reading, writing, semaphore, handle, openCalled, memory, bus, told, outlived>>

\* endTransmission(1) with nothing to send, or after an error.
EndsAtOnce ==
    /\ Calls /\ (error # "SUCCESS" \/ writeAvailable = 0 \/ writeBuffer = NULL)
    /\ error' = "SUCCESS"
    /\ ReturnsSaying(TRUE)
    /\ UNCHANGED <<reading, writing, semaphore, descriptor, driver, memory, bus, history>>

\* endTransmission(0) keeps what is queued.
EndsWithoutStop ==
    /\ Calls
    /\ error' = "SUCCESS"
    /\ Returns
    /\ UNCHANGED <<reading, writing, semaphore, descriptor, driver, memory, bus, history>>

\* Mutant: what was sent stays queued.
BufferKept == UNCHANGED <<writing, memory, told>>

BufferFreed == writeBuffer' = NULL /\ writeAvailable' = 0 /\ told' = FALSE /\ memory' = Freed(writeBuffer)

\* The wait of endTransmission is over.
Transmitted ==
    /\ pc = "writing" /\ Takes
    /\ IF status = "SUCCESS"
       THEN BufferFreed /\ error' = "SUCCESS"
       ELSE UNCHANGED <<writing, memory, error, told>>
    /\ ReturnsSaying(status = "SUCCESS")
    /\ UNCHANGED <<reading, descriptor, driver, bus, stale>>

NotTransmitted ==
    /\ pc = "writing" /\ TimesOut
    /\ error' = "BUS_TIMEOUT"
    /\ Returns
    /\ UNCHANGED <<reading, writing, descriptor, driver, memory, bus, told, stale>>
-----------------------------------------------------------------------------
(* requestFrom, read *)

\* requestFrom, up to the wait: the buffer of the last request is freed.
Requests(n) ==
    /\ Calls /\ error = "SUCCESS"
    /\ \E b \in NotIn({writeBuffer}) :
          /\ readBuffer' = b /\ memory' = [Freed(readBuffer) EXCEPT ![b] = << >>]
          /\ Start("read", b, n, TRUE)
    /\ Begins /\ readBufferSize' = n /\ readAvailable' = 0
    /\ pc' = "reading" /\ ended' = FALSE
    /\ UNCHANGED <<error, writing, semaphore, handle, openCalled, bus, told, outlived>>

\* requestFrom where the heap is exhausted.
RequestsWithoutMemory ==
    /\ Calls /\ error = "SUCCESS" /\ Begins
    /\ readBuffer' = NULL /\ readBufferSize' = 0 /\ readAvailable' = 0
    /\ memory' = Freed(readBuffer)
    /\ transaction' = [transaction EXCEPT !.addressed = TRUE]
    /\ Returns
    /\ UNCHANGED <<error, writing, semaphore, handle, openCalled, driver, bus, told, outlived>>

RequestsAfterError ==
    /\ Calls /\ error # "SUCCESS"
    /\ transaction' = [transaction EXCEPT !.addressed = TRUE]
    /\ Returns
    /\ UNCHANGED <<error, reading, writing, semaphore, handle, openCalled, driver, memory, bus, history>>

requestFrom == (\E n \in Quantities : Requests(n)) \/ RequestsWithoutMemory \/ RequestsAfterError

Received ==
    /\ pc = "reading" /\ Takes
    /\ readAvailable' = IF status = "SUCCESS" THEN readBufferSize ELSE readAvailable
    /\ Returns
    /\ UNCHANGED <<error, readBuffer, readBufferSize, writing, descriptor, driver, memory, bus, told, stale>>

\* Mutant: a request that timed out frees its buffer.
BufferReturned ==
    /\ pc = "reading" /\ TimesOut
    /\ readBuffer' = NULL /\ readBufferSize' = 0 /\ memory' = Freed(readBuffer)
    /\ Returns
    /\ UNCHANGED <<error, readAvailable, writing, descriptor, driver, bus, told, stale>>

NotReceived ==
    /\ pc = "reading" /\ TimesOut
    /\ Returns
    /\ UNCHANGED <<error, reading, writing, descriptor, driver, memory, bus, told, stale>>

\* read(): the byte goes, and with the last one the buffer.
read ==
    /\ Calls /\ error = "SUCCESS" /\ readAvailable > 0
    /\ readAvailable' = readAvailable - 1
    /\ IF readAvailable = 1
       THEN readBuffer' = NULL /\ readBufferSize' = 0 /\ memory' = Freed(readBuffer)
       ELSE UNCHANGED <<readBuffer, readBufferSize, memory>>
    /\ Returns
    /\ UNCHANGED <<error, writing, semaphore, descriptor, driver, bus, history>>

\* Nothing is known any more.
Stopped == pc \in Undefined /\ UNCHANGED vars

Next ==
    \/ begin \/ end \/ setClock \/ SlaveCall
    \/ beginTransmission \/ write \/ WriteOverruns \/ WriteWithoutMemory
    \/ EndsAtOnce \/ EndsWithoutStop \/ Transmits \/ Transmitted \/ NotTransmitted
    \/ requestFrom \/ Received \/ NotReceived \/ read
    \/ Complete \/ CompletesForNobody \/ FillsFreedBlock \/ Stopped

Spec == Init /\ [][Next]_vars
-----------------------------------------------------------------------------
(* Properties. *)

TypeOK ==
    /\ error \in Errors
    /\ readBuffer \in Blocks \cup {NULL} /\ writeBuffer \in Blocks \cup {NULL}
    /\ readBufferSize \in 0 .. MaxQuantity /\ readAvailable \in 0 .. readBufferSize
    /\ writeAvailable \in 0 .. BUFFER_LENGTH
    /\ semaphore \in 0 .. 1
    /\ handle \in BOOLEAN /\ openCalled \in BOOLEAN
    /\ driver.waiting \in 0 .. QueueBound
    /\ pc \in {"ready", "writing", "reading"} \cup Undefined /\ status \in {"SUCCESS", "FAILED"}

\* The library stores past its write buffer only for a caller that a short count
\* had told of the full buffer, and it fills a block that was freed, or loses its
\* descriptor, only after a transfer that outlived the second it was waited for.
FailuresHaveCauses ==
    /\ pc = "overrun" => told
    /\ pc \in {"noDescriptor", "freedBlock"} => outlived

\* A transfer the driver works on reads or fills a buffer that is still allocated,
\* Wire's own for that direction, also after the wait for it has ended: no call
\* but the next transfer takes the buffer of a transfer away.
TransfersUseLiveBuffers ==
    LET t == driver.current
    IN  /\ t.dir = "read"  /\ ~stale => t.buffer = readBuffer /\ t.count = readBufferSize
        /\ t.dir = "write" /\ ~stale => t.buffer = writeBuffer /\ t.count <= writeAvailable

\* A call that has returned leaves no transfer behind and no count in the
\* semaphore, unless a transfer has outlived its wait; and even then a call that
\* began with neither takes only the completion of its own transfer.
NothingLeftOver ==
    /\ pc = "ready" /\ ~outlived => driver.current = NoTransfer /\ semaphore = 0
    /\ pc \in {"reading", "writing"} /\ ~stale =>
          /\ driver.waiting = 0
          /\ semaphore = 1 => driver.current = NoTransfer
          /\ semaphore = 1 \/ driver.current # NoTransfer => status = "SUCCESS"
          /\ driver.current # NoTransfer => driver.current.dir = IF pc = "reading" THEN "read" ELSE "write"

Completed == semaphore = 1 /\ status = "SUCCESS"

\* The bytes queued and not sent, and the bytes received and not read.
Outgoing ==
    IF writeBuffer = NULL \/ (pc = "writing" /\ Completed) THEN << >>
    ELSE Contents(writeBuffer, writeAvailable)
Incoming ==
    IF pc = "reading" /\ Completed THEN memory[readBuffer]
    ELSE IF readAvailable = 0 THEN << >>
    ELSE SubSeq(memory[readBuffer], readBufferSize - readAvailable + 1, readBufferSize)

\* From here on the library promises nothing of the bytes.
Lost == outlived \/ pc \in Undefined

\* The library is a master that sends what is queued whole, once and in order,
\* and hands out what the device sent, whatever the order of calls, interrupts
\* and failed transfers, until a transfer outlives its wait or the program fails.
Master == INSTANCE I2CMaster WITH
    outgoing <- IF Lost THEN << >> ELSE Outgoing,
    incoming <- IF Lost THEN << >> ELSE Incoming,
    busy     <- pc # "ready",
    lost     <- Lost
MasterSpec == Master!Spec

\* Wire.cpp, before endTransmission: "Ends a transmission to a slave device that
\* was begun by beginTransmission() and transmits the bytes that were queued by
\* write()."  When it reports success, none of them is left.
EndTransmits == ended /\ CanTransfer(transaction.addressed) => Outgoing = << >>

\* iot_i2c.c, in the ioctl: "Cannot call open if already called open before, this
\* checks for that".
OpensOnce == ~driver.refused
=============================================================================
