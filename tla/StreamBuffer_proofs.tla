-------------------------- MODULE StreamBuffer_proofs --------------------------
(***************************************************************************)
(* What StreamBuffer promises for every size of the buffer: its types,     *)
(* that no task is left waiting for what is there, that a length that is   *)
(* put back leaves the messages as they were, and that the buffer is a     *)
(* Channel: what is received is what was sent.                             *)
(***************************************************************************)
EXTENDS StreamBuffer, SequenceTheorems, WellFoundedInduction, TLAPS

(* The inductive invariant. *)

\* The cells that are read next, of which the first prvBytesInBuffer are written.
View == [i \in 0..BufferSize - 1 |-> pucBuffer[(xTail + i) % xLength]]

\* b cells c that begin with the last s bytes of a message and then hold whole
\* messages; if open, a length without its bytes comes last.
Framed(b, c, s, open) ==
    /\ s <= b /\ \A i \in 0..s - 1 : c[i] \in Bytes
    /\ s < b => c[s] \in 1..MaxLength
    /\ \A i \in s..b - 1 :
          \/ c[i] \in Bytes
          \/ c[i] \in 1..MaxLength /\ open /\ i = b - 1
          \/ /\ c[i] \in 1..MaxLength /\ i + c[i] < b
             /\ \A j \in 1..c[i] : c[i + j] \in Bytes
             /\ i + c[i] + 1 < b => c[i + c[i] + 1] \in 1..MaxLength
    /\ open => s < b /\ c[b - 1] \in 1..MaxLength

PutsBack == pc["reader"] \in {"putBack", "peeked"}

\* The bytes that are left of the message whose length is taken out.
Taken == IF setting.message /\ (PutsBack \/ pc["reader"] = "read") THEN xNextMessageLength ELSE 0

CellsInOrder ==
    IF setting.message
    THEN /\ Framed(prvBytesInBuffer, View, Taken, pc["writer"] = "data")
         /\ pc["writer"] = "data" => View[prvBytesInBuffer - 1] = Len(pvTxData)
    ELSE \A i \in 0..prvBytesInBuffer - 1 : View[i] \in Bytes

\* The cell a length may be put back to.
Held == IF PutsBack THEN 1 ELSE 0

WriterInOrder ==
    /\ IF InCall("writer") THEN pvTxData \in Frames ELSE xSpace = 0
    /\ pc["writer"] = "data" => setting.message /\ Len(pvTxData) + Held <= xStreamBufferSpacesAvailable
    /\ pc["writer"] \notin {"data", "sent", "notify"} => xSpace + Held <= xStreamBufferSpacesAvailable
    /\ pc["writer"] \notin {"length", "putBack", "peeked", "read", "received"}

ReaderInOrder ==
    /\ pc["reader"] \notin {"timeOut", "write", "data", "sent", "notify"}
    /\ pc["reader"] \in {"length", "putBack", "peeked"} => setting.message
    /\ PutsBack => /\ ~WriterComesBetween /\ prvBytesInBuffer < BufferSize
                   /\ pucBuffer[(xTail - 1) % xLength] = xNextMessageLength
                   /\ xNextMessageLength \in 1..MaxLength
    /\ pc["reader"] = "length" => /\ 1 < xBytesAvailable /\ View[0] < xBytesAvailable
                                  /\ xBytesAvailable <= prvBytesInBuffer
    /\ pc["reader"] = "read" => /\ xBytesAvailable <= prvBytesInBuffer
                                /\ setting.message => xNextMessageLength \in 1..xBytesAvailable
    /\ setting.message /\ WriterComesBetween /\ pc["reader"] \notin {"idle", "peeked"}
          => xBufferLengthBytes = MaxLength

\* The waiting of one task.
Flag(t) == IF t = "reader" THEN xTaskWaitingToReceive ELSE xTaskWaitingToSend

WaitsInOrder ==
    /\ \A t \in Tasks :
          /\ setting.context[t] = "isr" => pc[t] = "idle"
          /\ Flag(t) => pc[t] \in {"wait", "waited", "forget"}
          /\ pc[t] = "wait" => Flag(t) \/ ucNotifyState[t] = "received"
          /\ t \in blocked => /\ setting.context[t] = "task" /\ pc[t] = "waited"
                              /\ ucNotifyState[t] = "waiting" /\ Flag(t)
    /\ setting.message => xTriggerLevelBytes = 1
    /\ xTriggerLevelBytes \in {1} \cup TriggerLevels

WakesReader ==
    pc["reader"] \in {"wait", "waited"} /\ xTaskWaitingToReceive
          /\ prvBytesInBuffer >= xTriggerLevelBytes
       => pc["writer"] \in {"data", "sent", "notify"}

WakesWriter ==
    pc["writer"] \in {"wait", "waited"} /\ xTaskWaitingToSend
          /\ xStreamBufferSpacesAvailable >= xRequiredSpace
       => /\ pc["reader"] \in {"putBack", "peeked", "read", "received"}
          /\ PutsBack => xStreamBufferSpacesAvailable = xRequiredSpace

Inv == /\ TypeOK /\ CellsInOrder /\ WriterInOrder /\ ReaderInOrder
       /\ WaitsInOrder /\ WakesReader /\ WakesWriter
-----------------------------------------------------------------------------
(* The ring. *)

\* Bytes and spaces share what the buffer was created with.
LEMMA Counts ==
    ASSUME xHead \in Cells, xTail \in Cells
    PROVE  /\ prvBytesInBuffer \in 0..BufferSize
           /\ prvBytesInBuffer = IF xHead < xTail THEN xLength + xHead - xTail ELSE xHead - xTail
           /\ xStreamBufferSpacesAvailable = BufferSize - prvBytesInBuffer
<1>1. xLength \in Nat /\ xLength = BufferSize + 1 /\ BufferSize \in Nat \ {0}
  BY StreamAssumption DEF xLength
<1>2. xHead \in 0..xLength - 1 /\ xTail \in 0..xLength - 1
  BY DEF Cells
<1>3. prvBytesInBuffer = IF xHead < xTail THEN xLength + xHead - xTail ELSE xHead - xTail
  BY <1>1, <1>2 DEF prvBytesInBuffer
<1>4. xStreamBufferSpacesAvailable = BufferSize - prvBytesInBuffer
  BY <1>1, <1>2, <1>3 DEF xStreamBufferSpacesAvailable
<1> QED BY <1>1, <1>2, <1>3, <1>4

\* n cells are written behind the last.
LEMMA WriteCells ==
    ASSUME xHead \in Cells, xTail \in Cells, NEW cells, prvWriteBytesToBuffer(cells),
           Len(cells) \in 0..xStreamBufferSpacesAvailable
    PROVE  /\ xHead' \in Cells /\ xTail' \in Cells
           /\ prvBytesInBuffer' = prvBytesInBuffer + Len(cells)
           /\ xStreamBufferSpacesAvailable' = xStreamBufferSpacesAvailable - Len(cells)
           /\ \A i \in 0..BufferSize - 1 :
                 View'[i] = IF prvBytesInBuffer <= i /\ i < prvBytesInBuffer + Len(cells)
                            THEN cells[i - prvBytesInBuffer + 1] ELSE View[i]
           /\ \A c \in Cells : \/ pucBuffer'[c] = pucBuffer[c]
                               \/ \E i \in 1..Len(cells) : pucBuffer'[c] = cells[i]
<1> DEFINE n == Len(cells)
           b == prvBytesInBuffer
<1>1. xLength \in Nat /\ xLength = BufferSize + 1 /\ BufferSize \in Nat \ {0}
  BY StreamAssumption DEF xLength
<1>2. xHead \in 0..xLength - 1 /\ xTail \in 0..xLength - 1
  BY DEF Cells
<1>3. b \in 0..BufferSize /\ b = (IF xHead < xTail THEN xLength + xHead - xTail ELSE xHead - xTail)
      /\ n \in 0..BufferSize - b
  BY <1>1, <1>2, Counts
<1> HIDE DEF n, b
<1>4. /\ xHead' = (IF xHead + n < xLength THEN xHead + n ELSE xHead + n - xLength)
      /\ xTail' = xTail
  <2>1. xHead' = (xHead + n) % xLength /\ xTail' = xTail
    BY DEF prvWriteBytesToBuffer, n
  <2> QED BY <1>1, <1>2, <1>3, <2>1
<1>5. xHead' \in Cells /\ xTail' \in Cells
  BY <1>1, <1>2, <1>3, <1>4 DEF Cells
<1>6. prvBytesInBuffer' = b + n
  <2>1. prvBytesInBuffer' = (xLength + xHead' - xTail') % xLength
    BY DEF prvBytesInBuffer, xLength
  <2> QED BY <1>1, <1>2, <1>3, <1>4, <2>1
<1>7. xStreamBufferSpacesAvailable' = xStreamBufferSpacesAvailable - n
  <2>1. xStreamBufferSpacesAvailable' = (xLength + xTail' - xHead' - 1) % xLength
    BY DEF xStreamBufferSpacesAvailable, xLength
  <2>2. xStreamBufferSpacesAvailable = BufferSize - b
    BY Counts DEF b
  <2> QED BY <1>1, <1>2, <1>3, <1>4, <2>1, <2>2
<1>8. ASSUME NEW i \in 0..BufferSize - 1
      PROVE  View'[i] = IF b <= i /\ i < b + n THEN cells[i - b + 1] ELSE View[i]
  <2> DEFINE c == (xTail + i) % xLength
  <2>1. c \in Cells /\ c = (IF xTail + i < xLength THEN xTail + i ELSE xTail + i - xLength)
    BY <1>1, <1>2 DEF Cells
  <2>2. View[i] = pucBuffer[c] /\ View'[i] = pucBuffer'[c]
    BY <1>4 DEF View, xLength
  <2> HIDE DEF c
  <2>3. (c - xHead) % xLength = IF b <= i THEN i - b ELSE i + xLength - b
    BY <1>1, <1>2, <1>3, <2>1
  <2>4. pucBuffer'[c] = LET k == (c - xHead) % xLength
                        IN  IF k < n THEN cells[k + 1] ELSE pucBuffer[c]
    BY <2>1 DEF prvWriteBytesToBuffer, n
  <2>5. CASE b <= i
    <3>1. View'[i] = IF i - b < n THEN cells[i - b + 1] ELSE View[i]
      BY <2>2, <2>3, <2>4, <2>5
    <3>2. i - b < n <=> i < b + n
      BY <1>1, <1>3
    <3> QED BY <2>5, <3>1, <3>2
  <2>6. CASE ~(b <= i)
    <3>1. View'[i] = IF i + xLength - b < n THEN cells[i + xLength - b + 1] ELSE View[i]
      BY <2>2, <2>3, <2>4, <2>6
    <3>2. ~(i + xLength - b < n)
      BY <1>1, <1>3
    <3> QED BY <2>6, <3>1, <3>2
  <2> QED BY <2>5, <2>6
<1>9. ASSUME NEW c \in Cells
      PROVE  \/ pucBuffer'[c] = pucBuffer[c]
             \/ \E i \in 1..n : pucBuffer'[c] = cells[i]
  <2> DEFINE k == (c - xHead) % xLength
  <2>1. pucBuffer'[c] = IF k < n THEN cells[k + 1] ELSE pucBuffer[c]
    BY DEF prvWriteBytesToBuffer, n
  <2>2. k \in Nat
    BY <1>1, <1>2 DEF Cells
  <2> QED BY <1>3, <2>1, <2>2
<1> QED BY <1>5, <1>6, <1>7, <1>8, <1>9 DEF n, b

\* The first n cells are taken out.
LEMMA ConsumeCells ==
    ASSUME xHead \in Cells, xTail \in Cells, NEW n \in 0..prvBytesInBuffer, Consume(n)
    PROVE  /\ xHead' \in Cells /\ xTail' \in Cells
           /\ prvBytesInBuffer' = prvBytesInBuffer - n
           /\ xStreamBufferSpacesAvailable' = xStreamBufferSpacesAvailable + n
           /\ \A i \in 0..BufferSize - 1 - n : View'[i] = View[i + n]
           /\ n = 1 => pucBuffer'[(xTail' - 1) % xLength] = View[0]
<1>1. xLength \in Nat /\ xLength = BufferSize + 1 /\ BufferSize \in Nat \ {0}
  BY StreamAssumption DEF xLength
<1>2. xHead \in 0..xLength - 1 /\ xTail \in 0..xLength - 1
  BY DEF Cells
<1>3. /\ prvBytesInBuffer \in 0..BufferSize
      /\ prvBytesInBuffer = (IF xHead < xTail THEN xLength + xHead - xTail ELSE xHead - xTail)
      /\ xStreamBufferSpacesAvailable = BufferSize - prvBytesInBuffer
  BY <1>1, <1>2, Counts
<1>4. /\ xTail' = (IF xTail + n < xLength THEN xTail + n ELSE xTail + n - xLength)
      /\ xHead' = xHead /\ pucBuffer' = pucBuffer
  <2>1. xTail' = (xTail + n) % xLength /\ xHead' = xHead /\ pucBuffer' = pucBuffer
    BY DEF Consume
  <2> QED BY <1>1, <1>2, <1>3, <2>1
<1>5. xHead' \in Cells /\ xTail' \in Cells
  BY <1>1, <1>2, <1>3, <1>4 DEF Cells
<1>6. prvBytesInBuffer' = prvBytesInBuffer - n
  <2>1. prvBytesInBuffer' = (xLength + xHead' - xTail') % xLength
    BY DEF prvBytesInBuffer, xLength
  <2> QED BY <1>1, <1>2, <1>3, <1>4, <2>1
<1>7. xStreamBufferSpacesAvailable' = xStreamBufferSpacesAvailable + n
  <2>1. xStreamBufferSpacesAvailable' = (xLength + xTail' - xHead' - 1) % xLength
    BY DEF xStreamBufferSpacesAvailable, xLength
  <2> QED BY <1>1, <1>2, <1>3, <1>4, <2>1
<1>8. ASSUME NEW i \in 0..BufferSize - 1 - n
      PROVE  View'[i] = View[i + n]
  <2>1. (xTail' + i) % xLength = (xTail + (i + n)) % xLength
    BY <1>1, <1>2, <1>3, <1>4
  <2>2. i \in 0..BufferSize - 1 /\ i + n \in 0..BufferSize - 1
    BY <1>1, <1>3
  <2>3. View[i + n] = pucBuffer[(xTail + (i + n)) % xLength]
    BY <2>2 DEF View
  <2>4. View'[i] = pucBuffer[(xTail' + i) % xLength]
    BY <1>4, <2>2 DEF View, xLength
  <2> QED BY <2>1, <2>3, <2>4
<1>9. ASSUME n = 1 PROVE pucBuffer'[(xTail' - 1) % xLength] = View[0]
  <2>1. (xTail' - 1) % xLength = (xTail + 0) % xLength
    BY <1>1, <1>2, <1>3, <1>4, <1>9
  <2>2. View[0] = pucBuffer[(xTail + 0) % xLength]
    BY <1>1 DEF View
  <2> QED BY <1>4, <2>1, <2>2
<1> QED BY <1>5, <1>6, <1>7, <1>8, <1>9

\* The cell before the first is put back.
LEMMA PutBackCell ==
    ASSUME xHead \in Cells, xTail \in Cells, prvBytesInBuffer < BufferSize,
           xTail' = (xTail - 1) % xLength, pucBuffer' = pucBuffer, xHead' = xHead
    PROVE  /\ xTail' \in Cells
           /\ prvBytesInBuffer' = prvBytesInBuffer + 1
           /\ xStreamBufferSpacesAvailable' = xStreamBufferSpacesAvailable - 1
           /\ View'[0] = pucBuffer[(xTail - 1) % xLength]
           /\ \A i \in 1..BufferSize - 1 : View'[i] = View[i - 1]
<1>1. xLength \in Nat /\ xLength = BufferSize + 1 /\ BufferSize \in Nat \ {0}
  BY StreamAssumption DEF xLength
<1>2. xHead \in 0..xLength - 1 /\ xTail \in 0..xLength - 1
  BY DEF Cells
<1>3. /\ prvBytesInBuffer \in 0..BufferSize
      /\ prvBytesInBuffer = (IF xHead < xTail THEN xLength + xHead - xTail ELSE xHead - xTail)
      /\ xStreamBufferSpacesAvailable = BufferSize - prvBytesInBuffer
  BY <1>1, <1>2, Counts
<1>4. xTail' = IF xTail = 0 THEN xLength - 1 ELSE xTail - 1
  BY <1>1, <1>2
<1>5. xTail' \in Cells
  BY <1>1, <1>2, <1>4 DEF Cells
<1>6. prvBytesInBuffer' = prvBytesInBuffer + 1
  <2>1. prvBytesInBuffer' = (xLength + xHead' - xTail') % xLength
    BY DEF prvBytesInBuffer, xLength
  <2> QED BY <1>1, <1>2, <1>3, <1>4, <2>1
<1>7. xStreamBufferSpacesAvailable' = xStreamBufferSpacesAvailable - 1
  <2>1. xStreamBufferSpacesAvailable' = (xLength + xTail' - xHead' - 1) % xLength
    BY DEF xStreamBufferSpacesAvailable, xLength
  <2> QED BY <1>1, <1>2, <1>3, <1>4, <2>1
<1>8. View'[0] = pucBuffer[(xTail - 1) % xLength]
  <2>1. (xTail' + 0) % xLength = xTail'
    BY <1>1, <1>2, <1>4
  <2>2. View'[0] = pucBuffer[(xTail' + 0) % xLength]
    BY <1>1 DEF View, xLength
  <2> QED BY <2>1, <2>2
<1>9. ASSUME NEW i \in 1..BufferSize - 1
      PROVE  View'[i] = View[i - 1]
  <2>1. (xTail' + i) % xLength = (xTail + (i - 1)) % xLength
    BY <1>1, <1>2, <1>4
  <2>2. i \in 0..BufferSize - 1 /\ i - 1 \in 0..BufferSize - 1
    BY <1>1
  <2>3. View[i - 1] = pucBuffer[(xTail + (i - 1)) % xLength]
    BY <2>2 DEF View
  <2>4. View'[i] = pucBuffer[(xTail' + i) % xLength]
    BY <2>2 DEF View, xLength
  <2> QED BY <2>1, <2>3, <2>4
<1> QED BY <1>5, <1>6, <1>7, <1>8, <1>9

-----------------------------------------------------------------------------
(* The messages in the ring. *)

\* An empty buffer is in order.
LEMMA FramedEmpty ==
    ASSUME NEW c PROVE Framed(0, c, 0, FALSE)
BY DEF Framed

\* Only the cells that are written matter.
LEMMA FramedSame ==
    ASSUME NEW b \in Nat, NEW c, NEW d, NEW s \in Nat, NEW open \in BOOLEAN,
           Framed(b, c, s, open), \A i \in 0..b - 1 : d[i] = c[i]
    PROVE  Framed(b, d, s, open)
BY StreamAssumption DEF Framed

\* One cell that nobody is completing is no message.
LEMMA NoShortMessage ==
    ASSUME NEW c, Framed(1, c, 0, FALSE) PROVE FALSE
BY StreamAssumption DEF Framed

\* A length is written behind whole messages, and its bytes behind it.
LEMMA OpenMessage ==
    ASSUME NEW b \in Nat, NEW c, NEW d, NEW s \in Nat,
           Framed(b, c, s, FALSE), \A i \in 0..b - 1 : d[i] = c[i], d[b] \in 1..MaxLength
    PROVE  Framed(b + 1, d, s, TRUE)
<1>1. s <= b /\ \A i \in 0..s - 1 : d[i] \in Bytes
  BY DEF Framed
<1>2. d[s] \in 1..MaxLength
  BY <1>1 DEF Framed
<1>3. ASSUME NEW i \in s..b
      PROVE  \/ d[i] \in Bytes
             \/ d[i] \in 1..MaxLength /\ TRUE /\ i = b + 1 - 1
             \/ /\ d[i] \in 1..MaxLength /\ i + d[i] < b + 1
                /\ \A j \in 1..d[i] : d[i + j] \in Bytes
                /\ i + d[i] + 1 < b + 1 => d[i + d[i] + 1] \in 1..MaxLength
  <2>1. CASE i = b BY <2>1
  <2>2. CASE i < b
    <3>1. d[i] = c[i] /\ i \in s..b - 1
      BY <2>2
    <3>2. CASE c[i] \in Bytes BY <3>1, <3>2
    <3>3. CASE /\ c[i] \in 1..MaxLength /\ i + c[i] < b
               /\ \A j \in 1..c[i] : c[i + j] \in Bytes
               /\ i + c[i] + 1 < b => c[i + c[i] + 1] \in 1..MaxLength
      <4>1. \A j \in 1..c[i] : i + j \in 0..b - 1
        BY <3>1, <3>3, StreamAssumption
      <4>2. i + c[i] + 1 \in 0..b
        BY <3>1, <3>3, StreamAssumption
      <4> QED BY <3>1, <3>3, <4>1, <4>2, StreamAssumption
    <3> QED BY <3>1, <3>2, <3>3 DEF Framed
  <2> QED BY <2>1, <2>2
<1>4. b + 1 \in Nat /\ s < b + 1 /\ (b + 1) - 1 = b
  BY <1>1
<1> QED BY <1>1, <1>2, <1>3, <1>4 DEF Framed

\* The bytes that were announced follow their length.
LEMMA CloseMessage ==
    ASSUME NEW b \in Nat, NEW c, NEW d, NEW s \in Nat, NEW n,
           Framed(b, c, s, TRUE), \A i \in 0..b - 1 : d[i] = c[i],
           n = c[b - 1], \A j \in 1..n : d[b - 1 + j] \in Bytes
    PROVE  n \in 1..MaxLength /\ Framed(b + n, d, s, FALSE)
<1>1. n \in 1..MaxLength /\ n \in Nat /\ s < b
  BY StreamAssumption DEF Framed
<1>2. \A i \in 0..s - 1 : d[i] \in Bytes
  BY <1>1 DEF Framed
<1>3. d[s] \in 1..MaxLength
  BY <1>1 DEF Framed
<1>4. ASSUME NEW i \in s..b + n - 1
      PROVE  \/ d[i] \in Bytes
             \/ /\ d[i] \in 1..MaxLength /\ i + d[i] < b + n
                /\ \A j \in 1..d[i] : d[i + j] \in Bytes
                /\ i + d[i] + 1 < b + n => d[i + d[i] + 1] \in 1..MaxLength
  <2>1. CASE i >= b
    <3>1. i - b + 1 \in 1..n /\ b - 1 + (i - b + 1) = i
      BY <1>1, <2>1
    <3> QED BY <3>1
  <2>2. CASE i = b - 1
    <3>1. d[i] = n /\ i + n = b + n - 1
      BY <1>1, <2>2
    <3> QED BY <1>1, <2>2, <3>1
  <2>3. CASE i < b - 1
    <3>1. d[i] = c[i] /\ i \in s..b - 1 /\ i # b - 1
      BY <1>1, <2>3
    <3>2. CASE c[i] \in Bytes BY <3>1, <3>2
    <3>3. CASE /\ c[i] \in 1..MaxLength /\ i + c[i] < b
               /\ \A j \in 1..c[i] : c[i + j] \in Bytes
               /\ i + c[i] + 1 < b => c[i + c[i] + 1] \in 1..MaxLength
      <4>1. \A j \in 1..c[i] : i + j \in 0..b - 1
        BY <3>1, <3>3, StreamAssumption
      <4>2. i + c[i] # b - 1
        <5>1. c[i] \in 1..c[i] /\ c[i] \in Nat
          BY <3>3, StreamAssumption
        <5>2. c[i + c[i]] \in Bytes
          BY <3>3, <5>1
        <5>3. c[b - 1] \in Nat
          BY <1>1
        <5> QED BY <5>2, <5>3, StreamAssumption
      <4>3. i + c[i] + 1 < b /\ i + c[i] + 1 \in 0..b - 1
        BY <3>1, <3>3, <4>2, StreamAssumption
      <4>4. i + c[i] < b + n
        BY <1>1, <3>1, <3>3, StreamAssumption
      <4> QED BY <3>1, <3>3, <4>1, <4>3, <4>4
    <3> QED BY <3>1, <3>2, <3>3 DEF Framed
  <2> QED BY <1>1, <2>1, <2>2, <2>3
<1> QED BY <1>1, <1>2, <1>3, <1>4 DEF Framed

\* The length of a whole message is taken out, its bytes are, the length is put back.
LEMMA TakeLength ==
    ASSUME NEW b \in Nat, NEW c, NEW d, NEW open \in BOOLEAN,
           Framed(b, c, 0, open), b > 1, \A i \in 0..b - 2 : d[i] = c[i + 1]
    PROVE  c[0] \in 1..MaxLength /\ c[0] < b /\ Framed(b - 1, d, c[0], open)
<1>1. c[0] \in 1..MaxLength /\ c[0] \in Nat /\ c[0] \notin Bytes
  BY StreamAssumption DEF Framed
<1>2. 0 \in 0..b - 1 /\ 0 # b - 1
  OBVIOUS
<1>3. /\ 0 + c[0] < b /\ \A j \in 1..c[0] : c[0 + j] \in Bytes
      /\ 0 + c[0] + 1 < b => c[0 + c[0] + 1] \in 1..MaxLength
  BY <1>1, <1>2 DEF Framed
<1> DEFINE s == c[0]
<1>4. s \in 1..MaxLength /\ s \in Nat /\ s < b /\ s <= b - 1
  BY <1>1, <1>3
<1>5. /\ \A j \in 1..s : c[j] \in Bytes
      /\ s + 1 < b => c[s + 1] \in 1..MaxLength
  BY <1>1, <1>3
<1> HIDE DEF s
<1>6. \A i \in 0..s - 1 : d[i] \in Bytes
  BY <1>4, <1>5
<1>7. s < b - 1 => d[s] \in 1..MaxLength
  BY <1>4, <1>5
<1>8. ASSUME NEW i \in s..b - 2
      PROVE  \/ d[i] \in Bytes
             \/ d[i] \in 1..MaxLength /\ open /\ i = b - 1 - 1
             \/ /\ d[i] \in 1..MaxLength /\ i + d[i] < b - 1
                /\ \A j \in 1..d[i] : d[i + j] \in Bytes
                /\ i + d[i] + 1 < b - 1 => d[i + d[i] + 1] \in 1..MaxLength
  <2>1. d[i] = c[i + 1] /\ i + 1 \in 0..b - 1
    BY <1>4
  <2>2. CASE d[i] \in Bytes BY <2>2
  <2>3. CASE d[i] \in 1..MaxLength /\ open /\ i + 1 = b - 1 BY <2>3
  <2>4. CASE /\ d[i] \in 1..MaxLength /\ i + 1 + d[i] < b
             /\ \A j \in 1..d[i] : c[i + 1 + j] \in Bytes
             /\ i + 1 + d[i] + 1 < b => c[i + 1 + d[i] + 1] \in 1..MaxLength
    <3>1. \A j \in 1..d[i] : i + j \in 0..b - 2 /\ i + 1 + j = (i + j) + 1
      BY <1>4, <2>4, StreamAssumption
    <3>2. \A j \in 1..d[i] : d[i + j] \in Bytes
      BY <2>4, <3>1
    <3>3. d[i] \in Nat /\ i + d[i] < b - 1
      BY <2>4, <1>4, StreamAssumption
    <3>4. ASSUME i + d[i] + 1 < b - 1 PROVE d[i + d[i] + 1] \in 1..MaxLength
      <4>1. i + d[i] + 1 \in 0..b - 2 /\ (i + d[i] + 1) + 1 = i + 1 + d[i] + 1
        BY <1>4, <3>3, <3>4
      <4> QED BY <2>4, <3>3, <3>4, <4>1, <1>4
    <3> QED BY <2>4, <3>2, <3>3, <3>4
  <2> QED BY <2>1, <2>2, <2>3, <2>4 DEF Framed
<1>9. open => s < b - 1 /\ d[b - 1 - 1] \in 1..MaxLength
  <2>1. ASSUME open PROVE c[b - 1] \in 1..MaxLength
    BY <2>1 DEF Framed
  <2>2. ASSUME open PROVE s # b - 1
    BY <1>4, <1>5, <2>1, <2>2, StreamAssumption
  <2> QED BY <1>4, <2>1, <2>2
<1>10. Framed(b - 1, d, s, open)
  BY <1>4, <1>6, <1>7, <1>8, <1>9 DEF Framed
<1> QED BY <1>4, <1>10 DEF s

\* What is left of the first message is read.
LEMMA TakeData ==
    ASSUME NEW b \in Nat, NEW c, NEW d, NEW s \in Nat, NEW open \in BOOLEAN,
           Framed(b, c, s, open), \A i \in 0..b - s - 1 : d[i] = c[i + s]
    PROVE  s <= b /\ Framed(b - s, d, 0, open)
<1>1. s <= b /\ b - s \in Nat
  BY DEF Framed
<1>2. 0 < b - s => d[0] \in 1..MaxLength
  BY <1>1 DEF Framed
<1>3. ASSUME NEW i \in 0..b - s - 1
      PROVE  \/ d[i] \in Bytes
             \/ d[i] \in 1..MaxLength /\ open /\ i = b - s - 1
             \/ /\ d[i] \in 1..MaxLength /\ i + d[i] < b - s
                /\ \A j \in 1..d[i] : d[i + j] \in Bytes
                /\ i + d[i] + 1 < b - s => d[i + d[i] + 1] \in 1..MaxLength
  <2>1. d[i] = c[i + s] /\ i + s \in s..b - 1
    BY <1>1
  <2>2. CASE d[i] \in Bytes BY <2>2
  <2>3. CASE d[i] \in 1..MaxLength /\ open /\ i + s = b - 1 BY <2>3
  <2>4. CASE /\ d[i] \in 1..MaxLength /\ i + s + d[i] < b
             /\ \A j \in 1..d[i] : c[i + s + j] \in Bytes
             /\ i + s + d[i] + 1 < b => c[i + s + d[i] + 1] \in 1..MaxLength
    <3>1. \A j \in 1..d[i] : i + j \in 0..b - s - 1 /\ i + s + j = (i + j) + s
      BY <1>1, <2>4, StreamAssumption
    <3>2. \A j \in 1..d[i] : d[i + j] \in Bytes
      BY <2>4, <3>1
    <3>3. d[i] \in Nat /\ i + d[i] < b - s
      BY <2>4, StreamAssumption
    <3>4. ASSUME i + d[i] + 1 < b - s PROVE d[i + d[i] + 1] \in 1..MaxLength
      <4>1. i + d[i] + 1 \in 0..b - s - 1 /\ (i + d[i] + 1) + s = i + s + d[i] + 1
            /\ i + s + d[i] + 1 < b
        BY <1>1, <3>3, <3>4
      <4> QED BY <2>4, <4>1
    <3> QED BY <2>4, <3>2, <3>3, <3>4
  <2> QED BY <2>1, <2>2, <2>3, <2>4 DEF Framed
<1>4. open => 0 < b - s /\ d[b - s - 1] \in 1..MaxLength
  <2>1. ASSUME open PROVE s < b /\ c[b - 1] \in 1..MaxLength
    BY <2>1 DEF Framed
  <2>2. ASSUME open PROVE b - s - 1 \in 0..b - s - 1 /\ (b - s - 1) + s = b - 1
    BY <2>1, <2>2
  <2> QED BY <2>1, <2>2
<1> QED BY <1>1, <1>2, <1>3, <1>4 DEF Framed

\* A length that was taken out is put back before its bytes.
LEMMA PutLength ==
    ASSUME NEW b \in Nat, NEW c, NEW d, NEW s \in 1..MaxLength, NEW open \in BOOLEAN,
           Framed(b, c, s, open), d[0] = s, \A i \in 1..b : d[i] = c[i - 1]
    PROVE  Framed(b + 1, d, 0, open)
<1>1. s \in Nat /\ s <= b
  BY StreamAssumption DEF Framed
<1>2. d[0] \in 1..MaxLength
  OBVIOUS
<1>3. ASSUME NEW i \in 0..b
      PROVE  \/ d[i] \in Bytes
             \/ d[i] \in 1..MaxLength /\ open /\ i = b + 1 - 1
             \/ /\ d[i] \in 1..MaxLength /\ i + d[i] < b + 1
                /\ \A j \in 1..d[i] : d[i + j] \in Bytes
                /\ i + d[i] + 1 < b + 1 => d[i + d[i] + 1] \in 1..MaxLength
  <2>1. CASE i = 0
    <3>1. \A j \in 1..s : j \in 1..b /\ j - 1 \in 0..s - 1
      BY <1>1
    <3>2. \A j \in 1..s : d[0 + j] \in Bytes
      BY <3>1 DEF Framed
    <3>3. ASSUME 0 + s + 1 < b + 1 PROVE d[0 + s + 1] \in 1..MaxLength
      <4>1. s + 1 \in 1..b /\ (s + 1) - 1 = s /\ s < b
        BY <1>1, <3>3
      <4> QED BY <4>1 DEF Framed
    <3> QED BY <1>1, <1>2, <2>1, <3>2, <3>3
  <2>2. CASE i \in 1..s
    <3>1. d[i] = c[i - 1] /\ i - 1 \in 0..s - 1
      BY <1>1, <2>2
    <3> QED BY <3>1 DEF Framed
  <2>3. CASE i > s
    <3>1. d[i] = c[i - 1] /\ i - 1 \in s..b - 1
      BY <1>1, <2>3
    <3>2. CASE d[i] \in Bytes BY <3>2
    <3>3. CASE d[i] \in 1..MaxLength /\ open /\ i - 1 = b - 1 BY <3>3
    <3>4. CASE /\ d[i] \in 1..MaxLength /\ i - 1 + d[i] < b
               /\ \A j \in 1..d[i] : c[i - 1 + j] \in Bytes
               /\ i - 1 + d[i] + 1 < b => c[i - 1 + d[i] + 1] \in 1..MaxLength
      <4>1. \A j \in 1..d[i] : i + j \in 1..b /\ i - 1 + j = (i + j) - 1
        BY <1>1, <3>4, StreamAssumption
      <4>2. \A j \in 1..d[i] : d[i + j] \in Bytes
        BY <3>4, <4>1
      <4>3. d[i] \in Nat /\ i + d[i] < b + 1
        BY <3>4, StreamAssumption
      <4>4. ASSUME i + d[i] + 1 < b + 1 PROVE d[i + d[i] + 1] \in 1..MaxLength
        <5>1. i + d[i] + 1 \in 1..b /\ (i + d[i] + 1) - 1 = i - 1 + d[i] + 1
              /\ i - 1 + d[i] + 1 < b
          BY <1>1, <4>3, <4>4
        <5> QED BY <3>4, <5>1
      <4> QED BY <3>4, <4>2, <4>3, <4>4
    <3> QED BY <3>1, <3>2, <3>3, <3>4 DEF Framed
  <2> QED BY <1>1, <2>1, <2>2, <2>3
<1>4. open => 0 < b + 1 /\ d[b + 1 - 1] \in 1..MaxLength
  <2>1. ASSUME open PROVE b \in 1..b /\ c[b - 1] \in 1..MaxLength
    BY <1>1, <2>1 DEF Framed
  <2> QED BY <2>1
<1> QED BY <1>2, <1>3, <1>4 DEF Framed

-----------------------------------------------------------------------------
(* Steps that leave the buffer as it is. *)

\* What is counted stays where the buffer stays.
LEMMA BufferStays ==
    ASSUME UNCHANGED <<setting, buffer>>
    PROVE  /\ prvBytesInBuffer' = prvBytesInBuffer /\ View' = View
           /\ xStreamBufferSpacesAvailable' = xStreamBufferSpacesAvailable
           /\ LengthCells' = LengthCells /\ (WriterComesBetween' <=> WriterComesBetween)
BY DEF buffer, prvBytesInBuffer, xStreamBufferSpacesAvailable, View, LengthCells, xLength,
       WriterComesBetween, Interrupts

\* A buffer that is not written or read stays in order.
LEMMA CellsStay ==
    ASSUME CellsInOrder, UNCHANGED <<setting, buffer>>, Taken' = Taken,
           pc'["writer"] = "data" <=> pc["writer"] = "data",
           pc["writer"] = "data" => UNCHANGED pvTxData
    PROVE  CellsInOrder'
BY BufferStays DEF CellsInOrder, Framed

\* What the reader relies on stays where the buffer and its call stay.
LEMMA ReaderStays ==
    ASSUME ReaderInOrder, UNCHANGED <<setting, buffer, reads>>, pc'["reader"] = pc["reader"]
    PROVE  ReaderInOrder' /\ Taken' = Taken /\ Held' = Held /\ (PutsBack' <=> PutsBack)
BY BufferStays DEF ReaderInOrder, Taken, Held, PutsBack, reads, buffer, xLength

\* What the writer relies on stays where the spaces and its call stay.
LEMMA WriterStays ==
    ASSUME WriterInOrder, UNCHANGED <<setting, buffer, sends>>, pc'["writer"] = pc["writer"],
           Held' = Held
    PROVE  WriterInOrder' /\ xRequiredSpace' = xRequiredSpace
BY BufferStays DEF WriterInOrder, sends, InCall, xRequiredSpace

\* What the notifications do.
LEMMA NotificationSteps ==
    ASSUME Inv, NEW t \in Tasks,
           NotifyWait(t) \/ NotifyWaited(t) \/ TickWakes(t) \/ NotifiedByOther(t) \/ vTaskResume(t)
    PROVE  Inv'
<1> USE DEF Inv
<1>1. UNCHANGED <<setting, buffer, xTriggerLevelBytes, flags, sends, reads>>
  BY DEF NotifyWait, NotifyWaited, TickWakes, NotifiedByOther, vTaskResume
<1>2. /\ pc' \in [Tasks -> PCs]
      /\ \A u \in Tasks : \/ pc'[u] = pc[u]
                          \/ pc[u] = "wait" /\ pc'[u] = "waited"
                          \/ pc[u] = "waited" /\ pc'[u] = "forget"
  BY DEF NotifyWait, NotifyWaited, TickWakes, NotifiedByOther, vTaskResume, Goto, At, TypeOK,
         PCs, calls
<1>3. TypeOK'
  <2>1. /\ ucNotifyState' \in [Tasks -> {"notWaiting", "waiting", "received"}]
        /\ blocked' \subseteq Tasks
        /\ xTicksToWait' \in [Tasks -> Waits \cup {"elapsed"}]
    BY DEF NotifyWait, NotifyWaited, TickWakes, NotifiedByOther, vTaskResume, NotifyState,
           xTaskGenericNotify, TypeOK, notify, calls
  <2> QED BY <1>1, <1>2, <2>1 DEF TypeOK, buffer, flags, sends, reads
<1>4. pc'["reader"] = pc["reader"] \/ pc["reader"] \in {"wait", "waited"}
  BY <1>2 DEF Tasks
<1>5. Taken' = Taken /\ Held' = Held /\ (PutsBack' <=> PutsBack)
  BY <1>1, <1>2 DEF Tasks, Taken, Held, PutsBack, reads
<1>6. CellsInOrder'
  BY <1>1, <1>2, <1>5, CellsStay DEF Tasks, sends
<1>7. WriterInOrder'
  BY <1>1, <1>2, <1>5, BufferStays DEF Tasks, WriterInOrder, InCall, sends
<1>8. ReaderInOrder'
  BY <1>1, <1>2, <1>5, BufferStays DEF Tasks, ReaderInOrder, reads, buffer, xLength
<1>9. WaitsInOrder'
  BY <1>1 DEF WaitsInOrder, NotifyWait, NotifyWaited, TickWakes, NotifiedByOther, vTaskResume,
     NotifyState, xTaskGenericNotify, Goto, At, Executes, TypeOK, Flag, flags, notify, calls, Tasks
<1>10. WakesReader'
  BY <1>1, <1>2, BufferStays DEF WakesReader, Tasks, flags
<1>11. WakesWriter'
  BY <1>1, <1>2, <1>5, BufferStays DEF WakesWriter, Tasks, flags, xRequiredSpace, sends
<1> QED BY <1>3, <1>6, <1>7, <1>8, <1>9, <1>10, <1>11

-----------------------------------------------------------------------------
(* The writer. *)

\* The writer does not come to run while a length is put back.
LEMMA WriterRuns ==
    ASSUME Inv, Executes("writer") \/ Interrupts("writer")
    PROVE  ~PutsBack /\ Held = 0
<1>1. ASSUME PutsBack PROVE FALSE
  <2>1. ~WriterComesBetween
    BY <1>1 DEF Inv, ReaderInOrder
  <2>2. Executes("writer") /\ setting.above # "writer"
    BY <2>1 DEF WriterComesBetween, Interrupts, Executes
  <2>3. InCall("reader") /\ "reader" \notin blocked
    BY <1>1 DEF Inv, WaitsInOrder, PutsBack, InCall, Tasks
  <2> QED BY <2>2, <2>3 DEF Executes, Other
<1> QED BY <1>1 DEF Held

\* What a call to send writes.
LEMMA FrameLength ==
    ASSUME NEW f \in Frames
    PROVE  /\ Len(f) \in 1..MaxLength /\ Len(f) \in Nat
           /\ \A i \in 1..Len(f) : f[i] \in Bytes
<1>1. PICK n \in 1..MaxLength : f \in [1..n -> Bytes]
  BY StreamAssumption DEF Pieces
<1>2. n \in Nat /\ Len(f) = n
  BY <1>1, StreamAssumption
<1> QED BY <1>1, <1>2

\* A call to send needs space for its bytes, and for their length.
LEMMA RequiredSpace ==
    ASSUME Inv, InCall("writer")
    PROVE  xRequiredSpace \in Nat /\ xRequiredSpace \in 1..MaxLength + LengthCells
<1>1. pvTxData \in Frames
  BY DEF Inv, WriterInOrder
<1>2. LengthCells \in {0, 1} /\ MaxLength \in Nat
  BY StreamAssumption DEF LengthCells
<1> QED BY <1>1, <1>2, FrameLength DEF xRequiredSpace

SendStep(frame, ticks) ==
    \/ xStreamBufferSend(frame, ticks)
    \/ CheckSpace \/ ForgetSender \/ SendTimeOut \/ LookForSpace \/ WriteRefused \/ Sent
    \/ NotifyReader

\* The steps of a call to send that write nothing.
LEMMA SendSteps ==
    ASSUME Inv, NEW frame \in Frames, NEW ticks \in Waits, SendStep(frame, ticks)
    PROVE  Inv'
<1> USE DEF Inv
<1> DEFINE w == pc["writer"]
           b == prvBytesInBuffer
           s == xStreamBufferSpacesAvailable
<1>1. b \in 0..BufferSize /\ s = BufferSize - b /\ s \in 0..BufferSize /\ BufferSize \in Nat
  BY Counts, StreamAssumption DEF TypeOK
<1>2. UNCHANGED <<setting, buffer, xTriggerLevelBytes, reads>>
  BY DEF SendStep, xStreamBufferSend, CheckSpace, ForgetSender, SendTimeOut, LookForSpace,
         WriteRefused, Sent, NotifyReader, WriterOnly
<1>3. /\ pc' \in [Tasks -> PCs] /\ pc'["reader"] = pc["reader"]
      /\ w \in {"idle", "check", "forget", "timeOut", "look", "write", "sent", "notify"}
      /\ pc'["writer"] \in {"idle", "check", "wait", "timeOut", "look", "write", "notify"}
  BY DEF SendStep, xStreamBufferSend, CheckSpace, ForgetSender, SendTimeOut, LookForSpace,
         WriteRefused, Sent, NotifyReader, SendReturns, Goto, At, TypeOK, Tasks, PCs
<1>4. ~PutsBack /\ Held = 0
  BY WriterRuns DEF SendStep, xStreamBufferSend, CheckSpace, ForgetSender, SendTimeOut, LookForSpace,
         WriteRefused, Sent, NotifyReader, At
<1>5. ReaderInOrder' /\ Taken' = Taken /\ Held' = Held /\ (PutsBack' <=> PutsBack)
  BY <1>2, <1>3, ReaderStays
<1>6. CellsInOrder'
  BY <1>2, <1>3, <1>5, CellsStay
<1>7. TypeOK'
  <2>1. /\ pvTxData' \in Frames \cup {<< >>} /\ xSpace' \in 0..BufferSize
        /\ xTicksToWait' \in [Tasks -> Waits \cup {"elapsed"}]
    BY <1>1 DEF SendStep, xStreamBufferSend, CheckSpace, ForgetSender, SendTimeOut, LookForSpace,
         WriteRefused, Sent, NotifyReader, SendReturns, TypeOK, Waits, sends
  <2>2. /\ ucNotifyState' \in [Tasks -> {"notWaiting", "waiting", "received"}]
        /\ blocked' \subseteq Tasks
        /\ xTaskWaitingToReceive' \in BOOLEAN /\ xTaskWaitingToSend' \in BOOLEAN
    BY DEF SendStep, xStreamBufferSend, CheckSpace, ForgetSender, SendTimeOut, LookForSpace,
         WriteRefused, Sent, NotifyReader, SendCompleted, xTaskGenericNotify, xTaskNotifyStateClear,
         NotifyState, TypeOK, notify, flags
  <2> QED BY <1>2, <1>3, <2>1, <2>2 DEF TypeOK, buffer, reads
<1>8. WriterInOrder'
  <2>1. s' = s
    BY <1>2, BufferStays
  <2>2. IF InCall("writer")' THEN pvTxData' \in Frames ELSE xSpace' = 0
    BY <1>3 DEF SendStep, xStreamBufferSend, CheckSpace, ForgetSender, SendTimeOut, LookForSpace,
         WriteRefused, Sent, NotifyReader, SendReturns, WriterInOrder, InCall, Goto, At, TypeOK, sends,
         Tasks
  <2>3. \/ w \notin {"sent", "notify"} /\ xSpace' = xSpace
        \/ xSpace' = 0
        \/ xSpace' = s
        \/ pc'["writer"] = "notify"
    BY DEF SendStep, xStreamBufferSend, CheckSpace, ForgetSender, SendTimeOut, LookForSpace,
           WriteRefused, Sent, NotifyReader, SendReturns, Goto, At, TypeOK, sends, Tasks
  <2>4. w \notin {"data", "sent", "notify"} => xSpace <= s
    BY <1>1, <1>4 DEF WriterInOrder, TypeOK
  <2>5. pc'["writer"] # "notify" => xSpace' <= s
    BY <1>1, <1>3, <2>3, <2>4
  <2>6. PICK n \in Nat : xSpace' = n
    BY <1>1, <1>7 DEF TypeOK
  <2>7. pc'["writer"] \notin {"data", "sent", "notify"} => xSpace' + Held' <= s'
    BY <1>1, <1>4, <1>5, <2>1, <2>5, <2>6
  <2>8. pc'["writer"] \notin {"data", "length", "putBack", "peeked", "read", "received"}
    BY <1>3
  <2> QED BY <2>2, <2>7, <2>8 DEF WriterInOrder
<1>9. WaitsInOrder'
  BY <1>2 DEF WaitsInOrder, SendStep, xStreamBufferSend, CheckSpace, ForgetSender, SendTimeOut, LookForSpace,
         WriteRefused, Sent, NotifyReader, SendReturns, SendCompleted, xTaskGenericNotify,
         xTaskNotifyStateClear, NotifyState, Goto, At, Executes, TypeOK, Flag, flags, notify, Tasks
<1>10. WakesReader'
  BY <1>2, <1>3, BufferStays DEF SendStep, xStreamBufferSend, CheckSpace, ForgetSender, SendTimeOut, LookForSpace,
           WriteRefused, Sent, NotifyReader, SendReturns, SendCompleted, WakesReader, Goto, At,
     TypeOK, Tasks, flags
<1>11. WakesWriter'
  <2>1. pc'["writer"] = "wait" => s < xRequiredSpace /\ xRequiredSpace' = xRequiredSpace
    BY <1>2, BufferStays DEF SendStep, xStreamBufferSend, CheckSpace, ForgetSender, SendTimeOut, LookForSpace,
           WriteRefused, Sent, NotifyReader, SendReturns, Goto, At, TypeOK, Tasks, xRequiredSpace
  <2>2. w = "check" => xRequiredSpace \in Nat
    BY RequiredSpace DEF InCall
  <2>3. pc'["writer"] = "wait" => w = "check"
    BY DEF SendStep, xStreamBufferSend, CheckSpace, ForgetSender, SendTimeOut, LookForSpace,
           WriteRefused, Sent, NotifyReader, SendReturns, Goto, At, TypeOK, Tasks
  <2> QED BY <1>1, <1>2, <1>3, <2>1, <2>2, <2>3, BufferStays DEF WakesWriter
<1> QED BY <1>5, <1>6, <1>7, <1>8, <1>9, <1>10, <1>11

\* What is written does not disturb the reader.
LEMMA AfterWrite ==
    ASSUME Inv, ~PutsBack, NEW cells, prvWriteBytesToBuffer(cells),
           Len(cells) \in 0..xStreamBufferSpacesAvailable,
           \A i \in 1..Len(cells) : cells[i] \in Bytes \/ cells[i] \in 0..MaxLength,
           UNCHANGED <<setting, reads>>, pc'["reader"] = pc["reader"]
    PROVE  /\ \A c \in Cells : pucBuffer'[c] \in Bytes \/ pucBuffer'[c] \in 0..MaxLength
           /\ ReaderInOrder' /\ Taken' = Taken /\ Held' = 0 /\ PutsBack' = FALSE
<1> USE DEF Inv
<1>1. xHead \in Cells /\ xTail \in Cells
  BY DEF TypeOK
<1>2. \A c \in Cells : pucBuffer'[c] \in Bytes \/ pucBuffer'[c] \in 0..MaxLength
  <2> SUFFICES ASSUME NEW c \in Cells
               PROVE  pucBuffer'[c] \in Bytes \/ pucBuffer'[c] \in 0..MaxLength
    OBVIOUS
  <2>1. \/ pucBuffer'[c] = pucBuffer[c]
        \/ \E i \in 1..Len(cells) : pucBuffer'[c] = cells[i]
    BY <1>1, WriteCells
  <2> QED BY <2>1 DEF TypeOK
<1>3. /\ prvBytesInBuffer \in 0..BufferSize /\ BufferSize \in Nat
      /\ xStreamBufferSpacesAvailable = BufferSize - prvBytesInBuffer
  BY <1>1, Counts, StreamAssumption
<1>4. PICK n \in Nat : n = Len(cells)
  BY <1>3
<1>5. prvBytesInBuffer' = prvBytesInBuffer + n /\ n <= BufferSize - prvBytesInBuffer
  BY <1>1, <1>3, <1>4, WriteCells
<1>6. ASSUME 0 < prvBytesInBuffer PROVE View'[0] = View[0]
  <2>1. 0 \in 0..BufferSize - 1 /\ ~(prvBytesInBuffer <= 0)
    BY <1>3, <1>6
  <2> QED BY <1>1, <2>1, WriteCells
<1>7. PutsBack' = FALSE /\ Held' = 0 /\ Taken' = Taken
  BY DEF PutsBack, Held, Taken, reads
<1>8. /\ pc["reader"] = "length" => View'[0] < xBytesAvailable /\ xBytesAvailable <= prvBytesInBuffer'
      /\ pc["reader"] = "read" => xBytesAvailable <= prvBytesInBuffer'
  <2>1. xBytesAvailable \in Nat
    BY <1>3 DEF TypeOK
  <2>2. pc["reader"] = "length" \/ pc["reader"] = "read" => xBytesAvailable <= prvBytesInBuffer
    BY DEF ReaderInOrder
  <2>3. pc["reader"] = "length" => 0 < prvBytesInBuffer /\ View[0] < xBytesAvailable
    BY <1>3, <2>1, <2>2 DEF ReaderInOrder
  <2> QED BY <1>3, <1>5, <1>6, <2>1, <2>2, <2>3
<1>9. (WriterComesBetween' <=> WriterComesBetween) /\ setting' = setting
      /\ xBytesAvailable' = xBytesAvailable /\ xNextMessageLength' = xNextMessageLength
      /\ xBufferLengthBytes' = xBufferLengthBytes
  BY DEF WriterComesBetween, Interrupts, reads
<1>10. ReaderInOrder'
  BY <1>7, <1>8, <1>9 DEF ReaderInOrder
<1> QED BY <1>2, <1>7, <1>10

\* Cells of bytes, written to a buffer of bytes.
LEMMA BytesWritten ==
    ASSUME Inv, ~setting.message, NEW cells, prvWriteBytesToBuffer(cells),
           Len(cells) \in 0..xStreamBufferSpacesAvailable,
           \A i \in 1..Len(cells) : cells[i] \in Bytes, UNCHANGED setting
    PROVE  CellsInOrder'
<1>1. xHead \in Cells /\ xTail \in Cells
  BY DEF Inv, TypeOK
<1>2. /\ prvBytesInBuffer \in 0..BufferSize /\ BufferSize \in Nat
      /\ xStreamBufferSpacesAvailable = BufferSize - prvBytesInBuffer
  BY <1>1, Counts, StreamAssumption
<1>3. PICK n \in Nat : n = Len(cells)
  BY <1>2
<1>4. prvBytesInBuffer' = prvBytesInBuffer + n /\ n <= BufferSize - prvBytesInBuffer
  BY <1>1, <1>2, <1>3, WriteCells
<1>5. ASSUME NEW i \in 0..prvBytesInBuffer + n - 1 PROVE View'[i] \in Bytes
  <2>1. i \in 0..BufferSize - 1
    BY <1>2, <1>4
  <2>2. View'[i] = IF prvBytesInBuffer <= i /\ i < prvBytesInBuffer + Len(cells)
                   THEN cells[i - prvBytesInBuffer + 1] ELSE View[i]
    BY <1>1, <2>1, WriteCells
  <2>3. CASE prvBytesInBuffer <= i
    <3>1. i - prvBytesInBuffer + 1 \in 1..n
      BY <1>2, <2>3
    <3> QED BY <1>2, <1>3, <2>2, <2>3, <3>1
  <2>4. CASE i < prvBytesInBuffer
    <3>1. i \in 0..prvBytesInBuffer - 1 /\ ~(prvBytesInBuffer <= i)
      BY <1>2, <2>4
    <3> QED BY <2>2, <3>1 DEF Inv, CellsInOrder
  <2> QED BY <1>2, <2>3, <2>4
<1>6. \A i \in 0..prvBytesInBuffer' - 1 : View'[i] \in Bytes
  BY <1>2, <1>4, <1>5
<1>7. ~setting'.message
  OBVIOUS
<1> QED BY <1>6, <1>7 DEF CellsInOrder

\* A length, written to a buffer of messages.
LEMMA LengthWritten ==
    ASSUME Inv, setting.message, pc["writer"] # "data", NEW n \in 1..MaxLength, NEW cells,
           cells = <<n>>, prvWriteBytesToBuffer(cells), 1 <= xStreamBufferSpacesAvailable
    PROVE  /\ Framed(prvBytesInBuffer + 1, View', Taken, TRUE)
           /\ View'[prvBytesInBuffer] = n
<1>1. xHead \in Cells /\ xTail \in Cells
  BY DEF Inv, TypeOK
<1>2. /\ prvBytesInBuffer \in 0..BufferSize /\ BufferSize \in Nat
      /\ xStreamBufferSpacesAvailable = BufferSize - prvBytesInBuffer
  BY <1>1, Counts, StreamAssumption
<1>3. Len(cells) = 1 /\ cells[1] = n /\ Len(cells) \in 0..xStreamBufferSpacesAvailable
  BY <1>2
<1>4. \A i \in 0..BufferSize - 1 :
         View'[i] = IF prvBytesInBuffer <= i /\ i < prvBytesInBuffer + 1
                    THEN cells[i - prvBytesInBuffer + 1] ELSE View[i]
  BY <1>1, <1>3, WriteCells
<1>5. View'[prvBytesInBuffer] = n
  BY <1>2, <1>3, <1>4
<1>6. \A i \in 0..prvBytesInBuffer - 1 : View'[i] = View[i]
  BY <1>2, <1>4
<1>7. Framed(prvBytesInBuffer, View, Taken, FALSE) /\ Taken \in Nat
  <2>1. Framed(prvBytesInBuffer, View, Taken, FALSE)
    BY DEF Inv, CellsInOrder, Framed
  <2>2. Taken \in Nat
    BY StreamAssumption DEF Inv, TypeOK, Taken
  <2> QED BY <2>1, <2>2
<1> DEFINE b == prvBytesInBuffer
           c == View
           d == View'
           s == Taken
<1>8. b \in Nat /\ d[b] \in 1..MaxLength
  BY <1>2, <1>5
<1> HIDE DEF b, c, d, s
<1>9. Framed(b + 1, d, s, TRUE)
  BY <1>6, <1>7, <1>8, OpenMessage DEF b, c, d, s
<1> QED BY <1>5, <1>9 DEF b, c, d, s

\* The writer writes bytes, or the length of a message.
LEMMA WriteStep ==
    ASSUME Inv, Write
    PROVE  Inv'
<1> USE DEF Inv
<1> DEFINE b == prvBytesInBuffer
           s == xStreamBufferSpacesAvailable
<1>1. xHead \in Cells /\ xTail \in Cells
  BY DEF TypeOK
<1>2. b \in 0..BufferSize /\ s = BufferSize - b /\ s \in Nat /\ BufferSize \in Nat
  BY <1>1, Counts, StreamAssumption
<1>3. /\ UNCHANGED <<setting, xTriggerLevelBytes, reads, flags, notify, xTicksToWait, sends>>
      /\ pc["writer"] = "write" /\ pc' \in [Tasks -> PCs] /\ pc'["reader"] = pc["reader"]
      /\ pc'["writer"] = (IF setting.message THEN "data" ELSE "sent")
  BY DEF Write, WriterOnly, At, Goto, TypeOK, Tasks, PCs
<1>4. ~PutsBack /\ Held = 0
  BY WriterRuns DEF Write, At
<1>5. pvTxData \in Frames /\ xSpace \in Nat /\ xSpace <= s /\ xSpace # 0
  BY <1>2, <1>3, <1>4 DEF Write, Refuses, WriterInOrder, InCall, TypeOK
<1>6. PICK n \in 1..MaxLength : n = Len(pvTxData)
  BY <1>5, FrameLength
<1>7. PICK cells : /\ prvWriteBytesToBuffer(cells)
                   /\ cells = IF setting.message THEN <<Len(pvTxData)>>
                              ELSE SubSeq(pvTxData, 1, Smaller(Len(pvTxData), xSpace))
  BY DEF Write
<1>8. n \in Nat /\ MaxLength \in Nat
  BY <1>6, StreamAssumption
<1>9. setting.message => Len(cells) = 1 /\ cells[1] = n /\ cells = <<n>> /\ 1 + n <= s
  <2>1. setting.message => ~(xSpace < 1 + n)
    BY <1>6 DEF Write, Refuses, xRequiredSpace, LengthCells
  <2> QED BY <1>2, <1>5, <1>6, <1>7, <1>8, <2>1
<1>10. ~setting.message => /\ Len(cells) \in 0..s
                           /\ \A i \in 1..Len(cells) : cells[i] \in Bytes
  <2>1. PICK m \in Nat : m = Smaller(n, xSpace) /\ m <= n /\ m <= s
    BY <1>2, <1>5, <1>8 DEF Smaller
  <2>2. PICK k \in 1..MaxLength : pvTxData \in [1..k -> Bytes]
    BY <1>5, StreamAssumption DEF Pieces
  <2>3. k = n
    BY <1>6, <1>8, <2>2
  <2>4. SubSeq(pvTxData, 1, m) = [i \in 1..m |-> pvTxData[i]]
    BY <1>8, <2>1, <2>2, <2>3
  <2> QED BY <1>2, <1>6, <1>7, <1>8, <2>1, <2>2, <2>3, <2>4
<1>11. /\ Len(cells) \in 0..s
       /\ \A i \in 1..Len(cells) : cells[i] \in Bytes \/ cells[i] \in 0..MaxLength
  <2>1. CASE setting.message
    <3>1. 1 \in 0..s /\ n \in 0..MaxLength
      BY <1>2, <1>8, <1>9, <2>1
    <3>2. Len(cells) = 1 /\ cells[1] = n
      BY <1>9, <2>1
    <3>3. \A i \in 1..Len(cells) : i = 1
      BY <3>2
    <3> QED BY <3>1, <3>2, <3>3
  <2>2. CASE ~setting.message
    BY <1>10, <2>2
  <2> QED BY <2>1, <2>2
<1>12. /\ xHead' \in Cells /\ xTail' \in Cells
       /\ prvBytesInBuffer' = b + Len(cells) /\ xStreamBufferSpacesAvailable' = s - Len(cells)
  BY <1>1, <1>7, <1>11, WriteCells
<1>13. /\ \A c \in Cells : pucBuffer'[c] \in Bytes \/ pucBuffer'[c] \in 0..MaxLength
       /\ ReaderInOrder' /\ Taken' = Taken /\ Held' = 0 /\ PutsBack' = FALSE
  BY <1>3, <1>4, <1>7, <1>11, AfterWrite
<1>14. TypeOK'
  BY <1>3, <1>12, <1>13 DEF TypeOK, reads, flags, notify, sends
<1>15. CellsInOrder'
  <2>1. CASE setting.message
    <3>1. /\ Framed(b + 1, View', Taken, TRUE) /\ View'[b] = n
      <4>1. 1 <= xStreamBufferSpacesAvailable /\ pc["writer"] # "data"
        BY <1>2, <1>3, <1>8, <1>9, <2>1
      <4> QED BY <1>7, <1>9, <2>1, <4>1, LengthWritten
    <3>2. prvBytesInBuffer' = b + 1 /\ prvBytesInBuffer' - 1 = b
      <4>1. prvBytesInBuffer' = b + 1
        BY <1>9, <1>12, <2>1
      <4> QED BY <1>2, <4>1
    <3>3. Framed(prvBytesInBuffer', View', Taken', TRUE)
      BY <1>13, <3>1, <3>2
    <3>4. setting'.message /\ pc'["writer"] = "data"
      BY <1>3, <2>1
    <3>5. View'[prvBytesInBuffer' - 1] = Len(pvTxData')
      BY <1>3, <1>6, <3>1, <3>2 DEF sends
    <3> QED BY <3>3, <3>4, <3>5 DEF CellsInOrder
  <2>2. CASE ~setting.message
    BY <1>3, <1>7, <1>10, <2>2, BytesWritten
  <2> QED BY <2>1, <2>2
<1>16. WriterInOrder'
  <2>1. setting.message => n <= s - 1 /\ Len(cells) = 1
    BY <1>2, <1>8, <1>9
  <2>2. setting.message => n + Held' <= xStreamBufferSpacesAvailable'
    <3>1. setting.message => xStreamBufferSpacesAvailable' = s - 1
      BY <1>12, <2>1
    <3>2. Held' = 0
      BY <1>13
    <3> QED BY <1>2, <1>8, <2>1, <3>1, <3>2
  <2>3. pvTxData' = pvTxData
    BY <1>3 DEF sends
  <2> QED BY <1>3, <1>5, <1>6, <2>2, <2>3 DEF WriterInOrder, InCall
<1>17. WaitsInOrder'
  BY <1>3 DEF WaitsInOrder, Flag, flags, notify, Tasks, Write, At, Executes
<1>18. WakesReader' /\ WakesWriter'
  BY <1>3 DEF WakesReader, WakesWriter
<1> QED BY <1>13, <1>14, <1>15, <1>16, <1>17, <1>18

\* The writer writes the bytes behind the length.
LEMMA WriteDataStep ==
    ASSUME Inv, WriteData
    PROVE  Inv'
<1> USE DEF Inv
<1> DEFINE b == prvBytesInBuffer
           s == xStreamBufferSpacesAvailable
<1>1. xHead \in Cells /\ xTail \in Cells
  BY DEF TypeOK
<1>2. b \in 0..BufferSize /\ s = BufferSize - b /\ s \in Nat /\ BufferSize \in Nat
  BY <1>1, Counts, StreamAssumption
<1>3. /\ UNCHANGED <<setting, xTriggerLevelBytes, reads, flags, notify, xTicksToWait, sends>>
      /\ pc["writer"] = "data" /\ pc' \in [Tasks -> PCs] /\ pc'["reader"] = pc["reader"]
      /\ pc'["writer"] = "sent"
  BY DEF WriteData, WriterOnly, At, Goto, TypeOK, Tasks, PCs
<1>4. ~PutsBack /\ Held = 0
  BY WriterRuns DEF WriteData, At
<1>5. setting.message /\ pvTxData \in Frames /\ Len(pvTxData) + 0 <= s
  BY <1>3, <1>4 DEF WriterInOrder, InCall
<1>6. PICK n \in 1..MaxLength : n = Len(pvTxData)
  BY <1>5, FrameLength
<1>7. PICK cells : cells = pvTxData /\ prvWriteBytesToBuffer(cells)
  BY DEF WriteData
<1>8. /\ n \in Nat /\ n = Len(cells) /\ n <= s /\ Len(cells) \in 0..s
      /\ \A i \in 1..Len(cells) : cells[i] \in Bytes
  BY <1>2, <1>5, <1>6, <1>7, FrameLength, StreamAssumption
<1>9. /\ xHead' \in Cells /\ xTail' \in Cells
      /\ prvBytesInBuffer' = b + n
      /\ \A i \in 0..BufferSize - 1 :
            View'[i] = IF b <= i /\ i < b + n THEN cells[i - b + 1] ELSE View[i]
  BY <1>1, <1>7, <1>8, WriteCells
<1>10. /\ \A c \in Cells : pucBuffer'[c] \in Bytes \/ pucBuffer'[c] \in 0..MaxLength
       /\ ReaderInOrder' /\ Taken' = Taken /\ Held' = 0 /\ PutsBack' = FALSE
  BY <1>3, <1>4, <1>7, <1>8, AfterWrite
<1>11. TypeOK'
  BY <1>3, <1>9, <1>10 DEF TypeOK, reads, flags, notify, sends
<1>12. CellsInOrder'
  <2>1. Framed(b, View, Taken, TRUE) /\ View[b - 1] = n
    BY <1>3, <1>5, <1>6 DEF CellsInOrder, Framed
  <2>2. b \in Nat /\ Taken \in Nat
    <3>1. Taken \in Nat
      BY StreamAssumption DEF TypeOK, Taken
    <3> QED BY <1>2, <3>1
  <2>3. \A i \in 0..b - 1 : View'[i] = View[i]
    BY <1>2, <1>8, <1>9
  <2>4. ASSUME NEW j \in 1..n PROVE View'[b - 1 + j] \in Bytes
    <3>1. b - 1 + j \in 0..BufferSize - 1 /\ b <= b - 1 + j /\ b - 1 + j < b + n
          /\ (b - 1 + j) - b + 1 = j
      BY <1>2, <1>8
    <3> QED BY <1>8, <1>9, <3>1
  <2> DEFINE c == View
             d == View'
             k == Taken
             m == b
  <2> HIDE DEF c, d, k, m
  <2>5. Framed(m + n, d, k, FALSE)
    BY <2>1, <2>2, <2>3, <2>4, CloseMessage DEF c, d, k, m
  <2>6. Framed(prvBytesInBuffer', View', Taken', FALSE)
    BY <1>9, <1>10, <2>5 DEF c, d, k, m
  <2>7. setting'.message /\ pc'["writer"] # "data"
    BY <1>3, <1>5
  <2> QED BY <2>6, <2>7 DEF CellsInOrder, Framed
<1>13. WriterInOrder'
  BY <1>3, <1>5 DEF WriterInOrder, sends, InCall
<1>14. WaitsInOrder'
  BY <1>3 DEF WaitsInOrder, Flag, flags, notify, Tasks, WriteData, At, Executes
<1>15. WakesReader' /\ WakesWriter'
  BY <1>3 DEF WakesReader, WakesWriter
<1> QED BY <1>10, <1>11, <1>12, <1>13, <1>14, <1>15

\* An interrupt writes and notifies at once.
LEMMA SendFromISRStep ==
    ASSUME Inv, NEW frame \in Frames, xStreamBufferSendFromISR(frame)
    PROVE  Inv'
<1> USE DEF Inv
<1> DEFINE b == prvBytesInBuffer
           s == xStreamBufferSpacesAvailable
<1>1. xHead \in Cells /\ xTail \in Cells
  BY DEF TypeOK
<1>2. b \in 0..BufferSize /\ s = BufferSize - b /\ s \in Nat /\ BufferSize \in Nat
  BY <1>1, Counts, StreamAssumption
<1>3. /\ UNCHANGED <<setting, xTriggerLevelBytes, reads, calls, xSpace>> /\ pvTxData' = frame
      /\ pc["writer"] = "idle" /\ pc' = pc
  BY DEF xStreamBufferSendFromISR, WriterOnly, Interrupts, calls, WaitsInOrder, Tasks
<1>4. ~PutsBack /\ Held = 0
  BY WriterRuns DEF xStreamBufferSendFromISR
<1>5. PICK n \in 1..MaxLength : n = Len(frame)
  BY FrameLength
<1>6. PICK cells :
         /\ cells = IF setting.message THEN <<Len(frame)>> \o frame
                                       ELSE SubSeq(frame, 1, Smaller(Len(frame), s))
         /\ Len(cells) <= s /\ prvWriteBytesToBuffer(cells)
         /\ IF b + Len(cells) >= xTriggerLevelBytes THEN SendCompleted
                                                    ELSE UNCHANGED <<flags, notify>>
  BY DEF xStreamBufferSendFromISR
<1>7. PICK k \in 1..MaxLength : frame \in [1..k -> Bytes]
  BY StreamAssumption DEF Pieces
<1>8. k = n /\ n \in Nat /\ MaxLength \in Nat
  BY <1>5, <1>7, StreamAssumption
<1>9. setting.message => /\ Len(cells) = n + 1 /\ cells[1] = n
                         /\ \A i \in 1..n : cells[i + 1] \in Bytes
  <2> SUFFICES ASSUME setting.message
               PROVE  /\ Len(cells) = n + 1 /\ cells[1] = n
                      /\ \A i \in 1..n : cells[i + 1] \in Bytes
    OBVIOUS
  <2>1. cells = <<n>> \o frame
    BY <1>5, <1>6
  <2>2. frame \in Seq(Bytes) /\ Len(frame) = n /\ \A i \in 1..n : frame[i] \in Bytes
    BY <1>5, <1>7, <1>8
  <2>3. <<n>> \in Seq(Nat) /\ Len(<<n>>) = 1
    BY <1>8
  <2>4. Len(cells) = n + 1 /\ cells[1] = n
    BY <1>8, <2>1, <2>2, <2>3
  <2>5. \A i \in 1..n : cells[i + 1] = frame[i]
    BY <1>8, <2>1, <2>2, <2>3
  <2> QED BY <2>2, <2>4, <2>5
<1>10. ~setting.message => /\ Len(cells) \in Nat
                           /\ \A i \in 1..Len(cells) : cells[i] \in Bytes
  <2>1. PICK m \in Nat : m = Smaller(n, s) /\ m <= n
    BY <1>2, <1>8 DEF Smaller
  <2>2. SubSeq(frame, 1, m) = [i \in 1..m |-> frame[i]]
    BY <1>7, <1>8, <2>1
  <2> QED BY <1>5, <1>6, <1>7, <1>8, <2>1, <2>2
<1>11. PICK m \in 0..s : m = Len(cells)
  <2>1. Len(cells) <= s /\ s \in Nat
    BY <1>2, <1>6
  <2>2. CASE setting.message
    <3>1. Len(cells) = n + 1 /\ n + 1 \in Nat
      BY <1>8, <1>9, <2>2
    <3> QED BY <2>1, <3>1
  <2>3. CASE ~setting.message
    <3>1. Len(cells) \in Nat
      BY <1>10, <2>3
    <3> QED BY <2>1, <3>1
  <2> QED BY <2>2, <2>3
<1>12. \A i \in 1..m : cells[i] \in Bytes \/ cells[i] \in 0..MaxLength
  <2>1. CASE setting.message
    <3> SUFFICES ASSUME NEW i \in 1..m PROVE cells[i] \in Bytes \/ cells[i] \in 0..MaxLength
      OBVIOUS
    <3>1. CASE i = 1
      BY <1>8, <1>9, <2>1, <3>1
    <3>2. CASE i # 1
      <4>1. i - 1 \in 1..n /\ (i - 1) + 1 = i
        BY <1>2, <1>8, <1>9, <1>11, <2>1, <3>2
      <4> QED BY <1>9, <2>1, <4>1
    <3> QED BY <3>1, <3>2
  <2>2. CASE ~setting.message
    BY <1>10, <1>11, <2>2
  <2> QED BY <2>1, <2>2
<1>13. /\ xHead' \in Cells /\ xTail' \in Cells
       /\ prvBytesInBuffer' = b + m /\ xStreamBufferSpacesAvailable' = s - m
       /\ \A i \in 0..BufferSize - 1 :
            View'[i] = IF b <= i /\ i < b + m THEN cells[i - b + 1] ELSE View[i]
  BY <1>1, <1>6, <1>11, WriteCells
<1>14. /\ \A c \in Cells : pucBuffer'[c] \in Bytes \/ pucBuffer'[c] \in 0..MaxLength
       /\ ReaderInOrder' /\ Taken' = Taken /\ Held' = 0 /\ PutsBack' = FALSE
  BY <1>3, <1>4, <1>6, <1>11, <1>12, AfterWrite
<1>15. TypeOK'
  <2>1. /\ ucNotifyState' \in [Tasks -> {"notWaiting", "waiting", "received"}]
        /\ blocked' \subseteq Tasks
        /\ xTaskWaitingToReceive' \in BOOLEAN /\ xTaskWaitingToSend' \in BOOLEAN
    BY <1>6 DEF SendCompleted, xTaskGenericNotify, NotifyState, TypeOK, notify, flags
  <2> QED BY <1>3, <1>13, <1>14, <2>1 DEF TypeOK, reads, calls
<1>16. CellsInOrder'
  <2>1. CASE setting.message
    <3>1. Framed(b, View, Taken, FALSE)
      BY <1>3, <2>1 DEF CellsInOrder, Framed
    <3>2. b \in Nat /\ Taken \in Nat
      <4>1. Taken \in Nat
        BY StreamAssumption DEF TypeOK, Taken
      <4> QED BY <1>2, <4>1
    <3>3. \A i \in 0..b - 1 : View'[i] = View[i]
      BY <1>2, <1>13
    <3>4. m = n + 1 /\ b + m <= BufferSize
      BY <1>2, <1>9, <1>11, <2>1
    <3>5. View'[b] = n
      BY <1>2, <1>8, <1>9, <1>13, <2>1, <3>4
    <3>6. ASSUME NEW j \in 1..n PROVE View'[b + 1 - 1 + j] \in Bytes
      <4>1. b + j \in 0..BufferSize - 1 /\ b <= b + j /\ b + j < b + m
            /\ (b + j) - b + 1 = j + 1 /\ b + 1 - 1 + j = b + j
        BY <1>2, <1>8, <3>4
      <4> QED BY <1>9, <1>13, <2>1, <4>1
    <3> DEFINE c == View
               d == View'
               t == Taken
               p == b
               e == [i \in 0..b |-> IF i = b THEN n ELSE View[i]]
    <3>7. e[b] = n /\ \A i \in 0..b - 1 : e[i] = View[i]
      BY <1>2
    <3> HIDE DEF c, d, t, p, e
    <3>8. Framed(p + 1, e, t, TRUE)
      BY <1>8, <3>1, <3>2, <3>7, OpenMessage DEF c, t, p
    <3>9. \A i \in 0..(p + 1) - 1 : d[i] = e[i]
      BY <1>2, <3>3, <3>5, <3>7 DEF d, p
    <3>10. p + 1 \in Nat /\ n = e[(p + 1) - 1] /\ \A j \in 1..n : d[(p + 1) - 1 + j] \in Bytes
      BY <1>2, <3>6, <3>7 DEF d, p
    <3>11. Framed((p + 1) + n, d, t, FALSE)
      BY <3>2, <3>8, <3>9, <3>10, CloseMessage DEF t
    <3>12. (p + 1) + n = prvBytesInBuffer'
      BY <1>2, <1>8, <1>13, <3>4 DEF p
    <3>13. Framed(prvBytesInBuffer', View', Taken', FALSE)
      BY <1>14, <3>11, <3>12 DEF d, t
    <3>14. setting'.message /\ pc'["writer"] # "data"
      BY <1>3, <2>1
    <3> QED BY <3>13, <3>14 DEF CellsInOrder, Framed
  <2>2. CASE ~setting.message
    BY <1>3, <1>6, <1>10, <1>11, <2>2, BytesWritten
  <2> QED BY <2>1, <2>2
<1>17. WriterInOrder'
  <2>1. xSpace' = 0 /\ pc'["writer"] = "idle"
    BY <1>3 DEF WriterInOrder, InCall
  <2>2. 0 + Held' <= xStreamBufferSpacesAvailable'
    <3>1. PICK v \in Nat : xStreamBufferSpacesAvailable' = v
      BY <1>2, <1>13
    <3> QED BY <1>14, <3>1
  <2> QED BY <2>1, <2>2 DEF WriterInOrder, InCall
<1>18. WaitsInOrder'
  BY <1>3, <1>6 DEF WaitsInOrder, Flag, flags, notify, Tasks, SendCompleted, xTaskGenericNotify,
                    NotifyState, TypeOK
<1>19. WakesReader'
  <2>1. CASE b + m >= xTriggerLevelBytes
    BY <1>6, <1>11, <2>1 DEF SendCompleted, WakesReader
  <2>2. CASE ~(b + m >= xTriggerLevelBytes)
    BY <1>3, <1>13, <2>2 DEF WakesReader
  <2> QED BY <2>1, <2>2
<1>20. WakesWriter'
  BY <1>3 DEF WakesWriter
<1> QED BY <1>14, <1>15, <1>16, <1>17, <1>18, <1>19, <1>20

-----------------------------------------------------------------------------
(* The reader. *)

\* Where there is more than a length, a whole message is there.
LEMMA FirstMessage ==
    ASSUME Inv, setting.message, ~PutsBack, pc["reader"] # "read", prvBytesInBuffer > 1
    PROVE  View[0] \in 1..MaxLength /\ View[0] < prvBytesInBuffer
<1> DEFINE b == prvBytesInBuffer
           c == View
           d == [i \in 0..b - 2 |-> c[i + 1]]
<1>1. PICK open \in BOOLEAN : Framed(b, c, 0, open)
  BY DEF Inv, CellsInOrder, Taken, Framed
<1>2. b \in Nat /\ b > 1
  BY Counts DEF Inv, TypeOK
<1>3. \A i \in 0..b - 2 : d[i] = c[i + 1]
  OBVIOUS
<1> HIDE DEF b, c, d
<1>4. c[0] \in 1..MaxLength /\ c[0] < b
  BY <1>1, <1>2, <1>3, TakeLength
<1> QED BY <1>4 DEF b, c

ReceiveStep(size, ticks) ==
    \/ xStreamBufferReceive(size, ticks)
    \/ CheckBytes \/ ForgetReceiver \/ LookForBytes \/ NothingThere \/ NotifyWriter

\* The steps of a call to receive that read nothing.
LEMMA ReceiveSteps ==
    ASSUME Careless = {}, Inv, NEW size \in Sizes, NEW ticks \in Waits, ReceiveStep(size, ticks)
    PROVE  Inv'
<1> USE DEF Inv
<1> DEFINE r == pc["reader"]
           b == prvBytesInBuffer
           s == xStreamBufferSpacesAvailable
<1>1. b \in 0..BufferSize /\ s = BufferSize - b /\ s \in 0..BufferSize /\ BufferSize \in Nat
      /\ MaxLength \in Nat /\ size \in 1..MaxLength
      /\ (setting.message /\ WriterComesBetween => size = MaxLength)
  BY Counts, StreamAssumption DEF TypeOK, Sizes
<1>2. UNCHANGED <<setting, buffer, xTriggerLevelBytes, sends>>
  BY DEF ReceiveStep, xStreamBufferReceive, CheckBytes, ForgetReceiver, LookForBytes, NothingThere,
         NotifyWriter, ReaderOnly
<1>3. /\ pc' \in [Tasks -> PCs] /\ pc'["writer"] = pc["writer"]
      /\ r \in {"idle", "check", "forget", "look", "received"}
      /\ pc'["reader"] \in {"idle", "check", "wait", "look", Reads}
      /\ pc'["reader"] = "wait" => r = "check"
      /\ Reads = IF setting.message THEN "length" ELSE "read"
  BY DEF ReceiveStep, xStreamBufferReceive, CheckBytes, ForgetReceiver, LookForBytes, NothingThere,
         NotifyWriter, ReceiveReturns, Reads, Goto, At, TypeOK, Tasks, PCs
<1>4. ~PutsBack /\ PutsBack' = FALSE /\ Held = 0 /\ Held' = 0 /\ Taken = 0 /\ Taken' = 0
  BY <1>2, <1>3 DEF PutsBack, Held, Taken
<1>5. WriterInOrder' /\ xRequiredSpace' = xRequiredSpace
  BY <1>2, <1>3, <1>4, WriterStays
<1>6. CellsInOrder'
  BY <1>2, <1>3, <1>4, CellsStay DEF sends
<1>7. TypeOK'
  <2>1. /\ xBufferLengthBytes' \in 0..MaxLength /\ xBytesAvailable' \in 0..BufferSize
        /\ xNextMessageLength' \in 0..MaxLength /\ pvRxData' \in Pieces \cup {<< >>}
        /\ xTicksToWait' \in [Tasks -> Waits \cup {"elapsed"}]
    BY <1>1 DEF ReceiveStep, xStreamBufferReceive, CheckBytes, ForgetReceiver, LookForBytes,
         NothingThere, NotifyWriter, ReceiveReturns, TypeOK, Waits, reads
  <2>2. /\ ucNotifyState' \in [Tasks -> {"notWaiting", "waiting", "received"}]
        /\ blocked' \subseteq Tasks
        /\ xTaskWaitingToReceive' \in BOOLEAN /\ xTaskWaitingToSend' \in BOOLEAN
    BY DEF ReceiveStep, xStreamBufferReceive, CheckBytes, ForgetReceiver, LookForBytes, NothingThere,
         NotifyWriter, ReceiveCompleted, xTaskGenericNotify, xTaskNotifyStateClear, NotifyState,
         TypeOK, notify, flags
  <2> QED BY <1>2, <1>3, <2>1, <2>2 DEF TypeOK, buffer, sends
<1>8. ReaderInOrder'
  <2>1. pc'["reader"] = Reads => xBytesAvailable' = b /\ b > LengthCells
    BY <1>1, <1>3 DEF ReceiveStep, xStreamBufferReceive, CheckBytes, ForgetReceiver, LookForBytes,
         NothingThere, NotifyWriter, ReceiveReturns, Goto, At, TypeOK, Tasks, LengthCells
  <2>2. \/ pc'["reader"] = "idle"
        \/ r = "idle" /\ xBufferLengthBytes' = size
        \/ r # "idle" /\ xBufferLengthBytes' = xBufferLengthBytes
    BY <1>1, <1>3 DEF ReceiveStep, xStreamBufferReceive, CheckBytes, ForgetReceiver, LookForBytes,
         NothingThere, NotifyWriter, ReceiveReturns, Goto, At, TypeOK, Tasks, reads
  <2>3. setting.message /\ WriterComesBetween /\ pc'["reader"] # "idle"
           => xBufferLengthBytes' = MaxLength
    BY <1>1, <1>3, <2>2 DEF ReaderInOrder
  <2>4. pc'["reader"] = "length" => 1 < b /\ View[0] < b /\ setting.message
    BY <1>3, <1>4, <2>1, FirstMessage DEF LengthCells
  <2>5. pc'["reader"] = "read" => ~setting.message
    BY <1>3
  <2>6. b <= b
    BY <1>1
  <2> QED BY <1>1, <1>2, <1>3, <1>4, <2>1, <2>3, <2>4, <2>5, <2>6, BufferStays DEF ReaderInOrder
<1>9. WaitsInOrder'
  BY <1>2 DEF WaitsInOrder, ReceiveStep, xStreamBufferReceive, CheckBytes, ForgetReceiver,
     LookForBytes, NothingThere, NotifyWriter, ReceiveReturns, ReceiveCompleted, xTaskGenericNotify,
     xTaskNotifyStateClear, NotifyState, Goto, At, Executes, TypeOK, Flag, flags, notify, Tasks, Reads
<1>10. WakesReader'
  <2>1. pc'["reader"] = "wait" => b <= LengthCells
    BY <1>3 DEF ReceiveStep, xStreamBufferReceive, CheckBytes, ForgetReceiver, LookForBytes,
         NothingThere, NotifyWriter, ReceiveReturns, Goto, At, TypeOK, Tasks, Reads
  <2>2. ASSUME b <= LengthCells, b >= xTriggerLevelBytes PROVE pc["writer"] = "data"
    <3>1. setting.message /\ b = 1
      BY <1>1, <2>2 DEF LengthCells, TypeOK
    <3> QED BY <1>4, <3>1, NoShortMessage DEF CellsInOrder, Framed
  <2> QED BY <1>2, <1>3, <2>1, <2>2, BufferStays DEF WakesReader
<1>11. WakesWriter'
  <2>1. r = "received" => xTaskWaitingToSend' = FALSE
    BY <1>3 DEF ReceiveStep, xStreamBufferReceive, CheckBytes, ForgetReceiver, LookForBytes,
         NothingThere, NotifyWriter, ReceiveCompleted, At
  <2>2. r # "received" => xTaskWaitingToSend' = xTaskWaitingToSend
    BY <1>3 DEF ReceiveStep, xStreamBufferReceive, CheckBytes, ForgetReceiver, LookForBytes,
         NothingThere, NotifyWriter, At, flags
  <2> QED BY <1>2, <1>3, <1>4, <1>5, <2>1, <2>2, BufferStays DEF WakesWriter
<1> QED BY <1>5, <1>6, <1>7, <1>8, <1>9, <1>10, <1>11

\* The n cells that are read next.
LEMMA AheadIsView ==
    ASSUME NEW n \in 0..BufferSize
    PROVE  /\ Ahead(n) = [i \in 1..n |-> View[i - 1]]
           /\ \A i \in 1..n : Ahead(n)[i] = View[i - 1]
<1>1. BufferSize \in Nat
  BY StreamAssumption
<1>2. ASSUME NEW i \in 1..n PROVE pucBuffer[(xTail + i - 1) % xLength] = View[i - 1]
  <2>1. i - 1 \in 0..BufferSize - 1
    BY <1>1
  <2>2. View[i - 1] = pucBuffer[(xTail + (i - 1)) % xLength]
    BY <2>1 DEF View
  <2>3. xTail + i - 1 = xTail + (i - 1)
    OBVIOUS
  <2> QED BY <2>2, <2>3
<1> QED BY <1>2 DEF Ahead

\* The length of a message is taken out, to be read or to be put back.
LEMMA LengthTaken ==
    ASSUME Inv, setting.message, pc["reader"] \in {"idle", "length"}, prvBytesInBuffer > 1,
           Consume(1), xNextMessageLength' = Ahead(1)[1],
           pc'["reader"] \in {"putBack", "peeked", "read"}, pc'["writer"] = pc["writer"],
           UNCHANGED <<setting, xTriggerLevelBytes, flags, sends>>
    PROVE  /\ xHead' \in Cells /\ xTail' \in Cells /\ pucBuffer' = pucBuffer
           /\ prvBytesInBuffer' = prvBytesInBuffer - 1 /\ prvBytesInBuffer' < BufferSize
           /\ xNextMessageLength' = View[0] /\ xNextMessageLength' \in 1..MaxLength
           /\ pucBuffer'[(xTail' - 1) % xLength] = xNextMessageLength'
           /\ CellsInOrder' /\ WriterInOrder' /\ WakesReader' /\ WakesWriter'
<1> USE DEF Inv
<1> DEFINE b == prvBytesInBuffer
           s == xStreamBufferSpacesAvailable
<1>1. xHead \in Cells /\ xTail \in Cells
  BY DEF TypeOK
<1>2. b \in 0..BufferSize /\ s = BufferSize - b /\ s \in Nat /\ BufferSize \in Nat \ {0} /\ 1 < b
  BY <1>1, Counts, StreamAssumption
<1>3. 1 \in 0..b /\ 1 \in 0..BufferSize /\ b - 1 \in Nat
  BY <1>2
<1>4. /\ xHead' \in Cells /\ xTail' \in Cells
      /\ prvBytesInBuffer' = b - 1 /\ xStreamBufferSpacesAvailable' = s + 1
      /\ \A i \in 0..BufferSize - 1 - 1 : View'[i] = View[i + 1]
      /\ pucBuffer'[(xTail' - 1) % xLength] = View[0]
  BY <1>1, <1>3, ConsumeCells
<1>5. xNextMessageLength' = View[0] /\ pucBuffer' = pucBuffer
  <2>1. 1 \in 1..1 /\ 1 - 1 = 0
    OBVIOUS
  <2>2. Ahead(1)[1] = View[1 - 1]
    BY <1>3, <2>1, AheadIsView
  <2> QED BY <2>1, <2>2 DEF Consume
<1> DEFINE c == View
           d == View'
           open == (pc["writer"] = "data")
<1>6. \/ Framed(b, c, 0, TRUE) /\ open
      \/ Framed(b, c, 0, FALSE) /\ ~open
  BY DEF CellsInOrder, Taken, PutsBack, Framed
<1>7. \A i \in 0..b - 2 : d[i] = c[i + 1]
  BY <1>2, <1>4
<1>8. b \in Nat /\ b > 1
  BY <1>2
<1> HIDE DEF c, d, b
<1>9. /\ c[0] \in 1..MaxLength /\ c[0] < b
      /\ \/ Framed(b - 1, d, c[0], TRUE) /\ open
         \/ Framed(b - 1, d, c[0], FALSE) /\ ~open
  BY <1>6, <1>7, <1>8, TakeLength
<1>10. Taken' = c[0] /\ setting'.message
  BY <1>5 DEF Taken, PutsBack, c
<1>11. CellsInOrder'
  <2>1. ASSUME open PROVE d[b - 1 - 1] = Len(pvTxData')
    <3>1. c[b - 1] = Len(pvTxData)
      BY <2>1 DEF CellsInOrder, b, c
    <3>2. b - 2 \in 0..b - 2 /\ (b - 2) + 1 = b - 1 /\ b - 1 - 1 = b - 2
      BY <1>8
    <3> QED BY <1>7, <3>1, <3>2 DEF sends
  <2>2. CASE open
    <3>1. Framed(b - 1, d, c[0], TRUE) /\ d[b - 1 - 1] = Len(pvTxData') /\ pc'["writer"] = "data"
      BY <1>9, <2>1, <2>2
    <3> QED BY <1>4, <1>10, <3>1 DEF CellsInOrder, d, b
  <2>3. CASE ~open
    <3>1. Framed(b - 1, d, c[0], FALSE) /\ pc'["writer"] # "data"
      BY <1>9, <2>3
    <3> QED BY <1>4, <1>10, <3>1 DEF CellsInOrder, Framed, d, b
  <2> QED BY <2>2, <2>3
<1>12. Held = 0 /\ Held' \in {0, 1}
  BY DEF Held, PutsBack
<1>13. PICK h \in {0, 1} : Held' = h
  BY <1>12
<1>14. PICK n \in Nat : n = Len(pvTxData) /\ (InCall("writer") => n \in 1..MaxLength)
  <2>1. CASE InCall("writer")
    BY <2>1, FrameLength DEF WriterInOrder
  <2>2. CASE ~InCall("writer")
    <3>1. pvTxData = << >> \/ pvTxData \in Frames
      BY DEF TypeOK
    <3> QED BY <2>2, <3>1, FrameLength
  <2> QED BY <2>1, <2>2
<1>15. WriterInOrder'
  <2>1. pc["writer"] = "data" => n + 0 <= s
    BY <1>12, <1>14 DEF WriterInOrder
  <2>2. pc["writer"] \notin {"data", "sent", "notify"} => xSpace <= s
    BY <1>2, <1>12 DEF WriterInOrder, TypeOK
  <2>3. xSpace \in Nat
    BY <1>2 DEF TypeOK
  <2>4. pc["writer"] = "data" => n + h <= s + 1
    BY <1>2, <1>13, <1>14, <2>1
  <2>5. pc["writer"] \notin {"data", "sent", "notify"} => xSpace + h <= s + 1
    BY <1>2, <1>13, <2>2, <2>3
  <2> QED BY <1>4, <1>13, <1>14, <2>4, <2>5 DEF WriterInOrder, InCall, sends
<1>16. WakesReader'
  BY DEF WakesReader
<1>17. WakesWriter'
  <2>1. xRequiredSpace' = xRequiredSpace
    BY DEF xRequiredSpace, LengthCells, sends
  <2>2. pc["writer"] \in {"wait", "waited"} => xRequiredSpace \in Nat
    BY RequiredSpace DEF InCall
  <2>3. pc["writer"] \in {"wait", "waited"} /\ xTaskWaitingToSend /\ s >= xRequiredSpace
           => FALSE
    BY DEF WakesWriter
  <2>4. ASSUME pc["writer"] \in {"wait", "waited"}, xTaskWaitingToSend, s + 1 >= xRequiredSpace
        PROVE  s + 1 = xRequiredSpace
    BY <1>2, <2>2, <2>3, <2>4
  <2>5. pc'["reader"] # "received"
    OBVIOUS
  <2> QED BY <1>4, <2>1, <2>4 DEF WakesWriter, flags
<1>18. prvBytesInBuffer' < BufferSize
  BY <1>2, <1>4 DEF b
<1> QED BY <1>4, <1>5, <1>9, <1>11, <1>15, <1>16, <1>17, <1>18 DEF b, c

\* The reader takes out a length to read the message.
LEMMA ReadLengthStep ==
    ASSUME Careless = {}, Inv, ReadLength
    PROVE  Inv'
<1> USE DEF Inv
<1> DEFINE b == prvBytesInBuffer
<1>1. /\ UNCHANGED <<setting, xTriggerLevelBytes, flags, notify, xTicksToWait, sends,
                     xBufferLengthBytes, pvRxData>>
      /\ pc["reader"] = "length" /\ Consume(1)
      /\ xNextMessageLength' = Ahead(1)[1] /\ xBytesAvailable' = xBytesAvailable - 1
      /\ pc' \in [Tasks -> PCs] /\ pc'["writer"] = pc["writer"]
      /\ pc'["reader"] = (IF Ahead(1)[1] > xBufferLengthBytes THEN "putBack" ELSE "read")
  BY DEF ReadLength, ReaderOnly, At, Goto, TypeOK, Tasks, PCs
<1>2. /\ setting.message /\ 1 < xBytesAvailable /\ View[0] < xBytesAvailable
      /\ xBytesAvailable <= b
  BY <1>1 DEF ReaderInOrder
<1>3. b \in 0..BufferSize /\ BufferSize \in Nat /\ xBytesAvailable \in 0..BufferSize
      /\ MaxLength \in Nat
  BY Counts, StreamAssumption DEF TypeOK
<1>4. b > 1
  BY <1>2, <1>3
<1>5. /\ xHead' \in Cells /\ xTail' \in Cells /\ pucBuffer' = pucBuffer
      /\ prvBytesInBuffer' = b - 1 /\ prvBytesInBuffer' < BufferSize
      /\ xNextMessageLength' = View[0] /\ xNextMessageLength' \in 1..MaxLength
      /\ pucBuffer'[(xTail' - 1) % xLength] = xNextMessageLength'
      /\ CellsInOrder' /\ WriterInOrder' /\ WakesReader' /\ WakesWriter'
  BY <1>1, <1>2, <1>4, LengthTaken
<1>6. PICK k \in 1..MaxLength : k = View[0]
  BY <1>5
<1>7. xBytesAvailable' \in 0..BufferSize /\ k \in 0..MaxLength
  BY <1>1, <1>2, <1>3
<1>8. TypeOK'
  BY <1>1, <1>5, <1>6, <1>7 DEF TypeOK, flags, notify, sends
<1>9. ReaderInOrder'
  <2>1. (WriterComesBetween' <=> WriterComesBetween) /\ setting' = setting
        /\ xBufferLengthBytes' = xBufferLengthBytes
    BY <1>1 DEF WriterComesBetween, Interrupts
  <2>2. WriterComesBetween => xBufferLengthBytes = MaxLength
    BY <1>1, <1>2 DEF ReaderInOrder
  <2>3. pc'["reader"] = "putBack" => ~WriterComesBetween
    BY <1>1, <1>3, <1>5, <1>6, <2>2
  <2>4. k <= xBytesAvailable - 1 /\ xBytesAvailable - 1 <= b - 1
    BY <1>2, <1>3, <1>6
  <2>5. k \in 1..xBytesAvailable - 1
    BY <1>3, <2>4
  <2>6. /\ xBytesAvailable' <= prvBytesInBuffer' /\ xNextMessageLength' \in 1..xBytesAvailable'
    BY <1>1, <1>5, <1>6, <2>4, <2>5
  <2>7. pc'["reader"] \in {"putBack", "read"}
    BY <1>1
  <2> QED BY <1>2, <1>5, <2>1, <2>2, <2>3, <2>6, <2>7 DEF ReaderInOrder, PutsBack, xLength
<1>10. WaitsInOrder'
  BY <1>1 DEF WaitsInOrder, Flag, flags, notify, Tasks, ReadLength, At, Executes
<1> QED BY <1>5, <1>8, <1>9, <1>10

\* The reader takes out a length to look at it.
LEMMA NextMessageLengthStep ==
    ASSUME Careless = {}, Inv, xStreamBufferNextMessageLengthBytes
    PROVE  Inv'
<1> USE DEF Inv
<1>1. /\ UNCHANGED <<setting, xTriggerLevelBytes, flags, notify, xTicksToWait, sends,
                     xBufferLengthBytes, xBytesAvailable, pvRxData>>
      /\ pc["reader"] = "idle" /\ Consume(1) /\ setting.message /\ ~WriterComesBetween
      /\ prvBytesInBuffer > LengthCells /\ xNextMessageLength' = Ahead(1)[1]
      /\ pc' \in [Tasks -> PCs] /\ pc'["writer"] = pc["writer"] /\ pc'["reader"] = "peeked"
  BY DEF xStreamBufferNextMessageLengthBytes, ReaderOnly, At, Goto, TypeOK, Tasks, PCs
<1>2. prvBytesInBuffer > 1
  BY <1>1 DEF LengthCells
<1>3. /\ xHead' \in Cells /\ xTail' \in Cells /\ pucBuffer' = pucBuffer
      /\ prvBytesInBuffer' < BufferSize
      /\ xNextMessageLength' \in 1..MaxLength
      /\ pucBuffer'[(xTail' - 1) % xLength] = xNextMessageLength'
      /\ CellsInOrder' /\ WriterInOrder' /\ WakesReader' /\ WakesWriter'
  BY <1>1, <1>2, LengthTaken
<1>4. PICK k \in 1..MaxLength : k = xNextMessageLength'
  BY <1>3
<1>5. k \in 0..MaxLength
  BY StreamAssumption
<1>6. TypeOK'
  BY <1>1, <1>3, <1>4, <1>5 DEF TypeOK, flags, notify, sends
<1>7. ReaderInOrder'
  <2>1. (WriterComesBetween' <=> WriterComesBetween) /\ setting' = setting
    BY <1>1 DEF WriterComesBetween, Interrupts
  <2> QED BY <1>1, <1>3, <2>1 DEF ReaderInOrder, PutsBack, xLength
<1>8. WaitsInOrder'
  BY <1>1 DEF WaitsInOrder, Flag, flags, notify, Tasks, xStreamBufferNextMessageLengthBytes, At,
              Executes
<1> QED BY <1>3, <1>6, <1>7, <1>8

\* The reader puts a length back.
LEMMA PutBackSteps ==
    ASSUME Inv, PutBack \/ PutLengthBack
    PROVE  Inv'
<1> USE DEF Inv
<1> DEFINE b == prvBytesInBuffer
           s == xStreamBufferSpacesAvailable
<1>1. /\ UNCHANGED <<setting, xTriggerLevelBytes, flags, notify, sends>>
      /\ PutsBack /\ xTail' = (xTail - 1) % xLength /\ pucBuffer' = pucBuffer /\ xHead' = xHead
      /\ pc' \in [Tasks -> PCs] /\ pc'["writer"] = pc["writer"] /\ pc'["reader"] = "idle"
      /\ xBufferLengthBytes' = 0 /\ xBytesAvailable' = 0 /\ xNextMessageLength' = 0
      /\ pvRxData' = << >> /\ xTicksToWait' \in [Tasks -> Waits \cup {"elapsed"}]
  BY DEF PutBack, PutLengthBack, ReceiveReturns, ReaderOnly, At, Goto, TypeOK, Tasks, PCs, PutsBack,
         Waits
<1>2. /\ b < BufferSize /\ pucBuffer[(xTail - 1) % xLength] = xNextMessageLength
      /\ xNextMessageLength \in 1..MaxLength /\ setting.message
  BY <1>1 DEF ReaderInOrder, PutsBack
<1>3. xHead \in Cells /\ xTail \in Cells
  BY DEF TypeOK
<1>4. b \in 0..BufferSize /\ s = BufferSize - b /\ s \in Nat /\ BufferSize \in Nat \ {0}
  BY <1>3, Counts, StreamAssumption
<1>5. /\ xTail' \in Cells
      /\ prvBytesInBuffer' = b + 1 /\ xStreamBufferSpacesAvailable' = s - 1
      /\ View'[0] = pucBuffer[(xTail - 1) % xLength]
      /\ \A i \in 1..BufferSize - 1 : View'[i] = View[i - 1]
  BY <1>1, <1>2, <1>3, PutBackCell
<1>6. TypeOK'
  <2>1. 0 \in 0..MaxLength /\ 0 \in 0..BufferSize
    BY <1>4, StreamAssumption
  <2> QED BY <1>1, <1>3, <1>5, <2>1 DEF TypeOK, flags, notify, sends
<1> DEFINE c == View
           d == View'
           open == (pc["writer"] = "data")
<1>7. PICK k \in 1..MaxLength : k = xNextMessageLength
  BY <1>2
<1>8. \/ Framed(b, c, k, TRUE) /\ open
      \/ Framed(b, c, k, FALSE) /\ ~open
  BY <1>1, <1>2, <1>7 DEF CellsInOrder, Taken, Framed
<1>9. d[0] = k /\ \A i \in 1..b : d[i] = c[i - 1]
  BY <1>2, <1>4, <1>5, <1>7
<1>10. b \in Nat /\ k \in Nat
  BY <1>4, StreamAssumption
<1> HIDE DEF b, c, d
<1>11. \/ Framed(b + 1, d, 0, TRUE) /\ open
       \/ Framed(b + 1, d, 0, FALSE) /\ ~open
  BY <1>8, <1>9, <1>10, PutLength
<1>12. Taken' = 0 /\ PutsBack' = FALSE /\ Held = 1 /\ Held' = 0 /\ setting'.message
  BY <1>1, <1>2 DEF Taken, PutsBack, Held
<1>13. CellsInOrder'
  <2>1. ASSUME open PROVE d[b] = Len(pvTxData')
    <3>1. c[b - 1] = Len(pvTxData)
      BY <1>2, <2>1 DEF CellsInOrder, b, c
    <3>2. k < b
      BY <1>8, <1>10, <2>1 DEF Framed
    <3>3. b \in 1..b
      BY <1>10, <3>2
    <3> QED BY <1>1, <1>9, <3>1, <3>3 DEF sends
  <2>2. CASE open
    <3>1. Framed(b + 1, d, 0, TRUE) /\ d[b] = Len(pvTxData') /\ pc'["writer"] = "data"
      BY <1>1, <1>11, <2>1, <2>2
    <3>2. prvBytesInBuffer' = b + 1 /\ View' = d
      BY <1>5 DEF b, d
    <3>3. View'[prvBytesInBuffer' - 1] = Len(pvTxData')
      <4>1. prvBytesInBuffer' - 1 = b
        BY <1>10, <3>2
      <4> QED BY <3>1, <3>2, <4>1
    <3>4. Framed(prvBytesInBuffer', View', Taken', TRUE)
      BY <1>12, <3>1, <3>2
    <3> QED BY <1>12, <3>1, <3>3, <3>4 DEF CellsInOrder
  <2>3. CASE ~open
    <3>1. Framed(b + 1, d, 0, FALSE) /\ pc'["writer"] # "data"
      BY <1>1, <1>11, <2>3
    <3> QED BY <1>5, <1>12, <3>1 DEF CellsInOrder, Framed, d, b
  <2> QED BY <2>2, <2>3
<1>14. WriterInOrder'
  <2>1. pc["writer"] = "data" => Len(pvTxData) + 1 <= s /\ Len(pvTxData) \in Nat
    BY <1>12, FrameLength DEF WriterInOrder, InCall
  <2>2. pc["writer"] \notin {"data", "sent", "notify"} => xSpace + 1 <= s
    BY <1>12 DEF WriterInOrder
  <2>3. xSpace \in Nat
    BY <1>4 DEF TypeOK
  <2>4. pc["writer"] = "data" => Len(pvTxData) + 0 <= s - 1
    BY <1>4, <2>1
  <2>5. pc["writer"] \notin {"data", "sent", "notify"} => xSpace + 0 <= s - 1
    BY <1>4, <2>2, <2>3
  <2> QED BY <1>1, <1>5, <1>12, <2>4, <2>5 DEF WriterInOrder, InCall, sends
<1>15. ReaderInOrder'
  BY <1>1, <1>12 DEF ReaderInOrder
<1>16. WaitsInOrder'
  BY <1>1 DEF WaitsInOrder, Flag, flags, notify, Tasks, PutsBack
<1>17. WakesReader'
  BY <1>1 DEF WakesReader
<1>18. WakesWriter'
  <2>1. xRequiredSpace' = xRequiredSpace
    BY <1>1 DEF xRequiredSpace, LengthCells, sends
  <2>2. pc["writer"] \in {"wait", "waited"} => xRequiredSpace \in Nat
    BY RequiredSpace DEF InCall
  <2>3. pc["writer"] \in {"wait", "waited"} /\ xTaskWaitingToSend /\ s >= xRequiredSpace
           => s = xRequiredSpace
    BY <1>1 DEF WakesWriter
  <2>4. pc["writer"] \in {"wait", "waited"} /\ xTaskWaitingToSend => ~(s - 1 >= xRequiredSpace)
    BY <1>4, <2>2, <2>3
  <2> QED BY <1>1, <1>5, <2>1, <2>4 DEF WakesWriter, flags
<1> QED BY <1>6, <1>13, <1>14, <1>15, <1>16, <1>17, <1>18

\* Whole messages, or bytes, are taken out.
LEMMA AfterRead ==
    ASSUME Inv, ~PutsBack, NEW n \in 0..prvBytesInBuffer, Consume(n), PutsBack' = FALSE,
           pc'["reader"] \notin {"putBack", "peeked", "read"}, pc'["writer"] = pc["writer"],
           UNCHANGED <<setting, sends>>,
           setting.message => \/ /\ pc["writer"] = "data"
                                 /\ Framed(prvBytesInBuffer - n, View', 0, TRUE)
                              \/ /\ pc["writer"] # "data"
                                 /\ Framed(prvBytesInBuffer - n, View', 0, FALSE)
    PROVE  /\ xHead' \in Cells /\ xTail' \in Cells /\ pucBuffer' = pucBuffer
           /\ CellsInOrder' /\ WriterInOrder'
<1> USE DEF Inv
<1> DEFINE b == prvBytesInBuffer
           s == xStreamBufferSpacesAvailable
<1>1. xHead \in Cells /\ xTail \in Cells
  BY DEF TypeOK
<1>2. b \in 0..BufferSize /\ s = BufferSize - b /\ s \in Nat /\ BufferSize \in Nat \ {0}
      /\ n \in 0..b /\ n \in Nat
  BY <1>1, Counts, StreamAssumption
<1>3. /\ xHead' \in Cells /\ xTail' \in Cells
      /\ prvBytesInBuffer' = b - n /\ xStreamBufferSpacesAvailable' = s + n
      /\ \A i \in 0..BufferSize - 1 - n : View'[i] = View[i + n]
  BY <1>1, ConsumeCells
<1>4. Taken' = 0 /\ Held = 0 /\ Held' = 0 /\ setting' = setting /\ pvTxData' = pvTxData
      /\ xSpace' = xSpace
  BY DEF Taken, Held, PutsBack, sends
<1>5. ASSUME setting.message, pc["writer"] = "data" PROVE CellsInOrder'
  <2>1. Framed(b - n, View', 0, TRUE) /\ 0 < b - n
    BY <1>2, <1>5 DEF Framed
  <2>2. View[b - 1] = Len(pvTxData)
    BY <1>5 DEF CellsInOrder
  <2>3. b - n - 1 \in 0..BufferSize - 1 - n /\ (b - n - 1) + n = b - 1
    BY <1>2, <2>1
  <2>4. View'[b - n - 1] = Len(pvTxData)
    BY <1>3, <2>2, <2>3
  <2>5. prvBytesInBuffer' - 1 = b - n - 1
    BY <1>2, <1>3
  <2>6. View'[prvBytesInBuffer' - 1] = Len(pvTxData') /\ Framed(prvBytesInBuffer', View', Taken', TRUE)
    BY <1>3, <1>4, <2>1, <2>4, <2>5
  <2>7. setting'.message /\ pc'["writer"] = "data"
    BY <1>4, <1>5
  <2> QED BY <2>6, <2>7 DEF CellsInOrder
<1>6. ASSUME setting.message, pc["writer"] # "data" PROVE CellsInOrder'
  <2>1. Framed(prvBytesInBuffer', View', Taken', FALSE)
    BY <1>3, <1>4, <1>6
  <2>2. setting'.message /\ pc'["writer"] # "data"
    BY <1>4, <1>6
  <2> QED BY <2>1, <2>2 DEF CellsInOrder, Framed
<1>7. ASSUME ~setting.message PROVE CellsInOrder'
  <2>1. ASSUME NEW i \in 0..b - n - 1 PROVE View'[i] \in Bytes
    <3>1. i \in 0..BufferSize - 1 - n /\ i + n \in 0..b - 1
      BY <1>2
    <3>2. View[i + n] \in Bytes
      BY <1>7, <3>1 DEF CellsInOrder
    <3> QED BY <1>3, <3>1, <3>2
  <2>2. \A i \in 0..prvBytesInBuffer' - 1 : View'[i] \in Bytes
    BY <1>2, <1>3, <2>1
  <2>3. ~setting'.message
    BY <1>4, <1>7
  <2> QED BY <2>2, <2>3 DEF CellsInOrder
<1>8. WriterInOrder'
  <2>1. pc["writer"] = "data" => Len(pvTxData) + 0 <= s /\ Len(pvTxData) \in Nat
    BY <1>4, FrameLength DEF WriterInOrder, InCall
  <2>2. pc["writer"] \notin {"data", "sent", "notify"} => xSpace + 0 <= s
    BY <1>4 DEF WriterInOrder
  <2>3. xSpace \in Nat
    BY <1>2 DEF TypeOK
  <2>4. pc["writer"] = "data" => Len(pvTxData) + 0 <= s + n
    BY <1>2, <2>1
  <2>5. pc["writer"] \notin {"data", "sent", "notify"} => xSpace + 0 <= s + n
    BY <1>2, <2>2, <2>3
  <2> QED BY <1>3, <1>4, <2>4, <2>5 DEF WriterInOrder, InCall
<1> QED BY <1>3, <1>5, <1>6, <1>7, <1>8 DEF Consume

\* The reader takes out what it has room for.
LEMMA ReadDataStep ==
    ASSUME Inv, ReadData
    PROVE  Inv'
<1> USE DEF Inv
<1> DEFINE b == prvBytesInBuffer
           wanted == IF setting.message THEN xNextMessageLength ELSE xBufferLengthBytes
<1>1. /\ UNCHANGED <<setting, xTriggerLevelBytes, flags, notify, xTicksToWait, sends,
                     xBufferLengthBytes, xBytesAvailable, xNextMessageLength>>
      /\ pc["reader"] = "read" /\ pc' \in [Tasks -> PCs] /\ pc'["writer"] = pc["writer"]
      /\ pc'["reader"] = "received"
      /\ pvRxData' = Ahead(Smaller(xBytesAvailable, wanted))
      /\ Consume(Smaller(xBytesAvailable, wanted))
  BY DEF ReadData, ReaderOnly, At, Goto, TypeOK, Tasks, PCs
<1>2. b \in 0..BufferSize /\ BufferSize \in Nat /\ MaxLength \in Nat /\ MaxLength \in 1..BufferSize
      /\ xBytesAvailable \in 0..BufferSize /\ xBytesAvailable <= b
      /\ xBufferLengthBytes \in 0..MaxLength
      /\ (setting.message => xNextMessageLength \in 1..xBytesAvailable)
      /\ xNextMessageLength \in 0..MaxLength
  BY <1>1, Counts, StreamAssumption DEF TypeOK, ReaderInOrder
<1>3. PICK n \in 0..b : /\ n = Smaller(xBytesAvailable, wanted) /\ n \in 0..MaxLength
                        /\ setting.message => n = xNextMessageLength
  <2>1. CASE setting.message
    <3>1. Smaller(xBytesAvailable, wanted) = xNextMessageLength
      BY <1>2, <2>1 DEF Smaller
    <3> QED BY <1>2, <2>1, <3>1
  <2>2. CASE ~setting.message
    BY <1>2, <2>2 DEF Smaller
  <2> QED BY <2>1, <2>2
<1>4. n \in 0..BufferSize /\ n \in Nat
  BY <1>2
<1>5. ~PutsBack /\ PutsBack' = FALSE /\ (setting.message => Taken = n)
  BY <1>1, <1>3 DEF PutsBack, Taken
<1> DEFINE c == View
           d == View'
           open == (pc["writer"] = "data")
<1>6. setting.message => \/ open /\ Framed(b, c, n, TRUE)
                         \/ ~open /\ Framed(b, c, n, FALSE)
  BY <1>5 DEF CellsInOrder, Framed
<1>7. \A i \in 0..b - n - 1 : d[i] = c[i + n]
  <2>1. \A i \in 0..BufferSize - 1 - n : View'[i] = View[i + n]
    BY <1>1, <1>3, ConsumeCells DEF TypeOK
  <2> QED BY <1>2, <1>4, <2>1
<1>8. b \in Nat
  BY <1>2
<1>9. \A i \in 0..n - 1 : c[i] \in Bytes
  <2>1. CASE setting.message
    BY <1>6, <2>1 DEF Framed
  <2>2. CASE ~setting.message
    BY <1>2, <1>4, <2>2 DEF CellsInOrder
  <2> QED BY <2>1, <2>2
<1> HIDE DEF b, c, d
<1>10. setting.message => \/ open /\ Framed(b - n, d, 0, TRUE)
                          \/ ~open /\ Framed(b - n, d, 0, FALSE)
  BY <1>4, <1>6, <1>7, <1>8, TakeData
<1>11. /\ xHead' \in Cells /\ xTail' \in Cells /\ pucBuffer' = pucBuffer
       /\ CellsInOrder' /\ WriterInOrder'
  BY <1>1, <1>3, <1>5, <1>10, AfterRead DEF b, d
<1>12. pvRxData' \in Pieces \cup {<< >>}
  <2>1. pvRxData' = [i \in 1..n |-> View[i - 1]]
    BY <1>1, <1>3, <1>4, AheadIsView
  <2>2. \A i \in 1..n : View[i - 1] \in Bytes
    BY <1>4, <1>9 DEF c
  <2>3. CASE n = 0
    BY <2>1, <2>3
  <2>4. CASE n # 0
    <3>1. n \in 1..MaxLength
      BY <1>3, <1>4, <2>4
    <3>2. pvRxData' \in [1..n -> Bytes]
      BY <2>1, <2>2
    <3> QED BY <3>1, <3>2 DEF Pieces
  <2> QED BY <2>3, <2>4
<1>13. TypeOK'
  BY <1>1, <1>11, <1>12 DEF TypeOK, flags, notify, sends
<1>14. ReaderInOrder'
  <2>1. (WriterComesBetween' <=> WriterComesBetween) /\ setting' = setting
        /\ xBufferLengthBytes' = xBufferLengthBytes
    BY <1>1 DEF WriterComesBetween, Interrupts
  <2> QED BY <1>1, <1>5, <2>1 DEF ReaderInOrder
<1>15. WaitsInOrder'
  BY <1>1 DEF WaitsInOrder, Flag, flags, notify, Tasks, ReadData, At, Executes
<1>16. WakesReader' /\ WakesWriter'
  BY <1>1, <1>5 DEF WakesReader, WakesWriter
<1> QED BY <1>11, <1>13, <1>14, <1>15, <1>16

\* An interrupt reads and notifies at once.
LEMMA ReceiveFromISRStep ==
    ASSUME Inv, NEW size \in 1..MaxLength, xStreamBufferReceiveFromISR(size)
    PROVE  Inv'
<1> USE DEF Inv
<1> DEFINE b == prvBytesInBuffer
<1>1. /\ UNCHANGED <<setting, xTriggerLevelBytes, sends, calls, xBufferLengthBytes, xBytesAvailable,
                     xNextMessageLength>>
      /\ pc["reader"] = "idle" /\ pc' = pc /\ b > LengthCells /\ ReceiveCompleted
  BY DEF xStreamBufferReceiveFromISR, ReaderOnly, Interrupts, calls, WaitsInOrder, Tasks
<1>2. b \in 0..BufferSize /\ BufferSize \in Nat /\ MaxLength \in Nat /\ MaxLength \in 1..BufferSize
      /\ size \in Nat /\ size <= MaxLength
  BY Counts, StreamAssumption DEF TypeOK
<1>3. ~PutsBack /\ PutsBack' = FALSE /\ Taken = 0
  BY <1>1 DEF PutsBack, Taken
<1> DEFINE c == View
           d == View'
           open == (pc["writer"] = "data")
<1>4. ASSUME ~setting.message
      PROVE  \E n \in 0..b : Consume(n) /\ pvRxData' \in Pieces \cup {<< >>}
  <2>1. PICK n \in 0..b : n = Smaller(b, size) /\ n \in 1..MaxLength
    BY <1>1, <1>2, <1>4 DEF Smaller, LengthCells
  <2>2. pvRxData' = Ahead(n) /\ Consume(n)
    BY <1>4, <2>1 DEF xStreamBufferReceiveFromISR
  <2>3. n \in 0..BufferSize
    BY <1>2
  <2>4. pvRxData' = [i \in 1..n |-> View[i - 1]]
    BY <2>2, <2>3, AheadIsView
  <2>5. \A i \in 1..n : i - 1 \in 0..b - 1
    BY <1>2
  <2>6. pvRxData' \in [1..n -> Bytes]
    BY <1>4, <2>4, <2>5 DEF CellsInOrder
  <2> QED BY <2>1, <2>2, <2>6 DEF Pieces
<1>5. ASSUME setting.message
      PROVE  \E n \in 0..b : /\ Consume(n) /\ pvRxData' \in Pieces \cup {<< >>}
                             /\ \/ open /\ Framed(b - n, d, 0, TRUE)
                                \/ ~open /\ Framed(b - n, d, 0, FALSE)
  <2>1. b > 1
    BY <1>1, <1>5 DEF LengthCells
  <2>2. PICK k \in 1..MaxLength : k = View[0] /\ k < b
    BY <1>1, <1>3, <1>5, <2>1, FirstMessage
  <2>3. k \in Nat /\ k + 1 \in 0..b /\ k + 1 \in 0..BufferSize /\ 1 \in 0..BufferSize
    BY <1>2, <2>2
  <2>4. Ahead(1)[1] = k
    <3>1. 1 \in 1..1 /\ 1 - 1 = 0
      OBVIOUS
    <3>2. Ahead(1)[1] = View[1 - 1]
      BY <2>3, <3>1, AheadIsView
    <3> QED BY <2>2, <3>1, <3>2
  <2>5. pvRxData' = Tail(Ahead(k + 1)) /\ Consume(k + 1)
    BY <1>5, <2>4 DEF xStreamBufferReceiveFromISR
  <2> DEFINE e == [i \in 0..b - 2 |-> c[i + 1]]
  <2>6. \A i \in 0..b - 2 : e[i] = c[i + 1]
    OBVIOUS
  <2>7. \A i \in 0..(b - 1) - k - 1 : d[i] = e[i + k]
    <3>1. \A i \in 0..BufferSize - 1 - (k + 1) : View'[i] = View[i + (k + 1)]
      BY <2>3, <2>5, ConsumeCells DEF TypeOK
    <3>2. \A i \in 0..(b - 1) - k - 1 : /\ i \in 0..BufferSize - 1 - (k + 1)
                                        /\ i + k \in 0..b - 2 /\ i + (k + 1) = (i + k) + 1
      BY <1>2, <2>3
    <3> QED BY <3>1, <3>2
  <2>8. b \in Nat /\ b - 1 \in Nat
    BY <1>2, <2>1
  <2>9. \/ open /\ Framed(b, c, 0, TRUE)
        \/ ~open /\ Framed(b, c, 0, FALSE)
    BY <1>3, <1>5 DEF CellsInOrder, Framed
  <2>10. k = c[0]
    BY <2>2
  <2> HIDE DEF b, c, d, e
  <2>11. \/ open /\ Framed(b - 1, e, k, TRUE)
         \/ ~open /\ Framed(b - 1, e, k, FALSE)
    BY <2>1, <2>6, <2>8, <2>9, <2>10, TakeLength DEF b
  <2>12. \/ open /\ Framed((b - 1) - k, d, 0, TRUE)
         \/ ~open /\ Framed((b - 1) - k, d, 0, FALSE)
    BY <2>3, <2>7, <2>8, <2>11, TakeData
  <2>13. (b - 1) - k = b - (k + 1)
    BY <2>3, <2>8
  <2>14. \A i \in 0..k - 1 : c[i + 1] \in Bytes
    <3>1. \A i \in 0..k - 1 : e[i] \in Bytes /\ i \in 0..b - 2
      BY <2>2, <2>3, <2>8, <2>11 DEF Framed, b
    <3> QED BY <2>6, <3>1
  <2>15. pvRxData' \in [1..k -> Bytes]
    <3> DEFINE f == Ahead(k + 1)
    <3>1. f = [i \in 1..k + 1 |-> View[i - 1]]
      BY <2>3, AheadIsView
    <3> HIDE DEF f
    <3>2. Tail(f) = [i \in 1..k |-> View[i]]
      BY <2>3, <3>1
    <3>3. \A i \in 1..k : View[i] \in Bytes
      <4>1. \A i \in 1..k : i - 1 \in 0..k - 1 /\ (i - 1) + 1 = i
        BY <2>3
      <4> QED BY <2>14, <4>1 DEF c
    <3> QED BY <2>5, <3>2, <3>3 DEF f
  <2>16. Consume(k + 1) /\ pvRxData' \in Pieces \cup {<< >>}
    BY <2>5, <2>15 DEF Pieces
  <2> QED BY <2>3, <2>12, <2>13, <2>16 DEF b
<1>6. PICK n \in 0..b :
         /\ Consume(n) /\ pvRxData' \in Pieces \cup {<< >>}
         /\ setting.message => \/ open /\ Framed(b - n, d, 0, TRUE)
                               \/ ~open /\ Framed(b - n, d, 0, FALSE)
  BY <1>4, <1>5
<1>7. /\ xHead' \in Cells /\ xTail' \in Cells /\ pucBuffer' = pucBuffer
      /\ CellsInOrder' /\ WriterInOrder'
  BY <1>1, <1>3, <1>6, AfterRead
<1>8. TypeOK'
  <2>1. /\ ucNotifyState' \in [Tasks -> {"notWaiting", "waiting", "received"}]
        /\ blocked' \subseteq Tasks
        /\ xTaskWaitingToReceive' \in BOOLEAN /\ xTaskWaitingToSend' \in BOOLEAN
    BY <1>1 DEF ReceiveCompleted, xTaskGenericNotify, NotifyState, TypeOK, notify, flags
  <2> QED BY <1>1, <1>6, <1>7, <2>1 DEF TypeOK, sends, calls
<1>9. ReaderInOrder'
  BY <1>1, <1>3 DEF ReaderInOrder
<1>10. WaitsInOrder'
  BY <1>1 DEF WaitsInOrder, Flag, notify, Tasks, ReceiveCompleted, xTaskGenericNotify, NotifyState,
              TypeOK
<1>11. WakesReader'
  BY <1>1 DEF WakesReader
<1>12. WakesWriter'
  BY <1>1 DEF WakesWriter, ReceiveCompleted
<1> QED BY <1>7, <1>8, <1>9, <1>10, <1>11, <1>12

-----------------------------------------------------------------------------
(* Both sides, and the theorems. *)

\* The buffer is reset, or its trigger level is set.
LEMMA BothSidesSteps ==
    ASSUME Careless = {}, Inv,
           \/ xStreamBufferReset
           \/ \E level \in TriggerLevels : xStreamBufferSetTriggerLevel(level)
    PROVE  Inv'
<1> USE DEF Inv
<1>1. CASE xStreamBufferReset
  <2>1. /\ UNCHANGED <<setting, xTriggerLevelBytes, flags, notify, calls, sends, reads>>
        /\ ~xTaskWaitingToReceive /\ ~xTaskWaitingToSend
        /\ pc["reader"] = "idle" /\ pc["writer"] = "idle" /\ pc' = pc
        /\ pucBuffer' = [c \in Cells |-> 0] /\ xHead' = 0 /\ xTail' = 0
    BY <1>1 DEF xStreamBufferReset, InCall, calls
  <2>2. xHead' \in Cells /\ xTail' \in Cells /\ BufferSize \in Nat /\ xLength = BufferSize + 1
    BY <2>1, StreamAssumption DEF Cells, xLength
  <2>3. prvBytesInBuffer' = 0 /\ xStreamBufferSpacesAvailable' = BufferSize
    <3>1. prvBytesInBuffer' = (xLength + 0 - 0) % xLength
      BY <2>1 DEF prvBytesInBuffer, xLength
    <3>2. xStreamBufferSpacesAvailable' = (xLength + 0 - 0 - 1) % xLength
      BY <2>1 DEF xStreamBufferSpacesAvailable, xLength
    <3> QED BY <2>2, <3>1, <3>2
  <2>4. TypeOK'
    <3>1. 0 \in 0..MaxLength
      BY StreamAssumption
    <3> QED BY <2>1, <2>2, <3>1 DEF TypeOK, flags, notify, calls, sends, reads
  <2>5. ~PutsBack /\ PutsBack' = FALSE /\ Held' = 0 /\ Taken' = 0
    BY <2>1 DEF PutsBack, Held, Taken
  <2>6. CellsInOrder'
    <3>1. Framed(prvBytesInBuffer', View', Taken', FALSE)
      BY <2>3, <2>5, FramedEmpty
    <3> QED BY <2>1, <2>3, <3>1 DEF CellsInOrder, Framed
  <2>7. WriterInOrder'
    BY <2>1, <2>2, <2>3, <2>5 DEF WriterInOrder, InCall, sends
  <2>8. ReaderInOrder' /\ WakesReader' /\ WakesWriter'
    BY <2>1, <2>5 DEF ReaderInOrder, WakesReader, WakesWriter
  <2>9. WaitsInOrder'
    BY <2>1 DEF WaitsInOrder, Flag, flags, notify, Tasks
  <2> QED BY <2>4, <2>6, <2>7, <2>8, <2>9
<1>2. ASSUME NEW level \in TriggerLevels, xStreamBufferSetTriggerLevel(level) PROVE Inv'
  <2>1. /\ UNCHANGED <<setting, buffer, flags, notify, calls, sends, reads>>
        /\ ~setting.message /\ xTriggerLevelBytes' = level /\ pc["reader"] = "idle" /\ pc' = pc
    BY <1>2 DEF xStreamBufferSetTriggerLevel, InCall, calls
  <2>2. TypeOK'
    BY <2>1, StreamAssumption DEF TypeOK, buffer, flags, notify, calls, sends, reads
  <2>3. ReaderInOrder' /\ Taken' = Taken /\ Held' = Held /\ (PutsBack' <=> PutsBack)
    BY <2>1, ReaderStays
  <2>4. WriterInOrder' /\ xRequiredSpace' = xRequiredSpace
    BY <2>1, <2>3, WriterStays
  <2>5. CellsInOrder'
    BY <2>1, <2>3, CellsStay DEF sends
  <2>6. WaitsInOrder'
    BY <2>1 DEF WaitsInOrder, Flag, flags, notify, Tasks
  <2>7. WakesReader' /\ WakesWriter'
    BY <2>1, <2>3, <2>4, BufferStays DEF WakesReader, WakesWriter, flags
  <2> QED BY <2>2, <2>3, <2>4, <2>5, <2>6, <2>7
<1> QED BY <1>1, <1>2

\* An empty buffer that nobody uses is in order.
LEMMA InitInv == Init => Inv
<1> SUFFICES ASSUME Init PROVE Inv
  OBVIOUS
<1>1. /\ setting \in [message : BOOLEAN, context : [Tasks -> {"task", "isr"}], above : Tasks]
      /\ pucBuffer = [c \in Cells |-> 0] /\ xHead = 0 /\ xTail = 0 /\ xTriggerLevelBytes = 1
      /\ xTaskWaitingToReceive = FALSE /\ xTaskWaitingToSend = FALSE /\ blocked = {}
      /\ ucNotifyState = [t \in Tasks |-> "notWaiting"]
      /\ pc = [t \in Tasks |-> "idle"] /\ pc["reader"] = "idle" /\ pc["writer"] = "idle"
      /\ xTicksToWait = [t \in Tasks |-> "none"]
      /\ pvTxData = << >> /\ xSpace = 0 /\ pvRxData = << >>
      /\ xBufferLengthBytes = 0 /\ xBytesAvailable = 0 /\ xNextMessageLength = 0
  <2>1. pucBuffer = [c \in Cells |-> 0]
    BY DEF Init
  <2> QED BY <2>1 DEF Init, Tasks
<1>2. xLength = BufferSize + 1 /\ BufferSize \in Nat \ {0} /\ 0 \in Cells /\ 0 \in 0..MaxLength
      /\ 0 \in 0..BufferSize /\ 1 \in 1..xLength
  BY StreamAssumption DEF Cells, xLength
<1>3. prvBytesInBuffer = 0 /\ xStreamBufferSpacesAvailable = BufferSize
  <2>1. prvBytesInBuffer = (xLength + 0 - 0) % xLength
    BY <1>1 DEF prvBytesInBuffer
  <2>2. xStreamBufferSpacesAvailable = (xLength + 0 - 0 - 1) % xLength
    BY <1>1 DEF xStreamBufferSpacesAvailable
  <2> QED BY <1>2, <2>1, <2>2
<1>4. TypeOK
  BY <1>1, <1>2 DEF TypeOK, PCs, Waits
<1>5. ~PutsBack /\ Held = 0 /\ Taken = 0
  BY <1>1 DEF PutsBack, Held, Taken
<1>6. CellsInOrder
  <2>1. Framed(prvBytesInBuffer, View, Taken, FALSE)
    BY <1>3, <1>5, FramedEmpty
  <2> QED BY <1>1, <1>3, <2>1 DEF CellsInOrder, Framed
<1>7. WriterInOrder /\ ReaderInOrder /\ WakesReader /\ WakesWriter
  BY <1>1, <1>2, <1>3, <1>5 DEF WriterInOrder, ReaderInOrder, WakesReader, WakesWriter, InCall
<1>8. WaitsInOrder
  BY <1>1 DEF WaitsInOrder, Flag, Tasks
<1> QED BY <1>4, <1>6, <1>7, <1>8 DEF Inv

\* Every step of a careful application keeps the buffer, both sides and their
\* notifications in order.
THEOREM Invariance == ASSUME Careless = {} PROVE Spec => []Inv
<1>1. ASSUME Inv, [Next]_vars PROVE Inv'
  <2> USE <1>1
  <2>1. ASSUME NEW frame \in Frames, NEW ticks \in Waits, xStreamBufferSend(frame, ticks)
        PROVE  Inv'
    BY <2>1, SendSteps DEF SendStep
  <2>2. ASSUME NEW frame \in Frames, xStreamBufferSendFromISR(frame) PROVE Inv'
    BY <2>2, SendFromISRStep
  <2>3. ASSUME NEW size \in Sizes, NEW ticks \in Waits, xStreamBufferReceive(size, ticks)
        PROVE  Inv'
    BY <2>3, ReceiveSteps DEF ReceiveStep
  <2>4. ASSUME NEW size \in 1..MaxLength, xStreamBufferReceiveFromISR(size) PROVE Inv'
    BY <2>4, ReceiveFromISRStep
  <2>5. CASE xStreamBufferNextMessageLengthBytes
    BY <2>5, NextMessageLengthStep
  <2>6. CASE Writer
    <3>1. "none" \in Waits
      BY DEF Waits
    <3>2. CASE NotifyWait("writer") \/ NotifyWaited("writer")
      BY <3>2, NotificationSteps DEF Tasks
    <3>3. CASE CheckSpace \/ ForgetSender \/ SendTimeOut \/ LookForSpace \/ WriteRefused \/ Sent
               \/ NotifyReader
      <4>1. pvTxData \in Frames
        BY <3>3 DEF CheckSpace, ForgetSender, SendTimeOut, LookForSpace, WriteRefused, Sent,
                    NotifyReader, At, Inv, WriterInOrder, InCall
      <4> QED BY <3>1, <3>3, <4>1, SendSteps DEF SendStep
    <3>4. CASE Write \/ WriteData
      BY <3>4, WriteStep, WriteDataStep
    <3> QED BY <2>6, <3>2, <3>3, <3>4 DEF Writer
  <2>7. CASE Reader
    <3>1. "none" \in Waits /\ MaxLength \in Sizes
      BY StreamAssumption DEF Waits, Sizes
    <3>2. CASE NotifyWait("reader") \/ NotifyWaited("reader")
      BY <3>2, NotificationSteps DEF Tasks
    <3>3. CASE CheckBytes \/ ForgetReceiver \/ LookForBytes \/ NothingThere \/ NotifyWriter
      BY <3>1, <3>3, ReceiveSteps DEF ReceiveStep
    <3>4. CASE ReadLength \/ PutBack \/ ReadData \/ PutLengthBack
      BY <3>4, ReadLengthStep, PutBackSteps, ReadDataStep
    <3> QED BY <2>7, <3>2, <3>3, <3>4 DEF Reader
  <2>8. CASE xStreamBufferReset \/ \E level \in TriggerLevels : xStreamBufferSetTriggerLevel(level)
    BY <2>8, BothSidesSteps
  <2>9. ASSUME NEW t \in Tasks, TickWakes(t) \/ NotifiedByOther(t) \/ vTaskResume(t) PROVE Inv'
    BY <2>9, NotificationSteps
  <2>10. CASE UNCHANGED vars
    <3>1. UNCHANGED <<setting, buffer, xTriggerLevelBytes, flags, notify, calls, sends, reads>>
      BY <2>10 DEF vars
    <3>2. TypeOK'
      BY <3>1 DEF Inv, TypeOK, buffer, flags, notify, calls, sends, reads
    <3>3. pc' = pc
      BY <3>1 DEF calls
    <3>4. ReaderInOrder' /\ Taken' = Taken /\ Held' = Held /\ (PutsBack' <=> PutsBack)
      BY <3>1, <3>3, ReaderStays DEF Inv
    <3>5. WriterInOrder' /\ xRequiredSpace' = xRequiredSpace
      BY <3>1, <3>3, <3>4, WriterStays DEF Inv
    <3>6. CellsInOrder'
      BY <3>1, <3>3, <3>4, CellsStay DEF Inv, sends
    <3>7. WaitsInOrder'
      BY <3>1, <3>3 DEF Inv, WaitsInOrder, Flag, flags, notify, Tasks
    <3>8. WakesReader' /\ WakesWriter'
      BY <3>1, <3>3, <3>4, <3>5, BufferStays DEF Inv, WakesReader, WakesWriter, flags
    <3> QED BY <3>2, <3>4, <3>5, <3>6, <3>7, <3>8 DEF Inv
  <2> QED BY <2>1, <2>2, <2>3, <2>4, <2>5, <2>6, <2>7, <2>8, <2>9, <2>10 DEF Next
<1> QED BY <1>1, InitInv, PTL DEF Spec

\* The variables of stream_buffer.c keep to their ranges: the indexes to the ring,
\* what is announced to what fits, a length to a length.
THEOREM TypeCorrect == ASSUME Careless = {} PROVE Spec => []TypeOK
<1>1. Inv => TypeOK
  BY DEF Inv
<1> QED BY <1>1, Invariance, PTL

\* A call is short enough for the two sides never to wait for each other: what is
\* written fits in the buffer as long as the reader waits for its level.
CallsFit ==
    /\ MaxLength < BufferSize
    /\ \A level \in TriggerLevels : level + MaxLength <= xLength

\* No task is left blocked when what it waits for is there (the flags of waiting
\* tasks in xStreamBufferSend and xStreamBufferReceive), nor both tasks at once.
THEOREM WaitersNotified ==
    ASSUME Careless = {}, CallsFit PROVE Spec => []WaitersAreNotified
<1>1. ASSUME Inv PROVE WaitersAreNotified
  <2> USE <1>1 DEF Inv
  <2> DEFINE b == prvBytesInBuffer
             s == xStreamBufferSpacesAvailable
  <2>1. b \in 0..BufferSize /\ s = BufferSize - b /\ BufferSize \in Nat /\ MaxLength \in Nat
        /\ xLength = BufferSize + 1 /\ xTriggerLevelBytes \in 1..xLength
    BY Counts, StreamAssumption DEF TypeOK, xLength
  <2>2. ASSUME "reader" \in blocked
        PROVE  b >= xTriggerLevelBytes => pc["writer"] \in {"data", "sent", "notify"}
    BY <2>2 DEF WaitsInOrder, WakesReader, Flag, Tasks
  <2>3. ASSUME "writer" \in blocked
        PROVE  /\ pc["writer"] = "waited"
               /\ s >= xRequiredSpace => pc["reader"] \in {"putBack", "peeked", "read", "received"}
    BY <2>3 DEF WaitsInOrder, WakesWriter, Flag, Tasks
  <2>4. ASSUME blocked = Tasks PROVE FALSE
    <3>1. "reader" \in blocked /\ "writer" \in blocked
      BY <2>4 DEF Tasks
    <3>2. pc["writer"] = "waited" /\ pc["reader"] = "waited"
      BY <3>1 DEF WaitsInOrder, Tasks
    <3>3. ~(b >= xTriggerLevelBytes) /\ ~(s >= xRequiredSpace)
      BY <2>2, <2>3, <3>1, <3>2
    <3>4. xRequiredSpace \in 1..MaxLength + LengthCells
      BY <3>2, RequiredSpace DEF InCall
    <3>5. CASE setting.message
      <4>1. xTriggerLevelBytes = 1 /\ LengthCells = 1
        BY <3>5 DEF WaitsInOrder, LengthCells
      <4> QED BY <2>1, <3>3, <3>4, <4>1 DEF CallsFit
    <3>6. CASE ~setting.message
      <4>1. LengthCells = 0
        BY <3>6 DEF LengthCells
      <4>2. xTriggerLevelBytes + MaxLength <= xLength
        BY <2>1, StreamAssumption DEF CallsFit, WaitsInOrder
      <4> QED BY <2>1, <3>3, <3>4, <4>1, <4>2
    <3> QED BY <3>5, <3>6
  <2> QED BY <2>2, <2>3, <2>4 DEF WaitersAreNotified
<1> QED BY <1>1, Invariance, PTL

\* A length that is put back leaves the messages in the buffer as they were.
LEMMA PutBackStays ==
    ASSUME Inv, PutBack \/ PutLengthBack PROVE UNCHANGED Queued
<1> USE DEF Inv
<1> DEFINE b == prvBytesInBuffer
<1>1. /\ pc["reader"] \in {"putBack", "peeked"} /\ pc'["reader"] = "idle" /\ setting' = setting
      /\ xTail' = (xTail - 1) % xLength /\ pucBuffer' = pucBuffer /\ xHead' = xHead
  BY DEF PutBack, PutLengthBack, ReceiveReturns, ReaderOnly, At, Goto, TypeOK, Tasks
<1>2. /\ b < BufferSize /\ pucBuffer[(xTail - 1) % xLength] = xNextMessageLength
      /\ setting.message
  BY <1>1 DEF ReaderInOrder, PutsBack
<1>3. b \in 0..BufferSize /\ b \in Nat /\ b + 1 \in 0..BufferSize /\ BufferSize \in Nat
  BY <1>2, Counts, StreamAssumption DEF TypeOK
<1>4. /\ prvBytesInBuffer' = b + 1 /\ View'[0] = xNextMessageLength
      /\ \A i \in 1..BufferSize - 1 : View'[i] = View[i - 1]
  BY <1>1, <1>2, PutBackCell DEF TypeOK
<1>5. PICK n \in Nat : n = b
  BY <1>3
<1>6. Unread = <<xNextMessageLength>> \o [i \in 1..n |-> View[i - 1]]
  BY <1>1, <1>2, <1>3, <1>5, AheadIsView DEF Unread
<1>7. Unread' = [i \in 1..n + 1 |-> View'[i - 1]]
  <2>1. ASSUME NEW i \in 1..n + 1
        PROVE  pucBuffer'[(xTail' + i - 1) % xLength] = View'[i - 1]
    <3>1. i - 1 \in 0..BufferSize - 1
      BY <1>3, <1>5
    <3>2. View'[i - 1] = pucBuffer'[(xTail' + (i - 1)) % xLength]
      BY <3>1 DEF View, xLength
    <3>3. xTail' + i - 1 = xTail' + (i - 1)
      OBVIOUS
    <3> QED BY <3>2, <3>3
  <2>2. Unread' = [i \in 1..n + 1 |-> pucBuffer'[(xTail' + i - 1) % xLength]]
    BY <1>1, <1>4, <1>5 DEF Unread, Ahead, xLength
  <2> QED BY <2>1, <2>2
<1>8. Unread' = Unread
  <2> DEFINE c == [i \in 1..n |-> View[i - 1]]
  <2>1. Len(c) = n /\ Len(<<xNextMessageLength>>) = 1
    BY <1>5
  <2>2. Unread = [i \in 1..n + 1 |-> IF i = 1 THEN xNextMessageLength ELSE View[i - 1 - 1]]
    BY <1>5, <1>6
  <2>3. \A i \in 1..n + 1 : View'[i - 1] = IF i = 1 THEN xNextMessageLength ELSE View[i - 1 - 1]
    BY <1>3, <1>4, <1>5
  <2> QED BY <1>7, <2>2, <2>3
<1> QED BY <1>1, <1>2, <1>8 DEF Queued

\* A length that is put back leaves the messages in the buffer as they were: nobody
\* writes while prvReadMessageFromBuffer or xStreamBufferNextMessageLengthBytes has it.
THEOREM PutBackIsHarmless == ASSUME Careless = {} PROVE Spec => PutBackKeepsMessages
<1>1. ASSUME Inv, [Next]_vars PROVE [PutBack \/ PutLengthBack => UNCHANGED Queued]_vars
  BY <1>1, PutBackStays
<1> QED BY <1>1, Invariance, PTL DEF Spec, PutBackKeepsMessages

-----------------------------------------------------------------------------
(* Induction over the numbers, from the library's theorem that they are well founded. *)

\* A set of numbers has a least one.
LEMMA Least ==
    ASSUME NEW S, S \subseteq Nat, S # {}
    PROVE  \E x \in S : \A y \in S : x <= y
<1>1. OpToRel(<, Nat) = {p \in Nat \X Nat : p[1] < p[2]}
  BY DEF OpToRel
<1>2. PICK R : R = {p \in Nat \X Nat : p[1] < p[2]} /\ IsWellFoundedOn(R, Nat)
  BY <1>1, NatLessThanWellFounded
<1>3. \E x \in S : \A y \in S : ~ (<<y, x>> \in R)
  BY <1>2, WFMin
<1>4. PICK x \in S : \A y \in S : ~ (<<y, x>> \in R)
  BY <1>3
<1>5. ASSUME NEW y \in S PROVE x <= y
  <2>1. x \in Nat /\ y \in Nat
    OBVIOUS
  <2>2. ~(y < x)
    BY <1>2, <1>4, <2>1
  <2> QED BY <2>1, <2>2
<1> QED BY <1>5

\* A set that has every number of which it has all that are less has all numbers.
LEMMA AllNumbers ==
    ASSUME NEW S, \A n \in Nat : (\A m \in 0..n - 1 : m \in S) => n \in S
    PROVE  \A n \in Nat : n \in S
<1> DEFINE T == {n \in Nat : n \notin S}
<1>1. SUFFICES ASSUME T # {} PROVE FALSE
  OBVIOUS
<1>2. PICK x \in T : \A y \in T : x <= y
  BY <1>1, Least
<1>3. \A m \in 0..x - 1 : m \in S
  BY <1>2
<1> QED BY <1>2, <1>3
-----------------------------------------------------------------------------
(* Sequences that are put together along a chain of places. *)

\* f[i] is a piece and what comes at the next place, or nothing where the chain stops.
Chained(f, n, stop, piece, next) ==
    \A i \in 1..n + 1 : f[i] = IF stop[i] THEN << >> ELSE piece[i] \o f[next[i]]

\* There is such a function.
LEMMA ChainExists ==
    ASSUME NEW n \in Nat, NEW stop, NEW piece, NEW next,
           \A i \in 1..n + 1 : ~stop[i] => next[i] \in i + 1..n + 1
    PROVE  \E f : f = [i \in 1..n + 1 |-> f[i]] /\ Chained(f, n, stop, piece, next)
<1> DEFINE Is(f, i) == f[i] = IF stop[i] THEN << >> ELSE piece[i] \o f[next[i]]
           S == {k \in Nat : k <= n => \E f : \A i \in n + 1 - k..n + 1 : Is(f, i)}
<1>1. ASSUME NEW k \in Nat, \A m \in 0..k - 1 : m \in S PROVE k \in S
  <2> SUFFICES ASSUME k <= n PROVE \E f : \A i \in n + 1 - k..n + 1 : Is(f, i)
    OBVIOUS
  <2>1. CASE k = 0
    <3>1. stop[n + 1]
      OBVIOUS
    <3>2. PICK f : f = [i \in 1..n + 1 |-> << >>]
      OBVIOUS
    <3>3. \A i \in n + 1 - k..n + 1 : Is(f, i)
      BY <2>1, <3>1, <3>2
    <3> QED BY <3>3
  <2>2. CASE k > 0
    <3>1. k - 1 \in 0..k - 1 /\ k - 1 <= n
      BY <2>2
    <3>2. PICK f : \A i \in n + 1 - (k - 1)..n + 1 : Is(f, i)
      BY <1>1, <3>1
    <3> DEFINE p == n + 1 - k
               g == [i \in 1..n + 1 |-> IF i = p THEN IF stop[p] THEN << >> ELSE piece[p] \o f[next[p]]
                                                 ELSE f[i]]
    <3>3. ASSUME NEW i \in p..n + 1 PROVE Is(g, i)
      <4>1. i \in 1..n + 1
        OBVIOUS
      <4>2. ~stop[i] => next[i] \in i + 1..n + 1 /\ next[i] \in 1..n + 1 /\ next[i] # p
        BY <4>1
      <4>3. ~stop[i] => g[next[i]] = f[next[i]]
        BY <4>2
      <4>4. CASE i = p
        BY <4>1, <4>3, <4>4
      <4>5. CASE i # p
        <5>1. i \in n + 1 - (k - 1)..n + 1
          BY <4>5
        <5>2. Is(f, i)
          BY <3>2, <5>1
        <5>3. g[i] = f[i]
          BY <4>1, <4>5
        <5> HIDE DEF g
        <5> QED BY <4>3, <5>2, <5>3
      <4> QED BY <4>4, <4>5
    <3> HIDE DEF g
    <3> QED BY <3>3
  <2> QED BY <2>1, <2>2
<1>2. n \in S
  <2> HIDE DEF S
  <2> QED BY <1>1, AllNumbers
<1>3. PICK f : \A i \in 1..n + 1 : Is(f, i)
  BY <1>2
<1>4. PICK g : g = [i \in 1..n + 1 |-> f[i]]
  OBVIOUS
<1>5. ASSUME NEW i \in 1..n + 1
      PROVE  f[i] = IF stop[i] THEN << >> ELSE piece[i] \o g[next[i]]
  <2>1. ~stop[i] => next[i] \in 1..n + 1
    OBVIOUS
  <2>2. ~stop[i] => g[next[i]] = f[next[i]]
    BY <1>4, <2>1
  <2> QED BY <1>3, <2>2
<1>6. g = [i \in 1..n + 1 |-> g[i]] /\ Chained(g, n, stop, piece, next)
  BY <1>4, <1>5 DEF Chained
<1> QED BY <1>6

\* What it gives is a sequence of what the pieces are made of.
LEMMA ChainType ==
    ASSUME NEW n \in Nat, NEW stop, NEW piece, NEW next, NEW f, NEW X,
           Chained(f, n, stop, piece, next),
           \A i \in 1..n + 1 : ~stop[i] => next[i] \in i + 1..n + 1 /\ piece[i] \in Seq(X)
    PROVE  \A i \in 1..n + 1 : f[i] \in Seq(X)
<1> DEFINE S == {k \in Nat : k <= n => f[n + 1 - k] \in Seq(X)}
<1>1. ASSUME NEW k \in Nat, \A m \in 0..k - 1 : m \in S PROVE k \in S
  <2> SUFFICES ASSUME k <= n PROVE f[n + 1 - k] \in Seq(X)
    OBVIOUS
  <2>1. PICK i \in 1..n + 1 : i = n + 1 - k
    OBVIOUS
  <2>2. f[i] = IF stop[i] THEN << >> ELSE piece[i] \o f[next[i]]
    BY DEF Chained
  <2>3. CASE stop[i]
    BY <2>1, <2>2, <2>3
  <2>4. CASE ~stop[i]
    <3>1. PICK j \in i + 1..n + 1 : j = next[i]
      BY <2>4
    <3>2. PICK m \in 0..k - 1 : m = n + 1 - j
      BY <2>1, <3>1
    <3>3. m <= n /\ j = n + 1 - m
      BY <3>1, <3>2
    <3>4. f[j] \in Seq(X)
      BY <1>1, <3>3
    <3>5. piece[i] \in Seq(X)
      BY <2>4
    <3>6. piece[i] \o f[j] \in Seq(X)
      BY <3>4, <3>5
    <3> QED BY <2>1, <2>2, <2>4, <3>1, <3>6
  <2> QED BY <2>3, <2>4
<1>2. ASSUME NEW i \in 1..n + 1 PROVE f[i] \in Seq(X)
  <2>1. PICK k \in Nat : k = n + 1 - i
    OBVIOUS
  <2>2. k \in S
    <3> HIDE DEF S
    <3> QED BY <1>1, AllNumbers
  <2>3. k <= n /\ n + 1 - k = i
    BY <2>1
  <2> QED BY <2>2, <2>3
<1> QED BY <1>2

-----------------------------------------------------------------------------
(* The messages in a sequence of cells. *)

\* What a cell holds.
Values == Bytes \cup 0..MaxLength

\* Where a message with its length at i ends; as Messages has it.
EndsAt(cells, i) == IF cells[i] \in 1..MaxLength THEN i + cells[i] ELSE Len(cells) + 1

\* No whole message begins here.
NoMessageAt(cells, i) == i > Len(cells) \/ EndsAt(cells, i) > Len(cells)

\* The messages from a place on.
MessagesFrom(cells) ==
    CHOOSE f : f = [i \in 1..Len(cells) + 1 |->
                      IF NoMessageAt(cells, i) THEN << >>
                      ELSE <<SubSeq(cells, i + 1, EndsAt(cells, i))>> \o f[EndsAt(cells, i) + 1]]

\* Messages is what there is from the first cell on.
LEMMA MessagesAre ==
    ASSUME NEW cells PROVE Messages(cells) = MessagesFrom(cells)[1]
BY DEF Messages, MessagesFrom, NoMessageAt, EndsAt

\* They are what the recursive definition says.
LEMMA MessagesFromIs ==
    ASSUME NEW cells \in Seq(Values), NEW i \in 1..Len(cells) + 1
    PROVE  /\ MessagesFrom(cells)[i] =
                 IF NoMessageAt(cells, i) THEN << >>
                 ELSE <<SubSeq(cells, i + 1, EndsAt(cells, i))>> \o MessagesFrom(cells)[EndsAt(cells, i) + 1]
           /\ MessagesFrom(cells)[i] \in Seq(Seq(Values))
<1>1. PICK n \in Nat : n = Len(cells)
  OBVIOUS
<1>2. PICK stop : stop = [j \in 1..n + 1 |-> NoMessageAt(cells, j)]
  OBVIOUS
<1>3. PICK piece : piece = [j \in 1..n + 1 |-> <<SubSeq(cells, j + 1, EndsAt(cells, j))>>]
  OBVIOUS
<1>4. PICK next : next = [j \in 1..n + 1 |-> EndsAt(cells, j) + 1]
  OBVIOUS
<1>5. ASSUME NEW j \in 1..n + 1, ~stop[j]
      PROVE  next[j] \in j + 1..n + 1 /\ piece[j] \in Seq(Seq(Values))
  <2>1. j <= n /\ cells[j] \in 1..MaxLength /\ j + cells[j] <= n /\ EndsAt(cells, j) = j + cells[j]
    <3>1. ~NoMessageAt(cells, j)
      BY <1>2, <1>5
    <3>2. j <= n /\ ~(EndsAt(cells, j) > n)
      BY <1>1, <3>1 DEF NoMessageAt
    <3>3. CASE cells[j] \in 1..MaxLength
      BY <1>1, <3>2, <3>3, StreamAssumption DEF EndsAt
    <3>4. CASE cells[j] \notin 1..MaxLength
      BY <1>1, <3>2, <3>4 DEF EndsAt
    <3> QED BY <3>3, <3>4
  <2>2. PICK e \in Nat : e = j + cells[j] /\ e > j /\ e <= n
    BY <2>1, StreamAssumption
  <2>3. SubSeq(cells, j + 1, e) \in Seq(Values)
    <3>1. \A k \in j + 1..e : cells[k] \in Values
      BY <1>1, <2>2
    <3> QED BY <2>2, <3>1, SubSeqProperties
  <2>4. piece[j] = <<SubSeq(cells, j + 1, e)>> /\ next[j] = e + 1
    BY <1>3, <1>4, <2>1, <2>2
  <2>5. \A y \in Seq(Values) : <<y>> \in Seq(Seq(Values))
    OBVIOUS
  <2>6. piece[j] \in Seq(Seq(Values))
    BY <2>3, <2>4, <2>5
  <2>7. next[j] \in j + 1..n + 1
    BY <2>2, <2>4
  <2> QED BY <2>6, <2>7
<1> DEFINE Body(f, j) == IF NoMessageAt(cells, j) THEN << >>
                         ELSE <<SubSeq(cells, j + 1, EndsAt(cells, j))>> \o f[EndsAt(cells, j) + 1]
<1>6. \A f : \A j \in 1..n + 1 : Body(f, j) = IF stop[j] THEN << >> ELSE piece[j] \o f[next[j]]
  <2> SUFFICES ASSUME NEW f, NEW j \in 1..n + 1
               PROVE  Body(f, j) = IF stop[j] THEN << >> ELSE piece[j] \o f[next[j]]
    OBVIOUS
  <2>1. /\ (stop[j] <=> NoMessageAt(cells, j)) /\ next[j] = EndsAt(cells, j) + 1
        /\ piece[j] = <<SubSeq(cells, j + 1, EndsAt(cells, j))>>
    BY <1>2, <1>3, <1>4
  <2> QED BY <2>1
<1>7. PICK f : f = [j \in 1..n + 1 |-> f[j]] /\ Chained(f, n, stop, piece, next)
  <2>1. \A j \in 1..n + 1 : ~stop[j] => next[j] \in j + 1..n + 1
    BY <1>5
  <2> QED BY <2>1, ChainExists
<1>8. f = [j \in 1..Len(cells) + 1 |-> Body(f, j)]
  <2>1. \A j \in 1..n + 1 : f[j] = Body(f, j)
    BY <1>6, <1>7 DEF Chained
  <2> HIDE DEF Body
  <2> QED BY <1>1, <1>7, <2>1
<1>9. PICK g : g = MessagesFrom(cells)
  OBVIOUS
<1>10. g = [j \in 1..Len(cells) + 1 |-> Body(g, j)]
  BY <1>8, <1>9 DEF MessagesFrom
<1>11. Chained(g, n, stop, piece, next)
  <2>1. \A j \in 1..n + 1 : g[j] = Body(g, j)
    BY <1>1, <1>10
  <2> HIDE DEF Body
  <2> QED BY <1>6, <2>1 DEF Chained
<1>12. g[i] \in Seq(Seq(Values))
  BY <1>1, <1>5, <1>11, ChainType
<1>13. g[i] = Body(g, i)
  BY <1>10
<1> QED BY <1>9, <1>12, <1>13

\* Cells that hold whole messages and nothing else.
WholeMessages(t) ==
    /\ t # << >> => t[1] \in 1..MaxLength
    /\ \A i \in 1..Len(t) :
          t[i] \in 1..MaxLength =>
             /\ i + t[i] <= Len(t)
             /\ i + t[i] < Len(t) => t[i + t[i] + 1] \in 1..MaxLength

\* Whole messages between other cells: they come before those that follow them.
LEMMA MessagesShift ==
    ASSUME NEW s \in Seq(Values), NEW t \in Seq(Values), NEW k \in Nat, Len(t) + k <= Len(s),
           \A i \in 1..Len(t) : t[i] = s[i + k], WholeMessages(t)
    PROVE  /\ MessagesFrom(s)[k + 1] = Messages(t) \o MessagesFrom(s)[Len(t) + k + 1]
           /\ Messages(t) \in Seq(Seq(Values)) /\ MessagesFrom(s)[Len(t) + k + 1] \in Seq(Seq(Values))
<1>1. PICK m, l : m \in Nat /\ l \in Nat /\ m = Len(t) /\ l = Len(s) /\ m + k <= l
  BY LenProperties
<1>2. PICK f, g : f = MessagesFrom(s) /\ g = MessagesFrom(t)
  OBVIOUS
<1>3. PICK x : x = f[m + k + 1] /\ x \in Seq(Seq(Values))
  <2>1. m + k + 1 \in 1..Len(s) + 1
    BY <1>1
  <2> QED BY <1>2, <2>1, MessagesFromIs
<1> DEFINE Starts(i) == i = m + 1 \/ t[i] \in 1..MaxLength
           S == {j \in Nat : j <= m /\ Starts(m + 1 - j) => f[m + 1 - j + k] = g[m + 1 - j] \o x}
<1>4. ASSUME NEW j \in Nat, \A i \in 0..j - 1 : i \in S PROVE j \in S
  <2>1. SUFFICES ASSUME j <= m, Starts(m + 1 - j) PROVE f[m + 1 - j + k] = g[m + 1 - j] \o x
    OBVIOUS
  <2>2. PICK i \in 1..m + 1 : i = m + 1 - j /\ Starts(i)
    BY <1>1, <2>1
  <2>3. /\ g[i] = IF NoMessageAt(t, i) THEN << >>
                  ELSE <<SubSeq(t, i + 1, EndsAt(t, i))>> \o g[EndsAt(t, i) + 1]
        /\ g[i] \in Seq(Seq(Values))
    BY <1>1, <1>2, <2>2, MessagesFromIs
  <2>4. CASE i = m + 1
    <3>1. g[i] = << >>
      BY <1>1, <2>2, <2>3, <2>4 DEF NoMessageAt
    <3>2. f[i + k] = x
      BY <1>1, <1>3, <2>4
    <3> QED BY <1>3, <2>2, <3>1, <3>2
  <2>5. CASE i # m + 1
    <3>1. i \in 1..m /\ t[i] \in 1..MaxLength
      BY <1>1, <2>2, <2>5
    <3>2. /\ i + t[i] <= Len(t)
          /\ i + t[i] < Len(t) => t[i + t[i] + 1] \in 1..MaxLength
      BY <1>1, <3>1 DEF WholeMessages
    <3>3. PICK e \in Nat : e = i + t[i] /\ i < e /\ e <= m
      BY <1>1, <3>1, <3>2, StreamAssumption
    <3>4. Starts(e + 1) /\ e + 1 \in 1..m + 1
      BY <1>1, <3>2, <3>3
    <3>5. PICK h \in 0..j - 1 : h = m - e
      BY <1>1, <2>2, <3>3
    <3>6. h <= m /\ m + 1 - h = e + 1
      BY <1>1, <3>3, <3>5
    <3>7. f[e + 1 + k] = g[e + 1] \o x
      BY <1>4, <3>4, <3>5, <3>6
    <3>8. g[i] = <<SubSeq(t, i + 1, e)>> \o g[e + 1] /\ g[e + 1] \in Seq(Seq(Values))
      <4>1. EndsAt(t, i) = e /\ ~NoMessageAt(t, i)
        BY <1>1, <3>1, <3>3 DEF EndsAt, NoMessageAt
      <4> QED BY <1>1, <1>2, <2>3, <3>4, <4>1, MessagesFromIs
    <3>9. f[i + k] = <<SubSeq(s, i + k + 1, e + k)>> \o f[e + k + 1]
      <4>1. i + k \in 1..Len(s) + 1 /\ s[i + k] = t[i]
        BY <1>1, <3>1
      <4>2. EndsAt(s, i + k) = e + k /\ ~NoMessageAt(s, i + k)
        BY <1>1, <3>1, <3>3, <4>1 DEF EndsAt, NoMessageAt
      <4> QED BY <1>2, <4>1, <4>2, MessagesFromIs
    <3>10. SubSeq(s, i + k + 1, e + k) = SubSeq(t, i + 1, e) /\ SubSeq(t, i + 1, e) \in Seq(Values)
      <4>1. /\ SubSeq(s, i + k + 1, e + k) \in Seq(Values) /\ Len(SubSeq(s, i + k + 1, e + k)) = e - i
            /\ \A n \in 1..e - i : SubSeq(s, i + k + 1, e + k)[n] = s[i + k + n]
        <5>1. PICK p, q : p = i + k + 1 /\ q = e + k /\ p \in 1..l /\ q \in 1..l /\ p <= q
                          /\ q - p + 1 = e - i
          BY <1>1, <3>1, <3>3
        <5>2. \A n \in p..q : s[n] \in Values
          <6>1. \A n \in p..q : n \in 1..Len(s)
            BY <1>1, <5>1
          <6> QED BY <6>1
        <5>3. \A n \in 1..e - i : p + n - 1 = i + k + n
          BY <1>1, <3>3, <5>1
        <5>4. /\ SubSeq(s, p, q) \in Seq(Values) /\ Len(SubSeq(s, p, q)) = q - p + 1
              /\ \A n \in 1..q - p + 1 : SubSeq(s, p, q)[n] = s[p + n - 1]
          <6>1. p \in Int /\ q \in Int
            BY <1>1, <5>1
          <6> QED BY <5>1, <5>2, <6>1, SubSeqProperties
        <5> QED BY <5>1, <5>3, <5>4
      <4>2. /\ SubSeq(t, i + 1, e) \in Seq(Values) /\ Len(SubSeq(t, i + 1, e)) = e - i
            /\ \A n \in 1..e - i : SubSeq(t, i + 1, e)[n] = t[i + n]
        BY <1>1, <3>1, <3>3
      <4>3. \A n \in 1..e - i : t[i + n] = s[i + k + n]
        <5>1. ASSUME NEW n \in 1..e - i PROVE t[i + n] = s[i + k + n]
          <6>1. i + n \in 1..Len(t) /\ i + n + k = i + k + n
            BY <1>1, <3>1, <3>3
          <6> QED BY <6>1
        <5> QED BY <5>1
      <4>4. PICK v, w : v = SubSeq(s, i + k + 1, e + k) /\ w = SubSeq(t, i + 1, e)
        OBVIOUS
      <4>5. v \in Seq(Values) /\ w \in Seq(Values) /\ Len(v) = e - i /\ Len(w) = e - i
            /\ \A n \in 1..e - i : v[n] = w[n]
        BY <4>1, <4>2, <4>3, <4>4
      <4> QED BY <4>4, <4>5, SeqEqual
    <3>11. PICK y, z : y = <<SubSeq(t, i + 1, e)>> /\ z = g[e + 1]
      OBVIOUS
    <3>12. y \in Seq(Seq(Values)) /\ z \in Seq(Seq(Values))
      <4>1. \A u \in Seq(Values) : <<u>> \in Seq(Seq(Values))
        OBVIOUS
      <4> QED BY <3>8, <3>10, <3>11, <4>1
    <3>13. (y \o z) \o x = y \o (z \o x)
      <4>1. PICK X : X = Seq(Values)
        OBVIOUS
      <4>2. x \in Seq(X) /\ y \in Seq(X) /\ z \in Seq(X)
        BY <1>3, <3>12, <4>1
      <4> QED BY <4>2, ConcatAssociative, SMTT(30)
    <3>14. e + 1 + k = e + k + 1
      BY <1>1, <3>3
    <3> QED BY <2>2, <3>7, <3>8, <3>9, <3>10, <3>11, <3>13, <3>14
  <2> QED BY <2>4, <2>5
<1>5. Starts(1)
  BY <1>1 DEF WholeMessages
<1>6. m \in S
  <2> HIDE DEF S
  <2> QED BY <1>1, <1>4, AllNumbers
<1>7. f[k + 1] = g[1] \o x
  <2>1. m + 1 - m = 1 /\ m + 1 - m + k = k + 1
    BY <1>1
  <2> HIDE DEF Starts
  <2> QED BY <1>1, <1>5, <1>6, <2>1
<1>8. Messages(t) = g[1] /\ g[1] \in Seq(Seq(Values))
  <2>1. 1 \in 1..Len(t) + 1
    BY <1>1
  <2> QED BY <1>2, <2>1, MessagesAre, MessagesFromIs
<1> QED BY <1>1, <1>2, <1>3, <1>7, <1>8

\* Nothing begins in the last cell.
LEMMA LastCell ==
    ASSUME NEW s \in Seq(Values), NEW i \in 1..Len(s) + 1, i >= Len(s)
    PROVE  MessagesFrom(s)[i] = << >>
<1>1. PICK l \in Nat : l = Len(s)
  OBVIOUS
<1>2. NoMessageAt(s, i)
  <2>1. CASE i > l
    BY <1>1, <2>1 DEF NoMessageAt
  <2>2. CASE i = l /\ s[i] \in 1..MaxLength
    BY <1>1, <2>2, StreamAssumption DEF NoMessageAt, EndsAt
  <2>3. CASE i = l /\ s[i] \notin 1..MaxLength
    BY <1>1, <2>3 DEF NoMessageAt, EndsAt
  <2> QED BY <1>1, <2>1, <2>2, <2>3
<1> QED BY <1>2, MessagesFromIs

\* Whole messages, and perhaps a cell behind them.
LEMMA CellBehind ==
    ASSUME NEW s \in Seq(Values), NEW t \in Seq(Values), WholeMessages(t),
           Len(s) \in {Len(t), Len(t) + 1}, \A i \in 1..Len(t) : t[i] = s[i]
    PROVE  Messages(s) = Messages(t) /\ Messages(t) \in Seq(Seq(Values))
<1>1. PICK l, m : m \in Nat /\ l \in Nat /\ m = Len(t) /\ l = Len(s) /\ l \in {m, m + 1}
  BY LenProperties
<1>2. /\ MessagesFrom(s)[0 + 1] = Messages(t) \o MessagesFrom(s)[Len(t) + 0 + 1]
      /\ Messages(t) \in Seq(Seq(Values))
  <2>1. 0 \in Nat /\ Len(t) + 0 <= Len(s) /\ \A i \in 1..Len(t) : t[i] = s[i + 0]
    BY <1>1
  <2> QED BY <2>1, MessagesShift
<1>3. MessagesFrom(s)[m + 1] = << >>
  <2>1. m + 1 \in 1..Len(s) + 1 /\ m + 1 >= Len(s)
    BY <1>1
  <2> QED BY <2>1, LastCell
<1>4. Messages(t) \o << >> = Messages(t)
  BY <1>2
<1>5. MessagesFrom(s)[1] = Messages(t) \o MessagesFrom(s)[m + 1]
  BY <1>1, <1>2
<1> QED BY <1>2, <1>3, <1>4, <1>5, MessagesAre

\* A message behind whole messages.
LEMMA MessageBehind ==
    ASSUME NEW s \in Seq(Values), NEW t \in Seq(Values), WholeMessages(t),
           NEW n \in 1..MaxLength, Len(s) = Len(t) + 1 + n, s[Len(t) + 1] = n,
           \A i \in 1..Len(t) : t[i] = s[i]
    PROVE  Messages(s) = Messages(t) \o <<SubSeq(s, Len(t) + 2, Len(t) + 1 + n)>>
<1>1. PICK m : m \in Nat /\ m = Len(t) /\ Len(s) = m + 1 + n /\ n \in Nat /\ n > 0
  BY LenProperties, StreamAssumption
<1>2. /\ MessagesFrom(s)[0 + 1] = Messages(t) \o MessagesFrom(s)[Len(t) + 0 + 1]
      /\ Messages(t) \in Seq(Seq(Values))
  <2>1. 0 \in Nat /\ Len(t) + 0 <= Len(s) /\ \A i \in 1..Len(t) : t[i] = s[i + 0]
    BY <1>1
  <2> QED BY <2>1, MessagesShift
<1>3. MessagesFrom(s)[m + 1] = <<SubSeq(s, m + 2, m + 1 + n)>>
  <2>1. m + 1 \in 1..Len(s) + 1 /\ s[m + 1] = n
    BY <1>1
  <2>2. EndsAt(s, m + 1) = m + 1 + n /\ ~NoMessageAt(s, m + 1)
    BY <1>1, <2>1 DEF EndsAt, NoMessageAt
  <2>3. MessagesFrom(s)[m + 1] = <<SubSeq(s, m + 1 + 1, m + 1 + n)>> \o MessagesFrom(s)[m + 1 + n + 1]
    BY <2>1, <2>2, MessagesFromIs
  <2>4. MessagesFrom(s)[m + 1 + n + 1] = << >>
    <3>1. m + 1 + n + 1 \in 1..Len(s) + 1 /\ m + 1 + n + 1 >= Len(s)
      BY <1>1
    <3> QED BY <3>1, LastCell
  <2>5. \A x : <<x>> \o << >> = <<x>>
    OBVIOUS
  <2>6. m + 1 + 1 = m + 2
    BY <1>1
  <2> QED BY <2>3, <2>4, <2>5, <2>6
<1>4. MessagesFrom(s)[1] = Messages(t) \o MessagesFrom(s)[m + 1]
  BY <1>1, <1>2
<1> QED BY <1>1, <1>3, <1>4, MessagesAre

\* A message before whole messages, and perhaps a cell behind them.
LEMMA MessageBefore ==
    ASSUME NEW s \in Seq(Values), NEW t \in Seq(Values), WholeMessages(t),
           NEW n \in 1..MaxLength, s[1] = n, Len(s) \in {Len(t) + n + 1, Len(t) + n + 2},
           \A i \in 1..Len(t) : t[i] = s[i + (n + 1)]
    PROVE  Messages(s) = <<SubSeq(s, 2, n + 1)>> \o Messages(t)
<1>1. PICK m, l : m \in Nat /\ m = Len(t) /\ l \in Nat /\ l = Len(s) /\ l \in {m + n + 1, m + n + 2}
                  /\ n \in Nat /\ n > 0
  <2>1. n \in Nat /\ n > 0
    BY StreamAssumption
  <2>2. Len(s) \in Nat /\ Len(t) \in Nat
    BY LenProperties
  <2> QED BY <2>1, <2>2
<1>2. /\ MessagesFrom(s)[n + 1 + 1] = Messages(t) \o MessagesFrom(s)[Len(t) + (n + 1) + 1]
      /\ Messages(t) \in Seq(Seq(Values))
  <2>1. n + 1 \in Nat /\ Len(t) + (n + 1) <= Len(s)
    BY <1>1
  <2> QED BY <2>1, MessagesShift
<1>3. MessagesFrom(s)[Len(t) + (n + 1) + 1] = << >>
  <2>1. Len(t) + (n + 1) + 1 \in 1..Len(s) + 1 /\ Len(t) + (n + 1) + 1 >= Len(s)
    BY <1>1
  <2> QED BY <2>1, LastCell
<1>4. MessagesFrom(s)[1] = <<SubSeq(s, 2, n + 1)>> \o MessagesFrom(s)[n + 1 + 1]
  <2>1. 1 \in 1..Len(s) + 1 /\ s[1] = n
    BY <1>1
  <2>2. EndsAt(s, 1) = n + 1 /\ ~NoMessageAt(s, 1)
    BY <1>1, <2>1 DEF EndsAt, NoMessageAt
  <2>3. 1 + 1 = 2
    OBVIOUS
  <2> QED BY <2>1, <2>2, <2>3, MessagesFromIs
<1>5. Messages(t) \o << >> = Messages(t)
  BY <1>2
<1> QED BY <1>2, <1>3, <1>4, <1>5, MessagesAre

-----------------------------------------------------------------------------
(* Frames in the ring are whole messages in a sequence. *)

\* The cells that are not followed by the rest of their message are left out.
LEMMA FramesAreWhole ==
    ASSUME NEW b \in Nat, NEW c, NEW x \in Nat, NEW o \in {0, 1}, Framed(b, c, x, o = 1),
           NEW h \in {0, 1}, h = 1 => x \in 1..MaxLength, h = 0 => x = 0,
           NEW t \in Seq(Values), Len(t) = h + b - o,
           h = 1 => t[1] = x, \A i \in 1..Len(t) - h : t[i + h] = c[i - 1]
    PROVE  WholeMessages(t)
<1>1. PICK n \in Nat : n = Len(t) /\ n = h + b - o
  <2>1. Len(t) \in Nat
    BY LenProperties
  <2> QED BY <2>1
<1>2. /\ x <= b /\ \A i \in 0..x - 1 : c[i] \in Bytes
      /\ x < b => c[x] \in 1..MaxLength
      /\ o = 1 => x < b /\ c[b - 1] \in 1..MaxLength
  BY DEF Framed
<1>3. \A i \in 1 + h..n : t[i] = c[i - h - 1]
  <2> SUFFICES ASSUME NEW i \in 1 + h..n PROVE t[i] = c[i - h - 1]
    OBVIOUS
  <2>1. i - h \in 1..Len(t) - h /\ (i - h) + h = i
    BY <1>1
  <2> QED BY <2>1
<1>4. \A i : ~(i \in Bytes /\ i \in 1..MaxLength)
  BY StreamAssumption
<1>5. t # << >> => t[1] \in 1..MaxLength
  <2>1. CASE h = 1 BY <2>1
  <2>2. CASE h = 0
    <3>1. n > 0 => 1 \in 1 + h..n /\ t[1] = c[0] /\ 0 < b
      BY <1>1, <1>3, <2>2
    <3>2. n = 0 => t = << >>
      BY <1>1
    <3> QED BY <1>1, <1>2, <2>2, <3>1, <3>2
  <2> QED BY <2>1, <2>2
<1>6. ASSUME NEW i \in 1..n, t[i] \in 1..MaxLength
      PROVE  /\ i + t[i] <= n
             /\ i + t[i] < n => t[i + t[i] + 1] \in 1..MaxLength
  <2>1. CASE h = 1 /\ i = 1
    <3>1. t[i] = x /\ x + 1 <= n
      BY <1>1, <1>2, <2>1
    <3>2. x + 1 < n => x < b /\ t[x + 2] = c[x]
      BY <1>1, <1>3, <2>1
    <3> QED BY <1>2, <2>1, <3>1, <3>2
  <2>2. CASE ~(h = 1 /\ i = 1)
    <3>1. PICK k \in 0..b - 1 : k = i - h - 1
      BY <1>1, <2>2
    <3>2. i \in 1 + h..n /\ t[i] = c[k] /\ c[k] \notin Bytes
      BY <1>3, <1>4, <1>6, <2>2, <3>1
    <3>3. k \in x..b - 1
      BY <1>2, <3>1, <3>2
    <3>4. ~(o = 1 /\ k = b - 1)
      BY <1>1, <3>1
    <3>5. PICK d \in 1..MaxLength :
             /\ d = c[k] /\ k + d < b
             /\ \A j \in 1..d : c[k + j] \in Bytes
             /\ k + d + 1 < b => c[k + d + 1] \in 1..MaxLength
      BY <3>2, <3>3, <3>4 DEF Framed
    <3>6. d \in Nat /\ d > 0 /\ t[i] = d
      <4>1. d \in Nat /\ d > 0
        BY StreamAssumption
      <4>2. t[i] = d
        BY <3>2, <3>5
      <4> QED BY <4>1, <4>2
    <3>7. o = 1 => k + d # b - 1
      <4>1. c[k + d] \in Bytes
        <5>1. d \in 1..d
          BY <3>6
        <5> QED BY <3>5, <5>1
      <4> QED BY <1>2, <1>4, <4>1
    <3>8. i + d <= n
      <4>1. i + d = k + d + h + 1 /\ k + d < b
        BY <3>1, <3>5, <3>6
      <4>2. CASE o = 1
        <5>1. n = h + b - 1 /\ k + d # b - 1
          BY <1>1, <3>7, <4>2
        <5> QED BY <3>1, <3>6, <4>1, <5>1
      <4>3. CASE o = 0
        <5>1. n = h + b
          BY <1>1, <4>3
        <5> QED BY <3>1, <3>6, <4>1, <5>1
      <4> QED BY <4>2, <4>3
    <3>9. i + d < n => t[i + d + 1] = c[k + d + 1] /\ k + d + 1 < b
      <4> SUFFICES ASSUME i + d < n PROVE t[i + d + 1] = c[k + d + 1] /\ k + d + 1 < b
        OBVIOUS
      <4>1. PICK p \in 1 + h..n : p = i + d + 1 /\ p - h - 1 = k + d + 1
        BY <1>1, <3>1, <3>2, <3>6
      <4>2. k + d + 1 < b
        BY <1>1, <3>1, <3>6
      <4>3. t[p] = c[p - h - 1]
        BY <1>3
      <4> QED BY <4>1, <4>2, <4>3
    <3> QED BY <3>5, <3>6, <3>8, <3>9
  <2> QED BY <2>1, <2>2
<1> QED BY <1>1, <1>5, <1>6 DEF WholeMessages

-----------------------------------------------------------------------------
(* What is unread. *)

\* The length that is taken out counts as unread.
TakenOut == IF setting.message /\ pc["reader"] \in {"putBack", "peeked", "read"} THEN 1 ELSE 0

\* The unread cells are that length and the cells of View.
UnreadIs ==
    /\ Unread \in Seq(Values) /\ Len(Unread) = prvBytesInBuffer + TakenOut
    /\ TakenOut = 1 => Unread[1] = xNextMessageLength
    /\ \A i \in 1..prvBytesInBuffer : Unread[i + TakenOut] = View[i - 1]

LEMMA UnreadCells == TypeOK => UnreadIs
<1> SUFFICES ASSUME TypeOK PROVE UnreadIs
  OBVIOUS
<1>1. PICK b \in 0..BufferSize : b = prvBytesInBuffer
  BY Counts DEF TypeOK
<1>2. b \in Nat /\ BufferSize \in Nat /\ MaxLength \in Nat
  BY <1>1, StreamAssumption
<1>3. PICK a : a = Ahead(b) /\ a = [i \in 1..b |-> View[i - 1]]
  BY <1>1, AheadIsView DEF TypeOK
<1>4. \A i \in 1..b : View[i - 1] \in Values
  <2> SUFFICES ASSUME NEW i \in 1..b PROVE View[i - 1] \in Values
    OBVIOUS
  <2>1. i - 1 \in 0..BufferSize - 1
    BY <1>1, <1>2
  <2>2. (xTail + (i - 1)) % xLength \in Cells
    BY <2>1, StreamAssumption DEF TypeOK, Cells, xLength
  <2> QED BY <2>1, <2>2 DEF View, TypeOK, Values
<1>5. a \in Seq(Values) /\ Len(a) = b
  BY <1>2, <1>3, <1>4
<1>6. CASE TakenOut = 0
  <2>1. Unread = a
    BY <1>1, <1>3, <1>6 DEF Unread, TakenOut
  <2> QED BY <1>1, <1>2, <1>3, <1>5, <1>6, <2>1 DEF UnreadIs
<1>7. CASE TakenOut = 1
  <2>1. PICK x \in Values : x = xNextMessageLength
    BY DEF TypeOK, Values
  <2>2. Unread = <<x>> \o a
    BY <1>1, <1>3, <1>7, <2>1 DEF Unread, TakenOut
  <2>3. <<x>> \in Seq(Values) /\ Len(<<x>>) = 1 /\ <<x>>[1] = x
    OBVIOUS
  <2>4. Unread \in Seq(Values) /\ Len(Unread) = 1 + b /\ Unread[1] = x
        /\ \A i \in 1..b : Unread[i + 1] = a[i]
    BY <1>2, <1>5, <2>2, <2>3
  <2> QED BY <1>1, <1>2, <1>3, <1>7, <2>1, <2>4 DEF UnreadIs
<1> QED BY <1>6, <1>7 DEF TakenOut

LEMMA UnreadCellsNext == TypeOK' => UnreadIs'
BY UnreadCells, PTL

\* A length is written and its bytes are not.
Begun == IF pc["writer"] = "data" THEN 1 ELSE 0

\* The unread cells without such a length.
Complete == SubSeq(Unread, 1, Len(Unread) - Begun)

\* Of a message buffer, the complete cells are whole messages, and these are queued.
InFrames ==
    setting.message =>
       /\ Complete \in Seq(Values) /\ \A i \in 1..Len(Complete) : Complete[i] = Unread[i]
       /\ Len(Complete) = Len(Unread) - Begun
       /\ WholeMessages(Complete)
       /\ Queued = Messages(Complete) /\ Queued \in Seq(Seq(Values))

LEMMA UnreadFrames == Inv => InFrames
<1> SUFFICES ASSUME Inv, setting.message PROVE InFrames
  BY DEF InFrames
<1> USE DEF Inv
<1>1. PICK b \in Nat, h \in {0, 1}, x \in Nat :
         b = prvBytesInBuffer /\ h = TakenOut /\ x = Taken
  BY Counts, StreamAssumption DEF TypeOK, TakenOut, Taken
<1>2. UnreadIs
  BY UnreadCells
<1>3. PICK o \in {0, 1} : o = Begun
  BY DEF Begun
<1>4. Framed(b, View, x, o = 1) /\ (o = 1 => x < b)
  <2>1. o = 1 <=> pc["writer"] = "data"
    BY <1>3 DEF Begun
  <2> QED BY <1>1, <2>1 DEF CellsInOrder, Framed
<1>5. (h = 1 => x = xNextMessageLength /\ x \in 1..MaxLength) /\ (h = 0 => x = 0)
  BY <1>1 DEF TakenOut, Taken, PutsBack, ReaderInOrder, TypeOK
<1>6. PICK u \in Seq(Values) : u = Unread /\ Len(u) = b + h
  BY <1>1, <1>2 DEF UnreadIs
<1>7. PICK n \in Nat : n = b + h - o
  BY <1>4
<1>8. PICK t : t = Complete
  OBVIOUS
<1>9. t = SubSeq(u, 1, n)
  BY <1>3, <1>6, <1>7, <1>8 DEF Complete
<1>10. t \in Seq(Values) /\ Len(t) = n /\ \A i \in 1..n : t[i] = u[i]
  <2>1. n <= Len(u) /\ 1 \in Nat /\ \A i \in 1..n : u[i] \in Values
    BY <1>6, <1>7
  <2> QED BY <1>9, <2>1, SubSeqProperties
<1>11. WholeMessages(t)
  <2>1. h = 1 => t[1] = x
    <3>1. h = 1 => 1 \in 1..n
      BY <1>4, <1>7
    <3> QED BY <1>1, <1>2, <1>5, <1>6, <1>10, <3>1 DEF UnreadIs
  <2>2. \A i \in 1..Len(t) - h : t[i + h] = View[i - 1]
    <3> SUFFICES ASSUME NEW i \in 1..Len(t) - h PROVE t[i + h] = View[i - 1]
      OBVIOUS
    <3>1. i + h \in 1..n /\ i \in 1..b
      BY <1>7, <1>10
    <3> QED BY <1>1, <1>2, <1>6, <1>10, <3>1 DEF UnreadIs
  <2>3. Len(t) = h + b - o
    BY <1>7, <1>10
  <2> QED BY <1>4, <1>5, <1>10, <2>1, <2>2, <2>3, FramesAreWhole
<1>12. Messages(u) = Messages(t) /\ Messages(t) \in Seq(Seq(Values))
  <2>1. Len(u) \in {Len(t), Len(t) + 1}
    BY <1>6, <1>7, <1>10
  <2> QED BY <1>10, <1>11, <2>1, CellBehind
<1>13. Queued = Messages(u)
  BY <1>6 DEF Queued
<1>14. Len(Complete) = Len(Unread) - Begun
  BY <1>3, <1>6, <1>7, <1>8, <1>10
<1> QED BY <1>6, <1>8, <1>10, <1>11, <1>12, <1>13, <1>14 DEF InFrames

LEMMA UnreadFramesNext == Inv' => InFrames'
BY UnreadFrames, PTL

\* The bytes of a stream.
InBytes ==
    ~setting.message =>
       /\ Queued \in Seq(Seq(Values)) /\ Len(Queued) = prvBytesInBuffer /\ prvBytesInBuffer \in Nat
       /\ \A i \in 1..prvBytesInBuffer : Queued[i] = <<View[i - 1]>>

LEMMA UnreadBytes == TypeOK => InBytes
<1> SUFFICES ASSUME TypeOK, ~setting.message PROVE InBytes
  BY DEF InBytes
<1>1. PICK b \in Nat : b = prvBytesInBuffer
  BY Counts DEF TypeOK
<1>2. PICK u \in Seq(Values) : u = Unread /\ Len(u) = b /\ \A i \in 1..b : u[i] = View[i - 1]
  <2>1. TakenOut = 0
    BY DEF TakenOut
  <2>2. \A i \in 1..b : i + 0 = i
    OBVIOUS
  <2> QED BY <1>1, <2>1, <2>2, UnreadCells DEF UnreadIs
<1>3. Queued = [i \in 1..b |-> <<u[i]>>]
  BY <1>2 DEF Queued
<1>4. \A i \in 1..b : <<u[i]>> \in Seq(Values)
  BY <1>2
<1>5. \A i \in 1..b : Queued[i] = <<View[i - 1]>>
  BY <1>2, <1>3
<1> QED BY <1>1, <1>3, <1>4, <1>5 DEF InBytes

LEMMA UnreadBytesNext == TypeOK' => InBytes'
BY UnreadBytes, PTL

\* Nothing is in the buffer.
Empty == TypeOK /\ prvBytesInBuffer = 0 /\ TakenOut = 0

LEMMA EmptyQueue == Empty => Queued = << >>
<1> SUFFICES ASSUME Empty PROVE Queued = << >>
  OBVIOUS
<1>1. Unread \in Seq(Values) /\ Len(Unread) = 0
  <2>1. UnreadIs
    BY UnreadCells DEF Empty
  <2> QED BY <2>1 DEF UnreadIs, Empty
<1>2. PICK u \in Seq(Values) : u = Unread /\ Len(u) = 0
  BY <1>1
<1>3. MessagesFrom(u)[1] = << >>
  <2>1. 1 \in 1..Len(u) + 1 /\ 1 >= Len(u)
    BY <1>2
  <2> QED BY <2>1, LastCell
<1>4. setting.message => Queued = << >>
  BY <1>2, <1>3, MessagesAre DEF Queued
<1>5. ~setting.message => Queued = << >>
  <2>1. u = << >>
    BY <1>2
  <2> QED BY <1>2, <2>1 DEF Queued
<1> QED BY <1>4, <1>5

LEMMA EmptyQueueNext == Empty' => Queued' = << >>
<1>1. (Empty => Queued = << >>)'
  BY EmptyQueue, PTL
<1> QED BY <1>1

-----------------------------------------------------------------------------
(* A step of the buffer is a step of the channel. *)

\* One message is itself.
LEMMA FlattenOne ==
    ASSUME NEW m PROVE Sides!FlattenSeq(<<m>>) = m
<1>1. PICK s : s = <<m>> /\ Len(s) = 1 /\ s[1] = m
  <2>1. Len(<<m>>) = 1 /\ <<m>>[1] = m
    OBVIOUS
  <2> QED BY <2>1
<1> DEFINE Is(f) == f = [i \in 1..Len(s) |-> IF i = 1 THEN s[i] ELSE f[i - 1] \o s[i]]
<1>2. PICK f : f = [i \in 1..Len(s) |-> m]
  OBVIOUS
<1>3. Is(f)
  <2>1. \A i \in 1..Len(s) : i = 1
    BY <1>1
  <2>2. \A i \in 1..Len(s) : m = IF i = 1 THEN s[i] ELSE f[i - 1] \o s[i]
    BY <1>1, <2>1
  <2> QED BY <1>2, <2>2
<1>4. PICK g : g = CHOOSE x : Is(x)
  OBVIOUS
<1>5. Is(g)
  BY <1>3, <1>4
<1>6. g[Len(s)] = m
  BY <1>1, <1>5
<1>7. Sides!FlattenSeq(s) = g[Len(s)]
  BY <1>1, <1>4 DEF Sides!FlattenSeq
<1> QED BY <1>1, <1>6, <1>7

\* Pieces of one byte are the bytes.
LEMMA FlattenBytes ==
    ASSUME NEW n \in Nat \ {0}, NEW s, NEW d, s = [i \in 1..n |-> <<d[i]>>]
    PROVE  Sides!FlattenSeq(s) = [i \in 1..n |-> d[i]]
<1>1. Len(s) = n /\ \A i \in 1..n : s[i] = <<d[i]>>
  OBVIOUS
<1> DEFINE Is(f) == f = [i \in 1..Len(s) |-> IF i = 1 THEN s[i] ELSE f[i - 1] \o s[i]]
<1>2. PICK f : f = [i \in 1..n |-> [j \in 1..i |-> d[j]]]
  OBVIOUS
<1>3. ASSUME NEW i \in 2..n PROVE [j \in 1..i - 1 |-> d[j]] \o <<d[i]>> = [j \in 1..i |-> d[j]]
  OBVIOUS
<1>4. \A x : [j \in 1..1 |-> d[j]] = <<d[1]>>
  OBVIOUS
<1>5. Is(f)
  <2>1. ASSUME NEW i \in 1..n PROVE [j \in 1..i |-> d[j]] = IF i = 1 THEN s[i] ELSE f[i - 1] \o s[i]
    <3>1. CASE i = 1
      BY <1>1, <1>4, <3>1
    <3>2. CASE i # 1
      <4>1. i \in 2..n /\ i - 1 \in 1..n
        BY <3>2
      <4>2. f[i - 1] = [j \in 1..i - 1 |-> d[j]]
        BY <1>2, <4>1
      <4> QED BY <1>1, <1>3, <3>2, <4>1, <4>2
    <3> QED BY <3>1, <3>2
  <2> QED BY <1>1, <1>2, <2>1
<1>6. PICK g : g = CHOOSE x : Is(x)
  OBVIOUS
<1>7. Is(g)
  <2> HIDE DEF Is
  <2> QED BY <1>5, <1>6
<1> DEFINE S == {k \in Nat : k + 1 \in 1..n => g[k + 1] = [j \in 1..k + 1 |-> d[j]]}
<1>8. ASSUME NEW k \in Nat, \A m \in 0..k - 1 : m \in S PROVE k \in S
  <2> SUFFICES ASSUME k + 1 \in 1..n PROVE g[k + 1] = [j \in 1..k + 1 |-> d[j]]
    OBVIOUS
  <2>1. PICK i \in 1..n : i = k + 1
    OBVIOUS
  <2>2. g[i] = IF i = 1 THEN s[i] ELSE g[i - 1] \o s[i]
    BY <1>1, <1>7
  <2>3. CASE i = 1
    BY <1>1, <1>4, <2>1, <2>2, <2>3
  <2>4. CASE i # 1
    <3>1. k - 1 \in 0..k - 1 /\ (k - 1) + 1 \in 1..n /\ (k - 1) + 1 = i - 1 /\ i \in 2..n
      BY <2>1, <2>4
    <3>2. g[(k - 1) + 1] = [j \in 1..(k - 1) + 1 |-> d[j]]
      BY <1>8, <3>1
    <3> HIDE DEF Is
    <3>3. g[i] = [j \in 1..i - 1 |-> d[j]] \o <<d[i]>>
      BY <1>1, <2>2, <2>4, <3>1, <3>2
    <3> QED BY <1>3, <2>1, <3>1, <3>3
  <2> QED BY <2>3, <2>4
<1>9. g[n] = [j \in 1..n |-> d[j]]
  <2>1. n - 1 \in Nat /\ (n - 1) + 1 = n
    OBVIOUS
  <2> HIDE DEF S
  <2>2. n - 1 \in S
    BY <1>8, <2>1, AllNumbers
  <2> QED BY <2>1, <2>2 DEF S
<1>10. Sides!FlattenSeq(s) = g[Len(s)]
  BY <1>1, <1>6 DEF Sides!FlattenSeq
<1> QED BY <1>1, <1>9, <1>10

\* Nothing is received and the messages are the same: users begin or end their calls.
LEMMA CallStep ==
    ASSUME TypeOK', setting' = setting, Queued' = Queued, pvRxData' \in {pvRxData, << >>}
    PROVE  Sides!Call
<1>1. {t \in Tasks : InCall(t)}' \in SUBSET Tasks
  OBVIOUS
<1>2. pvTxData' \in Frames \cup {<< >>}
  BY DEF TypeOK
<1> QED BY <1>1, <1>2 DEF Sides!Call

\* The steps that leave the buffer alone.
QuietStep ==
    \/ \E frame \in Frames, ticks \in Waits : xStreamBufferSend(frame, ticks)
    \/ CheckSpace \/ ForgetSender \/ SendTimeOut \/ LookForSpace \/ WriteRefused \/ Sent \/ NotifyReader
    \/ \E size \in Sizes, ticks \in Waits : xStreamBufferReceive(size, ticks)
    \/ CheckBytes \/ ForgetReceiver \/ LookForBytes \/ NothingThere \/ NotifyWriter
    \/ \E t \in Tasks : \/ NotifyWait(t) \/ NotifyWaited(t)
                        \/ TickWakes(t) \/ NotifiedByOther(t) \/ vTaskResume(t)
    \/ \E level \in TriggerLevels : xStreamBufferSetTriggerLevel(level)

\* They are steps of users that begin or end their calls, or no steps.
LEMMA QuietSteps ==
    ASSUME Inv, TypeOK', QuietStep PROVE Sides!Call
<1>1. /\ setting' = setting /\ UNCHANGED <<pucBuffer, xHead, xTail>> /\ pvRxData' \in {pvRxData, << >>}
      /\ \/ pc'["reader"] = pc["reader"] /\ xNextMessageLength' = xNextMessageLength
         \/ /\ pc["reader"] \notin {"putBack", "peeked", "read"}
            /\ setting.message => pc'["reader"] \notin {"putBack", "peeked", "read"}
  <2> USE DEF buffer, calls, reads, Goto, At, Inv, TypeOK, Tasks
  <2>1. CASE \/ \E frame \in Frames, ticks \in Waits : xStreamBufferSend(frame, ticks)
             \/ CheckSpace \/ ForgetSender \/ SendTimeOut \/ LookForSpace \/ WriteRefused \/ Sent
             \/ NotifyReader
    BY <2>1 DEF xStreamBufferSend, CheckSpace, ForgetSender, SendTimeOut, LookForSpace, WriteRefused,
                Sent, NotifyReader, SendReturns, WriterOnly
  <2>2. CASE \/ \E size \in Sizes, ticks \in Waits : xStreamBufferReceive(size, ticks)
             \/ CheckBytes \/ ForgetReceiver \/ LookForBytes \/ NothingThere \/ NotifyWriter
    BY <2>2 DEF xStreamBufferReceive, CheckBytes, ForgetReceiver, LookForBytes, NothingThere,
                NotifyWriter, ReceiveReturns, ReaderOnly, Reads
  <2>3. ASSUME NEW t \in Tasks, \/ NotifyWait(t) \/ NotifyWaited(t)
                                \/ TickWakes(t) \/ NotifiedByOther(t) \/ vTaskResume(t)
        PROVE  /\ setting' = setting /\ UNCHANGED <<pucBuffer, xHead, xTail>> /\ pvRxData' = pvRxData
               /\ \/ pc'["reader"] = pc["reader"] /\ xNextMessageLength' = xNextMessageLength
                  \/ /\ pc["reader"] \notin {"putBack", "peeked", "read"}
                     /\ pc'["reader"] \notin {"putBack", "peeked", "read"}
    BY <2>3 DEF NotifyWait, NotifyWaited, TickWakes, NotifiedByOther, vTaskResume
  <2>4. CASE \E level \in TriggerLevels : xStreamBufferSetTriggerLevel(level)
    BY <2>4 DEF xStreamBufferSetTriggerLevel
  <2> QED BY <2>1, <2>2, <2>3, <2>4 DEF QuietStep
<1>2. Ahead(prvBytesInBuffer)' = Ahead(prvBytesInBuffer)
  BY <1>1 DEF Ahead, prvBytesInBuffer, xLength
<1>3. Unread' = Unread
  BY <1>1, <1>2 DEF Unread
<1>4. Queued' = Queued
  BY <1>1, <1>3 DEF Queued
<1> QED BY <1>1, <1>4, CallStep

\* The length of a message is taken out or put back: the messages stay.
LEMMA LengthSteps ==
    ASSUME Inv, Inv', UnreadIs',
           ReadLength \/ xStreamBufferNextMessageLengthBytes \/ PutBack \/ PutLengthBack
    PROVE  Sides!Call
<1> USE DEF Inv
<1>1. CASE PutBack \/ PutLengthBack
  <2>1. Queued' = Queued
    BY <1>1, PutBackStays
  <2>2. setting' = setting /\ pvRxData' = << >>
    BY <1>1 DEF PutBack, PutLengthBack, ReceiveReturns, ReaderOnly
  <2> QED BY <2>1, <2>2, CallStep
<1>2. CASE ReadLength \/ xStreamBufferNextMessageLengthBytes
  <2>1. /\ setting' = setting /\ setting.message /\ Consume(1) /\ pvRxData' = pvRxData
        /\ pc["reader"] \in {"idle", "length"} /\ pc'["reader"] \in {"putBack", "peeked", "read"}
        /\ xNextMessageLength' = Ahead(1)[1]
    BY <1>2 DEF ReadLength, xStreamBufferNextMessageLengthBytes, ReaderOnly, ReaderInOrder, At, Goto,
                TypeOK, Tasks
  <2>2. PICK b \in 1..BufferSize : b = prvBytesInBuffer
    <3>1. prvBytesInBuffer > 0 /\ prvBytesInBuffer \in 0..BufferSize
      <4>1. prvBytesInBuffer \in 0..BufferSize /\ BufferSize \in Nat
        BY Counts, StreamAssumption DEF TypeOK
      <4>2. CASE ReadLength
        BY <4>1, <4>2 DEF ReadLength, ReaderInOrder, At, TypeOK
      <4>3. CASE xStreamBufferNextMessageLengthBytes
        BY <4>1, <4>3 DEF xStreamBufferNextMessageLengthBytes, LengthCells
      <4> QED BY <1>2, <4>2, <4>3, <4>1
    <3> QED BY <3>1, StreamAssumption
  <2>3. b \in Nat /\ BufferSize \in Nat /\ 1 \in 0..b /\ 1 \in 0..BufferSize
    BY <2>2, StreamAssumption
  <2>4. prvBytesInBuffer' = b - 1 /\ \A i \in 0..BufferSize - 1 - 1 : View'[i] = View[i + 1]
    BY <2>1, <2>2, <2>3, ConsumeCells DEF TypeOK
  <2>5. xNextMessageLength' = View[0]
    <3>1. 1 \in 1..1 /\ 1 - 1 = 0
      OBVIOUS
    <3>2. Ahead(1)[1] = View[1 - 1]
      BY <2>3, <3>1, AheadIsView
    <3> QED BY <2>1, <3>1, <3>2
  <2>6. TakenOut = 0 /\ TakenOut' = 1
    BY <2>1 DEF TakenOut
  <2>7. PICK u, v : u = Unread /\ v = Unread'
    OBVIOUS
  <2>8. u \in Seq(Values) /\ Len(u) = b /\ \A i \in 1..b : u[i] = View[i - 1]
    <3>1. UnreadIs /\ \A i \in 1..b : i + 0 = i
      BY UnreadCells
    <3> QED BY <2>2, <2>3, <2>6, <2>7, <3>1 DEF UnreadIs
  <2>9. v \in Seq(Values) /\ Len(v) = b /\ v[1] = View[0] /\ \A i \in 1..b - 1 : v[i + 1] = View'[i - 1]
    BY <2>3, <2>4, <2>5, <2>6, <2>7 DEF UnreadIs
  <2>10. \A i \in 1..b : v[i] = u[i]
    <3> SUFFICES ASSUME NEW i \in 1..b PROVE v[i] = u[i]
      OBVIOUS
    <3>1. CASE i = 1
      BY <2>8, <2>9, <3>1
    <3>2. CASE i # 1
      <4>1. i - 1 \in 1..b - 1 /\ (i - 1) + 1 = i /\ i - 1 - 1 \in 0..BufferSize - 1 - 1
            /\ (i - 1 - 1) + 1 = i - 1
        BY <2>2, <2>3, <3>2
      <4>2. v[(i - 1) + 1] = View'[i - 1 - 1] /\ View'[i - 1 - 1] = View[(i - 1 - 1) + 1]
        BY <2>4, <2>9, <4>1
      <4> QED BY <2>8, <4>1, <4>2
    <3> QED BY <3>1, <3>2
  <2>11. v = u
    BY <2>8, <2>9, <2>10, SeqEqual
  <2>12. Queued' = Queued
    BY <2>1, <2>7, <2>11 DEF Queued
  <2> QED BY <2>1, <2>12, CallStep
<1> QED BY <1>1, <1>2

\* A message is written behind the messages that are whole.
LEMMA MessageWritten ==
    ASSUME Inv, Inv', setting.message, setting' = setting, pc'["reader"] = pc["reader"],
           xNextMessageLength' = xNextMessageLength, pc'["writer"] # "data",
           NEW n \in 1..MaxLength, NEW frame \in [1..n -> Bytes],
           NEW m \in Nat, prvBytesInBuffer = m + Begun, prvBytesInBuffer' = m + 1 + n,
           \A i \in 0..m - 1 : View'[i] = View[i], View'[m] = n,
           \A j \in 1..n : View'[m + j] = frame[j]
    PROVE  Queued' = Queued \o <<frame>>
<1>1. TypeOK /\ TypeOK' /\ n \in Nat /\ n > 0
  BY StreamAssumption DEF Inv
<1>2. UnreadIs /\ UnreadIs' /\ InFrames /\ InFrames'
  BY <1>1, UnreadCells, UnreadCellsNext, UnreadFrames, UnreadFramesNext
<1>3. PICK h \in {0, 1} : h = TakenOut /\ TakenOut' = h
  BY DEF TakenOut
<1>4. PICK o \in {0, 1} : o = Begun /\ Begun' = 0
  BY DEF Begun
<1>5. PICK t : t = Complete
  OBVIOUS
<1>6. PICK s : s = Complete'
  OBVIOUS
<1>7. /\ t \in Seq(Values) /\ Len(t) = h + m /\ WholeMessages(t) /\ Queued = Messages(t)
      /\ \A i \in 1..Len(t) : t[i] = Unread[i]
  <2>1. Len(Unread) = m + o + h
    BY <1>2, <1>3, <1>4 DEF UnreadIs
  <2> QED BY <1>2, <1>4, <1>5, <2>1 DEF InFrames
<1>8. /\ s \in Seq(Values) /\ Len(s) = h + m + 1 + n /\ Queued' = Messages(s)
      /\ \A i \in 1..Len(s) : s[i] = Unread'[i]
  <2>1. Len(Unread') = m + 1 + n + h
    BY <1>2, <1>3 DEF UnreadIs
  <2>2. /\ s \in Seq(Values) /\ Len(s) = Len(Unread') - 0 /\ Queued' = Messages(s)
        /\ \A i \in 1..Len(s) : s[i] = Unread'[i]
    <3>1. setting'.message
      OBVIOUS
    <3> QED BY <1>2, <1>4, <1>6, <3>1 DEF InFrames
  <2>3. m + 1 + n + h - 0 = h + m + 1 + n
    BY <1>1
  <2> QED BY <2>1, <2>2, <2>3
<1>9. \A i \in 1..m : Unread[i + h] = View[i - 1]
  BY <1>2, <1>3, <1>4 DEF UnreadIs
<1>10. \A i \in 1..m + 1 + n : Unread'[i + h] = View'[i - 1]
  BY <1>2, <1>3 DEF UnreadIs
<1>11. \A i \in 1..Len(t) : t[i] = s[i]
  <2> SUFFICES ASSUME NEW i \in 1..h + m PROVE t[i] = s[i]
    BY <1>7
  <2>1. t[i] = Unread[i] /\ s[i] = Unread'[i]
    BY <1>1, <1>7, <1>8
  <2>2. CASE h = 1 /\ i = 1
    BY <1>2, <1>3, <2>1, <2>2 DEF UnreadIs
  <2>3. CASE ~(h = 1 /\ i = 1)
    <3>1. i - h \in 1..m /\ i - h \in 1..m + 1 + n /\ (i - h) + h = i /\ i - h - 1 \in 0..m - 1
      BY <1>1, <2>3
    <3>2. Unread[(i - h) + h] = View[i - h - 1]
      BY <1>9, <3>1
    <3>3. Unread'[(i - h) + h] = View'[i - h - 1]
      BY <1>10, <3>1
    <3>4. View'[i - h - 1] = View[i - h - 1]
      BY <3>1
    <3> QED BY <2>1, <3>1, <3>2, <3>3, <3>4
  <2> QED BY <2>2, <2>3
<1>12. s[Len(t) + 1] = n
  <2>1. m + 1 \in 1..m + 1 + n /\ (m + 1) + h = h + m + 1 /\ (m + 1) - 1 = m
    BY <1>1
  <2>2. Unread'[h + m + 1] = View'[m]
    BY <1>10, <2>1
  <2>3. h + m + 1 \in 1..Len(s)
    BY <1>1, <1>8
  <2> QED BY <1>7, <1>8, <2>2, <2>3
<1>13. SubSeq(s, Len(t) + 2, Len(t) + 1 + n) = frame
  <2>1. PICK p, q : p = Len(t) + 2 /\ q = Len(t) + 1 + n
    OBVIOUS
  <2>2. p \in 1..Len(s) /\ q \in 1..Len(s) /\ q - p + 1 = n /\ p = h + m + 2
    <3>1. h + m \in Nat /\ n \in Nat /\ n > 0
      BY <1>1
    <3>2. Len(t) = h + m
      BY <1>7
    <3>3. Len(s) = h + m + 1 + n
      BY <1>8
    <3>4. p = h + m + 2
      BY <2>1, <3>2
    <3>5. q = h + m + 1 + n
      BY <2>1, <3>2
    <3> QED BY <3>1, <3>3, <3>4, <3>5
  <2>3. /\ SubSeq(s, p, q) \in Seq(Values) /\ Len(SubSeq(s, p, q)) = n
        /\ \A i \in 1..n : SubSeq(s, p, q)[i] = s[p + i - 1]
    <3>1. p <= q /\ p \in Int /\ q \in Int
      BY <1>1, <2>2
    <3>2. \A i \in p..q : s[i] \in Values
      <4>1. \A i \in p..q : i \in 1..Len(s)
        BY <1>1, <2>2
      <4> QED BY <1>8, <4>1
    <3> QED BY <1>1, <2>2, <3>1, <3>2, SubSeqProperties
  <2>4. ASSUME NEW i \in 1..n PROVE s[p + i - 1] = frame[i]
    <3>1. m + 1 + i \in 1..m + 1 + n /\ (m + 1 + i) + h = p + i - 1 /\ (m + 1 + i) - 1 = m + i
      BY <1>1, <2>2
    <3>2. p + i - 1 \in 1..Len(s)
      <4>1. p + i - 1 = h + m + 1 + i
        BY <1>1, <2>2
      <4>2. i \in Nat /\ i <= n /\ i > 0
        BY <1>1
      <4>3. Len(s) = h + m + 1 + n /\ h + m \in Nat
        BY <1>8
      <4> QED BY <1>1, <4>1, <4>2, <4>3
    <3>3. s[p + i - 1] = Unread'[p + i - 1] /\ Unread'[p + i - 1] = View'[m + i]
      BY <1>8, <1>10, <3>1, <3>2
    <3> QED BY <3>3
  <2>5. frame \in Seq(Values) /\ Len(frame) = n
    BY <1>1 DEF Values
  <2> QED BY <2>1, <2>3, <2>4, <2>5, SeqEqual
<1>14. Len(s) = Len(t) + 1 + n
  BY <1>1, <1>7, <1>8
<1>15. Messages(s) = Messages(t) \o <<SubSeq(s, Len(t) + 2, Len(t) + 1 + n)>>
  BY <1>7, <1>8, <1>11, <1>12, <1>14, MessageBehind
<1> QED BY <1>7, <1>8, <1>13, <1>15

\* A length is written: the messages stay.
LEMMA LengthBegun ==
    ASSUME Inv, Inv', Write, setting.message PROVE Sides!Call
<1>1. TypeOK /\ TypeOK'
  BY DEF Inv
<1>2. UnreadIs /\ UnreadIs' /\ InFrames /\ InFrames'
  BY <1>1, UnreadCells, UnreadCellsNext, UnreadFrames, UnreadFramesNext
<1>3. /\ setting' = setting /\ pc'["reader"] = pc["reader"] /\ xNextMessageLength' = xNextMessageLength
      /\ pvRxData' = pvRxData /\ pc["writer"] = "write" /\ pc'["writer"] = "data"
      /\ prvWriteBytesToBuffer(<<Len(pvTxData)>>) /\ xSpace # 0 /\ xSpace \in Nat
  BY <1>1 DEF Write, Refuses, WriterOnly, At, Goto, TypeOK, Tasks, reads
<1>4. PICK b \in Nat : b = prvBytesInBuffer /\ b \in 0..BufferSize /\ BufferSize \in Nat
                       /\ xStreamBufferSpacesAvailable = BufferSize - b
  BY <1>1, Counts, StreamAssumption DEF TypeOK
<1>5. 1 \in 0..xStreamBufferSpacesAvailable
  <2>1. Held \in {0, 1} /\ xSpace + Held <= xStreamBufferSpacesAvailable
    BY <1>3 DEF Inv, WriterInOrder, Held
  <2>2. PICK k \in {0, 1} : xSpace + k <= BufferSize - b
    BY <1>4, <2>1
  <2> QED BY <1>3, <1>4, <2>2
<1>6. prvBytesInBuffer' = b + 1 /\ \A i \in 0..b - 1 : View'[i] = View[i]
  <2>1. PICK cells : cells = <<Len(pvTxData)>> /\ prvWriteBytesToBuffer(cells) /\ Len(cells) = 1
    <3>1. Len(<<Len(pvTxData)>>) = 1
      OBVIOUS
    <3> QED BY <1>3, <3>1
  <2>2. /\ prvBytesInBuffer' = prvBytesInBuffer + Len(cells)
        /\ \A i \in 0..BufferSize - 1 :
              View'[i] = IF prvBytesInBuffer <= i /\ i < prvBytesInBuffer + Len(cells)
                         THEN cells[i - prvBytesInBuffer + 1] ELSE View[i]
    BY <1>1, <1>5, <2>1, WriteCells DEF TypeOK
  <2>3. \A i \in 0..b - 1 : i \in 0..BufferSize - 1 /\ ~(b <= i)
    BY <1>4
  <2> QED BY <1>4, <2>1, <2>2, <2>3
<1>7. PICK h \in {0, 1} : h = TakenOut /\ TakenOut' = h
  BY <1>3 DEF TakenOut
<1>8. Begun = 0 /\ Begun' = 1
  BY <1>3 DEF Begun
<1>9. PICK t : t = Complete
  OBVIOUS
<1>10. PICK s : s = Complete'
  OBVIOUS
<1>11. /\ t \in Seq(Values) /\ Len(t) = h + b /\ Queued = Messages(t)
       /\ \A i \in 1..Len(t) : t[i] = Unread[i]
  <2>1. Len(Unread) = b + h
    BY <1>2, <1>4, <1>7 DEF UnreadIs
  <2> QED BY <1>2, <1>8, <1>9, <2>1 DEF InFrames
<1>12. /\ s \in Seq(Values) /\ Len(s) = h + b /\ Queued' = Messages(s)
       /\ \A i \in 1..Len(s) : s[i] = Unread'[i]
  <2>1. Len(Unread') = b + 1 + h
    BY <1>2, <1>6, <1>7 DEF UnreadIs
  <2> QED BY <1>2, <1>3, <1>8, <1>10, <2>1 DEF InFrames
<1>13. ASSUME NEW i \in 1..h + b PROVE t[i] = s[i]
  <2>1. t[i] = Unread[i] /\ s[i] = Unread'[i]
    BY <1>11, <1>12
  <2>2. CASE h = 1 /\ i = 1
    BY <1>2, <1>3, <1>7, <2>1, <2>2 DEF UnreadIs
  <2>3. CASE ~(h = 1 /\ i = 1)
    <3>1. i - h \in 1..b /\ i - h \in 1..b + 1 /\ (i - h) + h = i /\ i - h - 1 \in 0..b - 1
      BY <2>3
    <3>2. Unread[(i - h) + h] = View[i - h - 1]
      BY <1>2, <1>4, <1>7, <3>1 DEF UnreadIs
    <3>3. Unread'[(i - h) + h] = View'[i - h - 1]
      BY <1>2, <1>6, <1>7, <3>1 DEF UnreadIs
    <3> QED BY <1>6, <2>1, <3>1, <3>2, <3>3
  <2> QED BY <2>2, <2>3
<1>14. t = s
  BY <1>11, <1>12, <1>13, SeqEqual
<1> QED BY <1>1, <1>3, <1>11, <1>12, <1>14, CallStep

\* What is written is sent.
LEMMA SendsParts ==
    ASSUME setting' = setting, \A t \in Tasks : InCall(t)' <=> InCall(t), pvRxData' = pvRxData,
           pvTxData' \in Frames, NEW s \in Sides!Parts(pvTxData'), Queued' = Queued \o s
    PROVE  Sides!Send
<1>1. {t \in Tasks : InCall(t)}' = {t \in Tasks : InCall(t)}
  OBVIOUS
<1> HIDE DEF InCall
<1> QED BY <1>1 DEF Sides!Send

\* A call to send writes the bytes of its message: now it is sent.
LEMMA WriteDataSends ==
    ASSUME Inv, Inv', WriteData PROVE Sides!Send
<1>1. TypeOK /\ TypeOK'
  BY DEF Inv
<1>2. /\ setting' = setting /\ pc'["reader"] = pc["reader"] /\ xNextMessageLength' = xNextMessageLength
      /\ pvRxData' = pvRxData /\ pvTxData' = pvTxData /\ pc["writer"] = "data" /\ pc'["writer"] = "sent"
      /\ prvWriteBytesToBuffer(pvTxData)
  BY <1>1 DEF WriteData, WriterOnly, At, Goto, TypeOK, Tasks, reads, sends
<1>3. /\ setting.message /\ pvTxData \in Frames /\ Held \in {0, 1}
      /\ Len(pvTxData) + Held <= xStreamBufferSpacesAvailable
  BY <1>2 DEF Inv, WriterInOrder, InCall, Held
<1>4. PICK frame : frame = pvTxData
  OBVIOUS
<1>5. PICK n \in 1..MaxLength : frame \in [1..n -> Bytes]
  BY <1>3, <1>4, StreamAssumption DEF Pieces
<1>6. Len(frame) = n /\ n \in Nat /\ n > 0
  BY <1>5, StreamAssumption
<1>7. PICK b \in Nat : b = prvBytesInBuffer /\ b \in 0..BufferSize /\ BufferSize \in Nat
                       /\ xStreamBufferSpacesAvailable = BufferSize - b
  BY <1>1, Counts, StreamAssumption DEF TypeOK
<1>8. Framed(b, View, Taken, TRUE) /\ View[b - 1] = n
  BY <1>2, <1>3, <1>4, <1>6, <1>7 DEF Inv, CellsInOrder, Framed
<1>9. b > 0
  <2>1. Taken < b /\ Taken \in Nat
    BY <1>1, <1>8, StreamAssumption DEF Framed, Taken, TypeOK
  <2> QED BY <1>7, <2>1
<1>10. PICK m \in Nat : b = m + 1
  <2>1. b - 1 \in Nat /\ b = (b - 1) + 1
    BY <1>7, <1>9
  <2> QED BY <2>1
<1>11. n <= BufferSize - b
  <2>1. PICK k \in {0, 1} : n + k <= BufferSize - b
    BY <1>3, <1>4, <1>6, <1>7
  <2> QED BY <1>6, <1>7, <2>1
<1>12. /\ prvBytesInBuffer' = b + n
       /\ \A i \in 0..BufferSize - 1 :
              View'[i] = IF b <= i /\ i < b + n THEN frame[i - b + 1] ELSE View[i]
  <2>1. Len(frame) \in 0..xStreamBufferSpacesAvailable
    BY <1>6, <1>7, <1>11
  <2>2. /\ prvBytesInBuffer' = prvBytesInBuffer + Len(frame)
        /\ \A i \in 0..BufferSize - 1 :
              View'[i] = IF prvBytesInBuffer <= i /\ i < prvBytesInBuffer + Len(frame)
                         THEN frame[i - prvBytesInBuffer + 1] ELSE View[i]
    BY <1>1, <1>2, <1>4, <2>1, WriteCells DEF TypeOK
  <2> QED BY <1>6, <1>7, <2>2
<1>13. \A i \in 0..m : View'[i] = View[i]
  <2>1. \A i \in 0..m : i \in 0..BufferSize - 1 /\ ~(b <= i)
    BY <1>7, <1>10
  <2> QED BY <1>12, <2>1
<1>14. View'[m] = n
  <2>1. m \in 0..m /\ b - 1 = m
    BY <1>10
  <2> QED BY <1>8, <1>13, <2>1
<1>15. ASSUME NEW j \in 1..n PROVE View'[m + j] = frame[j]
  <2>1. PICK i \in 0..BufferSize - 1 : i = m + j /\ b <= i /\ i < b + n /\ i - b + 1 = j
    BY <1>6, <1>7, <1>10, <1>11
  <2>2. View'[i] = frame[i - b + 1]
    BY <1>12, <2>1
  <2> QED BY <2>1, <2>2
<1>16. Queued' = Queued \o <<frame>>
  <2>1. prvBytesInBuffer = m + Begun /\ prvBytesInBuffer' = m + 1 + n /\ pc'["writer"] # "data"
    BY <1>2, <1>7, <1>10, <1>12 DEF Begun
  <2>2. \A i \in 0..m - 1 : View'[i] = View[i]
    BY <1>13
  <2> QED BY <1>2, <1>3, <1>5, <1>14, <1>15, <2>1, <2>2, MessageWritten
<1>17. \A t \in Tasks : InCall(t)' <=> InCall(t)
  BY <1>2 DEF Tasks, InCall
<1>18. <<frame>> \in Sides!Parts(pvTxData')
  BY <1>2, <1>3, <1>4 DEF Sides!Parts
<1> QED BY <1>2, <1>3, <1>16, <1>17, <1>18, SendsParts

\* Bytes behind the bytes of a stream.
LEMMA BytesBehind ==
    ASSUME TypeOK, TypeOK', ~setting.message, setting' = setting, NEW frame \in Frames,
           NEW k \in 1..Len(frame), k <= xStreamBufferSpacesAvailable,
           prvWriteBytesToBuffer(SubSeq(frame, 1, k))
    PROVE  \E s \in Sides!Parts(frame) : Queued' = Queued \o s
<1>1. PICK n \in 1..MaxLength : frame \in [1..n -> Bytes]
  BY StreamAssumption DEF Pieces
<1>2. Len(frame) = n /\ n \in Nat /\ k \in Nat /\ k > 0 /\ k <= n
  BY <1>1, StreamAssumption
<1>3. PICK c : c = SubSeq(frame, 1, k)
  OBVIOUS
<1>4. Len(c) = k /\ \A i \in 1..k : c[i] = frame[i]
  BY <1>1, <1>2, <1>3
<1>5. PICK b \in Nat : b = prvBytesInBuffer /\ b \in 0..BufferSize /\ BufferSize \in Nat
                       /\ xStreamBufferSpacesAvailable = BufferSize - b
  BY Counts, StreamAssumption DEF TypeOK
<1>6. /\ prvBytesInBuffer' = b + k
      /\ \A i \in 0..BufferSize - 1 :
             View'[i] = IF b <= i /\ i < b + k THEN c[i - b + 1] ELSE View[i]
  <2>1. Len(c) \in 0..xStreamBufferSpacesAvailable
    BY <1>2, <1>4, <1>5
  <2>2. /\ prvBytesInBuffer' = prvBytesInBuffer + Len(c)
        /\ \A i \in 0..BufferSize - 1 :
              View'[i] = IF prvBytesInBuffer <= i /\ i < prvBytesInBuffer + Len(c)
                         THEN c[i - prvBytesInBuffer + 1] ELSE View[i]
    BY <1>3, <2>1, WriteCells DEF TypeOK
  <2> QED BY <1>4, <1>5, <2>2
<1>7. /\ Queued \in Seq(Seq(Values)) /\ Len(Queued) = b /\ \A i \in 1..b : Queued[i] = <<View[i - 1]>>
  BY <1>5, UnreadBytes DEF InBytes
<1>8. /\ Queued' \in Seq(Seq(Values)) /\ Len(Queued') = b + k
      /\ \A i \in 1..b + k : Queued'[i] = <<View'[i - 1]>>
  BY <1>6, UnreadBytesNext DEF InBytes
<1>9. PICK s : s = [i \in 1..k |-> <<frame[i]>>]
  OBVIOUS
<1>10. s \in Seq(Seq(Values)) /\ Len(s) = k
  <2>1. \A i \in 1..k : frame[i] \in Values
    BY <1>1, <1>2 DEF Values
  <2>2. \A i \in 1..k : <<frame[i]>> \in Seq(Values)
    BY <2>1
  <2> QED BY <1>2, <1>9, <2>2
<1>11. s \in Sides!Parts(frame)
  BY <1>9 DEF Sides!Parts
<1>12. PICK q, r : q = Queued /\ r = Queued'
  OBVIOUS
<1>13. q \o s \in Seq(Seq(Values)) /\ Len(q \o s) = b + k
  <2>1. PICK X : X = Seq(Values)
    OBVIOUS
  <2>2. q \in Seq(X) /\ s \in Seq(X) /\ Len(q) = b /\ Len(s) = k
    BY <1>7, <1>10, <1>12, <2>1
  <2>3. q \o s \in Seq(X) /\ Len(q \o s) = b + k
    BY <2>2
  <2> QED BY <2>1, <2>3
<1>14. ASSUME NEW i \in 1..b + k PROVE r[i] = (q \o s)[i]
  <2>1. (q \o s)[i] = IF i <= b THEN q[i] ELSE s[i - b]
    BY <1>2, <1>7, <1>10, <1>12
  <2>2. r[i] = <<View'[i - 1]>>
    BY <1>8, <1>12
  <2>3. PICK p \in 0..BufferSize - 1 : p = i - 1
    BY <1>2, <1>5
  <2>4. CASE i <= b
    <3>1. View'[p] = View[p]
      BY <1>6, <2>3, <2>4
    <3>2. i \in 1..b
      BY <2>4
    <3> QED BY <1>7, <1>12, <2>1, <2>2, <2>3, <2>4, <3>1, <3>2
  <2>5. CASE ~(i <= b)
    <3>1. b <= p /\ p < b + k /\ p - b + 1 = i - b /\ i - b \in 1..k
      BY <1>2, <2>3, <2>5
    <3>2. View'[p] = frame[i - b]
      BY <1>4, <1>6, <3>1
    <3> QED BY <1>9, <2>1, <2>2, <2>3, <2>5, <3>1, <3>2
  <2> QED BY <2>4, <2>5
<1>15. r = q \o s
  BY <1>8, <1>12, <1>13, <1>14, SeqEqual
<1> QED BY <1>11, <1>12, <1>15

\* What fits of a stream is sent.
LEMMA WriteSends ==
    ASSUME Inv, Inv', Write, ~setting.message PROVE Sides!Send
<1>1. TypeOK /\ TypeOK'
  BY DEF Inv
<1>2. /\ setting' = setting /\ pc'["reader"] = pc["reader"] /\ pvRxData' = pvRxData
      /\ pvTxData' = pvTxData /\ pc["writer"] = "write" /\ pc'["writer"] = "sent"
      /\ prvWriteBytesToBuffer(SubSeq(pvTxData, 1, Smaller(Len(pvTxData), xSpace)))
      /\ xSpace # 0 /\ xSpace \in 0..BufferSize
  BY <1>1 DEF Write, Refuses, WriterOnly, At, Goto, TypeOK, Tasks, reads, sends
<1>3. pvTxData \in Frames /\ xSpace + Held <= xStreamBufferSpacesAvailable /\ Held \in {0, 1}
  BY <1>2 DEF Inv, WriterInOrder, InCall, Held
<1>4. PICK frame \in Frames : frame = pvTxData
  BY <1>3
<1>5. PICK s \in Nat : s = xStreamBufferSpacesAvailable
  BY <1>1, Counts, StreamAssumption DEF TypeOK
<1>6. PICK k \in 1..Len(frame) : k = Smaller(Len(frame), xSpace) /\ k <= s
  <2>1. Len(frame) \in Nat /\ Len(frame) > 0
    <3>1. Len(frame) \in 1..MaxLength /\ Len(frame) \in Nat
      BY <1>4, FrameLength
    <3> QED BY <3>1, StreamAssumption
  <2>2. PICK x \in Nat, h \in {0, 1} : x = xSpace /\ x > 0 /\ h = Held /\ x + h <= s
    <3>1. xSpace \in Nat /\ xSpace > 0
      BY <1>2, StreamAssumption
    <3> QED BY <1>3, <1>5, <3>1
  <2> QED BY <2>1, <2>2 DEF Smaller
<1>7. \E p \in Sides!Parts(frame) : Queued' = Queued \o p
  BY <1>1, <1>2, <1>4, <1>5, <1>6, BytesBehind
<1>8. \A t \in Tasks : InCall(t)' <=> InCall(t)
  BY <1>2 DEF Tasks, InCall
<1> QED BY <1>2, <1>3, <1>4, <1>7, <1>8, SendsParts

\* An interrupt sends a message whole, and of a stream what fits.
LEMMA SendFromISRSends ==
    ASSUME Inv, Inv', NEW frame \in Frames, xStreamBufferSendFromISR(frame) PROVE Sides!Send
<1>1. TypeOK /\ TypeOK'
  BY DEF Inv
<1>2. /\ setting' = setting /\ pc' = pc /\ xNextMessageLength' = xNextMessageLength
      /\ pvRxData' = pvRxData /\ pvTxData' = frame /\ pc["writer"] = "idle"
  BY DEF xStreamBufferSendFromISR, WriterOnly, Interrupts, reads, calls, Inv, WaitsInOrder, Tasks
<1>3. PICK b \in Nat : b = prvBytesInBuffer /\ b \in 0..BufferSize /\ BufferSize \in Nat
                       /\ xStreamBufferSpacesAvailable = BufferSize - b
  BY <1>1, Counts, StreamAssumption DEF TypeOK
<1>4. PICK n \in 1..MaxLength : frame \in [1..n -> Bytes]
  BY StreamAssumption DEF Pieces
<1>5. Len(frame) = n /\ n \in Nat /\ n > 0
  BY <1>4, StreamAssumption
<1>6. PICK cells :
         /\ cells = IF setting.message THEN <<n>> \o frame
                                       ELSE SubSeq(frame, 1, Smaller(n, BufferSize - b))
         /\ Len(cells) <= BufferSize - b /\ BufferSize - b > 0 /\ prvWriteBytesToBuffer(cells)
  BY <1>3, <1>5 DEF xStreamBufferSendFromISR
<1>7. Len(cells) <= BufferSize - b /\ BufferSize - b > 0
  BY <1>6
<1>8. \E p \in Sides!Parts(frame) : Queued' = Queued \o p
  <2>1. CASE setting.message
    <3>1. Len(cells) = n + 1 /\ cells[1] = n /\ \A i \in 1..n : cells[i + 1] = frame[i]
      <4>1. <<n>> \in Seq(Nat) /\ Len(<<n>>) = 1 /\ frame \in Seq(Bytes) /\ cells = <<n>> \o frame
        BY <1>4, <1>5, <1>6, <2>1
      <4> QED BY <1>5, <4>1
    <3>2. /\ prvBytesInBuffer' = b + (n + 1)
          /\ \A i \in 0..BufferSize - 1 :
                 View'[i] = IF b <= i /\ i < b + (n + 1) THEN cells[i - b + 1] ELSE View[i]
      <4>1. Len(cells) \in 0..xStreamBufferSpacesAvailable
        BY <1>3, <1>5, <1>7, <3>1
      <4>2. /\ prvBytesInBuffer' = prvBytesInBuffer + Len(cells)
            /\ \A i \in 0..BufferSize - 1 :
                  View'[i] = IF prvBytesInBuffer <= i /\ i < prvBytesInBuffer + Len(cells)
                             THEN cells[i - prvBytesInBuffer + 1] ELSE View[i]
        BY <1>1, <1>6, <4>1, WriteCells DEF TypeOK
      <4> QED BY <1>3, <3>1, <4>2
    <3>3. b + n < BufferSize
      BY <1>3, <1>5, <1>7, <3>1
    <3>4. \A i \in 0..b - 1 : View'[i] = View[i]
      <4>1. \A i \in 0..b - 1 : i \in 0..BufferSize - 1 /\ ~(b <= i)
        BY <1>3
      <4> QED BY <3>2, <4>1
    <3>5. View'[b] = n
      <4>1. b \in 0..BufferSize - 1 /\ b <= b /\ b < b + (n + 1) /\ b - b + 1 = 1
        BY <1>3, <1>5, <3>3
      <4> QED BY <3>1, <3>2, <4>1
    <3>6. ASSUME NEW j \in 1..n PROVE View'[b + j] = frame[j]
      <4>1. PICK i \in 0..BufferSize - 1 : i = b + j /\ b <= i /\ i < b + (n + 1) /\ i - b + 1 = j + 1
        BY <1>3, <1>5, <3>3
      <4>2. View'[i] = cells[i - b + 1]
        BY <3>2, <4>1
      <4> QED BY <3>1, <4>1, <4>2
    <3>7. prvBytesInBuffer = b + Begun /\ prvBytesInBuffer' = b + 1 + n
      BY <1>2, <1>3, <1>5, <3>2 DEF Begun
    <3>8. Queued' = Queued \o <<frame>>
      BY <1>2, <1>4, <2>1, <3>4, <3>5, <3>6, <3>7, MessageWritten
    <3>9. <<frame>> \in Sides!Parts(frame)
      BY <2>1 DEF Sides!Parts
    <3> QED BY <3>8, <3>9
  <2>2. CASE ~setting.message
    <3>1. PICK k \in 1..Len(frame) : k = Smaller(n, BufferSize - b) /\ k <= BufferSize - b
      <4>1. PICK r \in Nat : r = BufferSize - b /\ r > 0
        BY <1>3, <1>7
      <4>2. Smaller(n, r) \in 1..n /\ Smaller(n, r) <= r
        BY <1>5, <4>1 DEF Smaller
      <4> QED BY <1>5, <4>1, <4>2
    <3>2. prvWriteBytesToBuffer(SubSeq(frame, 1, k)) /\ k <= xStreamBufferSpacesAvailable
      BY <1>3, <1>6, <2>2, <3>1
    <3> QED BY <1>1, <1>2, <2>2, <3>2, BytesBehind
  <2> QED BY <2>1, <2>2
<1>9. \A t \in Tasks : InCall(t)' <=> InCall(t)
  BY <1>2 DEF InCall
<1> QED BY <1>2, <1>8, <1>9, SendsParts

\* What is taken out is received.
LEMMA ReceivesParts ==
    ASSUME setting' = setting, \A t \in Tasks : InCall(t)' <=> InCall(t), pvTxData' = pvTxData,
           pvRxData' # << >>, Queued # << >>,
           NEW n \in 1..IF setting.message THEN 1 ELSE Len(Queued),
           pvRxData' = Sides!FlattenSeq(SubSeq(Queued, 1, n)),
           Queued' = SubSeq(Queued, n + 1, Len(Queued))
    PROVE  Sides!Receive
<1>1. {t \in Tasks : InCall(t)}' = {t \in Tasks : InCall(t)}
  OBVIOUS
<1> HIDE DEF InCall
<1> QED BY <1>1 DEF Sides!Receive

\* The first message goes out whole.
LEMMA MessageReceived ==
    ASSUME setting' = setting, setting.message, \A t \in Tasks : InCall(t)' <=> InCall(t),
           pvTxData' = pvTxData, pvRxData' # << >>,
           Queued \in Seq(Seq(Values)), Queued' \in Seq(Seq(Values)),
           Queued = <<pvRxData'>> \o Queued'
    PROVE  Sides!Receive
<1>1. PICK q, r, m, X : q = Queued /\ r = Queued' /\ m = pvRxData' /\ X = Seq(Values)
  OBVIOUS
<1>2. q \in Seq(X) /\ r \in Seq(X) /\ q = <<m>> \o r
  BY <1>1
<1>3. PICK l \in Nat : l = Len(r)
  BY <1>2
<1>4. Len(q) = l + 1 /\ q[1] = m /\ \A i \in 1..l : q[i + 1] = r[i]
  <2>1. Len(<<m>>) = 1 /\ <<m>>[1] = m
    OBVIOUS
  <2>2. q = [i \in 1..1 + l |-> IF i <= 1 THEN <<m>>[i] ELSE r[i - 1]]
    BY <1>2, <1>3, <2>1
  <2> QED BY <1>3, <2>1, <2>2
<1>5. SubSeq(q, 1, 1) = <<m>>
  <2>1. SubSeq(q, 1, 1) = [i \in 1..1 |-> q[i]]
    BY <1>2, <1>3, <1>4
  <2>2. \A i \in 1..1 : q[i] = m
    <3>1. \A i \in 1..1 : i = 1
      OBVIOUS
    <3> QED BY <1>4, <3>1
  <2>3. SubSeq(q, 1, 1) = [i \in 1..1 |-> m]
    BY <2>1, <2>2
  <2>4. \A x : [i \in 1..1 |-> x] = <<x>>
    OBVIOUS
  <2> QED BY <2>3, <2>4
<1>6. SubSeq(q, 1 + 1, Len(q)) = r
  <2>1. \A i \in 2..l + 1 : q[i] \in X
    BY <1>2, <1>4
  <2>2. PICK s : s = SubSeq(q, 2, l + 1)
    OBVIOUS
  <2>3. s \in Seq(X) /\ Len(s) = l /\ \A i \in 1..l : s[i] = q[2 + i - 1]
    BY <1>3, <2>1, <2>2, SubSeqProperties
  <2>4. \A i \in 1..l : s[i] = r[i]
    <3>1. \A i \in 1..l : 2 + i - 1 = i + 1
      OBVIOUS
    <3> QED BY <1>4, <2>3, <3>1
  <2>5. s = r
    BY <1>2, <1>3, <2>3, <2>4, SeqEqual
  <2> QED BY <1>4, <2>2, <2>5
<1>7. m = Sides!FlattenSeq(SubSeq(q, 1, 1))
  BY <1>5, FlattenOne
<1>8. q # << >>
  BY <1>3, <1>4
<1>9. 1 \in 1..IF setting.message THEN 1 ELSE Len(Queued)
  OBVIOUS
<1> QED BY <1>1, <1>6, <1>7, <1>8, <1>9, ReceivesParts

\* The first n bytes of a stream.
LEMMA BytesReceived ==
    ASSUME TypeOK, TypeOK', setting' = setting, ~setting.message,
           \A t \in Tasks : InCall(t)' <=> InCall(t), pvTxData' = pvTxData,
           NEW n \in 1..prvBytesInBuffer, Consume(n), pvRxData' = Ahead(n)
    PROVE  Sides!Receive
<1>1. PICK b \in Nat : b = prvBytesInBuffer /\ b \in 0..BufferSize /\ BufferSize \in Nat
  BY Counts, StreamAssumption DEF TypeOK
<1>2. n \in Nat /\ n > 0 /\ n <= b /\ n \in 0..BufferSize /\ n \in 0..b
  BY <1>1
<1>3. /\ Queued \in Seq(Seq(Values)) /\ Len(Queued) = b /\ \A i \in 1..b : Queued[i] = <<View[i - 1]>>
  BY <1>1, UnreadBytes DEF InBytes
<1>4. prvBytesInBuffer' = b - n /\ \A i \in 0..BufferSize - 1 - n : View'[i] = View[i + n]
  BY <1>1, <1>2, ConsumeCells DEF TypeOK
<1>5. /\ Queued' \in Seq(Seq(Values)) /\ Len(Queued') = b - n
      /\ \A i \in 1..b - n : Queued'[i] = <<View'[i - 1]>>
  BY <1>4, UnreadBytesNext DEF InBytes
<1>6. PICK q, r, X : q = Queued /\ r = Queued' /\ X = Seq(Values)
  OBVIOUS
<1>7. q \in Seq(X) /\ Len(q) = b /\ r \in Seq(X) /\ Len(r) = b - n
  BY <1>3, <1>5, <1>6
<1>8. SubSeq(q, n + 1, b) = r
  <2>1. \A i \in n + 1..b : q[i] \in X
    BY <1>2, <1>7
  <2>2. PICK s : s = SubSeq(q, n + 1, b)
    OBVIOUS
  <2>3. s \in Seq(X) /\ Len(s) = b - n /\ \A i \in 1..b - n : s[i] = q[n + 1 + i - 1]
    <3>1. n + 1 \in Int /\ b \in Int /\ b - (n + 1) + 1 = b - n
          /\ (IF n + 1 <= b THEN b - (n + 1) + 1 ELSE 0) = b - n
      BY <1>2
    <3> QED BY <2>1, <2>2, <3>1, SubSeqProperties
  <2>4. ASSUME NEW i \in 1..b - n PROVE s[i] = r[i]
    <3>1. n + 1 + i - 1 = i + n /\ i + n \in 1..b /\ (i + n) - 1 = (i - 1) + n
          /\ i - 1 \in 0..BufferSize - 1 - n
      BY <1>1, <1>2
    <3>2. s[i] = q[i + n]
      BY <2>3, <3>1
    <3>3. q[i + n] = <<View[(i - 1) + n]>>
      BY <1>3, <1>6, <3>1
    <3>4. View'[i - 1] = View[(i - 1) + n]
      BY <1>4, <3>1
    <3> QED BY <1>5, <1>6, <3>2, <3>3, <3>4
  <2>5. s = r
    BY <1>7, <2>3, <2>4, SeqEqual
  <2> QED BY <2>2, <2>5
<1>9. pvRxData' = [i \in 1..n |-> View[i - 1]]
  BY <1>2, AheadIsView
<1>10. SubSeq(q, 1, n) = [i \in 1..n |-> <<View[i - 1]>>]
  <2>1. SubSeq(q, 1, n) = [i \in 1..n |-> q[i]]
    BY <1>2, <1>7
  <2>2. \A i \in 1..n : q[i] = <<View[i - 1]>>
    BY <1>2, <1>3, <1>6
  <2> QED BY <2>1, <2>2
<1>11. Sides!FlattenSeq(SubSeq(q, 1, n)) = pvRxData'
  <2>1. PICK d : d = [i \in 1..n |-> View[i - 1]]
    OBVIOUS
  <2>2. SubSeq(q, 1, n) = [i \in 1..n |-> <<d[i]>>] /\ d = [i \in 1..n |-> d[i]]
    <3>1. \A i \in 1..n : d[i] = View[i - 1]
      BY <2>1
    <3>2. [i \in 1..n |-> <<View[i - 1]>>] = [i \in 1..n |-> <<d[i]>>]
      BY <3>1
    <3> QED BY <1>10, <2>1, <3>2
  <2>3. Sides!FlattenSeq(SubSeq(q, 1, n)) = [i \in 1..n |-> d[i]]
    <3>1. PICK t : t = SubSeq(q, 1, n)
      OBVIOUS
    <3>2. n \in Nat \ {0} /\ t = [i \in 1..n |-> <<d[i]>>]
      BY <1>2, <2>2, <3>1
    <3>3. Sides!FlattenSeq(t) = [i \in 1..n |-> d[i]]
      BY <3>2, FlattenBytes
    <3> QED BY <3>1, <3>3
  <2> QED BY <1>9, <2>1, <2>2, <2>3
<1>12. pvRxData' # << >> /\ q # << >>
  <2>1. Len(pvRxData') = n
    BY <1>2, <1>9
  <2> QED BY <1>2, <1>7, <2>1
<1>13. n \in 1..IF setting.message THEN 1 ELSE Len(Queued)
  BY <1>1, <1>3
<1> QED BY <1>3, <1>6, <1>8, <1>11, <1>12, <1>13, ReceivesParts

\* The cells of the first message are taken out, its length perhaps before.
LEMMA MessageTaken ==
    ASSUME Inv, Inv', setting' = setting, setting.message, pc'["writer"] = pc["writer"],
           TakenOut' = 0, NEW h \in {0, 1}, h = TakenOut, NEW n \in 1..MaxLength, Unread[1] = n,
           n + 1 - h <= prvBytesInBuffer, Consume(n + 1 - h), pvRxData' = [i \in 1..n |-> View[i - h]]
    PROVE  Queued = <<pvRxData'>> \o Queued'
<1>1. TypeOK /\ TypeOK' /\ n \in Nat /\ n > 0
  BY StreamAssumption DEF Inv
<1>2. UnreadIs /\ UnreadIs' /\ InFrames /\ InFrames'
  BY <1>1, UnreadCells, UnreadCellsNext, UnreadFrames, UnreadFramesNext
<1>3. PICK b \in Nat : b = prvBytesInBuffer /\ b \in 0..BufferSize /\ BufferSize \in Nat
  <2>1. prvBytesInBuffer \in 0..BufferSize
    BY <1>1, Counts DEF TypeOK
  <2> QED BY <2>1, StreamAssumption
<1>4. PICK k \in Nat : k = n + 1 - h /\ k <= b /\ Consume(k)
  <2>1. n + 1 - h \in Nat
    BY <1>1
  <2> QED BY <1>3, <2>1
<1>5. prvBytesInBuffer' = b - k /\ \A i \in 0..BufferSize - 1 - k : View'[i] = View[i + k]
  <2>1. k \in 0..prvBytesInBuffer
    BY <1>3, <1>4
  <2> QED BY <1>1, <1>3, <1>4, <2>1, ConsumeCells DEF TypeOK
<1>6. PICK o \in {0, 1} : o = Begun /\ Begun' = o
  BY DEF Begun
<1>7. PICK s : s = Complete
  OBVIOUS
<1>8. PICK t : t = Complete'
  OBVIOUS
<1>9. /\ s \in Seq(Values) /\ Len(s) = b + h - o /\ Queued = Messages(s)
      /\ \A i \in 1..Len(s) : s[i] = Unread[i]
  <2>1. Len(Unread) = b + h
    BY <1>2, <1>3 DEF UnreadIs
  <2>2. /\ s \in Seq(Values) /\ Len(s) = Len(Unread) - o /\ Queued = Messages(s)
        /\ \A i \in 1..Len(s) : s[i] = Unread[i]
    BY <1>2, <1>6, <1>7 DEF InFrames
  <2> QED BY <2>1, <2>2
<1>10. /\ t \in Seq(Values) /\ WholeMessages(t) /\ Queued' = Messages(t) /\ Len(t) = b - k - o
       /\ \A i \in 1..Len(t) : t[i] = Unread'[i]
  <2>1. Len(Unread') = b - k
    BY <1>2, <1>3, <1>4, <1>5 DEF UnreadIs
  <2>2. setting'.message
    OBVIOUS
  <2>3. /\ t \in Seq(Values) /\ WholeMessages(t) /\ Queued' = Messages(t) /\ Len(t) = Len(Unread') - Begun'
        /\ \A i \in 1..Len(t) : t[i] = Unread'[i]
    BY <1>2, <1>8, <2>2 DEF InFrames
  <2> QED BY <1>6, <2>1, <2>3
<1>11. PICK m \in Nat : m = Len(t) /\ m = b - k - o /\ Len(s) = m + n + 1
  <2>1. Len(t) \in Nat
    BY <1>10
  <2>2. b + h - o = (b - k - o) + n + 1
    BY <1>1, <1>4
  <2> QED BY <1>9, <1>10, <2>1, <2>2
<1>12. \A i \in 1..b : Unread[i + h] = View[i - 1]
  BY <1>2, <1>3 DEF UnreadIs
<1>13. \A i \in 1..b - k : Unread'[i] = View'[i - 1]
  <2>1. \A i \in 1..b - k : i + 0 = i
    OBVIOUS
  <2> QED BY <1>2, <1>5, <2>1 DEF UnreadIs
<1>14. s[1] = n
  <2>1. 1 \in 1..Len(s)
    BY <1>1, <1>11
  <2> QED BY <1>9, <2>1
<1>15. ASSUME NEW i \in 1..m PROVE t[i] = s[i + (n + 1)]
  <2>1. t[i] = Unread'[i] /\ s[i + (n + 1)] = Unread[i + (n + 1)]
    <3>1. i + (n + 1) \in 1..Len(s)
      BY <1>1, <1>11
    <3> QED BY <1>9, <1>10, <1>11, <3>1
  <2>2. Unread'[i] = View'[i - 1] /\ View'[i - 1] = View[(i - 1) + k]
    <3>1. i \in 1..b - k
      BY <1>1, <1>3, <1>4, <1>11
    <3>2. i - 1 \in 0..BufferSize - 1 - k
      BY <1>3, <1>4, <3>1
    <3> QED BY <1>5, <1>13, <3>1, <3>2
  <2>3. Unread[i + (n + 1)] = View[(i - 1) + k]
    <3>1. PICK j \in 1..b : j = i + k /\ j - 1 = (i - 1) + k /\ j + h = i + (n + 1)
      BY <1>1, <1>3, <1>4, <1>11
    <3> QED BY <1>12, <3>1
  <2> QED BY <2>1, <2>2, <2>3
<1>16. SubSeq(s, 2, n + 1) = pvRxData'
  <2>1. ASSUME NEW i \in 2..n + 1 PROVE s[i] = View[(i - 1) - h] /\ s[i] \in Values
    <3>1. i \in 1..Len(s)
      <4>1. i \in Nat /\ i > 0 /\ i <= n + 1
        BY <1>1
      <4>2. Len(s) \in Nat /\ n + 1 <= Len(s)
        BY <1>1, <1>11
      <4> QED BY <1>1, <4>1, <4>2
    <3>2. PICK j \in 1..b : j + h = i /\ j - 1 = (i - 1) - h
      BY <1>1, <1>4
    <3>3. s[i] = Unread[i] /\ s[i] \in Values
      BY <1>9, <3>1
    <3>4. Unread[j + h] = View[j - 1]
      BY <1>12
    <3> QED BY <3>2, <3>3, <3>4
  <2>2. PICK q : q = SubSeq(s, 2, n + 1)
    OBVIOUS
  <2>3. q \in Seq(Values) /\ Len(q) = n /\ \A i \in 1..n : q[i] = s[2 + i - 1]
    <3>1. 2 \in Int /\ n + 1 \in Int /\ (n + 1) - 2 + 1 = n
          /\ (IF 2 <= n + 1 THEN (n + 1) - 2 + 1 ELSE 0) = n
      BY <1>1
    <3> QED BY <2>1, <2>2, <3>1, SubSeqProperties
  <2>4. ASSUME NEW i \in 1..n PROVE q[i] = View[i - h]
    <3>1. PICK j \in 2..n + 1 : j = 2 + i - 1 /\ (j - 1) - h = i - h
      BY <1>1
    <3> QED BY <2>1, <2>3, <3>1
  <2>5. q = [i \in 1..n |-> q[i]]
    BY <2>3
  <2> QED BY <2>2, <2>4, <2>5
<1>17. Messages(s) = <<SubSeq(s, 2, n + 1)>> \o Messages(t)
  <2>1. Len(s) \in {Len(t) + n + 1, Len(t) + n + 2}
    BY <1>11
  <2>2. \A i \in 1..Len(t) : t[i] = s[i + (n + 1)]
    BY <1>11, <1>15
  <2> QED BY <1>9, <1>10, <1>14, <2>1, <2>2, MessageBefore
<1> QED BY <1>9, <1>10, <1>16, <1>17

\* A call to receive asks for something.
AsksForSome ==
    /\ pc["reader"] \notin {"idle", "peeked"} => xBufferLengthBytes > 0
    /\ pc["reader"] = "read" /\ ~setting.message => xBytesAvailable > 0

\* Every step keeps this.
LEMMA AskingSteps ==
    ASSUME Inv, Inv', AsksForSome, [Next]_vars PROVE AsksForSome'
<1>1. TypeOK /\ TypeOK' /\ MaxLength \in Nat /\ BufferSize \in Nat
  BY StreamAssumption DEF Inv
<1>2. CASE UNCHANGED <<setting, reads>> /\ pc'["reader"] = pc["reader"]
  BY <1>2 DEF AsksForSome, reads
<1>3. CASE pc'["reader"] = "idle"
  BY <1>3 DEF AsksForSome
<1>4. CASE \/ \E frame \in Frames, ticks \in Waits : xStreamBufferSend(frame, ticks)
           \/ Writer
           \/ \E t \in Tasks : TickWakes(t) \/ NotifiedByOther(t) \/ vTaskResume(t)
           \/ \E level \in TriggerLevels : xStreamBufferSetTriggerLevel(level)
           \/ vars' = vars
  <2>1. UNCHANGED <<setting, reads>> /\ pc'["reader"] = pc["reader"]
    BY <1>1, <1>4 DEF xStreamBufferSend, Writer, CheckSpace, NotifyWait, NotifyWaited, ForgetSender,
         SendTimeOut, LookForSpace, Write, WriteRefused, WriteData, Sent, NotifyReader, SendReturns,
         WriterOnly, TickWakes, NotifiedByOther, vTaskResume, xStreamBufferSetTriggerLevel, vars,
         calls, Goto, At, TypeOK, Tasks
  <2> QED BY <1>2, <2>1
<1>5. CASE \/ \E frame \in Frames : xStreamBufferSendFromISR(frame)
           \/ \E size \in 1..MaxLength : xStreamBufferReceiveFromISR(size)
           \/ xStreamBufferReset
           \/ NothingThere \/ PutBack \/ NotifyWriter \/ PutLengthBack
  <2>1. CASE \E frame \in Frames : xStreamBufferSendFromISR(frame)
    BY <1>2, <2>1 DEF xStreamBufferSendFromISR, WriterOnly, calls
  <2>2. CASE \E size \in 1..MaxLength : xStreamBufferReceiveFromISR(size)
    <3>1. pc'["reader"] = "idle"
      BY <2>2 DEF xStreamBufferReceiveFromISR, Interrupts, calls, Inv, WaitsInOrder, Tasks
    <3> QED BY <1>3, <3>1
  <2>3. CASE xStreamBufferReset
    BY <1>2, <2>3 DEF xStreamBufferReset, calls
  <2>4. CASE NothingThere \/ PutBack \/ NotifyWriter \/ PutLengthBack
    <3>1. pc'["reader"] = "idle"
      BY <1>1, <2>4 DEF NothingThere, PutBack, NotifyWriter, PutLengthBack, ReceiveReturns, Goto,
                        TypeOK, Tasks
    <3> QED BY <1>3, <3>1
  <2> QED BY <1>5, <2>1, <2>2, <2>3, <2>4
<1>6. CASE xStreamBufferNextMessageLengthBytes
  <2>1. pc'["reader"] = "peeked"
    BY <1>1, <1>6 DEF xStreamBufferNextMessageLengthBytes, Goto, TypeOK, Tasks
  <2> QED BY <2>1 DEF AsksForSome
<1>7. CASE \E size \in Sizes, ticks \in Waits : xStreamBufferReceive(size, ticks)
  <2>1. PICK size \in Sizes, ticks \in Waits : xStreamBufferReceive(size, ticks)
    BY <1>7
  <2>2. size \in 1..MaxLength
    BY StreamAssumption DEF Sizes
  <2>3. xBufferLengthBytes' > 0
    BY <1>1, <2>1, <2>2 DEF xStreamBufferReceive
  <2>4. pc'["reader"] # "read"
    BY <1>1, <2>1 DEF xStreamBufferReceive, Goto, TypeOK, Tasks
  <2> QED BY <2>3, <2>4 DEF AsksForSome
<1>8. CASE CheckBytes \/ LookForBytes
  <2>1. /\ xBufferLengthBytes' = xBufferLengthBytes /\ xBufferLengthBytes > 0
        /\ pc'["reader"] = "read" => xBytesAvailable' = prvBytesInBuffer /\ prvBytesInBuffer > 0
    <3>1. prvBytesInBuffer \in Nat /\ LengthCells \in {0, 1}
      BY <1>1, Counts DEF TypeOK, LengthCells
    <3>2. CASE CheckBytes
      <4>1. pc'["reader"] = "read" => ~(prvBytesInBuffer <= LengthCells)
        BY <1>1, <3>2 DEF CheckBytes, Goto, TypeOK, Tasks
      <4> QED BY <3>1, <3>2, <4>1 DEF CheckBytes, At, AsksForSome
    <3>3. CASE LookForBytes
      BY <3>1, <3>3 DEF LookForBytes, At, AsksForSome
    <3> QED BY <1>8, <3>2, <3>3
  <2> QED BY <2>1 DEF AsksForSome
<1>9. CASE NotifyWait("reader") \/ NotifyWaited("reader") \/ ForgetReceiver
  <2>1. /\ xBufferLengthBytes' = xBufferLengthBytes /\ xBufferLengthBytes > 0
        /\ pc'["reader"] # "read"
    BY <1>1, <1>9 DEF NotifyWait, NotifyWaited, ForgetReceiver, At, Goto, reads, AsksForSome, TypeOK, Tasks
  <2> QED BY <2>1 DEF AsksForSome
<1>10. CASE ReadLength \/ ReadData
  <2>1. /\ xBufferLengthBytes' = xBufferLengthBytes /\ xBufferLengthBytes > 0 /\ setting' = setting
        /\ pc'["reader"] = "read" => setting.message
    BY <1>1, <1>10 DEF ReadLength, ReadData, ReaderOnly, At, Goto, AsksForSome, Inv, ReaderInOrder,
                       TypeOK, Tasks
  <2> QED BY <2>1 DEF AsksForSome
<1> QED BY <1>4, <1>5, <1>6, <1>7, <1>8, <1>9, <1>10 DEF Next, Reader

\* A call to receive takes out a message, or bytes of a stream.
LEMMA ReadDataReceives ==
    ASSUME Inv, Inv', AsksForSome, ReadData PROVE Sides!Receive
<1>1. TypeOK /\ TypeOK' /\ MaxLength \in Nat /\ BufferSize \in Nat
  BY StreamAssumption DEF Inv
<1>2. /\ setting' = setting /\ pvTxData' = pvTxData /\ pc["reader"] = "read" /\ pc'["reader"] = "received"
      /\ pc'["writer"] = pc["writer"]
  BY <1>1 DEF ReadData, ReaderOnly, At, Goto, TypeOK, Tasks, sends
<1>3. \A t \in Tasks : InCall(t)' <=> InCall(t)
  BY <1>2 DEF Tasks, InCall
<1>4. PICK b \in Nat : b = prvBytesInBuffer /\ b \in 0..BufferSize
  BY <1>1, Counts DEF TypeOK
<1>5. PICK w, n : /\ w = IF setting.message THEN xNextMessageLength ELSE xBufferLengthBytes
                  /\ n = Smaller(xBytesAvailable, w) /\ pvRxData' = Ahead(n) /\ Consume(n)
  BY DEF ReadData
<1>6. xBytesAvailable \in Nat /\ xBytesAvailable <= b
  BY <1>1, <1>2, <1>4 DEF Inv, ReaderInOrder, TypeOK
<1>7. CASE setting.message
  <2>1. xNextMessageLength \in 1..xBytesAvailable /\ xNextMessageLength \in 0..MaxLength
    BY <1>1, <1>2, <1>7 DEF Inv, ReaderInOrder, TypeOK
  <2>2. n = xNextMessageLength /\ n \in 1..MaxLength /\ n \in 0..BufferSize /\ n <= b /\ n > 0
    BY <1>1, <1>4, <1>5, <1>6, <1>7, <2>1 DEF Smaller
  <2>3. TakenOut = 1 /\ TakenOut' = 0
    BY <1>2, <1>7 DEF TakenOut
  <2>4. Unread[1] = n
    BY <1>1, <2>2, <2>3, UnreadCells DEF UnreadIs
  <2>5. n + 1 - 1 = n
    BY <2>2, <1>1
  <2>6. pvRxData' = [i \in 1..n |-> View[i - 1]]
    BY <1>5, <2>2, AheadIsView
  <2>7. Queued = <<pvRxData'>> \o Queued'
    <3>1. PICK h \in {0, 1} : h = 1
      OBVIOUS
    <3>2. h = TakenOut /\ n + 1 - h <= prvBytesInBuffer /\ Consume(n + 1 - h)
          /\ pvRxData' = [i \in 1..n |-> View[i - h]]
      BY <1>4, <1>5, <2>2, <2>3, <2>5, <2>6, <3>1
    <3> QED BY <1>2, <1>7, <2>2, <2>3, <2>4, <3>2, MessageTaken
  <2>8. Queued \in Seq(Seq(Values)) /\ Queued' \in Seq(Seq(Values))
    BY <1>2, <1>7, UnreadFrames, UnreadFramesNext DEF InFrames
  <2>9. pvRxData' # << >>
    <3>1. Len(pvRxData') = n
      BY <2>2, <2>6, <1>1
    <3> QED BY <2>2, <3>1
  <2> QED BY <1>2, <1>3, <1>7, <2>7, <2>8, <2>9, MessageReceived
<1>8. CASE ~setting.message
  <2>1. xBytesAvailable > 0 /\ xBufferLengthBytes > 0 /\ xBufferLengthBytes \in Nat
    BY <1>1, <1>2, <1>8 DEF AsksForSome, TypeOK
  <2>2. n \in 1..prvBytesInBuffer
    BY <1>4, <1>5, <1>6, <1>8, <2>1 DEF Smaller
  <2> QED BY <1>1, <1>2, <1>3, <1>5, <1>8, <2>2, BytesReceived
<1> QED BY <1>7, <1>8

\* So does an interrupt.
LEMMA ReceiveFromISRReceives ==
    ASSUME Inv, Inv', NEW size \in 1..MaxLength, xStreamBufferReceiveFromISR(size) PROVE Sides!Receive
<1>1. TypeOK /\ TypeOK' /\ MaxLength \in Nat /\ BufferSize \in Nat /\ size \in Nat /\ size > 0
  BY StreamAssumption DEF Inv
<1>2. setting' = setting /\ pvTxData' = pvTxData /\ pc["reader"] = "idle" /\ pc' = pc
  BY DEF xStreamBufferReceiveFromISR, ReaderOnly, sends, Interrupts, calls, Inv, WaitsInOrder, Tasks
<1>3. \A t \in Tasks : InCall(t)' <=> InCall(t)
  BY <1>2 DEF InCall
<1>4. PICK b \in Nat : b = prvBytesInBuffer /\ b \in 0..BufferSize /\ b > LengthCells
  BY <1>1, Counts DEF TypeOK, xStreamBufferReceiveFromISR
<1>5. CASE setting.message
  <2>1. /\ pvRxData' = Tail(Ahead(Ahead(1)[1] + 1)) /\ Consume(Ahead(1)[1] + 1)
    BY <1>5 DEF xStreamBufferReceiveFromISR
  <2>2. b > 1
    BY <1>4, <1>5 DEF LengthCells
  <2>3. PICK n \in 1..MaxLength : n = View[0] /\ n < b
    <3>1. ~PutsBack /\ pc["reader"] # "read" /\ prvBytesInBuffer > 1
      BY <1>2, <1>4, <2>2 DEF PutsBack
    <3> QED BY <1>4, <1>5, <3>1, FirstMessage
  <2>4. n \in Nat /\ n > 0 /\ 1 \in 0..BufferSize /\ n + 1 \in 0..BufferSize /\ n + 1 <= b
    BY <1>1, <1>4, <2>2, <2>3
  <2>5. Ahead(1)[1] = n
    <3>1. 1 \in 1..1 /\ 1 - 1 = 0
      OBVIOUS
    <3>2. Ahead(1)[1] = View[1 - 1]
      BY <2>4, <3>1, AheadIsView
    <3> QED BY <2>3, <3>1, <3>2
  <2>6. pvRxData' = [i \in 1..n |-> View[i]]
    <3>1. PICK f : f = Ahead(n + 1) /\ f = [i \in 1..n + 1 |-> View[i - 1]]
      BY <2>4, AheadIsView
    <3>2. Tail(f) = [i \in 1..n |-> View[i]]
      BY <2>4, <3>1
    <3> QED BY <2>1, <2>5, <3>1, <3>2
  <2>7. TakenOut = 0 /\ TakenOut' = 0
    BY <1>2 DEF TakenOut
  <2>8. Unread[1] = n
    <3>1. 1 \in 1..b /\ 1 + 0 = 1 /\ 1 - 1 = 0
      BY <2>2, <1>4
    <3>2. Unread[1 + 0] = View[1 - 1]
      BY <1>1, <1>4, <2>7, <3>1, UnreadCells DEF UnreadIs
    <3> QED BY <2>3, <3>1, <3>2
  <2>9. Queued = <<pvRxData'>> \o Queued'
    <3>1. PICK h \in {0, 1} : h = 0
      OBVIOUS
    <3>2. n + 1 - h = n + 1 /\ [i \in 1..n |-> View[i - h]] = [i \in 1..n |-> View[i]]
      BY <2>4, <3>1
    <3>3. h = TakenOut /\ n + 1 - h <= prvBytesInBuffer /\ Consume(n + 1 - h)
          /\ pvRxData' = [i \in 1..n |-> View[i - h]]
      BY <1>4, <2>1, <2>4, <2>5, <2>6, <2>7, <3>1, <3>2
    <3> QED BY <1>2, <1>5, <2>3, <2>7, <2>8, <3>3, MessageTaken
  <2>10. Queued \in Seq(Seq(Values)) /\ Queued' \in Seq(Seq(Values))
    BY <1>2, <1>5, UnreadFrames, UnreadFramesNext DEF InFrames
  <2>11. pvRxData' # << >>
    <3>1. Len(pvRxData') = n
      BY <2>4, <2>6
    <3> QED BY <2>4, <3>1
  <2> QED BY <1>2, <1>3, <1>5, <2>9, <2>10, <2>11, MessageReceived
<1>6. CASE ~setting.message
  <2>1. PICK n : n = Smaller(prvBytesInBuffer, size) /\ pvRxData' = Ahead(n) /\ Consume(n)
    BY <1>6 DEF xStreamBufferReceiveFromISR
  <2>2. n \in 1..prvBytesInBuffer
    BY <1>1, <1>4, <1>6, <2>1 DEF Smaller, LengthCells
  <2> QED BY <1>1, <1>2, <1>3, <1>6, <2>1, <2>2, BytesReceived
<1> QED BY <1>5, <1>6

\* A reset, between the calls, leaves nothing.
LEMMA ResetEmpties ==
    ASSUME Careless = {}, Inv, Inv', xStreamBufferReset PROVE Sides!Reset
<1>1. /\ UNCHANGED <<setting, pvTxData, pvRxData>> /\ pc' = pc /\ pc["reader"] = "idle" /\ pc["writer"] = "idle"
      /\ xHead' = 0 /\ xTail' = 0
  BY DEF xStreamBufferReset, InCall, calls, sends, reads
<1>2. prvBytesInBuffer' = 0
  <2>1. prvBytesInBuffer' = (xLength + 0 - 0) % xLength
    BY <1>1 DEF prvBytesInBuffer, xLength
  <2>2. xLength \in Nat \ {0}
    BY StreamAssumption DEF xLength
  <2> QED BY <2>1, <2>2
<1>3. Empty'
  BY <1>1, <1>2 DEF Inv, Empty, TakenOut
<1>4. Queued' = << >>
  BY <1>3, EmptyQueueNext
<1>5. {t \in Tasks : InCall(t)} = {} /\ {t \in Tasks : InCall(t)}' = {}
  BY <1>1 DEF InCall, Tasks
<1> HIDE DEF InCall
<1> QED BY <1>1, <1>4, <1>5 DEF Sides!Reset

\* What is received is what was sent, once and in order, a message whole or not at
\* all, whatever the steps of xStreamBufferSend and xStreamBufferReceive and of their
\* forms for interrupts come between: every step is one of the channel's, or none.
THEOREM SentIsReceived == ASSUME Careless = {} PROVE Spec => ChannelSpec
<1>1. Init => Sides!Init /\ AsksForSome
  <2> SUFFICES ASSUME Init PROVE Sides!Init /\ AsksForSome
    OBVIOUS
  <2>1. TypeOK /\ pc["reader"] = "idle" /\ pc["writer"] = "idle" /\ xHead = 0 /\ xTail = 0
    BY InitInv DEF Inv, Init, Tasks
  <2>2. prvBytesInBuffer = 0
    <3>1. prvBytesInBuffer = (xLength + 0 - 0) % xLength
      BY <2>1 DEF prvBytesInBuffer
    <3>2. xLength \in Nat \ {0}
      BY StreamAssumption DEF xLength
    <3> QED BY <3>1, <3>2
  <2>3. Queued = << >>
    BY <2>1, <2>2, EmptyQueue DEF Empty, TakenOut
  <2>4. {t \in Tasks : InCall(t)} = {}
    BY <2>1 DEF InCall, Tasks
  <2>5. setting.message \in BOOLEAN /\ pvTxData = << >> /\ pvRxData = << >>
    BY <2>1 DEF Init, TypeOK
  <2> HIDE DEF InCall
  <2>6. AsksForSome
    BY <2>1 DEF AsksForSome
  <2> QED BY <2>3, <2>4, <2>5, <2>6 DEF Sides!Init
<1>2. ASSUME Inv, Inv', AsksForSome, [Next]_vars PROVE [Sides!Next]_(Sides!vars)
  <2> USE <1>2
  <2>1. TypeOK /\ TypeOK' /\ UnreadIs'
    BY UnreadCellsNext DEF Inv
  <2>2. CASE QuietStep
    BY <2>1, <2>2, QuietSteps DEF Sides!Next
  <2>3. CASE ReadLength \/ xStreamBufferNextMessageLengthBytes \/ PutBack \/ PutLengthBack
    BY <2>1, <2>3, LengthSteps DEF Sides!Next
  <2>4. CASE Write
    BY <2>4, LengthBegun, WriteSends DEF Sides!Next
  <2>5. CASE WriteData
    BY <2>5, WriteDataSends DEF Sides!Next
  <2>6. CASE \E frame \in Frames : xStreamBufferSendFromISR(frame)
    BY <2>6, SendFromISRSends DEF Sides!Next
  <2>7. CASE ReadData
    BY <2>7, ReadDataReceives DEF Sides!Next
  <2>8. CASE \E size \in 1..MaxLength : xStreamBufferReceiveFromISR(size)
    BY <2>8, ReceiveFromISRReceives DEF Sides!Next
  <2>9. CASE xStreamBufferReset
    BY <2>9, ResetEmpties DEF Sides!Next
  <2>10. CASE UNCHANGED vars
    <3>1. /\ UNCHANGED <<setting, pucBuffer, xHead, xTail, pc, xNextMessageLength, pvTxData, pvRxData>>
      BY <2>10 DEF vars, buffer, calls, sends, reads
    <3>2. Queued' = Queued
      <4>1. Ahead(prvBytesInBuffer)' = Ahead(prvBytesInBuffer)
        BY <3>1 DEF Ahead, prvBytesInBuffer, xLength
      <4> QED BY <3>1, <4>1 DEF Queued, Unread
    <3> QED BY <2>1, <3>1, <3>2, CallStep DEF Sides!Next
  <2> QED BY <2>2, <2>3, <2>4, <2>5, <2>6, <2>7, <2>8, <2>9, <2>10
          DEF Next, Writer, Reader, QuietStep, Tasks
<1>3. ASSUME Inv, Inv', AsksForSome, [Next]_vars PROVE AsksForSome'
  BY <1>3, AskingSteps
<1> QED BY <1>1, <1>2, <1>3, Invariance, PTL DEF Spec, ChannelSpec, Sides!Spec
=============================================================================
