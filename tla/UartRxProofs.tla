----------------------------- MODULE UartRxProofs -----------------------------
(***************************************************************************)
(* The physical UART's receive path for every ring, buffer and FIFO size:  *)
(* types, no lost wake-up, order, the newest byte, nothing stale.          *)
(***************************************************************************)
EXTENDS UartRx, CycleQueueFacts

Refill   == {"copy", "test", "drained", "exit"}
Clearing == {"tail", "head", "empty", "full", "overflow", "readbuf"}

\* TX_DONE reports, and what the driver's state says about the port
PortInv == /\ tx.pending <= tx.made
           /\ drv.open = port.opened
           /\ drv.handler = (port.opened /\ port.workmode # 1)
           /\ pc \in Refill \cup {"filled"} => drv.handler

\* QueueDelete runs with the receive interrupt masked, and what it found
WakeInv == /\ pc \in Refill => ~drv.rxint
           /\ pc \in {"copy", "test", "drained"} => ~q.empty
           /\ pc = "copy" => Len(rbuf) < ReadSize
           /\ pc \in {"test", "drained"} => rbuf # <<>>
           /\ pc = "exit" /\ rbuf = <<>> => q.empty
           /\ pc = "filled" /\ rbuf = <<>> => q.empty \/ \E i \in DOMAIN msgs : msgs[i] = "rx"

\* The ring as it is once the flags are reset: in QueueDelete and inside
\* QueueClean the flags are older than the indices.
Plain(cq) == [cq EXCEPT !.full = FALSE, !.overflow = FALSE]
Blank(cq) == [cq EXCEPT !.full = FALSE, !.overflow = FALSE, !.empty = TRUE]

\* The ring where the Lua task is
View == IF pc \in {"empty", "test", "drained"} THEN Blank(q) ELSE Plain(q)

\* What the flags say at each place
FlagInv == /\ pc \in {"ready", "filled", "readbuf"} => Rest(q)
           /\ pc \in Refill => (q.overflow => q.full)
           /\ pc = "exit" /\ rbuf = <<>> => Rest(q)
           /\ pc = "drained" => q.head = q.tail
           /\ pc = "overflow" => (q.full => ~q.empty)
           /\ pc \in {"head", "empty", "full", "overflow"} => q.tail = 0
           /\ ~drv.handler => q = QueueClean(q) /\ rbuf = <<>> /\ newest = 0

\* Bytes in order, newer than the last one cleared (c) and the last one read
\* (l), arrived (w), and older than what the driver holds (f)
Above(s, n) == \A i \in 1..Len(s) : s[i] > n
Fresh(s, c, l, w, f) == /\ Increasing(s) /\ Above(s, c) /\ Above(s, l) /\ UpTo(s, w)
                        /\ Precedes(s, f)

\* The driver's bytes are the newest
FifoInv == /\ Fresh(fifo, cleared, last, wire, <<>>)
           /\ last <= wire /\ cleared <= wire
           /\ pc \in Clearing => last <= cleared

\* The bytes of the ring, except where clear is about to drop them
RingInv == pc \notin {"tail", "head"} => Fresh(Stored(View), cleared, last, wire, fifo)

\* The bytes of readbuf, except where clear is about to drop them
BufInv == pc \notin Clearing => /\ Fresh(rbuf, cleared, last, wire, fifo)
                                /\ Precedes(rbuf, Stored(View))

\* The newest byte is in the ring or in readbuf, and not hidden
NewInv == pc \notin Clearing /\ newest # 0 =>
           /\ q.empty => q.head = q.tail
           /\ \/ newest <= last
              \/ \E i \in 1..Len(rbuf) : rbuf[i] = newest
              \/ \E i \in 1..Len(Stored(View)) : Stored(View)[i] = newest

OrderInv == ~torn => FlagInv /\ FifoInv /\ RingInv /\ BufInv /\ NewInv

IndInv == TypeOK /\ PortInv /\ WakeInv /\ NoLostWakeup /\ OrderInv
------------------------------------------------------------------------------
(* The bookkeeping that holds inside a torn clear too.                     *)
CtlInv == TypeOK /\ PortInv /\ WakeInv /\ NoLostWakeup

HasRx(m) == \E i \in DOMAIN m : m[i] = "rx"

(* The fields of the ring that QueueClean stores to, by name.              *)
LEMMA CleanFields == Range(CleanOrder) = {"tail", "head", "empty", "full", "overflow"}
BY DEF CleanOrder, Range

(* A store of QueueClean, and where the Lua task is before and after it.   *)
LEMMA StoreCases ==
  ASSUME CleanStore
  PROVE  \/ pc = "tail" /\ pc' = "head" /\ q' = [q EXCEPT !["tail"] = 0]
         \/ pc = "head" /\ pc' = "empty" /\ q' = [q EXCEPT !["head"] = 0]
         \/ pc = "empty" /\ pc' = "full" /\ q' = [q EXCEPT !["empty"] = TRUE]
         \/ pc = "full" /\ pc' = "overflow" /\ q' = [q EXCEPT !["full"] = FALSE]
         \/ pc = "overflow" /\ pc' = "readbuf" /\ q' = [q EXCEPT !["overflow"] = FALSE]
<1>1. PICK i \in 1..5 :
        /\ pc = CleanOrder[i] /\ q' = [q EXCEPT ![pc] = CleanValue[pc]]
        /\ pc' = IF i < 5 THEN CleanOrder[i + 1] ELSE "readbuf"
  BY DEF CleanStore, CleanOrder
<1>2. CASE i = 1
  <2>1. pc = "tail" /\ pc' = "head"
    BY <1>1, <1>2 DEF CleanOrder
  <2>2. CleanValue[pc] = 0
    BY <2>1 DEF CleanValue
  <2> QED  BY <1>1, <2>1, <2>2
<1>3. CASE i = 2
  <2>1. pc = "head" /\ pc' = "empty"
    BY <1>1, <1>3 DEF CleanOrder
  <2>2. CleanValue[pc] = 0
    BY <2>1 DEF CleanValue
  <2> QED  BY <1>1, <2>1, <2>2
<1>4. CASE i = 3
  <2>1. pc = "empty" /\ pc' = "full"
    BY <1>1, <1>4 DEF CleanOrder
  <2>2. CleanValue[pc] = TRUE
    BY <2>1 DEF CleanValue
  <2> QED  BY <1>1, <2>1, <2>2
<1>5. CASE i = 4
  <2>1. pc = "full" /\ pc' = "overflow"
    BY <1>1, <1>5 DEF CleanOrder
  <2>2. CleanValue[pc] = FALSE
    BY <2>1 DEF CleanValue
  <2> QED  BY <1>1, <2>1, <2>2
<1>6. CASE i = 5
  <2>1. pc = "overflow" /\ pc' = "readbuf"
    BY <1>1, <1>6 DEF CleanOrder
  <2>2. CleanValue[pc] = FALSE
    BY <2>1 DEF CleanValue
  <2> QED  BY <1>1, <2>1, <2>2
<1> QED  BY <1>2, <1>3, <1>4, <1>5, <1>6

(* A message more: an rx message is among them if it was, or is the new    *)
(* one.  One less: if it was, it still is or it was the first.             *)
LEMMA MsgFacts ==
  ASSUME NEW m \in Seq({"rx", "tx"}), NEW x \in {"rx", "tx"}
  PROVE  /\ Append(m, x) \in Seq({"rx", "tx"})
         /\ HasRx(m) => HasRx(Append(m, x))
         /\ HasRx(Append(m, "rx"))
         /\ m # <<>> => /\ Tail(m) \in Seq({"rx", "tx"})
                        /\ HasRx(m) => Head(m) = "rx" \/ HasRx(Tail(m))
<1>1. Append(m, x) \in Seq({"rx", "tx"})
  OBVIOUS
<1>2. HasRx(m) => HasRx(Append(m, x))
  BY DEF HasRx
<1>3. HasRx(Append(m, "rx"))
  <2>1. Len(m) + 1 \in DOMAIN Append(m, "rx") /\ Append(m, "rx")[Len(m) + 1] = "rx"
    OBVIOUS
  <2> QED  BY <2>1 DEF HasRx
<1>4. ASSUME m # <<>>, HasRx(m), Head(m) # "rx" PROVE HasRx(Tail(m))
  <2>1. PICK i \in 1..Len(m) : m[i] = "rx"
    BY <1>4 DEF HasRx
  <2>2. i # 1
    BY <1>4, <2>1
  <2>3. i - 1 \in 1..Len(Tail(m)) /\ Tail(m)[i - 1] = "rx"
    BY <1>4, <2>1, <2>2
  <2>4. DOMAIN Tail(m) = 1..Len(Tail(m))
    BY <1>4
  <2> QED  BY <2>3, <2>4 DEF HasRx
<1>5. m # <<>> => Tail(m) \in Seq({"rx", "tx"})
  OBVIOUS
<1> QED  BY <1>1, <1>2, <1>3, <1>4, <1>5

(* NoLostWakeup and WakeInv in terms of HasRx.                             *)
LEMMA WakeForm == /\ NoLostWakeup <=> owes \/ HasRx(msgs) \/ (q.empty /\ rbuf = <<>>)
                  /\ (\E i \in DOMAIN msgs : msgs[i] = "rx") <=> HasRx(msgs)
BY DEF NoLostWakeup, HasRx

(* What an interrupt takes from the driver's FIFO.                         *)
LEMMA FifoFacts ==
  ASSUME TypeOK, NEW n \in 1..LengthMod, n <= Len(fifo)
  PROVE  LET length == n % LengthMod
             bytes == SubSeq(fifo, 1, length)
             left == SubSeq(fifo, n + 1, Len(fifo))
         IN  /\ length \in 0..n /\ (length # 0 => length = n)
             /\ bytes \in Seq(Byte) /\ Len(bytes) = length
             /\ \A i \in 1..length : bytes[i] = fifo[i] /\ fifo[i] \in 1..MaxBytes
             /\ left \in Seq(1..MaxBytes) /\ Len(left) = Len(fifo) - n
             /\ \A i \in 1..(Len(fifo) - n) : left[i] = fifo[i + n]
             /\ Len(left) <= MaxFifo
<1> DEFINE length == n % LengthMod
           bytes == SubSeq(fifo, 1, length)
           left == SubSeq(fifo, n + 1, Len(fifo))
<1>1. /\ LengthMod \in Nat \ {0} /\ MaxFifo \in Nat /\ MaxBytes \in Nat
      /\ 0..MaxBytes \subseteq Byte
  BY BoundsAssumption
<1>2. fifo \in Seq(1..MaxBytes) /\ Len(fifo) <= MaxFifo /\ Len(fifo) \in Nat
  BY DEF TypeOK
<1>3. length \in 0..n /\ (length # 0 => length = n)
  <2>1. CASE n = LengthMod
    BY <1>1, <2>1
  <2>2. CASE n < LengthMod
    BY <1>1, <2>2
  <2> QED  BY <1>1, <2>1, <2>2
<1> HIDE DEF length
<1>4. fifo \in Seq(Byte)
  BY <1>1, <1>2
<1>5. /\ bytes \in Seq(Byte) /\ Len(bytes) = length
      /\ \A i \in 1..length : bytes[i] = fifo[i] /\ fifo[i] \in 1..MaxBytes
  <2>1. length \in Nat /\ length <= Len(fifo)
    BY <1>2, <1>3
  <2>2. bytes \in Seq(Byte) /\ Len(bytes) = length
    BY <1>2, <1>4, <2>1
  <2>3. \A i \in 1..length : bytes[i] = fifo[i]
    BY <1>2, <1>4, <2>1
  <2>5. \A i \in 1..length : i \in 1..Len(fifo)
    BY <1>2, <2>1
  <2>4. \A i \in 1..length : fifo[i] \in 1..MaxBytes
    <3> DEFINE S == 1..MaxBytes
    <3>1. fifo \in Seq(S)
      BY <1>2
    <3> HIDE DEF S
    <3>2. \A i \in 1..length : fifo[i] \in S
      BY <3>1, <2>5
    <3> QED  BY <3>2 DEF S
  <2> QED  BY <2>2, <2>3, <2>4
<1>6. /\ left \in Seq(1..MaxBytes) /\ Len(left) = Len(fifo) - n
      /\ \A i \in 1..(Len(fifo) - n) : left[i] = fifo[i + n]
      /\ Len(left) <= MaxFifo
  BY <1>1, <1>2
<1> QED  BY <1>3, <1>5, <1>6 DEF length
------------------------------------------------------------------------------
(* Where the Lua task can be.                                              *)
Places == {"ready", "copy", "test", "drained", "exit", "filled", "readbuf",
           "tail", "head", "empty", "full", "overflow"}

(* TypeOK with the places by name.                                         *)
LEMMA PlaceFacts == TypeOK => pc \in Places
BY CleanFields DEF TypeOK, Places

(* The bookkeeping, initially.                                             *)
LEMMA InitCtl == Init => CtlInv
<1> SUFFICES ASSUME Init PROVE CtlInv
  OBVIOUS
<1>1. 0 \in Index
  BY SizeAssumption DEF Index
<1>2. q \in Queue /\ q.empty
  BY <1>1, ByteAssumption DEF Init, ZeroQueue, Queue
<1>3. /\ fifo \in Seq(1..MaxBytes) /\ Len(fifo) <= MaxFifo
      /\ rbuf \in Seq(Byte) /\ Len(rbuf) <= ReadSize /\ msgs \in Seq({"rx", "tx"})
  BY BoundsAssumption DEF Init
<1>4. /\ tx \in [made : 0..MaxTx, pending : 0..MaxTx] /\ wire \in 0..MaxBytes
      /\ cleared \in 0..MaxBytes /\ newest \in 0..MaxBytes /\ last \in Byte
  BY BoundsAssumption, ByteAssumption DEF Init
<1>5. TypeOK
  BY <1>2, <1>3, <1>4 DEF Init, TypeOK
<1>6. PortInv /\ WakeInv
  <2>1. tx.pending <= tx.made /\ ~drv.open /\ ~drv.handler /\ ~drv.rxint /\ ~port.opened /\ pc = "ready"
    BY DEF Init
  <2>2. drv.open = FALSE /\ drv.handler = FALSE /\ port.opened = FALSE
    BY DEF Init
  <2>3. PortInv
    BY <2>1, <2>2 DEF PortInv, Refill
  <2> QED  BY <2>1, <2>3 DEF WakeInv, Refill
<1>7. NoLostWakeup
  BY <1>2 DEF Init, NoLostWakeup
<1> QED  BY <1>5, <1>6, <1>7 DEF CtlInv

(* A byte reaches the driver's FIFO.                                       *)
LEMMA CtlArrive ==
  ASSUME CtlInv, Arrive
  PROVE  CtlInv'
<1> USE DEF CtlInv, lua, history
<1>1. wire' \in 0..MaxBytes /\ wire + 1 \in 1..MaxBytes
  BY BoundsAssumption DEF Arrive, TypeOK
<1>2. fifo' \in Seq(1..MaxBytes) /\ Len(fifo') <= MaxFifo
  BY <1>1, BoundsAssumption DEF Arrive, TypeOK
<1> QED  BY <1>1, <1>2 DEF Arrive, TypeOK, PortInv, WakeInv, NoLostWakeup

(* The interrupt tells Lua when it finds the ring empty; otherwise Lua was *)
(* told already.                                                           *)
LEMMA CtlRx ==
  ASSUME CtlInv, NEW n \in 1..LengthMod, n <= Len(fifo), NEW lost \in BOOLEAN, RxDataInd(n, lost)
  PROVE  CtlInv'
<1> DEFINE length == n % LengthMod
           bytes == SubSeq(fifo, 1, length)
           in == QueueInsert(q, bytes)
<1>1. /\ UNCHANGED <<drv, wire, rbuf, port, tx, pc, last, owes, cleared>>
      /\ drv.handler /\ drv.rxint /\ (lost => pc \in Flags)
  BY DEF RxDataInd, lua
<1>2. fifo' \in Seq(1..MaxBytes) /\ Len(fifo') <= MaxFifo
  BY FifoFacts DEF RxDataInd, CtlInv
<1>3. pc \notin Refill
  BY <1>1 DEF CtlInv, WakeInv
<1>4. CASE length = 0
  <2>1. UNCHANGED <<q, msgs, newest, torn>>
    BY <1>4 DEF RxDataInd
  <2>2. TypeOK'
    BY <1>1, <1>2, <2>1 DEF CtlInv, TypeOK
  <2> QED  BY <1>1, <2>1, <2>2 DEF CtlInv, PortInv, WakeInv, NoLostWakeup
<1>5. CASE length # 0
  <2>1. /\ q' = IF lost THEN [q EXCEPT !.buf = in.buf, !.head = in.head, !.tail = in.tail] ELSE in
        /\ msgs' = IF NeedMsg(q) THEN Append(msgs, "rx") ELSE msgs
        /\ newest' = fifo[length] /\ torn' \in BOOLEAN
    <3>1. torn' \in BOOLEAN
      BY <1>5 DEF RxDataInd
    <3> QED  BY <1>5, <3>1 DEF RxDataInd
  <2>2. bytes \in Seq(Byte) /\ Len(bytes) = length /\ length \in Nat /\ newest' \in 0..MaxBytes
    <3>1. length \in 1..length
      BY <1>5, FifoFacts DEF CtlInv
    <3> QED  BY <2>1, <3>1, FifoFacts, BoundsAssumption DEF CtlInv
  <2>3. q \in Queue /\ msgs \in Seq({"rx", "tx"})
    BY DEF CtlInv, TypeOK
  <2>4. in \in Queue /\ ~in.empty
    BY <1>5, <2>2, <2>3, InsertType
  <2> HIDE DEF in
  <2>5. q' \in Queue
    BY <2>1, <2>3, <2>4 DEF Queue
  <2>6. q.empty \in BOOLEAN
    BY <2>3 DEF Queue
  <2>7. msgs' \in Seq({"rx", "tx"}) /\ (HasRx(msgs) \/ q.empty => HasRx(msgs'))
    BY <2>1, <2>3, <2>6, MsgFacts DEF NeedMsg
  <2>8. TypeOK'
    BY <1>1, <1>2, <2>1, <2>2, <2>5, <2>7 DEF CtlInv, TypeOK
  <2>9. NoLostWakeup'
    <3>1. owes \/ HasRx(msgs) \/ q.empty
      BY WakeForm DEF CtlInv
    <3>2. owes' \/ HasRx(msgs')
      BY <1>1, <2>7, <3>1
    <3> QED  BY <3>2 DEF NoLostWakeup, HasRx
  <2>10. WakeInv'
    <3>1. pc \in {"ready", "filled"} \cup Clearing
      BY <1>3, PlaceFacts DEF CtlInv, Places, Refill, Clearing
    <3>2. pc = "filled" /\ rbuf = <<>> => HasRx(msgs')
      BY <2>7 DEF CtlInv, WakeInv, HasRx
    <3>3. pc \notin {"copy", "test", "drained", "exit"}
      BY <1>3 DEF Refill
    <3> QED  BY <1>1, <3>2, <3>3 DEF WakeInv, HasRx, Refill
  <2>11. PortInv'
    BY <1>1 DEF CtlInv, PortInv
  <2> QED  BY <2>8, <2>9, <2>10, <2>11 DEF CtlInv
<1> QED  BY <1>4, <1>5

(* The interrupt reports TX_DONE.                                          *)
LEMMA CtlTx ==
  ASSUME CtlInv, TxDoneInd
  PROVE  CtlInv'
<1>1. /\ UNCHANGED <<drv, fifo, wire, q, rbuf, port, pc, last, owes, cleared, newest, torn>>
      /\ tx.pending > 0 /\ tx' = [tx EXCEPT !.pending = @ - 1] /\ msgs' = Append(msgs, "tx")
  BY DEF TxDoneInd, lua, history
<1>2. tx \in [made : 0..MaxTx, pending : 0..MaxTx] /\ tx.pending <= tx.made
  BY DEF CtlInv, TypeOK, PortInv
<1>3. tx' \in [made : 0..MaxTx, pending : 0..MaxTx] /\ tx'.pending <= tx'.made
  BY <1>1, <1>2, BoundsAssumption
<1>4. msgs' \in Seq({"rx", "tx"}) /\ (HasRx(msgs) => HasRx(msgs'))
  BY <1>1, MsgFacts DEF CtlInv, TypeOK
<1>5. TypeOK' /\ PortInv'
  BY <1>1, <1>3, <1>4 DEF CtlInv, TypeOK, PortInv
<1>6. NoLostWakeup' /\ WakeInv'
  BY <1>1, <1>4 DEF CtlInv, NoLostWakeup, WakeInv, HasRx
<1> QED  BY <1>5, <1>6 DEF CtlInv

(* Lua takes a message.                                                    *)
LEMMA CtlReceive ==
  ASSUME CtlInv, Receive
  PROVE  CtlInv'
<1>1. /\ UNCHANGED <<drv, fifo, wire, q, rbuf, port, tx, pc, last, cleared, newest, torn>>
      /\ pc = "ready" /\ msgs # <<>> /\ msgs' = Tail(msgs) /\ owes' = (owes \/ Head(msgs) = "rx")
  BY DEF Receive, history
<1>2. msgs' \in Seq({"rx", "tx"}) /\ (HasRx(msgs) => Head(msgs) = "rx" \/ HasRx(msgs'))
  BY <1>1, MsgFacts DEF CtlInv, TypeOK
<1>3. TypeOK' /\ PortInv'
  BY <1>1, <1>2 DEF CtlInv, TypeOK, PortInv
<1>4. NoLostWakeup'
  BY <1>1, <1>2 DEF CtlInv, NoLostWakeup, HasRx
<1>5. WakeInv'
  BY <1>1 DEF WakeInv, Refill
<1> QED  BY <1>3, <1>4, <1>5 DEF CtlInv

(* Open, close and write.                                                  *)
LEMMA CtlPort ==
  ASSUME CtlInv, (\E mode \in {0, 1} : Open(mode)) \/ Close \/ Write
  PROVE  CtlInv'
<1> USE DEF lua, history
<1>1. CASE \E mode \in {0, 1} : Open(mode)
  <2>1. PICK mode \in {0, 1} : Open(mode)
    BY <1>1
  <2>2. TypeOK'
    BY <2>1 DEF Open, CtlInv, TypeOK
  <2>3. PortInv'
    BY <2>1 DEF Open, CtlInv, PortInv, TypeOK, Refill
  <2>4. WakeInv' /\ NoLostWakeup'
    BY <2>1 DEF Open, CtlInv, WakeInv, NoLostWakeup, Refill
  <2> QED  BY <2>2, <2>3, <2>4 DEF CtlInv
<1>2. CASE Close
  <2>1. q' \in Queue /\ q'.empty
    <3>1. 0 \in Index
      BY SizeAssumption DEF Index
    <3> QED  BY <1>2, <3>1 DEF Close, CtlInv, TypeOK, QueueClean, Queue
  <2>2. tx' \in [made : 0..MaxTx, pending : 0..MaxTx] /\ tx'.pending <= tx'.made
    <3>1. tx \in [made : 0..MaxTx, pending : 0..MaxTx] /\ tx' = [tx EXCEPT !.pending = 0]
      BY <1>2 DEF Close, CtlInv, TypeOK
    <3> QED  BY <3>1, BoundsAssumption
  <2>3. /\ fifo' \in Seq(1..MaxBytes) /\ Len(fifo') <= MaxFifo
        /\ rbuf' \in Seq(Byte) /\ Len(rbuf') <= ReadSize /\ newest' \in 0..MaxBytes
    BY <1>2, BoundsAssumption DEF Close
  <2>4. TypeOK'
    BY <1>2, <2>1, <2>2, <2>3 DEF Close, CtlInv, TypeOK
  <2>5. PortInv'
    BY <1>2, <2>2 DEF Close, CtlInv, PortInv, Refill, TypeOK
  <2>6. WakeInv' /\ NoLostWakeup'
    BY <1>2, <2>1 DEF Close, WakeInv, NoLostWakeup, Refill
  <2> QED  BY <2>4, <2>5, <2>6 DEF CtlInv
<1>3. CASE Write
  <2>1. tx' \in [made : 0..MaxTx, pending : 0..MaxTx] /\ tx'.pending <= tx'.made
    BY <1>3, BoundsAssumption DEF Write, CtlInv, TypeOK, PortInv
  <2>2. TypeOK' /\ PortInv'
    BY <1>3, <2>1 DEF Write, CtlInv, TypeOK, PortInv
  <2>3. WakeInv' /\ NoLostWakeup'
    BY <1>3 DEF Write, CtlInv, WakeInv, NoLostWakeup
  <2> QED  BY <2>2, <2>3 DEF CtlInv
<1> QED  BY <1>1, <1>2, <1>3

(* Clear: each of its stores leaves the ring well formed.                  *)
LEMMA CtlClear ==
  ASSUME CtlInv, ClearDriver \/ CleanStore \/ ClearReadBuf
  PROVE  CtlInv'
<1> USE DEF lua, history
<1>1. CASE ClearDriver
  <2>1. /\ pc' = "tail" /\ pc = "ready" /\ fifo' = <<>> /\ cleared' = wire
        /\ UNCHANGED <<drv, wire, q, rbuf, port, msgs, tx, last, owes, newest, torn>>
    BY <1>1 DEF ClearDriver, CleanOrder
  <2>2. fifo' \in Seq(1..MaxBytes) /\ Len(fifo') <= MaxFifo
    BY <2>1, BoundsAssumption
  <2>3. TypeOK'
    BY <2>1, <2>2, CleanFields DEF CtlInv, TypeOK
  <2>4. PortInv' /\ WakeInv' /\ NoLostWakeup'
    BY <2>1 DEF CtlInv, PortInv, WakeInv, NoLostWakeup, Refill
  <2> QED  BY <2>3, <2>4 DEF CtlInv
<1>2. CASE CleanStore
  <2>1. UNCHANGED <<drv, fifo, wire, rbuf, port, msgs, tx, last, owes, cleared, newest, torn>>
    BY <1>2 DEF CleanStore
  <2>2. 0 \in Index /\ q \in Queue
    BY SizeAssumption DEF Index, CtlInv, TypeOK
  <2>3. q' \in Queue /\ (q.empty => q'.empty)
    BY <1>2, <2>2, StoreCases DEF Queue
  <2>4. pc' \in Clearing
    BY <1>2, StoreCases DEF Clearing
  <2>5. TypeOK'
    BY <2>1, <2>3, <2>4, CleanFields DEF CtlInv, TypeOK, Clearing
  <2>6. PortInv'
    BY <2>1, <2>4 DEF CtlInv, PortInv, Refill, Clearing
  <2>7. WakeInv'
    BY <2>4 DEF WakeInv, Refill, Clearing
  <2>8. NoLostWakeup'
    BY <2>1, <2>3 DEF CtlInv, NoLostWakeup
  <2> QED  BY <2>5, <2>6, <2>7, <2>8 DEF CtlInv
<1>3. CASE ClearReadBuf
  <2>1. rbuf' \in Seq(Byte) /\ Len(rbuf') <= ReadSize /\ newest' \in 0..MaxBytes
    BY <1>3, BoundsAssumption DEF ClearReadBuf
  <2>2. TypeOK'
    BY <1>3, <2>1 DEF ClearReadBuf, CtlInv, TypeOK
  <2>3. PortInv' /\ WakeInv' /\ NoLostWakeup'
    BY <1>3 DEF ClearReadBuf, CtlInv, PortInv, WakeInv, NoLostWakeup, Refill
  <2> QED  BY <2>2, <2>3 DEF CtlInv
<1> QED  BY <1>1, <1>2, <1>3

(* uart.read from the driver, or from readbuf.                             *)
LEMMA CtlRead ==
  ASSUME CtlInv, ReadPolled \/ ReadBuffered \/ ReadNone
  PROVE  CtlInv'
<1> USE DEF lua, history
<1>1. CASE ReadPolled
  <2>1. fifo \in Seq(1..MaxBytes) /\ fifo # <<>> /\ Len(fifo) <= MaxFifo
    BY <1>1 DEF ReadPolled, CtlInv, TypeOK
  <2>2. fifo' \in Seq(1..MaxBytes) /\ Len(fifo') <= MaxFifo /\ last' \in 1..MaxBytes
    BY <1>1, <2>1, BoundsAssumption DEF ReadPolled
  <2>3. last' \in Byte
    BY <2>2, BoundsAssumption
  <2>4. TypeOK'
    BY <1>1, <2>2, <2>3 DEF ReadPolled, CtlInv, TypeOK
  <2>5. PortInv' /\ WakeInv' /\ NoLostWakeup'
    BY <1>1 DEF ReadPolled, CtlInv, PortInv, WakeInv, NoLostWakeup
  <2> QED  BY <2>4, <2>5 DEF CtlInv
<1>2. CASE ReadBuffered
  <2>1. rbuf \in Seq(Byte) /\ rbuf # <<>> /\ Len(rbuf) <= ReadSize
    BY <1>2 DEF ReadBuffered, CtlInv, TypeOK
  <2>2. rbuf' \in Seq(Byte) /\ Len(rbuf') <= ReadSize /\ last' \in Byte
    BY <1>2, <2>1, BoundsAssumption DEF ReadBuffered
  <2>3. TypeOK'
    BY <1>2, <2>2 DEF ReadBuffered, CtlInv, TypeOK
  <2>4. PortInv' /\ WakeInv' /\ NoLostWakeup'
    BY <1>2 DEF ReadBuffered, CtlInv, PortInv, WakeInv, NoLostWakeup, Refill
  <2> QED  BY <2>3, <2>4 DEF CtlInv
<1>3. CASE ReadNone
  <2>1. TypeOK'
    BY <1>3 DEF ReadNone, CtlInv, TypeOK
  <2>2. PortInv' /\ WakeInv' /\ NoLostWakeup'
    BY <1>3 DEF ReadNone, CtlInv, PortInv, WakeInv, NoLostWakeup, Refill
  <2> QED  BY <2>1, <2>2 DEF CtlInv
<1> QED  BY <1>1, <1>2, <1>3

(* The refill of readbuf, with the interrupt masked.                       *)
LEMMA CtlRefill ==
  ASSUME CtlInv, RefillMask \/ RefillCopy \/ RefillTest \/ RefillDrained \/ RefillUnmask
  PROVE  CtlInv'
<1> USE DEF lua, history
<1>0. q \in Queue /\ drv \in [open : BOOLEAN, handler : BOOLEAN, rxint : BOOLEAN] /\ rbuf \in Seq(Byte)
  BY DEF CtlInv, TypeOK
<1>1. CASE RefillMask
  <2>1. TypeOK'
    BY <1>1, <1>0 DEF RefillMask, CtlInv, TypeOK
  <2>2. drv'.open = drv.open /\ drv'.handler = drv.handler /\ ~drv'.rxint
    BY <1>1, <1>0 DEF RefillMask
  <2>3. pc' = (IF q.empty THEN "exit" ELSE "copy") /\ rbuf' = <<>> /\ pc = "ready" /\ drv.handler
    BY <1>1 DEF RefillMask, CtlInv, PortInv
  <2>4. PortInv'
    BY <1>1, <2>2, <2>3 DEF RefillMask, CtlInv, PortInv
  <2>5. WakeInv'
    BY <1>1, <2>2, <2>3, BoundsAssumption DEF RefillMask, WakeInv
  <2>6. NoLostWakeup'
    BY <1>1 DEF RefillMask, CtlInv, NoLostWakeup
  <2> QED  BY <2>1, <2>4, <2>5, <2>6 DEF CtlInv
<1>2. CASE RefillCopy
  <2>1. Wrap(q.tail + 1) \in Index /\ q.buf[q.tail] \in Byte
    BY <1>0, StepFacts DEF Queue
  <2>2. q' \in Queue /\ q'.empty = q.empty
    BY <1>0, <1>2, <2>1 DEF RefillCopy, Queue
  <2>3. ~q.empty /\ Len(rbuf) < ReadSize
    BY <1>2 DEF RefillCopy, CtlInv, WakeInv
  <2>4. rbuf' \in Seq(Byte) /\ Len(rbuf') <= ReadSize /\ rbuf' # <<>>
    BY <1>0, <1>2, <2>1, <2>3, BoundsAssumption DEF RefillCopy
  <2>5. TypeOK'
    BY <1>2, <2>2, <2>4 DEF RefillCopy, CtlInv, TypeOK
  <2>6. PortInv' /\ WakeInv'
    BY <1>2, <2>2, <2>3, <2>4 DEF RefillCopy, CtlInv, PortInv, WakeInv, Refill
  <2>7. NoLostWakeup'
    BY <1>2, <2>3 DEF RefillCopy, CtlInv, NoLostWakeup
  <2> QED  BY <2>5, <2>6, <2>7 DEF CtlInv
<1>3. CASE RefillTest
  <2>1. TypeOK'
    BY <1>3 DEF RefillTest, CtlInv, TypeOK
  <2>2. PortInv' /\ NoLostWakeup'
    BY <1>3 DEF RefillTest, CtlInv, PortInv, NoLostWakeup, Refill
  <2>3. WakeInv'
    BY <1>3 DEF RefillTest, CtlInv, WakeInv, Refill
  <2> QED  BY <2>1, <2>2, <2>3 DEF CtlInv
<1>4. CASE RefillDrained
  <2>1. q' \in Queue /\ q'.empty
    BY <1>0, <1>4 DEF RefillDrained, Queue
  <2>2. TypeOK'
    BY <1>4, <2>1 DEF RefillDrained, CtlInv, TypeOK
  <2>3. PortInv' /\ WakeInv'
    BY <1>4, <2>1 DEF RefillDrained, CtlInv, PortInv, WakeInv, Refill
  <2>4. NoLostWakeup'
    BY <1>4 DEF RefillDrained, CtlInv, NoLostWakeup, WakeInv
  <2> QED  BY <2>2, <2>3, <2>4 DEF CtlInv
<1>5. CASE RefillUnmask
  <2>1. q' \in Queue /\ q'.empty = q.empty
    BY <1>0, <1>5 DEF RefillUnmask, TakeExit, Queue
  <2>2. TypeOK'
    BY <1>5, <1>0, <2>1 DEF RefillUnmask, CtlInv, TypeOK
  <2>3. drv'.open = drv.open /\ drv'.handler = drv.handler /\ pc' = "filled" /\ pc = "exit"
    BY <1>5, <1>0 DEF RefillUnmask
  <2>4. PortInv'
    BY <1>5, <2>3 DEF RefillUnmask, CtlInv, PortInv, Refill
  <2>5. WakeInv'
    BY <1>5, <2>1, <2>3 DEF RefillUnmask, CtlInv, WakeInv, Refill
  <2>6. NoLostWakeup'
    BY <1>5, <2>1 DEF RefillUnmask, CtlInv, NoLostWakeup
  <2> QED  BY <2>2, <2>4, <2>5, <2>6 DEF CtlInv
<1> QED  BY <1>1, <1>2, <1>3, <1>4, <1>5

(* Every step keeps the bookkeeping.                                       *)
LEMMA CtlStep == CtlInv /\ [Next]_vars => CtlInv'
<1> SUFFICES ASSUME CtlInv, [Next]_vars PROVE CtlInv'
  OBVIOUS
<1>1. CASE UNCHANGED vars
  BY <1>1 DEF vars, CtlInv, TypeOK, PortInv, WakeInv, NoLostWakeup
<1>2. CASE \E n \in 1..LengthMod : n <= Len(fifo) /\ \E lost \in BOOLEAN : RxDataInd(n, lost)
  BY <1>2, CtlRx
<1> QED  BY <1>1, <1>2, CtlArrive, CtlTx, CtlReceive, CtlPort, CtlClear, CtlRead, CtlRefill DEF Next
------------------------------------------------------------------------------
(* The ring seen without its flags.                                        *)
LEMMA ViewFacts ==
  ASSUME NEW cq \in Queue
  PROVE  /\ Plain(cq) \in Queue /\ Blank(cq) \in Queue
         /\ Rest(cq) \/ ~cq.overflow => Stored(Plain(cq)) = Stored(cq)
         /\ cq.head = cq.tail => Stored(Blank(cq)) = <<>>
         /\ cq.head # cq.tail => Stored(Blank(cq)) = Stored(Plain(cq))
         /\ cq.empty => Stored(Blank(cq)) = Stored(Plain(cq))
         /\ Stored(Blank(cq)) \in Seq(Byte) /\ Stored(Plain(cq)) \in Seq(Byte)
<1>1. /\ Plain(cq) \in Queue /\ Blank(cq) \in Queue
      /\ Plain(cq).buf = cq.buf /\ Plain(cq).head = cq.head /\ Plain(cq).tail = cq.tail
      /\ Blank(cq).buf = cq.buf /\ Blank(cq).head = cq.head /\ Blank(cq).tail = cq.tail
      /\ Plain(cq).empty = cq.empty /\ Blank(cq).empty
      /\ ~Plain(cq).overflow /\ ~Blank(cq).overflow
  BY DEF Plain, Blank, Queue
<1>2. Start(Plain(cq)) = cq.tail /\ Start(Blank(cq)) = cq.tail
  BY <1>1 DEF Start
<1>3. Rest(cq) \/ ~cq.overflow => Start(cq) = cq.tail
  BY RestFacts DEF Start
<1>4. Rest(cq) \/ ~cq.overflow => Stored(Plain(cq)) = Stored(cq)
  BY <1>1, <1>2, <1>3 DEF Stored, Span, Gap
<1>5. cq.head = cq.tail => Span(Blank(cq)) = 0
  BY <1>1, <1>2 DEF Span
<1>6. cq.head # cq.tail => Stored(Blank(cq)) = Stored(Plain(cq))
  BY <1>1, <1>2 DEF Stored, Span, Gap
<1>7. cq.empty => Stored(Blank(cq)) = Stored(Plain(cq))
  BY <1>1, <1>2 DEF Stored, Span, Gap
<1> QED  BY <1>1, <1>4, <1>5, <1>6, <1>7, StoredNothing, StoredType

(* Fresh bytes: none, or some of them.                                     *)
LEMMA FreshNone ==
  ASSUME NEW c, NEW l, NEW w, NEW f
  PROVE  Fresh(<<>>, c, l, w, f) /\ Precedes(f, <<>>) /\ Precedes(<<>>, f)
BY DEF Fresh, Increasing, Above, UpTo, Precedes

(* What is left of fresh bytes is fresh.                                   *)
LEMMA FreshWithin ==
  ASSUME NEW s, NEW t, NEW f, NEW g, NEW c, NEW l, NEW w,
         Fresh(s, c, l, w, f), Increasing(t), Within(t, s), Within(g, f)
  PROVE  Fresh(t, c, l, w, g)
<1>1. Precedes(t, g)
  BY PrecedesWithin DEF Fresh
<1>2. UpTo(t, w)
  BY UpToWithin DEF Fresh
<1>3. Above(t, c) /\ Above(t, l)
  BY Zenon DEF Fresh, Above, Within
<1> QED  BY <1>1, <1>2, <1>3 DEF Fresh

(* The next byte on the wire is newer than all.                            *)
LEMMA FreshArrive ==
  ASSUME NEW s \in Seq(Nat), NEW f \in Seq(Nat), NEW c \in Nat, NEW l \in Nat, NEW w \in Nat,
         Fresh(s, c, l, w, f)
  PROVE  Fresh(s, c, l, w + 1, Append(f, w + 1))
<1>1. \A i \in 1..Len(s) : s[i] \in Nat /\ s[i] <= w
  BY DEF Fresh, UpTo
<1>2. UpTo(s, w + 1)
  BY <1>1 DEF UpTo
<1>3. Precedes(s, Append(f, w + 1))
  <2> SUFFICES ASSUME NEW i \in 1..Len(s), NEW j \in 1..(Len(f) + 1)
               PROVE  s[i] < Append(f, w + 1)[j]
    BY DEF Precedes
  <2>1. CASE j = Len(f) + 1
    BY <1>1, <2>1
  <2>2. CASE j \in 1..Len(f)
    <3>1. s[i] < f[j]
      BY <2>2 DEF Fresh, Precedes
    <3> QED  BY <2>2, <3>1
  <2> QED  BY <2>1, <2>2
<1> QED  BY <1>2, <1>3 DEF Fresh

(* The bytes of the places are numbers.                                    *)
LEMMA NatFacts ==
  ASSUME TypeOK
  PROVE  /\ fifo \in Seq(Nat) /\ fifo \in Seq(Byte) /\ rbuf \in Seq(Nat)
         /\ Stored(View) \in Seq(Nat)
         /\ last \in Nat /\ wire \in Nat /\ cleared \in Nat /\ newest \in Nat
<1>1. Byte \subseteq Nat /\ 0..MaxBytes \subseteq Byte /\ MaxBytes \in Nat
  BY BoundsAssumption
<1>2. ASSUME NEW s \in Seq(Byte) PROVE s \in Seq(Nat)
  <2>1. \A i \in 1..Len(s) : s[i] \in Byte
    OBVIOUS
  <2>2. \A i \in 1..Len(s) : s[i] \in Nat
    BY <1>1, <2>1, Zenon
  <2>3. Len(s) \in Nat /\ s = [i \in 1..Len(s) |-> s[i]]
    OBVIOUS
  <2> QED  BY <2>2, <2>3
<1>3. fifo \in Seq(Byte)
  BY <1>1 DEF TypeOK
<1>4. Stored(View) \in Seq(Byte)
  BY ViewFacts DEF TypeOK, View
<1>5. rbuf \in Seq(Byte) /\ last \in Nat
  BY <1>1 DEF TypeOK
<1> QED  BY <1>1, <1>2, <1>3, <1>4, <1>5 DEF TypeOK
------------------------------------------------------------------------------
(* Order, action by action, as long as no interrupt tore a clear.          *)
Order == FlagInv /\ FifoInv /\ RingInv /\ BufInv /\ NewInv

(* Initially there is no byte.                                             *)
LEMMA OrderInit == Init => OrderInv
<1> SUFFICES ASSUME Init PROVE Order
  BY DEF OrderInv, Order
<1>1. Rest(q) /\ Span(q) = 0 /\ q = QueueClean(q) /\ q \in Queue
  BY CleanRests DEF Init, ZeroQueue, QueueClean
<1>2. Stored(View) = <<>>
  BY <1>1, ViewFacts, StoredNothing DEF Init, View
<1>3. FlagInv
  BY <1>1 DEF Init, FlagInv, Refill
<1> QED  BY <1>2, <1>3, FreshNone DEF Init, Order, FifoInv, RingInv, BufInv, NewInv

(* Steps that move no byte and keep the Lua task where it is.              *)
LEMMA OrderSame ==
  ASSUME Order, UNCHANGED <<fifo, wire, q, rbuf, pc, last, cleared, newest>>,
         drv.handler => drv'.handler
  PROVE  Order'
BY DEF Order, FlagInv, FifoInv, RingInv, BufInv, NewInv, View

(* A byte arrives behind all others.                                       *)
LEMMA OrderArrive ==
  ASSUME CtlInv, Order, Arrive
  PROVE  Order'
<1>1. /\ UNCHANGED <<drv, q, rbuf, pc, last, cleared, newest>>
      /\ wire' = wire + 1 /\ fifo' = Append(fifo, wire + 1)
  BY DEF Arrive, lua, history
<1>2. /\ fifo \in Seq(Nat) /\ rbuf \in Seq(Nat) /\ Stored(View) \in Seq(Nat)
      /\ last \in Nat /\ wire \in Nat /\ cleared \in Nat
  BY NatFacts DEF CtlInv
<1>3. View' = View
  BY <1>1 DEF View
<1>4. FlagInv' /\ NewInv'
  BY <1>1, <1>3 DEF Order, FlagInv, NewInv
<1>5. RingInv' /\ BufInv'
  BY <1>1, <1>2, <1>3, FreshArrive DEF Order, RingInv, BufInv
<1>6. FifoInv'
  <2>1. Fresh(fifo, cleared, last, wire, <<>>) /\ last <= wire /\ cleared <= wire
    BY DEF Order, FifoInv
  <2>2. \A i \in 1..Len(fifo) : fifo[i] \in Nat /\ fifo[i] <= wire /\ fifo[i] > cleared /\ fifo[i] > last
    BY <1>2, <2>1 DEF Fresh, UpTo, Above
  <2>3. /\ Len(fifo') = Len(fifo) + 1 /\ fifo'[Len(fifo) + 1] = wire + 1 /\ Len(fifo) \in Nat
        /\ \A i \in 1..Len(fifo) : fifo'[i] = fifo[i]
    BY <1>1, <1>2
  <2>4. \A i \in 1..Len(fifo') : i \in 1..Len(fifo) \/ i = Len(fifo) + 1
    BY <2>3
  <2>5. Above(fifo', cleared) /\ Above(fifo', last) /\ UpTo(fifo', wire')
    BY <1>1, <1>2, <2>1, <2>2, <2>3, <2>4 DEF Above, UpTo
  <2>6. Increasing(fifo')
    <3> SUFFICES ASSUME NEW i \in 1..Len(fifo'), NEW j \in 1..Len(fifo'), i < j
                 PROVE  fifo'[i] < fifo'[j]
      BY DEF Increasing
    <3>1. i \in 1..Len(fifo)
      BY <2>3
    <3>2. CASE j = Len(fifo) + 1
      <4>1. fifo'[i] \in Nat /\ fifo'[i] <= wire
        BY <2>2, <2>3, <3>1
      <4>2. fifo'[j] = wire + 1
        BY <2>3, <3>2
      <4> QED  BY <1>2, <4>1, <4>2
    <3>3. CASE j \in 1..Len(fifo)
      BY <2>1, <2>3, <3>1, <3>3 DEF Fresh, Increasing
    <3> QED  BY <2>4, <3>2, <3>3
  <2>7. Precedes(fifo', <<>>)
    BY FreshNone
  <2>8. last' <= wire' /\ cleared' <= wire' /\ (pc' \in Clearing => last' <= cleared')
    BY <1>1, <1>2, <2>1 DEF Order, FifoInv
  <2> QED  BY <1>1, <2>5, <2>6, <2>7, <2>8 DEF FifoInv, Fresh
<1> QED  BY <1>4, <1>5, <1>6 DEF Order

(* Open and close: the ring and readbuf are empty afterwards.              *)
LEMMA OrderOpenClose ==
  ASSUME CtlInv, Order, (\E mode \in {0, 1} : Open(mode)) \/ Close
  PROVE  Order'
<1> USE DEF lua, history
<1>1. CASE \E mode \in {0, 1} : Open(mode)
  <2>1. PICK mode \in {0, 1} : Open(mode)
    BY <1>1
  <2>2. ~drv.handler
    BY <2>1 DEF Open, CtlInv, PortInv
  <2>3. UNCHANGED <<fifo, wire, q, rbuf, pc, last, cleared, newest>>
    BY <2>1 DEF Open
  <2> QED  BY <2>2, <2>3, OrderSame
<1>2. CASE Close
  <2>1. /\ q' = QueueClean(q) /\ pc' = "ready" /\ rbuf' = <<>> /\ fifo' = <<>>
        /\ cleared' = wire /\ newest' = 0 /\ wire' = wire /\ last' = last
    BY <1>2 DEF Close
  <2>2. q \in Queue /\ wire \in Nat
    BY NatFacts DEF CtlInv, TypeOK
  <2>3. Rest(q') /\ Span(q') = 0 /\ q' \in Queue /\ q' = QueueClean(q')
    BY <2>1, <2>2, CleanRests DEF QueueClean
  <2>4. Stored(View)' = <<>>
    BY <2>1, <2>3, ViewFacts, StoredNothing DEF View
  <2>5. FlagInv'
    BY <2>1, <2>3 DEF FlagInv, Refill
  <2>6. last' <= wire' /\ cleared' <= wire' /\ pc' \notin Clearing
    BY <2>1, <2>2 DEF Order, FifoInv, Clearing
  <2> QED  BY <2>1, <2>4, <2>5, <2>6, FreshNone DEF Order, FifoInv, RingInv, BufInv, NewInv
<1> QED  BY <1>1, <1>2

(* Clear, a store at a time: what survives is newer than what it forgets.  *)
LEMMA OrderClear ==
  ASSUME CtlInv, Order, ClearDriver \/ CleanStore \/ ClearReadBuf
  PROVE  Order'
<1> USE DEF lua, history
<1>0. q \in Queue /\ last \in Nat /\ wire \in Nat /\ cleared \in Nat
  BY NatFacts DEF CtlInv, TypeOK
<1>1. CASE ClearDriver
  <2>1. /\ pc' = "tail" /\ fifo' = <<>> /\ cleared' = wire
        /\ UNCHANGED <<drv, wire, q, rbuf, last, newest>>
    BY <1>1 DEF ClearDriver, CleanOrder
  <2>2. FlagInv'
    BY <2>1 DEF Order, FlagInv, Refill
  <2>3. FifoInv'
    BY <1>0, <2>1, FreshNone DEF Order, FifoInv
  <2> QED  BY <2>1, <2>2, <2>3 DEF Order, RingInv, BufInv, NewInv, Clearing
<1>2. CASE CleanStore
  <2>1. UNCHANGED <<drv, fifo, wire, rbuf, last, cleared, newest>>
    BY <1>2 DEF CleanStore
  <2>2. pc \in Clearing /\ pc' \in Clearing
    BY <1>2, StoreCases DEF Clearing
  <2>3. FifoInv' /\ BufInv' /\ NewInv'
    BY <2>1, <2>2 DEF Order, FifoInv, BufInv, NewInv
  <2>4. ~drv.handler => q' = q
    <3> SUFFICES ASSUME ~drv.handler PROVE q' = q
      OBVIOUS
    <3>1. q = QueueClean(q)
      BY DEF Order, FlagInv
    <3>2. q.tail = 0 /\ q.head = 0 /\ q.empty = TRUE /\ q.full = FALSE /\ q.overflow = FALSE
      BY <3>1 DEF QueueClean
    <3>3. /\ q = [q EXCEPT !.tail = 0] /\ q = [q EXCEPT !.head = 0] /\ q = [q EXCEPT !.empty = TRUE]
          /\ q = [q EXCEPT !.full = FALSE] /\ q = [q EXCEPT !.overflow = FALSE]
      BY <1>0, <3>2 DEF Queue
    <3> QED  BY <1>2, <3>3, StoreCases
  <2>5. ~drv'.handler => q' = QueueClean(q') /\ rbuf' = <<>> /\ newest' = 0
    BY <2>1, <2>4 DEF Order, FlagInv
  <2>6. CASE pc = "tail"
    <3>1. pc' = "head" /\ q'.tail = 0
      BY <1>0, <1>2, <2>6, StoreCases DEF Queue
    <3> QED  BY <2>3, <2>5, <3>1 DEF Order, FlagInv, RingInv, Refill
  <2>7. CASE pc = "head"
    <3>1. pc' = "empty" /\ q'.tail = 0 /\ q'.head = 0 /\ q' \in Queue
      <4>1. 0 \in Index
        BY SizeAssumption DEF Index
      <4> QED  BY <1>0, <1>2, <2>7, <4>1, StoreCases DEF Queue, Order, FlagInv
    <3>2. Stored(View)' = <<>>
      BY <3>1, ViewFacts DEF View
    <3> QED  BY <2>3, <2>5, <3>1, <3>2, FreshNone DEF Order, FlagInv, RingInv, Refill
  <2>8. CASE pc = "empty"
    <3>1. pc' = "full" /\ q' = [q EXCEPT !.empty = TRUE]
      BY <1>2, <2>8, StoreCases
    <3>2. q'.tail = 0 /\ Plain(q') = Blank(q)
      BY <1>0, <2>8, <3>1 DEF Queue, Plain, Blank, Order, FlagInv
    <3>3. View' = View
      BY <2>8, <3>1, <3>2 DEF View
    <3> QED  BY <2>1, <2>3, <2>5, <2>8, <3>1, <3>2, <3>3 DEF Order, FlagInv, RingInv, Refill
  <2>9. CASE pc = "full"
    <3>1. pc' = "overflow" /\ q' = [q EXCEPT !.full = FALSE]
      BY <1>2, <2>9, StoreCases
    <3>2. q'.tail = 0 /\ Plain(q') = Plain(q) /\ ~q'.full
      BY <1>0, <2>9, <3>1 DEF Queue, Plain, Order, FlagInv
    <3>3. View' = View
      BY <2>9, <3>1, <3>2 DEF View
    <3> QED  BY <2>1, <2>3, <2>5, <2>9, <3>1, <3>2, <3>3 DEF Order, FlagInv, RingInv, Refill
  <2>10. CASE pc = "overflow"
    <3>1. pc' = "readbuf" /\ q' = [q EXCEPT !.overflow = FALSE]
      BY <1>2, <2>10, StoreCases
    <3>2. Plain(q') = Plain(q) /\ Rest(q')
      BY <1>0, <2>10, <3>1 DEF Queue, Plain, Order, FlagInv, Rest, Loopable
    <3>3. View' = View
      BY <2>10, <3>1, <3>2 DEF View
    <3> QED  BY <2>1, <2>3, <2>5, <2>10, <3>1, <3>2, <3>3 DEF Order, FlagInv, RingInv, Refill
  <2> QED  BY <1>2, <2>6, <2>7, <2>8, <2>9, <2>10, StoreCases
<1>3. CASE ClearReadBuf
  <2>1. /\ pc = "readbuf" /\ pc' = "ready" /\ rbuf' = <<>> /\ newest' = 0
        /\ UNCHANGED <<drv, fifo, wire, q, last, cleared>>
    BY <1>3 DEF ClearReadBuf
  <2>2. View' = View
    BY <2>1 DEF View
  <2>3. FlagInv' /\ FifoInv' /\ RingInv' /\ NewInv'
    BY <2>1, <2>2 DEF Order, FlagInv, FifoInv, RingInv, NewInv, Refill, Clearing
  <2> QED  BY <2>1, <2>3, FreshNone DEF Order, BufInv
<1> QED  BY <1>1, <1>2, <1>3

(* Taking the first byte of a place: the rest is newer than it.            *)
LEMMA FreshTail ==
  ASSUME NEW s \in Seq(Nat), s # <<>>, NEW f, NEW c, NEW l, NEW w, Fresh(s, c, l, w, f)
  PROVE  /\ Fresh(Tail(s), c, Head(s), w, f) /\ Within(Tail(s), s) /\ Within(<<Head(s)>>, s)
         /\ Head(s) = s[1] /\ Head(s) <= w /\ Head(s) > c /\ Head(s) > l /\ Head(s) \in Nat
         /\ \A g : Precedes(s, g) => Above(g, Head(s)) 
<1>1. /\ Len(s) \in Nat \ {0} /\ Head(s) = s[1] /\ Head(s) \in Nat
      /\ Tail(s) \in Seq(Nat) /\ Len(Tail(s)) = Len(s) - 1
      /\ \A i \in 1..(Len(s) - 1) : Tail(s)[i] = s[i + 1]
  BY TailFacts
<1>2. \A i \in 1..(Len(s) - 1) : i + 1 \in 1..Len(s) /\ 1 < i + 1 /\ 1 \in 1..Len(s)
  BY <1>1
<1>3. \A i, j \in 1..Len(s) : i < j => s[i] < s[j]
  BY DEF Fresh, Increasing
<1>4. Increasing(Tail(s))
  BY <1>1, <1>2, <1>3 DEF Increasing
<1>5. Above(Tail(s), Head(s))
  <2>1. \A i \in 1..(Len(s) - 1) : s[1] < s[i + 1]
    BY <1>2, <1>3
  <2>2. \A i \in 1..(Len(s) - 1) : s[i + 1] \in Nat
    BY <1>2
  <2> QED  BY <1>1, <2>1, <2>2 DEF Above
<1>6. Within(Tail(s), s) /\ Within(<<Head(s)>>, s)
  BY <1>1, <1>2 DEF Within
<1>7. Fresh(Tail(s), c, l, w, f)
  BY <1>4, <1>6, WithinSelf, FreshWithin
<1>8. 1 \in 1..Len(s)
  BY <1>1
<1>9. Head(s) <= w /\ Head(s) > c /\ Head(s) > l
  BY <1>1, <1>8 DEF Fresh, UpTo, Above
<1>10. ASSUME NEW g, Precedes(s, g) PROVE Above(g, Head(s))
  BY <1>1, <1>8, <1>10 DEF Precedes, Above
<1> QED  BY <1>1, <1>5, <1>6, <1>7, <1>9, <1>10 DEF Fresh

(* uart.read of one byte.                                                  *)
LEMMA OrderRead ==
  ASSUME CtlInv, Order, ReadPolled \/ ReadBuffered \/ ReadNone
  PROVE  Order'
<1> USE DEF lua, history
<1>0. /\ q \in Queue /\ fifo \in Seq(Nat) /\ rbuf \in Seq(Nat) /\ Stored(View) \in Seq(Nat)
      /\ last \in Nat /\ wire \in Nat /\ cleared \in Nat /\ newest \in Nat
  BY NatFacts DEF CtlInv, TypeOK
<1>1. CASE ReadPolled
  <2>1. /\ pc = "ready" /\ fifo # <<>> /\ last' = Head(fifo) /\ fifo' = Tail(fifo)
        /\ UNCHANGED <<drv, wire, q, rbuf, pc, cleared, newest>> /\ ~drv.handler
    BY <1>1 DEF ReadPolled, CtlInv, PortInv
  <2>2. /\ Fresh(fifo', cleared, last', wire, <<>>) /\ last' <= wire
    BY <1>0, <2>1, FreshTail DEF Order, FifoInv
  <2>3. FlagInv'
    BY <2>1 DEF Order, FlagInv
  <2>4. FifoInv'
    BY <2>1, <2>2 DEF Order, FifoInv, Clearing
  <2>5. rbuf' = <<>> /\ newest' = 0
    BY <2>1 DEF Order, FlagInv
  <2>6. Stored(View)' = <<>>
    <3>1. q.head = q.tail /\ q.empty
      BY <2>1 DEF Order, FlagInv, QueueClean
    <3>2. Stored(Plain(q)) = <<>>
      BY <1>0, <3>1, ViewFacts
    <3> QED  BY <2>1, <3>2 DEF View
  <2> QED  BY <2>3, <2>4, <2>5, <2>6, FreshNone DEF Order, RingInv, BufInv, NewInv
<1>2. CASE ReadBuffered
  <2>1. /\ pc \in {"ready", "filled"} /\ rbuf # <<>> /\ last' = Head(rbuf) /\ rbuf' = Tail(rbuf)
        /\ pc' = "ready" /\ UNCHANGED <<drv, fifo, wire, q, cleared, newest>>
    BY <1>2 DEF ReadBuffered
  <2>2. View' = View
    BY <2>1 DEF View
  <2>3. /\ Fresh(rbuf, cleared, last, wire, fifo) /\ Precedes(rbuf, Stored(View))
        /\ Fresh(Stored(View), cleared, last, wire, fifo) /\ Precedes(rbuf, fifo)
        /\ Fresh(fifo, cleared, last, wire, <<>>) /\ cleared <= wire
    BY <2>1 DEF Order, FifoInv, BufInv, RingInv, Clearing, Fresh
  <2>4. /\ Fresh(rbuf', cleared, last', wire, fifo) /\ Within(rbuf', rbuf) /\ last' = rbuf[1]
        /\ Above(Stored(View), last') /\ Above(fifo, last') /\ last' <= wire
    BY <1>0, <2>1, <2>3, FreshTail
  <2>5. Precedes(rbuf', Stored(View))
    BY <2>3, <2>4, WithinSelf, PrecedesWithin
  <2>6. FlagInv'
    BY <2>1 DEF Order, FlagInv, Refill
  <2>7. FifoInv' /\ RingInv' /\ BufInv'
    BY <2>1, <2>2, <2>3, <2>4, <2>5 DEF FifoInv, RingInv, BufInv, Fresh, Clearing
  <2>8. NewInv'
    <3> SUFFICES ASSUME newest # 0
                 PROVE  /\ q.empty => q.head = q.tail
                        /\ \/ newest <= last'
                           \/ \E i \in 1..Len(rbuf') : rbuf'[i] = newest
                           \/ \E i \in 1..Len(Stored(View)) : Stored(View)[i] = newest
      BY <2>1, <2>2 DEF NewInv
    <3>1. /\ q.empty => q.head = q.tail
          /\ \/ newest <= last
             \/ \E i \in 1..Len(rbuf) : rbuf[i] = newest
             \/ \E i \in 1..Len(Stored(View)) : Stored(View)[i] = newest
      BY <2>1 DEF Order, NewInv, Clearing
    <3>2. CASE newest <= last
      <4>1. last' > last /\ last' \in Nat
        BY <1>0, <2>1, <2>3, FreshTail
      <4> QED  BY <1>0, <3>1, <3>2, <4>1
    <3>3. CASE \E i \in 1..Len(rbuf) : rbuf[i] = newest
      <4>1. PICK i \in 1..Len(rbuf) : rbuf[i] = newest
        BY <3>3
      <4>2. CASE i = 1
        BY <1>0, <2>4, <3>1, <4>1, <4>2
      <4>3. CASE i # 1
        <5>1. i - 1 \in 1..Len(rbuf') /\ rbuf'[i - 1] = newest
          BY <1>0, <2>1, <4>1, <4>3
        <5> QED  BY <3>1, <5>1
      <4> QED  BY <4>2, <4>3
    <3> QED  BY <3>1, <3>2, <3>3
  <2> QED  BY <2>6, <2>7, <2>8 DEF Order
<1>3. CASE ReadNone
  <2>1. /\ pc = "filled" /\ pc' = "ready"
        /\ UNCHANGED <<drv, fifo, wire, q, rbuf, last, cleared, newest>>
    BY <1>3 DEF ReadNone
  <2>2. View' = View
    BY <2>1 DEF View
  <2> QED  BY <2>1, <2>2 DEF Order, FlagInv, FifoInv, RingInv, BufInv, NewInv, Refill, Clearing
<1> QED  BY <1>1, <1>2, <1>3

(* The byte QueueDelete copies is the oldest, and the others stay.         *)
LEMMA CopyTakes ==
  ASSUME NEW cq \in Queue, ~cq.empty, NEW r, r = [cq EXCEPT !.tail = Wrap(cq.tail + 1)]
  PROVE  /\ r \in Queue /\ Stored(Plain(cq)) # <<>>
         /\ Head(Stored(Plain(cq))) = cq.buf[cq.tail]
         /\ Stored(Blank(r)) = Tail(Stored(Plain(cq)))
<1>1. cq.buf \in [Index -> Byte] /\ cq.tail \in Index /\ cq.head \in Index
  BY DEF Queue
<1>2. /\ Wrap(cq.tail + 1) \in Index
      /\ Wrap(cq.tail + 1) = IF cq.tail = Size - 1 THEN 0 ELSE cq.tail + 1
  BY <1>1, StepFacts
<1>3. r \in Queue /\ r.buf = cq.buf /\ r.head = cq.head /\ r.tail = Wrap(cq.tail + 1)
  BY <1>2 DEF Queue
<1> DEFINE n == Gap(cq.tail, cq)
<1>4. n \in 1..Size
  BY <1>1, SizeAssumption DEF Gap, Index
<1>5. Stored(Plain(cq)) = Ring(cq.buf, cq.tail, n)
  BY DEF Stored, Span, Start, Gap, Plain, Queue
<1>6. Stored(Blank(r)) = Ring(cq.buf, Wrap(cq.tail + 1), n - 1)
  <2>1. /\ Blank(r).buf = cq.buf /\ Blank(r).head = cq.head /\ Blank(r).tail = Wrap(cq.tail + 1)
        /\ Blank(r).empty /\ ~Blank(r).overflow
    BY <1>3 DEF Blank, Queue
  <2>2. Start(Blank(r)) = Wrap(cq.tail + 1)
    BY <2>1 DEF Start
  <2>3. Span(Blank(r)) = n - 1
    BY <1>1, <1>2, <2>1, <2>2, SizeAssumption DEF Span, Gap, Index
  <2> QED  BY <2>1, <2>2, <2>3 DEF Stored
<1>7. Ring(cq.buf, cq.tail, n) # <<>>
  BY <1>1, <1>4, RingType, SizeAssumption
<1> QED  BY <1>1, <1>3, <1>4, <1>5, <1>6, <1>7, RingTail

(* uart.read masks the interrupt.                                          *)
LEMMA OrderRefillMask ==
  ASSUME CtlInv, Order, RefillMask
  PROVE  Order'
<1>1. /\ pc = "ready" /\ pc' \in {"exit", "copy"} /\ rbuf = <<>>
      /\ UNCHANGED <<fifo, wire, q, rbuf, last, cleared, newest>> /\ drv' = [drv EXCEPT !.rxint = FALSE]
  BY DEF RefillMask, lua, history
<1>2. drv'.handler = drv.handler
  BY <1>1 DEF CtlInv, TypeOK
<1>3. View' = View
  BY <1>1 DEF View
<1>4. Rest(q)
  BY <1>1 DEF Order, FlagInv
<1>5. FlagInv'
  BY <1>1, <1>2, <1>4 DEF Order, FlagInv, Refill, Rest, Loopable
<1> QED  BY <1>1, <1>3, <1>5 DEF Order, FifoInv, RingInv, BufInv, NewInv, Clearing

(* QueueDelete copies a byte to readbuf.                                   *)
LEMMA OrderRefillCopy ==
  ASSUME CtlInv, Order, RefillCopy
  PROVE  Order'
<1>1. /\ pc = "copy" /\ pc' = "test" /\ rbuf' = Append(rbuf, q.buf[q.tail])
      /\ q' = [q EXCEPT !.tail = Wrap(q.tail + 1)]
      /\ UNCHANGED <<drv, fifo, wire, last, cleared, newest>>
  BY DEF RefillCopy, lua, history
<1>2. /\ q \in Queue /\ ~q.empty /\ rbuf \in Seq(Nat) /\ Stored(View) \in Seq(Nat)
      /\ fifo \in Seq(Nat) /\ last \in Nat /\ wire \in Nat /\ cleared \in Nat
      /\ drv.handler
  BY <1>1, NatFacts DEF CtlInv, TypeOK, WakeInv, PortInv, Refill
<1> DEFINE S == Stored(View)
           b == q.buf[q.tail]
<1>3. S = Stored(Plain(q)) /\ Stored(View)' = Stored(Blank(q'))
  BY <1>1 DEF View
<1>4. /\ S # <<>> /\ Head(S) = b /\ Stored(View)' = Tail(S)
      /\ q'.empty = q.empty /\ q'.full = q.full /\ q'.overflow = q.overflow
  BY <1>1, <1>2, <1>3, CopyTakes DEF Queue
<1>5. /\ Fresh(rbuf, cleared, last, wire, fifo) /\ Precedes(rbuf, S)
      /\ Fresh(S, cleared, last, wire, fifo)
  BY <1>1 DEF Order, BufInv, RingInv, Clearing
<1> HIDE DEF S, b
<1>6. /\ Fresh(Tail(S), cleared, b, wire, fifo) /\ Within(Tail(S), S) /\ Within(<<b>>, S)
      /\ b = S[1] /\ b <= wire /\ b > cleared /\ b > last /\ b \in Nat
      /\ Above(fifo, b)
  BY <1>2, <1>4, <1>5, FreshTail DEF S, Fresh
<1>7. /\ Len(S) \in Nat \ {0} /\ Tail(S) \in Seq(Nat) /\ Len(Tail(S)) = Len(S) - 1
      /\ \A i \in 1..(Len(S) - 1) : Tail(S)[i] = S[i + 1]
  BY <1>2, <1>4, TailFacts DEF S
<1>8. /\ Len(rbuf') = Len(rbuf) + 1 /\ rbuf'[Len(rbuf) + 1] = b /\ Len(rbuf) \in Nat
      /\ \A i \in 1..Len(rbuf) : rbuf'[i] = rbuf[i]
  BY <1>1, <1>2, <1>6 DEF b
<1>9. \A i \in 1..Len(rbuf') : i \in 1..Len(rbuf) \/ i = Len(rbuf) + 1
  BY <1>8
<1>10. Precedes(rbuf, <<b>>)
  BY <1>5, <1>6, WithinSelf, PrecedesWithin
<1>11. Increasing(rbuf')
  <2> SUFFICES ASSUME NEW i \in 1..Len(rbuf'), NEW j \in 1..Len(rbuf'), i < j
               PROVE  rbuf'[i] < rbuf'[j]
    BY DEF Increasing
  <2>1. i \in 1..Len(rbuf)
    BY <1>8
  <2>2. CASE j = Len(rbuf) + 1
    <3>1. rbuf[i] < b
      BY <1>10, <2>1 DEF Precedes
    <3> QED  BY <1>8, <2>1, <2>2, <3>1
  <2>3. CASE j \in 1..Len(rbuf)
    BY <1>5, <1>8, <2>1, <2>3 DEF Fresh, Increasing
  <2> QED  BY <1>9, <2>2, <2>3
<1>12. Above(rbuf', cleared) /\ Above(rbuf', last) /\ UpTo(rbuf', wire)
  BY <1>5, <1>6, <1>8, <1>9 DEF Fresh, Above, UpTo
<1>13. \A g : Precedes(rbuf, g) /\ Above(g, b) /\ g \in Seq(Nat) => Precedes(rbuf', g)
  <2> SUFFICES ASSUME NEW g, Precedes(rbuf, g), Above(g, b), g \in Seq(Nat),
                      NEW i \in 1..Len(rbuf'), NEW j \in 1..Len(g)
               PROVE  rbuf'[i] < g[j]
    BY DEF Precedes
  <2>1. CASE i \in 1..Len(rbuf)
    BY <1>8, <2>1 DEF Precedes
  <2>2. CASE i = Len(rbuf) + 1
    <3>1. g[j] > b /\ g[j] \in Nat
      BY DEF Above
    <3> QED  BY <1>6, <1>8, <2>2, <3>1
  <2> QED  BY <1>9, <2>1, <2>2
<1>14. Precedes(rbuf', fifo)
  BY <1>2, <1>5, <1>6, <1>13 DEF Fresh
<1>15. Precedes(rbuf', Tail(S))
  <2>1. Precedes(rbuf, Tail(S))
    BY <1>5, <1>6, WithinSelf, PrecedesWithin
  <2>2. Above(Tail(S), b)
    BY <1>6 DEF Fresh
  <2> QED  BY <1>7, <1>13, <2>1, <2>2
<1>16. Fresh(Tail(S), cleared, last, wire, fifo)
  BY <1>5, <1>6, WithinSelf, FreshWithin DEF Fresh
<1>17. FlagInv'
  BY <1>1, <1>2, <1>4 DEF Order, FlagInv, Refill
<1>18. FifoInv' /\ RingInv' /\ BufInv'
  BY <1>1, <1>4, <1>11, <1>12, <1>14, <1>15, <1>16
     DEF Order, FifoInv, RingInv, BufInv, Fresh, Clearing
<1>19. NewInv'
  <2> SUFFICES ASSUME newest # 0
               PROVE  \/ newest <= last
                      \/ \E i \in 1..Len(rbuf') : rbuf'[i] = newest
                      \/ \E i \in 1..Len(Tail(S)) : Tail(S)[i] = newest
    BY <1>1, <1>2, <1>4 DEF NewInv
  <2>1. \/ newest <= last
        \/ \E i \in 1..Len(rbuf) : rbuf[i] = newest
        \/ \E i \in 1..Len(S) : S[i] = newest
    BY <1>1 DEF Order, NewInv, Clearing, S
  <2>2. CASE \E i \in 1..Len(rbuf) : rbuf[i] = newest
    BY <1>8, <2>2
  <2>3. CASE \E i \in 1..Len(S) : S[i] = newest
    <3>1. PICK i \in 1..Len(S) : S[i] = newest
      BY <2>3
    <3>2. CASE i = 1
      <4>1. Len(rbuf) + 1 \in 1..Len(rbuf') /\ rbuf'[Len(rbuf) + 1] = newest
        BY <1>6, <1>8, <3>1, <3>2
      <4> QED  BY <4>1
    <3>3. CASE i # 1
      <4>1. i - 1 \in 1..Len(Tail(S)) /\ Tail(S)[i - 1] = newest
        BY <1>7, <3>1, <3>3
      <4> QED  BY <4>1
    <3> QED  BY <3>2, <3>3
  <2> QED  BY <2>1, <2>2, <2>3
<1> QED  BY <1>17, <1>18, <1>19 DEF Order

(* The comparison of tail with head, and what follows it.                  *)
LEMMA OrderRefillRest ==
  ASSUME CtlInv, Order, RefillTest \/ RefillDrained \/ RefillUnmask
  PROVE  Order'
<1> USE DEF lua, history
<1>0. q \in Queue
  BY DEF CtlInv, TypeOK
<1>1. CASE RefillTest
  <2>1. /\ pc = "test" /\ pc' = IF q.tail = q.head THEN "drained"
                                ELSE IF Len(rbuf) < ReadSize THEN "copy" ELSE "exit"
        /\ UNCHANGED <<drv, fifo, wire, q, rbuf, last, cleared, newest>>
    BY <1>1 DEF RefillTest
  <2>2. Stored(View)' = Stored(View)
    BY <1>0, <2>1, ViewFacts DEF View
  <2>3. rbuf # <<>> /\ ~q.empty /\ drv.handler
    BY <2>1 DEF CtlInv, WakeInv, PortInv, Refill
  <2>4. FlagInv'
    BY <2>1, <2>3 DEF Order, FlagInv, Refill
  <2>5. pc' \notin Clearing /\ pc \notin Clearing
    BY <2>1 DEF Clearing
  <2>6. FifoInv' /\ RingInv' /\ BufInv' /\ NewInv'
    BY <2>1, <2>2, <2>5 DEF Order, FifoInv, RingInv, BufInv, NewInv, Clearing
  <2> QED  BY <2>4, <2>6 DEF Order
<1>2. CASE RefillDrained
  <2>1. /\ pc = "drained" /\ pc' = "exit" /\ q' = [q EXCEPT !.empty = TRUE]
        /\ UNCHANGED <<drv, fifo, wire, rbuf, last, cleared, newest>>
    BY <1>2 DEF RefillDrained
  <2>2. View' = View
    BY <1>0, <2>1 DEF View, Plain, Blank, Queue
  <2>3. rbuf # <<>> /\ drv.handler /\ q.head = q.tail
    BY <2>1 DEF CtlInv, WakeInv, PortInv, Refill, Order, FlagInv
  <2>4. q'.head = q'.tail /\ q'.full = q.full /\ q'.overflow = q.overflow
    BY <1>0, <2>1, <2>3 DEF Queue
  <2>5. FlagInv'
    BY <2>1, <2>3, <2>4 DEF Order, FlagInv, Refill
  <2> QED  BY <2>1, <2>2, <2>4, <2>5 DEF Order, FifoInv, RingInv, BufInv, NewInv, Clearing
<1>3. CASE RefillUnmask
  <2>1. /\ pc = "exit" /\ pc' = "filled" /\ q' = TakeExit(q, Len(rbuf))
        /\ drv' = [drv EXCEPT !.rxint = TRUE]
        /\ UNCHANGED <<fifo, wire, rbuf, last, cleared, newest>>
    BY <1>3 DEF RefillUnmask
  <2>2. drv'.handler = drv.handler /\ drv.handler
    BY <2>1 DEF CtlInv, TypeOK, PortInv, Refill
  <2>3. Plain(q') = Plain(q) /\ Rest(q') /\ q'.head = q.head /\ q'.tail = q.tail /\ q'.empty = q.empty
    <3>1. CASE rbuf = <<>>
      <4>1. Rest(q) /\ q.empty
        BY <2>1, <3>1 DEF Order, FlagInv, CtlInv, WakeInv
      <4>2. q' = q
        BY <2>1, <3>1, <4>1 DEF TakeExit
      <4> QED  BY <4>1, <4>2
    <3>2. CASE rbuf # <<>>
      <4>1. Len(rbuf) > 0
        BY <3>2 DEF CtlInv, TypeOK
      <4>2. q.overflow => q.full
        BY <2>1 DEF Order, FlagInv, Refill
      <4>3. CASE q.full
        <5>1. q' = Plain(q)
          BY <2>1, <4>1, <4>3 DEF TakeExit, Plain
        <5> QED  BY <1>0, <5>1 DEF Plain, Rest, Loopable, Queue
      <4>4. CASE ~q.full
        <5>1. q' = q /\ ~q.overflow
          BY <2>1, <4>2, <4>4 DEF TakeExit
        <5> QED  BY <1>0, <4>4, <5>1 DEF Rest, Loopable
      <4> QED  BY <4>3, <4>4
    <3> QED  BY <3>1, <3>2
  <2>4. View' = View
    BY <2>1, <2>3 DEF View
  <2>5. FlagInv'
    BY <2>1, <2>2, <2>3 DEF FlagInv, Refill
  <2> QED  BY <2>1, <2>3, <2>4, <2>5 DEF Order, FifoInv, RingInv, BufInv, NewInv, Clearing
<1> QED  BY <1>1, <1>2, <1>3

(* The bytes the interrupt leaves in the driver.                           *)
LEMMA LeftFresh ==
  ASSUME TypeOK, NEW n \in 1..LengthMod, n <= Len(fifo), NEW c, NEW l, NEW w,
         Fresh(fifo, c, l, w, <<>>)
  PROVE  LET left == SubSeq(fifo, n + 1, Len(fifo))
         IN  Within(left, fifo) /\ Fresh(left, c, l, w, <<>>)
<1> DEFINE left == SubSeq(fifo, n + 1, Len(fifo))
<1>1. n \in Nat \ {0} /\ Len(fifo) \in Nat
  BY BoundsAssumption DEF TypeOK
<1>2. Len(left) = Len(fifo) - n /\ \A i \in 1..(Len(fifo) - n) : left[i] = fifo[i + n]
  BY FifoFacts
<1> HIDE DEF left
<1>3. \A i \in 1..Len(left) : i + n \in 1..Len(fifo) /\ left[i] = fifo[i + n]
  BY <1>1, <1>2
<1>4. Within(left, fifo)
  BY <1>3 DEF Within
<1>5. Increasing(left)
  <2> SUFFICES ASSUME NEW i \in 1..Len(left), NEW j \in 1..Len(left), i < j
               PROVE  left[i] < left[j]
    BY DEF Increasing
  <2>1. i + n < j + n
    BY <1>1, <1>2
  <2> QED  BY <1>3, <2>1 DEF Fresh, Increasing
<1> QED  BY <1>4, <1>5, WithinSelf, FreshWithin DEF left

(* The bytes the interrupt puts in the ring, whatever the flag empty says. *)
LEMMA RxFresh ==
  ASSUME TypeOK, NEW n \in 1..LengthMod, n <= Len(fifo), n % LengthMod # 0,
         NEW e \in BOOLEAN, NEW c0, c0 = [q EXCEPT !.empty = e], Rest(c0),
         NEW c, NEW l, NEW w,
         Fresh(fifo, c, l, w, <<>>), Fresh(Stored(c0), c, l, w, fifo)
  PROVE  LET length == n % LengthMod
             r == QueueInsert(q, SubSeq(fifo, 1, length))
             left == SubSeq(fifo, n + 1, Len(fifo))
         IN  /\ Rest(r) /\ Fresh(Stored(r), c, l, w, left)
             /\ \E i \in 1..Len(Stored(r)) : Stored(r)[i] = fifo[length]
             /\ \A g : Precedes(g, Stored(c0)) /\ Precedes(g, fifo) => Precedes(g, Stored(r))
<1> DEFINE length == n % LengthMod
           bytes == SubSeq(fifo, 1, length)
           r == QueueInsert(q, bytes)
           left == SubSeq(fifo, n + 1, Len(fifo))
           s == Stored(c0)
           t == Stored(r)
<1>1. /\ length = n /\ bytes \in Seq(Byte) /\ Len(bytes) = n
      /\ \A i \in 1..n : bytes[i] = fifo[i]
      /\ Len(left) = Len(fifo) - n /\ \A i \in 1..(Len(fifo) - n) : left[i] = fifo[i + n]
      /\ n \in Nat \ {0} /\ Len(fifo) \in Nat
  <2>1. n \in Nat \ {0} /\ Len(fifo) \in Nat
    BY BoundsAssumption DEF TypeOK
  <2>2. /\ (length # 0 => length = n) /\ bytes \in Seq(Byte) /\ Len(bytes) = length
        /\ \A i \in 1..length : bytes[i] = fifo[i]
        /\ Len(left) = Len(fifo) - n /\ \A i \in 1..(Len(fifo) - n) : left[i] = fifo[i + n]
    BY FifoFacts
  <2>3. length # 0
    OBVIOUS
  <2> HIDE DEF length, bytes, left
  <2> QED  BY <2>1, <2>2, <2>3
<1>2. q \in Queue /\ Byte \subseteq Int
  BY BoundsAssumption DEF TypeOK
<1>3. Len(s) = Span(c0)
  BY StoredType DEF Rest, Loopable
<1>4. \A i \in 1..n : i \in 1..Len(fifo)
  BY <1>1
<1>5. Within(bytes, fifo)
  BY <1>1, <1>4 DEF Within
<1>6. Increasing(bytes) /\ Increasing(s)
  BY <1>1, <1>4 DEF Increasing, Fresh
<1>7. \A i \in 1..Span(c0) : \A j \in 1..Len(bytes) : s[i] < bytes[j]
  BY <1>1, <1>3, <1>4 DEF Fresh, Precedes
<1> HIDE DEF length, bytes, left
<1>8. /\ Rest(r) /\ Increasing(t) /\ Span(r) # 0 /\ t[Span(r)] = bytes[n]
      /\ \A i \in 1..Span(r) : \/ \E j \in 1..Span(c0) : t[i] = s[j]
                               \/ \E j \in 1..Len(bytes) : t[i] = bytes[j]
  <2>1. Len(bytes) # 0
    BY <1>1
  <2>2. bytes[Len(bytes)] = bytes[n] /\ bytes \in Seq(Byte)
    BY <1>1
  <2>3. LET d == QueueInsert(q, bytes) IN
        /\ Rest(d) /\ Increasing(Stored(d))
        /\ Span(d) # 0 /\ Stored(d)[Span(d)] = bytes[Len(bytes)]
        /\ \A i \in 1..Span(d) : \/ \E j \in 1..Span(c0) : Stored(d)[i] = Stored(c0)[j]
                                 \/ \E j \in 1..Len(bytes) : Stored(d)[i] = bytes[j]
    <3>1. q \in Queue /\ e \in BOOLEAN /\ c0 = [q EXCEPT !.empty = e] /\ Rest(c0)
      BY <1>2
    <3>2. Byte \subseteq Int /\ Increasing(Stored(c0)) /\ Increasing(bytes)
      BY <1>2, <1>6
    <3>3. \A i \in 1..Span(c0) : \A j \in 1..Len(bytes) : Stored(c0)[i] < bytes[j]
      BY <1>7
    <3> QED  BY <3>1, <3>2, <3>3, <2>1, <2>2, InsertKeeps, SMTT(60)
  <2> QED  BY <2>2, <2>3
<1>9. Len(t) = Span(r) /\ Span(r) \in Nat
  BY <1>8, StoredType, SizeAssumption DEF Rest, Loopable
<1> HIDE DEF r, s, t
<1>10. \A i \in 1..Len(t) : \/ \E j \in 1..Len(s) : t[i] = s[j]
                            \/ \E j \in 1..Len(bytes) : t[i] = bytes[j]
  BY <1>3, <1>8, <1>9
<1>11. /\ Within(left, fifo) /\ Fresh(bytes, c, l, w, <<>>) /\ Fresh(s, c, l, w, fifo)
  <2>1. Fresh(bytes, c, l, w, <<>>)
    BY <1>5, <1>6, WithinSelf, FreshWithin
  <2> QED  BY <2>1, LeftFresh DEF left, s
<1>12. Precedes(bytes, left)
  <2> SUFFICES ASSUME NEW i \in 1..Len(bytes), NEW j \in 1..Len(left) PROVE bytes[i] < left[j]
    BY DEF Precedes
  <2>1. i \in 1..Len(fifo) /\ j + n \in 1..Len(fifo) /\ i < j + n
    BY <1>1
  <2> QED  BY <1>1, <2>1 DEF Fresh, Increasing
<1>13. Precedes(s, left)
  BY <1>11, WithinSelf, PrecedesWithin DEF Fresh
<1>14. Precedes(t, left)
  BY <1>10, <1>12, <1>13, Zenon DEF Precedes
<1>15. Above(t, c) /\ Above(t, l) /\ UpTo(t, w)
  BY <1>10, <1>11, Zenon DEF Fresh, Above, UpTo
<1>16. Fresh(t, c, l, w, left)
  BY <1>8, <1>14, <1>15 DEF Fresh
<1>17. \E i \in 1..Len(t) : t[i] = fifo[length]
  BY <1>1, <1>8, <1>9
<1>18. ASSUME NEW g, Precedes(g, s), Precedes(g, fifo) PROVE Precedes(g, t)
  <2>1. Precedes(g, bytes)
    BY <1>5, <1>18, WithinSelf, PrecedesWithin
  <2> QED  BY <1>10, <1>18, <2>1, Zenon DEF Precedes
<1> QED  BY <1>8, <1>16, <1>17, <1>18 DEF length, bytes, left, r, s, t

(* The interrupt, wherever it finds the Lua task.                          *)
LEMMA OrderRx ==
  ASSUME CtlInv, Order, NEW n \in 1..LengthMod, n <= Len(fifo), NEW lost \in BOOLEAN,
         RxDataInd(n, lost), ~torn'
  PROVE  Order'
<1> DEFINE length == n % LengthMod
           left == SubSeq(fifo, n + 1, Len(fifo))
           in == QueueInsert(q, SubSeq(fifo, 1, length))
<1>1. /\ UNCHANGED <<drv, wire, rbuf, pc, last, cleared>> /\ fifo' = left
      /\ drv.handler /\ drv.rxint /\ (lost => pc \in Flags)
  BY DEF RxDataInd, lua
<1>2. q \in Queue /\ TypeOK /\ pc \notin Refill
  BY <1>1 DEF CtlInv, TypeOK, WakeInv
<1>3. Fresh(fifo, cleared, last, wire, <<>>)
  BY DEF Order, FifoInv
<1>4. Within(left, fifo) /\ Fresh(left, cleared, last, wire, <<>>)
  BY <1>2, <1>3, LeftFresh
<1>5. FifoInv'
  BY <1>1, <1>4 DEF Order, FifoInv
<1>6. \A s : /\ Precedes(s, fifo) => Precedes(s, left)
             /\ Fresh(s, cleared, last, wire, fifo) => Fresh(s, cleared, last, wire, left)
  <2>1. \A s : Precedes(s, fifo) => Precedes(s, left)
    BY <1>4, WithinSelf, PrecedesWithin
  <2> QED  BY <2>1 DEF Fresh
<1> HIDE DEF left
<1>7. CASE length = 0
  <2>1. UNCHANGED <<q, newest>>
    BY <1>7 DEF RxDataInd
  <2>2. View' = View
    BY <1>1, <2>1 DEF View
  <2>3. FlagInv' /\ NewInv'
    BY <1>1, <2>1, <2>2 DEF Order, FlagInv, NewInv
  <2>4. RingInv' /\ BufInv'
    BY <1>1, <1>6, <2>2 DEF Order, RingInv, BufInv
  <2> QED  BY <1>5, <2>3, <2>4 DEF Order
<1>8. CASE length # 0
  <2>1. /\ q' = IF lost THEN [q EXCEPT !.buf = in.buf, !.head = in.head, !.tail = in.tail] ELSE in
        /\ newest' = fifo[length]
        /\ pc \in Range(CleanOrder) => ~q.full /\ ~q.overflow
        /\ pc \in Range(CleanOrder) \ {"tail"} => ~in.overflow
    BY <1>8 DEF RxDataInd
  <2>2. SubSeq(fifo, 1, length) \in Seq(Byte)
    BY <1>2, FifoFacts
  <2>3. in \in Queue /\ (~in.overflow => in.tail = q.tail) /\ ~in.empty
    <3>1. Len(SubSeq(fifo, 1, length)) # 0
      BY <1>2, <1>8, FifoFacts
    <3> QED  BY <1>2, <2>2, <3>1, InsertType
  <2>4. ASSUME NEW e \in BOOLEAN, NEW c0, c0 = [q EXCEPT !.empty = e], Rest(c0),
               Fresh(Stored(c0), cleared, last, wire, fifo)
        PROVE  /\ Rest(in) /\ Fresh(Stored(in), cleared, last, wire, left)
               /\ \E i \in 1..Len(Stored(in)) : Stored(in)[i] = fifo[length]
               /\ \A g : Precedes(g, Stored(c0)) /\ Precedes(g, fifo) => Precedes(g, Stored(in))
    BY <1>2, <1>3, <1>8, <2>4, RxFresh DEF left
  <2> HIDE DEF in, length
  <2>5. q.empty \in BOOLEAN /\ q = [q EXCEPT !.empty = q.empty]
    BY <1>2 DEF Queue
  <2>6. CASE pc \in {"ready", "filled", "readbuf"}
    <3>1. q' = in /\ Rest(q)
      BY <1>1, <2>1, <2>6 DEF Flags, Order, FlagInv
    <3>2. Stored(View) = Stored(q)
      BY <1>2, <2>6, <3>1, ViewFacts DEF View
    <3>3. Fresh(Stored(q), cleared, last, wire, fifo)
      BY <2>6, <3>2 DEF Order, RingInv
    <3>4. /\ Rest(in) /\ Fresh(Stored(in), cleared, last, wire, left)
          /\ \E i \in 1..Len(Stored(in)) : Stored(in)[i] = fifo[length]
          /\ \A g : Precedes(g, Stored(q)) /\ Precedes(g, fifo) => Precedes(g, Stored(in))
      BY <2>4, <2>5, <3>1, <3>3
    <3>5. Stored(View)' = Stored(in)
      BY <1>1, <2>3, <2>6, <3>1, <3>4, ViewFacts DEF View
    <3>6. FlagInv'
      BY <1>1, <2>6, <3>1, <3>4 DEF FlagInv, Refill
    <3>7. RingInv'
      BY <1>1, <3>4, <3>5 DEF RingInv
    <3>8. BufInv'
      <4>1. pc \notin Clearing => /\ Fresh(rbuf, cleared, last, wire, fifo)
                                  /\ Precedes(rbuf, Stored(q)) /\ Precedes(rbuf, fifo)
        BY <3>2 DEF Order, BufInv, Fresh
      <4> QED  BY <1>1, <1>6, <3>4, <3>5, <4>1 DEF BufInv
    <3>9. NewInv'
      BY <2>1, <2>3, <3>1, <3>4, <3>5 DEF NewInv
    <3> QED  BY <1>5, <3>6, <3>7, <3>8, <3>9 DEF Order
  <2>7. CASE pc \in {"tail", "head", "empty", "full", "overflow"}
    <3>1. ~q.full /\ ~q.overflow /\ pc \in Range(CleanOrder) /\ pc \in Clearing
      BY <2>1, <2>7, CleanFields DEF Clearing
    <3>2. BufInv' /\ NewInv'
      BY <1>1, <3>1 DEF BufInv, NewInv
    <3>3. CASE pc = "tail"
      <4>1. FlagInv'
        BY <1>1, <3>3 DEF FlagInv, Refill
      <4> QED  BY <1>1, <1>5, <3>2, <3>3, <4>1 DEF Order, RingInv
    <3>4. pc # "tail" => ~in.overflow /\ in.tail = q.tail /\ q.tail = 0
      BY <2>1, <2>3, <2>7, <3>1 DEF Order, FlagInv
    <3>5. pc # "tail" => q'.tail = 0
      BY <1>2, <2>1, <3>4 DEF Queue
    <3>6. CASE pc = "head"
      <4>1. FlagInv'
        BY <1>1, <3>5, <3>6 DEF FlagInv, Refill
      <4> QED  BY <1>1, <1>5, <3>2, <3>6, <4>1 DEF Order, RingInv
    <3>7. CASE pc = "empty"
      <4> DEFINE c0 == [q EXCEPT !.empty = TRUE]
      <4>1. c0 = Blank(q) /\ Rest(c0)
        BY <1>2, <3>1 DEF Blank, Rest, Loopable, Queue
      <4>2. Fresh(Stored(c0), cleared, last, wire, fifo)
        BY <3>7, <4>1 DEF Order, RingInv, View
      <4>3. Rest(in) /\ Fresh(Stored(in), cleared, last, wire, left)
        BY <2>4, <4>1, <4>2
      <4>4. Blank(q') = Blank(in)
        BY <1>2, <2>1, <2>3 DEF Blank, Queue
      <4>5. Stored(Blank(in)) = Stored(in) \/ Stored(Blank(in)) = <<>>
        BY <2>3, <4>3, ViewFacts
      <4>6. Fresh(Stored(View)', cleared, last, wire, left)
        BY <1>1, <3>7, <4>3, <4>4, <4>5, FreshNone DEF View
      <4>7. FlagInv'
        BY <1>1, <3>5, <3>7 DEF FlagInv, Refill
      <4> QED  BY <1>1, <1>5, <3>2, <4>6, <4>7 DEF Order, RingInv
    <3>8. CASE pc \in {"full", "overflow"}
      <4>1. q = Plain(q) /\ Rest(q)
        BY <1>2, <3>1 DEF Plain, Rest, Loopable, Queue
      <4>2. Fresh(Stored(q), cleared, last, wire, fifo)
        BY <3>8, <4>1 DEF Order, RingInv, View
      <4>3. Rest(in) /\ Fresh(Stored(in), cleared, last, wire, left)
        BY <2>4, <2>5, <4>1, <4>2
      <4>4. Plain(q') = Plain(in) \/ Plain(q') = Blank(in)
        <5>1. CASE ~lost
          BY <2>1, <5>1
        <5>2. CASE lost /\ q.empty
          BY <1>2, <2>1, <2>3, <5>2 DEF Plain, Blank, Queue
        <5>3. CASE lost /\ ~q.empty
          BY <1>2, <2>1, <2>3, <5>3 DEF Plain, Queue
        <5> QED  BY <5>1, <5>2, <5>3
      <4>5. /\ Stored(Plain(in)) = Stored(in)
            /\ Stored(Blank(in)) = Stored(in) \/ Stored(Blank(in)) = <<>>
        BY <2>3, <4>3, ViewFacts
      <4>6. Fresh(Stored(View)', cleared, last, wire, left)
        <5>1. View' = Plain(q')
          BY <1>1, <3>8 DEF View
        <5> QED  BY <4>3, <4>4, <4>5, <5>1, FreshNone
      <4>7. q'.full => ~q'.empty
        BY <1>2, <2>1, <2>3, <3>1 DEF Queue
      <4>8. FlagInv'
        BY <1>1, <3>5, <3>8, <4>7 DEF FlagInv, Refill
      <4> QED  BY <1>1, <1>5, <3>2, <4>6, <4>8 DEF Order, RingInv
    <3> QED  BY <2>7, <3>3, <3>6, <3>7, <3>8
  <2> QED  BY <1>2, <2>6, <2>7, PlaceFacts DEF Places, Refill
<1> QED  BY <1>7, <1>8

(* A torn clear stays torn.                                                *)
LEMMA TornStays == [Next]_vars /\ torn => torn'
<1> SUFFICES ASSUME [Next]_vars, torn PROVE torn'
  OBVIOUS
<1> USE DEF lua, history
<1>1. CASE \E n \in 1..LengthMod : n <= Len(fifo) /\ \E lost \in BOOLEAN : RxDataInd(n, lost)
  BY <1>1 DEF RxDataInd
<1>2. CASE Arrive \/ TxDoneInd \/ Receive \/ (\E mode \in {0, 1} : Open(mode)) \/ Close \/ Write
  BY <1>2 DEF Arrive, TxDoneInd, Receive, Open, Close, Write
<1>3. CASE ClearDriver \/ CleanStore \/ ClearReadBuf \/ ReadPolled \/ ReadBuffered \/ ReadNone
  BY <1>3 DEF ClearDriver, CleanStore, ClearReadBuf, ReadPolled, ReadBuffered, ReadNone
<1>4. CASE RefillMask \/ RefillCopy \/ RefillTest \/ RefillDrained \/ RefillUnmask
  BY <1>4 DEF RefillMask, RefillCopy, RefillTest, RefillDrained, RefillUnmask
<1>5. CASE UNCHANGED vars
  BY <1>5 DEF vars
<1> QED  BY <1>1, <1>2, <1>3, <1>4, <1>5 DEF Next

(* Every step keeps the order.                                             *)
LEMMA OrderStep == CtlInv /\ OrderInv /\ [Next]_vars => OrderInv'
<1> SUFFICES ASSUME CtlInv, OrderInv, [Next]_vars, ~torn' PROVE Order'
  BY DEF OrderInv, Order
<1>1. Order
  BY TornStays DEF OrderInv, Order
<1>2. CASE \E n \in 1..LengthMod : n <= Len(fifo) /\ \E lost \in BOOLEAN : RxDataInd(n, lost)
  BY <1>1, <1>2, OrderRx
<1>3. CASE TxDoneInd \/ Receive \/ Write \/ UNCHANGED vars
  BY <1>1, <1>3, OrderSame DEF TxDoneInd, Receive, Write, vars, lua, history
<1> QED  BY <1>1, <1>2, <1>3, OrderArrive, OrderOpenClose, OrderClear, OrderRead,
            OrderRefillMask, OrderRefillCopy, OrderRefillRest DEF Next
------------------------------------------------------------------------------
(* The inductive invariant holds in every state of the receive path.       *)
THEOREM Inductive == Spec => []IndInv
<1>1. Init => IndInv
  BY InitCtl, OrderInit DEF IndInv, CtlInv
<1>2. IndInv /\ [Next]_vars => IndInv'
  BY CtlStep, OrderStep DEF IndInv, CtlInv
<1> QED  BY <1>1, <1>2, PTL DEF Spec

(* The ring's indices, the read buffer and the driver's FIFO stay within   *)
(* their bounds through interrupts, overruns and torn clears (TypeOK).     *)
THEOREM TypeCorrect == Spec => []TypeOK
<1>1. IndInv => TypeOK
  BY DEF IndInv
<1> QED  BY <1>1, Inductive, PTL

(* The one message per empty ring of uart_message_handle is enough         *)
(* (NoLostWakeup), also when an interrupt comes inside clear.              *)
THEOREM WakeupsKept == Spec => []NoLostWakeup
<1>1. IndInv => NoLostWakeup
  BY DEF IndInv
<1> QED  BY <1>1, Inductive, PTL

(* What uart.read would hand out next, in terms of the stored bytes.       *)
LEMMA PendingFacts ==
  ASSUME IndInv, pc = "ready", ~torn
  PROVE  /\ rbuf \in Seq(Nat) /\ Held(q) \in Seq(Nat) /\ last \in Nat
         /\ Held(q) = <<>> \/ Held(q) = Stored(View)
         /\ newest # 0 => Held(q) = Stored(View)
         /\ Fresh(rbuf, cleared, last, wire, fifo) /\ Fresh(Held(q), cleared, last, wire, fifo)
         /\ Precedes(rbuf, Held(q)) /\ TypeOK /\ NewInv
<1>1. Rest(q) /\ q \in Queue /\ FlagInv /\ FifoInv /\ RingInv /\ BufInv /\ NewInv /\ TypeOK
  BY DEF IndInv, OrderInv, FlagInv, TypeOK
<1>2. Stored(View) = Stored(q)
  BY <1>1, ViewFacts DEF View
<1>3. Held(q) = <<>> \/ Held(q) = Stored(View)
  BY <1>1, <1>2, RestFacts
<1>4. ASSUME newest # 0 PROVE Held(q) = Stored(View)
  <2>1. q.empty => q.head = q.tail
    BY <1>1, <1>4 DEF NewInv, Clearing
  <2>2. CASE ~q.empty
    BY <1>1, <1>2, <2>2, RestFacts
  <2>3. CASE q.empty
    <3>1. Held(q) = <<>> /\ Start(q) = q.tail
      BY <1>1, <2>3, RestFacts
    <3>2. Span(q) = 0
      BY <2>1, <2>3, <3>1 DEF Span
    <3> QED  BY <1>2, <3>1, <3>2, StoredNothing
  <2> QED  BY <2>2, <2>3
<1>5. rbuf \in Seq(Nat) /\ Stored(View) \in Seq(Nat) /\ last \in Nat
  BY <1>1, NatFacts
<1>6. Held(q) \in Seq(Nat)
  <2>1. <<>> \in Seq(Nat)
    OBVIOUS
  <2> QED  BY <1>3, <1>5, <2>1, Zenon
<1>7. /\ Fresh(rbuf, cleared, last, wire, fifo) /\ Fresh(Stored(View), cleared, last, wire, fifo)
      /\ Precedes(rbuf, Stored(View))
  BY <1>1 DEF BufInv, RingInv, Clearing
<1> QED  BY <1>1, <1>3, <1>4, <1>5, <1>6, <1>7, FreshNone

(* Two places in order, one after the other.                               *)
LEMMA JoinIncreasing ==
  ASSUME NEW s \in Seq(Nat), NEW t \in Seq(Nat), Increasing(s), Increasing(t), Precedes(s, t)
  PROVE  Increasing(s \o t)
<1>1. /\ Len(s) \in Nat /\ Len(t) \in Nat /\ Len(s \o t) = Len(s) + Len(t)
      /\ \A i \in 1..Len(s) : (s \o t)[i] = s[i]
      /\ \A i \in (Len(s) + 1)..(Len(s) + Len(t)) : (s \o t)[i] = t[i - Len(s)]
  OBVIOUS
<1> DEFINE u == s \o t
<1> HIDE DEF u
<1> SUFFICES ASSUME NEW i \in 1..Len(u), NEW j \in 1..Len(u), i < j PROVE u[i] < u[j]
  BY DEF Increasing, u
<1>2. i \in 1..Len(s) \/ (i \in (Len(s) + 1)..(Len(s) + Len(t)) /\ i - Len(s) \in 1..Len(t))
  BY <1>1 DEF u
<1>3. j \in 1..Len(s) \/ (j \in (Len(s) + 1)..(Len(s) + Len(t)) /\ j - Len(s) \in 1..Len(t))
  BY <1>1 DEF u
<1>4. CASE j \in 1..Len(s)
  <2>1. i \in 1..Len(s)
    BY <1>1, <1>4 DEF u
  <2> QED  BY <1>1, <1>4, <2>1 DEF u, Increasing
<1>5. CASE j \notin 1..Len(s)
  <2>1. u[j] = t[j - Len(s)] /\ j - Len(s) \in 1..Len(t)
    BY <1>1, <1>3, <1>5 DEF u
  <2>2. CASE i \in 1..Len(s)
    BY <1>1, <2>1, <2>2 DEF u, Precedes
  <2>3. CASE i \notin 1..Len(s)
    <3>1. u[i] = t[i - Len(s)] /\ i - Len(s) \in 1..Len(t)
      BY <1>1, <1>2, <2>3 DEF u
    <3>2. i - Len(s) < j - Len(s)
      BY <1>1
    <3> QED  BY <2>1, <3>1, <3>2 DEF Increasing
  <2> QED  BY <2>2, <2>3
<1> QED  BY <1>4, <1>5

(* The bytes of two places together.                                       *)
LEMMA JoinRange ==
  ASSUME NEW s \in Seq(Nat), NEW t \in Seq(Nat)
  PROVE  /\ s \o t \in Seq(Nat)
         /\ \A i \in 1..Len(s) : s[i] \in Range(s \o t)
         /\ \A i \in 1..Len(t) : t[i] \in Range(s \o t)
         /\ \A b \in Range(s \o t) : \/ \E i \in 1..Len(s) : b = s[i]
                                     \/ \E i \in 1..Len(t) : b = t[i]
<1>1. /\ Len(s) \in Nat /\ Len(t) \in Nat /\ Len(s \o t) = Len(s) + Len(t)
      /\ DOMAIN (s \o t) = 1..(Len(s) + Len(t)) /\ s \o t \in Seq(Nat)
      /\ \A i \in 1..Len(s) : (s \o t)[i] = s[i]
      /\ \A i \in (Len(s) + 1)..(Len(s) + Len(t)) : (s \o t)[i] = t[i - Len(s)]
  OBVIOUS
<1> DEFINE u == s \o t
<1> HIDE DEF u
<1>2. Range(u) = {u[i] : i \in 1..(Len(s) + Len(t))}
  BY <1>1 DEF Range, u
<1>3. ASSUME NEW i \in 1..Len(s) PROVE s[i] \in Range(u)
  <2>1. i \in 1..(Len(s) + Len(t)) /\ u[i] = s[i]
    BY <1>1 DEF u
  <2> QED  BY <1>2, <2>1
<1>4. ASSUME NEW i \in 1..Len(t) PROVE t[i] \in Range(u)
  <2> DEFINE k == Len(s) + i
  <2>1. k \in (Len(s) + 1)..(Len(s) + Len(t)) /\ k - Len(s) = i /\ k \in 1..(Len(s) + Len(t))
    BY <1>1
  <2>2. u[k] = t[i]
    BY <1>1, <2>1 DEF u
  <2> QED  BY <1>2, <2>1, <2>2
<1>5. ASSUME NEW b \in Range(u)
      PROVE  (\E i \in 1..Len(s) : b = s[i]) \/ (\E i \in 1..Len(t) : b = t[i])
  <2>1. PICK k \in 1..(Len(s) + Len(t)) : b = u[k]
    BY <1>2
  <2>2. CASE k \in 1..Len(s)
    BY <1>1, <2>1, <2>2 DEF u
  <2>3. CASE k \notin 1..Len(s)
    <3>1. k \in (Len(s) + 1)..(Len(s) + Len(t)) /\ k - Len(s) \in 1..Len(t)
      BY <1>1, <2>3
    <3>2. b = t[k - Len(s)]
      BY <1>1, <2>1, <3>1 DEF u
    <3> QED  BY <3>1, <3>2
  <2> QED  BY <2>2, <2>3
<1> QED  BY <1>1, <1>3, <1>4, <1>5 DEF u

(* Unless an interrupt tore a clear, uart.read never hands out a byte      *)
(* twice or out of order (InOrder).                                        *)
THEOREM OrderKept == Spec => []InOrder
<1>1. IndInv => InOrder
  <2> SUFFICES ASSUME IndInv, pc = "ready", ~torn PROVE Increasing(<<last>> \o Pending)
    BY DEF InOrder
  <2>1. /\ rbuf \in Seq(Nat) /\ Held(q) \in Seq(Nat) /\ last \in Nat
        /\ Fresh(rbuf, cleared, last, wire, fifo) /\ Fresh(Held(q), cleared, last, wire, fifo)
        /\ Precedes(rbuf, Held(q))
    BY PendingFacts
  <2>2. Increasing(rbuf) /\ Increasing(Held(q)) /\ Above(rbuf, last) /\ Above(Held(q), last)
    BY <2>1 DEF Fresh
  <2>3. Increasing(Pending) /\ Pending \in Seq(Nat)
    BY <2>1, <2>2, JoinIncreasing DEF Pending
  <2>4. ASSUME NEW s \in Seq(Nat), Increasing(s), \A i \in 1..Len(s) : s[i] > last
        PROVE  Increasing(<<last>> \o s)
    <3>1. <<last>> \in Seq(Nat) /\ Len(<<last>>) = 1 /\ <<last>>[1] = last
      BY <2>1
    <3>2. \A i \in 1..Len(s) : s[i] \in Nat
      OBVIOUS
    <3>3. Increasing(<<last>>) /\ Precedes(<<last>>, s)
      BY <2>1, <2>4, <3>1, <3>2 DEF Increasing, Precedes
    <3> QED  BY <2>4, <3>1, <3>3, JoinIncreasing
  <2>5. \A i \in 1..Len(Pending) : Pending[i] > last
    <3>1. \A b \in Range(Pending) : b > last
      BY <2>1, <2>2, JoinRange DEF Pending, Above
    <3>2. \A i \in 1..Len(Pending) : Pending[i] \in Range(Pending)
      BY <2>3 DEF Range
    <3> QED  BY <3>1, <3>2
  <2> QED  BY <2>3, <2>4, <2>5
<1> QED  BY <1>1, Inductive, PTL

(* The last byte received is not lost before the ring is reset, even when  *)
(* the ring overruns, unless an interrupt tore a clear (NewestKept).       *)
THEOREM NewestStays == Spec => []NewestKept
<1>1. IndInv => NewestKept
  <2> SUFFICES ASSUME IndInv, pc = "ready", ~torn, newest > last
               PROVE  newest \in Range(Pending)
    BY DEF NewestKept
  <2>1. /\ rbuf \in Seq(Nat) /\ Held(q) \in Seq(Nat) /\ last \in Nat /\ TypeOK /\ NewInv
        /\ newest # 0 => Held(q) = Stored(View)
    BY PendingFacts
  <2>2. newest \in Nat /\ newest # 0 /\ ~(newest <= last)
    BY <2>1, NatFacts
  <2>3. \/ \E i \in 1..Len(rbuf) : rbuf[i] = newest
        \/ \E i \in 1..Len(Held(q)) : Held(q)[i] = newest
    BY <2>1, <2>2 DEF NewInv, Clearing
  <2> QED  BY <2>1, <2>3, JoinRange DEF Pending
<1> QED  BY <1>1, Inductive, PTL

(* A byte that arrived before uart.close, or before uart.clear, is not     *)
(* there to be read afterwards, unless an interrupt tore a clear           *)
(* (NothingStale).                                                         *)
THEOREM StaleGone == Spec => []NothingStale
<1>1. IndInv => NothingStale
  <2> SUFFICES ASSUME IndInv, pc = "ready", ~torn, NEW b \in Range(Pending)
               PROVE  b > cleared
    BY DEF NothingStale
  <2>1. /\ rbuf \in Seq(Nat) /\ Held(q) \in Seq(Nat)
        /\ Fresh(rbuf, cleared, last, wire, fifo) /\ Fresh(Held(q), cleared, last, wire, fifo)
    BY PendingFacts
  <2>2. (\E i \in 1..Len(rbuf) : b = rbuf[i]) \/ (\E i \in 1..Len(Held(q)) : b = Held(q)[i])
    BY <2>1, JoinRange DEF Pending
  <2> QED  BY <2>1, <2>2 DEF Fresh, Above
<1> QED  BY <1>1, Inductive, PTL
==============================================================================
