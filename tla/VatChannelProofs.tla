--------------------------- MODULE VatChannelProofs ---------------------------
(***************************************************************************)
(* The virtual AT channel for every ring and buffer size and every number  *)
(* of bytes: types, no lost wake-up, order.                                *)
(***************************************************************************)
EXTENDS VatChannel, CycleQueueFacts

\* Before the tasks exist nothing has happened
BootInv == boot # "up" => cpc = "poweron" /\ lpc = "wait" /\ msgs = 0 /\ holder = "nobody"

\* hAtcReadSem keeps the two users of the ring apart
SemInv == /\ holder = "cust" <=> cpc \in {"insert", "release"}
          /\ holder = "lua" <=> lpc \in {"delete", "release"}

\* The ring is at rest between calls and hides nothing
RingInv == Rest(q) /\ (q.empty => q.head = q.tail)

\* Lua reads on until the ring gave nothing
ReadInv == /\ lpc \in {"wait", "delete"} => rbuf = <<>>
           /\ lpc = "release" /\ rbuf = <<>> => q.empty

\* Every stage is increasing and precedes the ones behind it
StagesInv ==
    /\ Increasing(rbuf) /\ Increasing(Stored(q)) /\ Increasing(chunk.bytes)
    /\ \A k \in 1..Len(custq) : Increasing(custq[k].bytes)
    /\ Precedes(<<last>>, rbuf) /\ Precedes(<<last>>, Stored(q))
    /\ Precedes(<<last>>, chunk.bytes)
    /\ \A k \in 1..Len(custq) : Precedes(<<last>>, custq[k].bytes)
    /\ Precedes(rbuf, Stored(q)) /\ Precedes(rbuf, chunk.bytes)
    /\ \A k \in 1..Len(custq) : Precedes(rbuf, custq[k].bytes)
    /\ Precedes(Stored(q), chunk.bytes)
    /\ \A k \in 1..Len(custq) : Precedes(Stored(q), custq[k].bytes)
    /\ \A k \in 1..Len(custq) : Precedes(chunk.bytes, custq[k].bytes)
    /\ \A k, l \in 1..Len(custq) : l < k => Precedes(custq[l].bytes, custq[k].bytes)

\* No byte has a number that the modem has not reached
SentInv == /\ last <= sent /\ UpTo(rbuf, sent) /\ UpTo(Stored(q), sent) /\ UpTo(chunk.bytes, sent)
           /\ \A k \in 1..Len(custq) : UpTo(custq[k].bytes, sent)

OrderInv == ~garbled => StagesInv /\ SentInv

IndInv == TypeOK /\ BootInv /\ SemInv /\ RingInv /\ ReadInv /\ NoLostWakeup /\ OrderInv
------------------------------------------------------------------------------
(* The bytes a message carries.                                            *)
LEMMA MessageFacts ==
  /\ Nothing \in Message /\ NoData \in Message
  /\ Nothing.bytes = <<>> /\ NoData.bytes = <<>> /\ Nothing.ok
  /\ \A b \in Seq(Byte) : Data(b) \in Message /\ Data(b).bytes = b /\ Data(b).ok
BY DEF Nothing, NoData, Data, Message

(* What QueueInsert is given are bytes.                                    *)
LEMMA CopiedType ==
  ASSUME NEW c \in Message, NEW bytes \in Copied(c)
  PROVE  bytes \in Seq(Byte) /\ (c.ok => bytes = c.bytes)
<1>1. CASE c.ok
  BY <1>1 DEF Copied, Message
<1>2. CASE ~c.ok
  <2>1. PICK n \in 0..MaxChunk : bytes = [i \in 1..n |-> 0]
    BY <1>2 DEF Copied
  <2> QED  BY <1>2, <2>1, ByteAssumption, BoundsAssumption
<1> QED  BY <1>1, <1>2
------------------------------------------------------------------------------
(* The bookkeeping: types, boot, the semaphore, the ring, the read buffer. *)
CtlInv == TypeOK /\ BootInv /\ SemInv /\ RingInv /\ ReadInv /\ NoLostWakeup

(* Initially.                                                              *)
LEMMA InitCtl == Init => CtlInv
<1> SUFFICES ASSUME Init PROVE CtlInv
  OBVIOUS
<1>1. custq \in Seq(Message) /\ Len(custq) <= MaxPending /\ rbuf \in Seq(Byte) /\ Len(rbuf) <= ReadSize
  BY BoundsAssumption DEF Init
<1>3. q \in Queue /\ chunk \in Message /\ sent \in 0..MaxBytes /\ polls \in 0..MaxPolls /\ last \in Byte
  BY CleanRests, MessageFacts, BoundsAssumption, ByteAssumption DEF Init
<1>2. TypeOK
  BY <1>1, <1>3 DEF Init, TypeOK
<1> QED  BY <1>2, CleanRests DEF Init, CtlInv, BootInv, SemInv, RingInv, ReadInv, NoLostWakeup

(* cust_main and the modem.                                                *)
LEMMA CtlBoot ==
  ASSUME CtlInv, InitAt \/ CreateTasks \/ CustPoweron
  PROVE  CtlInv'
<1> USE DEF CtlInv, cust, luav
<1>1. CASE InitAt
  BY <1>1, CleanRests DEF InitAt, TypeOK, BootInv, SemInv, RingInv, ReadInv, NoLostWakeup
<1>2. CASE CreateTasks
  BY <1>2 DEF CreateTasks, TypeOK, BootInv, SemInv, RingInv, ReadInv, NoLostWakeup
<1>3. CASE CustPoweron
  BY <1>3 DEF CustPoweron, TypeOK, BootInv, SemInv, RingInv, ReadInv, NoLostWakeup
<1> QED  BY <1>1, <1>2, <1>3

(* The callbacks of the modem.                                             *)
LEMMA CtlModem ==
  ASSUME CtlInv, NEW n \in 1..MaxChunk, AtMessage(n)
  PROVE  CtlInv'
<1> USE DEF CtlInv, cust, luav
<1> DEFINE b == [i \in 1..n |-> sent + i]
<1>1. sent' \in 0..MaxBytes
  BY BoundsAssumption DEF AtMessage, TypeOK
<1>2. b \in Seq(Byte)
  BY BoundsAssumption DEF AtMessage, TypeOK
<1>3. Data(b) \in Message /\ NoData \in Message
  BY <1>2, MessageFacts
<1> HIDE DEF b
<1>5. custq' = custq \/ custq' = Append(custq, Data(b)) \/ custq' = Append(custq, NoData)
  BY DEF AtMessage, b
<1>6. custq \in Seq(Message) /\ Len(custq) < MaxPending
  BY DEF AtMessage, TypeOK
<1>4. custq' \in Seq(Message) /\ Len(custq') <= MaxPending
  BY <1>3, <1>5, <1>6, BoundsAssumption
<1> QED  BY <1>1, <1>4 DEF AtMessage, TypeOK, BootInv, SemInv, RingInv, ReadInv, NoLostWakeup

(* The custom task.                                                        *)
LEMMA CtlCust ==
  ASSUME CtlInv, CustTask
  PROVE  CtlInv'
<1> USE DEF CtlInv, cust, luav
<1>1. CASE CustReceive
  <2>1. chunk' \in Message /\ custq' \in Seq(Message) /\ Len(custq') <= MaxPending
    BY <1>1, BoundsAssumption DEF CustReceive, TypeOK
  <2> QED  BY <1>1, <2>1 DEF CustReceive, TypeOK, BootInv, SemInv, RingInv, ReadInv, NoLostWakeup
<1>2. CASE CustLock
  BY <1>2 DEF CustLock, TypeOK, BootInv, SemInv, RingInv, ReadInv, NoLostWakeup
<1>3. CASE CustInsert
  <2>1. PICK bytes \in Copied(chunk) : q' = QueueInsert(q, bytes)
    BY <1>3 DEF CustInsert
  <2>2. bytes \in Seq(Byte)
    BY <2>1, CopiedType DEF TypeOK
  <2>3. Rest(q) /\ q \in Queue /\ PutExit(q) = q /\ Loopable(q) /\ (q.empty => q.head = q.tail)
    BY RestFacts DEF RingInv, Rest
  <2>4. /\ q' \in Queue /\ Rest(q')
        /\ Len(bytes) # 0 => ~q'.empty
        /\ Len(bytes) = 0 => q' = q
    BY <2>1, <2>2, <2>3, InsertType
  <2>5. RingInv'
    BY <2>3, <2>4 DEF RingInv
  <2>6. q.empty \in BOOLEAN
    BY <2>3 DEF Queue
  <2>7. TypeOK'
    BY <1>3, <2>4, <2>6, MessageFacts DEF CustInsert, TypeOK, NeedMsg, Message
  <2>8. BootInv' /\ SemInv' /\ ReadInv'
    BY <1>3 DEF CustInsert, BootInv, SemInv, ReadInv
  <2>9. NoLostWakeup'
    BY <1>3, <2>2, <2>4 DEF CustInsert, NeedMsg, NoLostWakeup, TypeOK
  <2> QED  BY <2>5, <2>7, <2>8, <2>9
<1>4. CASE CustRelease
  BY <1>4 DEF CustRelease, TypeOK, BootInv, SemInv, RingInv, ReadInv, NoLostWakeup
<1>5. CASE CustSend
  BY <1>5 DEF CustSend, TypeOK, BootInv, SemInv, RingInv, ReadInv, NoLostWakeup
<1> QED  BY <1>1, <1>2, <1>3, <1>4, <1>5 DEF CustTask

(* Lua.                                                                    *)
LEMMA CtlLua ==
  ASSUME CtlInv, LuaTask \/ LuaPoll
  PROVE  CtlInv'
<1> USE DEF CtlInv, cust, luav
<1>1. CASE LuaReceive
  <2>1. msgs' \in Nat
    BY <1>1 DEF LuaReceive, TypeOK
  <2>2. TypeOK' /\ BootInv'
    BY <1>1, <2>1 DEF LuaReceive, TypeOK, BootInv
  <2> QED  BY <1>1, <2>2 DEF LuaReceive, SemInv, RingInv, ReadInv, NoLostWakeup
<1>2. CASE LuaPoll
  BY <1>2, BoundsAssumption DEF LuaPoll, TypeOK, BootInv, SemInv, RingInv, ReadInv, NoLostWakeup
<1>3. CASE VatcBuffered
  <2>1. rbuf' \in Seq(Byte) /\ Len(rbuf') <= ReadSize /\ last' \in Byte
    BY <1>3, BoundsAssumption DEF VatcBuffered, TypeOK
  <2> QED  BY <1>3, <2>1 DEF VatcBuffered, TypeOK, BootInv, SemInv, RingInv, ReadInv, NoLostWakeup
<1>4. CASE VatcLock
  BY <1>4 DEF VatcLock, TypeOK, BootInv, SemInv, RingInv, ReadInv, NoLostWakeup
<1>5. CASE VatcDelete
  <2> DEFINE d == Delete(q, ReadSize)
  <2>1. q' = d.queue /\ rbuf' = d.data
    BY <1>5 DEF VatcDelete
  <2>2. /\ Rest(d.queue) /\ d.data \in Seq(Byte) /\ Len(d.data) <= ReadSize
        /\ q.empty => d.data = <<>> /\ d.queue = q
        /\ ~q.empty => Len(d.data) \in 1..Span(q) /\ (d.queue.empty => d.queue.head = d.queue.tail)
    BY DeleteTakes, BoundsAssumption DEF RingInv
  <2> HIDE DEF d
  <2>3. RingInv' /\ q' \in Queue
    BY <2>1, <2>2 DEF RingInv, Rest, Loopable
  <2>4. TypeOK' /\ BootInv' /\ SemInv' /\ NoLostWakeup'
    BY <1>5, <2>1, <2>2, <2>3 DEF VatcDelete, TypeOK, BootInv, SemInv, NoLostWakeup
  <2>5. ReadInv'
    BY <1>5, <2>1, <2>2 DEF VatcDelete, ReadInv
  <2> QED  BY <2>3, <2>4, <2>5
<1>6. CASE VatcRelease
  BY <1>6 DEF VatcRelease, TypeOK, BootInv, SemInv, RingInv, ReadInv, NoLostWakeup
<1> QED  BY <1>1, <1>2, <1>3, <1>4, <1>5, <1>6 DEF LuaTask
------------------------------------------------------------------------------
(* Order.  What each action moves, stage by stage.                         *)

(* Initially there is no byte.                                             *)
LEMMA OrderInit == Init => OrderInv
<1> SUFFICES ASSUME Init PROVE StagesInv /\ SentInv
  BY DEF OrderInv
<1>1. Stored(q) = <<>> /\ rbuf = <<>> /\ chunk.bytes = <<>> /\ custq = <<>> /\ last = 0 /\ sent = 0
  BY CleanRests, StoredNothing, MessageFacts DEF Init
<1> QED  BY <1>1 DEF StagesInv, SentInv, Increasing, Precedes, UpTo

(* Steps that move no byte.                                                *)
LEMMA OrderSame ==
  ASSUME OrderInv, UNCHANGED <<last, rbuf, q, chunk, custq, sent, garbled>>
  PROVE  OrderInv'
BY DEF OrderInv, StagesInv, SentInv

(* init_at empties the ring.                                               *)
LEMMA OrderInitAt ==
  ASSUME CtlInv, OrderInv, InitAt
  PROVE  OrderInv'
<1> SUFFICES ASSUME ~garbled' PROVE StagesInv' /\ SentInv'
  BY DEF OrderInv
<1>1. Stored(q') = <<>>
  BY CleanRests, StoredNothing DEF InitAt, CtlInv, TypeOK
<1>2. UNCHANGED <<last, rbuf, chunk, custq, sent, garbled>>
  BY DEF InitAt, cust, luav
<1>3. StagesInv /\ SentInv
  BY <1>2 DEF OrderInv
<1> QED  BY <1>1, <1>2, <1>3 DEF StagesInv, SentInv, Increasing, Precedes, UpTo

(* The modem appends bytes with new numbers.                               *)
LEMMA OrderModem ==
  ASSUME CtlInv, OrderInv, NEW n \in 1..MaxChunk, AtMessage(n)
  PROVE  OrderInv'
<1> DEFINE b == [i \in 1..n |-> sent + i]
<1> SUFFICES ASSUME ~garbled' PROVE StagesInv' /\ SentInv'
  BY DEF OrderInv
<1>0. UNCHANGED <<last, rbuf, q, chunk, garbled>> /\ sent' = sent + n /\ sent \in Nat /\ n \in Nat
  BY BoundsAssumption DEF AtMessage, cust, luav, CtlInv, TypeOK
<1>1. StagesInv /\ SentInv
  BY <1>0 DEF OrderInv
<1>2. b \in Seq(Byte) /\ Len(b) = n /\ \A i \in 1..n : b[i] = sent + i
  BY BoundsAssumption DEF AtMessage, CtlInv, TypeOK
<1>3. PICK c \in {b, <<>>} : \/ custq' = custq
                             \/ \E m \in Message : m.bytes = c /\ custq' = Append(custq, m)
  BY <1>2, MessageFacts DEF AtMessage
<1>4. c \in Seq(Byte) /\ \A i \in 1..Len(c) : c[i] = sent + i /\ c[i] <= sent'
  <2>1. CASE c = <<>>
    BY <2>1
  <2>2. CASE c = b
    <3> HIDE DEF b
    <3> QED  BY <1>0, <1>2, <2>2
  <2> QED  BY <2>1, <2>2
<1> HIDE DEF b
<1>5. Increasing(c)
  BY <1>0, <1>4 DEF Increasing
<1>6. ASSUME NEW s, UpTo(s, sent), s \in Seq(Byte) PROVE Precedes(s, c) /\ UpTo(s, sent')
  <2>2. \A i \in 1..Len(s) : s[i] \in Byte
    BY <1>6
  <2>3. Byte \subseteq Nat
    BY BoundsAssumption
  <2>1. \A i \in 1..Len(s) : s[i] \in Nat /\ s[i] <= sent
    BY <1>6, <2>2, <2>3 DEF UpTo
  <2> QED  BY <1>0, <1>4, <2>1 DEF UpTo, Precedes
<1>7. /\ rbuf \in Seq(Byte) /\ Stored(q) \in Seq(Byte) /\ chunk.bytes \in Seq(Byte) /\ last \in Nat
      /\ custq \in Seq(Message) /\ \A k \in 1..Len(custq) : custq[k].bytes \in Seq(Byte)
  <2>1. q \in Queue /\ custq \in Seq(Message) /\ chunk \in Message /\ last \in Nat /\ rbuf \in Seq(Byte)
    BY BoundsAssumption DEF CtlInv, TypeOK
  <2>2. \A m \in Message : m.bytes \in Seq(Byte)
    BY DEF Message
  <2> QED  BY <2>1, <2>2, StoredType
<1>8. UpTo(c, sent')
  BY <1>4 DEF UpTo
<1>11. /\ last <= sent' /\ UpTo(rbuf, sent') /\ UpTo(Stored(q), sent') /\ UpTo(chunk.bytes, sent')
       /\ \A k \in 1..Len(custq) : UpTo(custq[k].bytes, sent')
  <2>1. last <= sent'
    BY <1>0, <1>1, <1>7 DEF SentInv
  <2>2. UpTo(rbuf, sent') /\ UpTo(Stored(q), sent') /\ UpTo(chunk.bytes, sent')
    BY <1>1, <1>6, <1>7, Zenon DEF SentInv
  <2>3. \A k \in 1..Len(custq) : UpTo(custq[k].bytes, sent')
    BY <1>1, <1>6, <1>7, Zenon DEF SentInv
  <2> QED  BY <2>1, <2>2, <2>3
<1>9. CASE custq' = custq
  BY <1>0, <1>1, <1>9, <1>11 DEF StagesInv, SentInv
<1>10. CASE \E m \in Message : m.bytes = c /\ custq' = Append(custq, m)
  <2>1. PICK m \in Message : m.bytes = c /\ custq' = Append(custq, m)
    BY <1>10
  <2> DEFINE N == Len(custq)
  <2>2. /\ N \in Nat /\ Len(custq') = N + 1 /\ custq'[N + 1].bytes = c
        /\ \A k \in 1..N : custq'[k] = custq[k]
    BY <2>1, <1>7
  <2>3. /\ Precedes(rbuf, c) /\ Precedes(Stored(q), c) /\ Precedes(chunk.bytes, c)
        /\ \A k \in 1..N : Precedes(custq[k].bytes, c)
    BY <1>1, <1>6, <1>7 DEF SentInv
  <2>4. Precedes(<<last>>, c)
    BY <1>0, <1>1, <1>4, <1>7 DEF SentInv, Precedes
  <2>5. Stored(q)' = Stored(q)
    BY <1>0
  <2> HIDE DEF N
  <2>6. \A k \in 1..(N + 1) : k \in 1..N \/ k = N + 1
    BY <2>2
  <2>7. /\ \A k \in 1..(N + 1) : /\ Increasing(custq'[k].bytes)
                                 /\ Precedes(<<last>>, custq'[k].bytes)
                                 /\ Precedes(rbuf, custq'[k].bytes)
                                 /\ Precedes(Stored(q), custq'[k].bytes)
                                 /\ Precedes(chunk.bytes, custq'[k].bytes)
    BY <1>1, <1>5, <2>2, <2>3, <2>4, <2>6 DEF StagesInv, N
  <2>8. \A k, l \in 1..(N + 1) : l < k => Precedes(custq'[l].bytes, custq'[k].bytes)
    <3> SUFFICES ASSUME NEW k \in 1..(N + 1), NEW l \in 1..(N + 1), l < k
                 PROVE  Precedes(custq'[l].bytes, custq'[k].bytes)
      OBVIOUS
    <3>1. l \in 1..N
      BY <2>2
    <3>2. CASE k = N + 1
      BY <3>1, <3>2, <2>2, <2>3
    <3>3. CASE k \in 1..N
      BY <3>1, <3>3, <2>2, <1>1 DEF StagesInv, N
    <3> QED  BY <3>2, <3>3, <2>6
  <2>9. StagesInv'
    BY <1>0, <1>1, <2>2, <2>5, <2>7, <2>8 DEF StagesInv
  <2>10. SentInv'
    BY <1>0, <1>8, <1>11, <2>2, <2>5, <2>6 DEF SentInv, N
  <2> QED  BY <2>9, <2>10
<1> QED  BY <1>3, <1>9, <1>10

(* The custom task takes the oldest message.                               *)
LEMMA OrderReceive ==
  ASSUME CtlInv, OrderInv, CustReceive
  PROVE  OrderInv'
<1> SUFFICES ASSUME ~garbled' PROVE StagesInv' /\ SentInv'
  BY DEF OrderInv
<1>1. UNCHANGED <<last, rbuf, q, sent, garbled>> /\ custq # <<>> /\ chunk' = Head(custq) /\ custq' = Tail(custq)
  BY DEF CustReceive, luav
<1>2. StagesInv /\ SentInv
  BY <1>1 DEF OrderInv
<1>3. custq \in Seq(Message)
  BY DEF CtlInv, TypeOK
<1> DEFINE N == Len(custq)
<1>4. /\ N \in Nat \ {0} /\ chunk' = custq[1] /\ Len(custq') = N - 1
      /\ \A k \in 1..(N - 1) : custq'[k] = custq[k + 1]
  BY <1>1, <1>3, TailFacts
<1>5. 1 \in 1..N /\ \A k \in 1..(N - 1) : k + 1 \in 1..N /\ 1 < k + 1
  BY <1>4
<1>6. \A k, l \in 1..(N - 1) : l < k => Precedes(custq'[l].bytes, custq'[k].bytes)
  BY <1>2, <1>4, <1>5 DEF StagesInv
<1>7. \A k \in 1..(N - 1) : Precedes(chunk'.bytes, custq'[k].bytes)
  BY <1>2, <1>4, <1>5 DEF StagesInv
<1> HIDE DEF N
<1>8. StagesInv'
  BY <1>1, <1>2, <1>4, <1>5, <1>6, <1>7 DEF StagesInv, N
<1>9. SentInv'
  BY <1>1, <1>2, <1>4, <1>5 DEF SentInv, N
<1> QED  BY <1>8, <1>9

(* Its bytes go into the ring, behind what is there.                       *)
LEMMA OrderInsert ==
  ASSUME CtlInv, OrderInv, CustInsert
  PROVE  OrderInv'
<1> SUFFICES ASSUME ~garbled' PROVE StagesInv' /\ SentInv'
  BY DEF OrderInv
<1>1. /\ UNCHANGED <<last, rbuf, sent, custq>> /\ chunk'.bytes = <<>>
      /\ chunk.ok /\ ~garbled
  BY MessageFacts DEF CustInsert, luav
<1>2. StagesInv /\ SentInv
  BY <1>1 DEF OrderInv
<1> DEFINE b == chunk.bytes
<1>3. q' = QueueInsert(q, b) /\ b \in Seq(Byte)
  BY <1>1, CopiedType DEF CustInsert, CtlInv, TypeOK
<1>4. Rest(q) /\ Increasing(b) /\ Increasing(Stored(q)) /\ Len(Stored(q)) = Span(q)
  BY <1>2, StoredType DEF StagesInv, CtlInv, RingInv, TypeOK
<1>5. \A i \in 1..Span(q) : \A j \in 1..Len(b) : Stored(q)[i] < b[j]
  BY <1>2, <1>4 DEF StagesInv, Precedes
<1>6. Byte \subseteq Int
  BY BoundsAssumption
<1>7. /\ Rest(q') /\ Increasing(Stored(q'))
      /\ \A i \in 1..Span(q') : \/ \E j \in 1..Span(q) : Stored(q')[i] = Stored(q)[j]
                                \/ \E j \in 1..Len(b) : Stored(q')[i] = b[j]
  BY <1>3, <1>4, <1>5, <1>6, InsertOrdered
<1>8. Len(Stored(q')) = Span(q')
  BY <1>7, StoredType DEF Rest, Loopable
<1>9. \A i \in 1..Len(Stored(q')) : \/ \E j \in 1..Len(Stored(q)) : Stored(q')[i] = Stored(q)[j]
                                    \/ \E j \in 1..Len(b) : Stored(q')[i] = b[j]
  BY <1>4, <1>7, <1>8
<1>10. ASSUME NEW s, Precedes(s, Stored(q)), Precedes(s, b) PROVE Precedes(s, Stored(q'))
  BY <1>9, <1>10, Zenon DEF Precedes
<1>11. ASSUME NEW s, Precedes(Stored(q), s), Precedes(b, s) PROVE Precedes(Stored(q'), s)
  BY <1>9, <1>11, Zenon DEF Precedes
<1>12. UpTo(Stored(q'), sent)
  BY <1>2, <1>9, Zenon DEF UpTo, SentInv
<1>13. \A s : Increasing(<<>>) /\ Precedes(s, <<>>) /\ Precedes(<<>>, s) /\ UpTo(<<>>, s)
  BY DEF Increasing, Precedes, UpTo
<1>14. Precedes(<<last>>, Stored(q')) /\ Precedes(rbuf, Stored(q'))
  BY <1>2, <1>10, Zenon DEF StagesInv
<1>15. \A k \in 1..Len(custq) : Precedes(Stored(q'), custq[k].bytes)
  BY <1>2, <1>11, Zenon DEF StagesInv
<1>16. StagesInv'
  BY <1>1, <1>2, <1>7, <1>13, <1>14, <1>15 DEF StagesInv
<1>17. SentInv'
  BY <1>1, <1>2, <1>12, <1>13 DEF SentInv
<1> QED  BY <1>16, <1>17

(* Lua takes the next byte of the read buffer.                             *)
LEMMA OrderBuffered ==
  ASSUME CtlInv, OrderInv, VatcBuffered
  PROVE  OrderInv'
<1> SUFFICES ASSUME ~garbled' PROVE StagesInv' /\ SentInv'
  BY DEF OrderInv
<1>1. UNCHANGED <<q, chunk, custq, sent, garbled>> /\ rbuf # <<>> /\ last' = Head(rbuf) /\ rbuf' = Tail(rbuf)
  BY DEF VatcBuffered, cust
<1>2. StagesInv /\ SentInv
  BY <1>1 DEF OrderInv
<1>3. rbuf \in Seq(Byte)
  BY DEF CtlInv, TypeOK
<1>4. /\ Len(rbuf) \in Nat \ {0} /\ last' = rbuf[1] /\ Len(rbuf') = Len(rbuf) - 1
      /\ \A i \in 1..(Len(rbuf) - 1) : rbuf'[i] = rbuf[i + 1]
  BY <1>1, <1>3, TailFacts
<1>5. Within(rbuf', rbuf) /\ Within(<<last'>>, rbuf)
  BY <1>4 DEF Within
<1>6. Increasing(rbuf') /\ Precedes(<<last'>>, rbuf')
  <2>1. \A i, j \in 1..Len(rbuf) : i < j => rbuf[i] < rbuf[j]
    BY <1>2 DEF StagesInv, Increasing
  <2>2. \A i \in 1..Len(rbuf') : /\ i + 1 \in 1..Len(rbuf) /\ 1 \in 1..Len(rbuf) /\ 1 < i + 1
                               /\ rbuf'[i] = rbuf[i + 1]
    BY <1>4
  <2>3. Increasing(rbuf')
    BY <2>1, <2>2, <1>4 DEF Increasing
  <2>4. \A i \in 1..Len(rbuf') : last' < rbuf'[i]
    BY <2>1, <2>2, <1>4
  <2> QED  BY <2>3, <2>4 DEF Precedes
<1>7. \A s : Precedes(rbuf, s) => Precedes(rbuf', s) /\ Precedes(<<last'>>, s)
  BY <1>5, WithinSelf, PrecedesWithin
<1>8. UpTo(rbuf', sent) /\ last' <= sent
  <2>1. UpTo(rbuf, sent)
    BY <1>2 DEF SentInv
  <2>2. 1 \in 1..Len(rbuf)
    BY <1>4
  <2>3. last' <= sent
    BY <1>4, <2>1, <2>2 DEF UpTo
  <2> QED  BY <1>5, <2>1, <2>3, UpToWithin
<1>9. StagesInv'
  BY <1>1, <1>2, <1>6, <1>7 DEF StagesInv
<1>10. SentInv'
  BY <1>1, <1>2, <1>8 DEF SentInv
<1> QED  BY <1>9, <1>10

(* vatc_read moves the oldest bytes of the ring to the read buffer.        *)
LEMMA OrderDelete ==
  ASSUME CtlInv, OrderInv, VatcDelete
  PROVE  OrderInv'
<1> SUFFICES ASSUME ~garbled' PROVE StagesInv' /\ SentInv'
  BY DEF OrderInv
<1>1. UNCHANGED <<last, chunk, custq, sent, garbled>>
  BY DEF VatcDelete, cust
<1>2. StagesInv /\ SentInv
  BY <1>1 DEF OrderInv
<1> DEFINE d == Delete(q, ReadSize)
           t == Len(d.data)
<1>3. q' = d.queue /\ rbuf' = d.data /\ rbuf = <<>>
  BY DEF VatcDelete, CtlInv, ReadInv
<1>4. /\ Rest(q') /\ rbuf' \in Seq(Byte)
      /\ q.empty => rbuf' = <<>> /\ q' = q
      /\ ~q.empty => /\ Len(rbuf') \in 1..Span(q) /\ Span(q') = Span(q) - Len(rbuf')
                     /\ \A i \in 1..Len(rbuf') : rbuf'[i] = Stored(q)[i]
                     /\ \A i \in 1..Span(q') : Stored(q')[i] = Stored(q)[i + Len(rbuf')]
  BY <1>3, DeleteTakes, BoundsAssumption DEF CtlInv, RingInv
<1>5. CASE q.empty
  BY <1>1, <1>2, <1>3, <1>4, <1>5 DEF StagesInv, SentInv
<1>6. CASE ~q.empty
  <2>1. /\ Len(Stored(q)) = Span(q) /\ Span(q) \in Nat /\ Len(Stored(q')) = Span(q')
        /\ Stored(q) \in Seq(Byte)
    BY <1>4, StoredType, SizeAssumption DEF CtlInv, TypeOK, Rest, Loopable
  <2> DEFINE S == Stored(q)
             R == Stored(q')
             n == Len(rbuf')
  <2>2. /\ n \in 1..Len(S) /\ Len(R) = Len(S) - n /\ Len(S) \in Nat
        /\ \A i \in 1..n : rbuf'[i] = S[i]
        /\ \A i \in 1..Len(R) : R[i] = S[i + n]
    BY <1>4, <1>6, <2>1
  <2>3. Increasing(S)
    BY <1>2 DEF StagesInv
  <2> HIDE DEF S, R
  <2>4. Within(rbuf', S)
    BY <2>2 DEF Within
  <2>5. Within(R, S)
    <3> SUFFICES ASSUME NEW i \in 1..Len(R) PROVE \E j \in 1..Len(S) : R[i] = S[j]
      BY DEF Within
    <3> QED  BY <2>2
  <2>6. Increasing(rbuf')
    BY <2>2, <2>3 DEF Increasing
  <2>7. Increasing(R)
    <3> SUFFICES ASSUME NEW i \in 1..Len(R), NEW j \in 1..Len(R), i < j PROVE R[i] < R[j]
      BY DEF Increasing
    <3>1. i + n \in 1..Len(S) /\ j + n \in 1..Len(S) /\ i + n < j + n
      BY <2>2
    <3> QED  BY <3>1, <2>2, <2>3 DEF Increasing
  <2>8. Precedes(rbuf', R)
    <3> SUFFICES ASSUME NEW i \in 1..n, NEW j \in 1..Len(R) PROVE rbuf'[i] < R[j]
      BY DEF Precedes
    <3>1. i \in 1..Len(S) /\ j + n \in 1..Len(S) /\ i < j + n
      BY <2>2
    <3> QED  BY <3>1, <2>2, <2>3 DEF Increasing
  <2>9. \A s : /\ Precedes(s, S) => Precedes(s, rbuf') /\ Precedes(s, R)
               /\ Precedes(S, s) => Precedes(rbuf', s) /\ Precedes(R, s)
               /\ UpTo(S, s) => UpTo(rbuf', s) /\ UpTo(R, s)
    BY <2>4, <2>5, WithinSelf, PrecedesWithin, UpToWithin
  <2>10. StagesInv'
    BY <1>1, <1>2, <2>6, <2>7, <2>8, <2>9 DEF StagesInv, S, R
  <2>11. SentInv'
    BY <1>1, <1>2, <2>9 DEF SentInv, S, R
  <2> QED  BY <2>10, <2>11
<1> QED  BY <1>5, <1>6

(* The inductive invariant holds initially.                                *)
LEMMA InitInd == Init => IndInv
BY InitCtl, OrderInit DEF IndInv, CtlInv

(* Every step keeps it.                                                    *)
LEMMA StepInd == IndInv /\ [Next]_vars => IndInv'
<1> SUFFICES ASSUME IndInv, [Next]_vars PROVE CtlInv' /\ OrderInv'
  BY DEF IndInv, CtlInv
<1>1. CtlInv /\ OrderInv
  BY DEF IndInv, CtlInv
<1>2. CASE UNCHANGED vars
  <2>1. CtlInv'
    BY <1>1, <1>2 DEF vars, CtlInv, TypeOK, BootInv, SemInv, RingInv, ReadInv, NoLostWakeup
  <2> QED  BY <1>1, <1>2, <2>1, OrderSame DEF vars
<1>3. CASE InitAt \/ CreateTasks \/ CustPoweron
  BY <1>1, <1>3, CtlBoot, OrderInitAt, OrderSame
     DEF CreateTasks, CustPoweron, cust, luav
<1>4. CASE Modem
  BY <1>1, <1>4, CtlModem, OrderModem DEF Modem
<1>5. CASE CustTask
  <2>1. CtlInv'
    BY <1>1, <1>5, CtlCust
  <2>2. CASE CustReceive
    BY <1>1, <2>1, <2>2, OrderReceive
  <2>3. CASE CustInsert
    BY <1>1, <2>1, <2>3, OrderInsert
  <2>4. CASE CustLock \/ CustRelease \/ CustSend
    BY <1>1, <2>1, <2>4, OrderSame DEF CustLock, CustRelease, CustSend, luav
  <2> QED  BY <1>5, <2>2, <2>3, <2>4 DEF CustTask
<1>6. CASE LuaTask \/ LuaPoll
  <2>1. CtlInv'
    BY <1>1, <1>6, CtlLua
  <2>2. CASE VatcBuffered
    BY <1>1, <2>1, <2>2, OrderBuffered
  <2>3. CASE VatcDelete
    BY <1>1, <2>1, <2>3, OrderDelete
  <2>4. CASE LuaReceive \/ VatcLock \/ VatcRelease \/ LuaPoll
    BY <1>1, <2>1, <2>4, OrderSame DEF LuaReceive, VatcLock, VatcRelease, LuaPoll, cust
  <2> QED  BY <1>6, <2>2, <2>3, <2>4 DEF LuaTask
<1> QED  BY <1>2, <1>3, <1>4, <1>5, <1>6 DEF Next

(* The inductive invariant holds in every state of the channel.            *)
THEOREM Inductive == Spec => []IndInv
BY InitInd, StepInd, PTL DEF Spec

(* The ring's indices and the read buffer of the virtual AT channel stay   *)
(* within their bounds (TypeOK), for every ring, buffer and message size.  *)
THEOREM TypeCorrect == Spec => []TypeOK
<1>1. IndInv => TypeOK
  BY DEF IndInv
<1> QED  BY <1>1, Inductive, PTL

(* Telling Lua once per empty ring, after hAtcReadSem is released, loses   *)
(* no wake-up (NoLostWakeup).                                              *)
THEOREM WakeupsKept == Spec => []NoLostWakeup
<1>1. IndInv => NoLostWakeup
  BY DEF IndInv
<1> QED  BY <1>1, Inductive, PTL

(* What the ring shows is what it stores: no byte is hidden.               *)
LEMMA HeldStored == IndInv => Held(q) = Stored(q)
<1> SUFFICES ASSUME IndInv PROVE Held(q) = Stored(q)
  OBVIOUS
<1>1. Rest(q) /\ (q.empty => q.head = q.tail)
  BY DEF IndInv, RingInv
<1>2. CASE ~q.empty
  BY <1>1, <1>2, RestFacts
<1>3. CASE q.empty
  <2>1. Start(q) = q.tail /\ Held(q) = <<>>
    BY <1>1, <1>3, RestFacts
  <2>2. Span(q) = 0
    BY <1>1, <1>3, <2>1 DEF Span
  <2> QED  BY <2>1, <2>2, StoredNothing
<1> QED  BY <1>2, <1>3

(* The modem's bytes stay in order and none is repeated (InOrder), for     *)
(* every number of bytes in flight.                                        *)
THEOREM OrderKept == Spec => []InOrder
<1>1. IndInv => InOrder
  <2> SUFFICES ASSUME IndInv, ~garbled PROVE InOrder
    BY DEF InOrder
  <2> DEFINE N == Len(custq)
  <2>1. StagesInv /\ N \in Nat
    BY DEF IndInv, OrderInv, TypeOK
  <2>2. /\ Stage(1) = <<last>> /\ Stage(2) = rbuf /\ Stage(3) = Stored(q) /\ Stage(4) = chunk.bytes
        /\ \A k \in 5..(4 + N) : Stage(k) = custq[k - 4].bytes
    BY <2>1, HeldStored DEF Stage
  <2>3. \A k \in 5..(4 + N) : k - 4 \in 1..N
    BY <2>1
  <2> HIDE DEF N
  <2>4. \A k \in 5..(4 + N) :
          /\ Increasing(Stage(k)) /\ Precedes(Stage(1), Stage(k)) /\ Precedes(Stage(2), Stage(k))
          /\ Precedes(Stage(3), Stage(k)) /\ Precedes(Stage(4), Stage(k))
    BY <2>1, <2>2, <2>3 DEF StagesInv, N
  <2>5. \A k, l \in 5..(4 + N) : l < k => Precedes(Stage(l), Stage(k))
    <3> SUFFICES ASSUME NEW k \in 5..(4 + N), NEW l \in 5..(4 + N), l < k
                 PROVE  Precedes(Stage(l), Stage(k))
      OBVIOUS
    <3>1. k - 4 \in 1..N /\ l - 4 \in 1..N /\ l - 4 < k - 4
      BY <2>3
    <3> QED  BY <3>1, <2>1, <2>2 DEF StagesInv, N
  <2>6. /\ Increasing(Stage(1)) /\ Increasing(Stage(2)) /\ Increasing(Stage(3)) /\ Increasing(Stage(4))
        /\ Precedes(Stage(1), Stage(2)) /\ Precedes(Stage(1), Stage(3)) /\ Precedes(Stage(1), Stage(4))
        /\ Precedes(Stage(2), Stage(3)) /\ Precedes(Stage(2), Stage(4)) /\ Precedes(Stage(3), Stage(4))
    <3>1. Increasing(<<last>>)
      BY DEF Increasing
    <3> QED  BY <3>1, <2>1, <2>2 DEF StagesInv
  <2>7. \A k \in 1..(4 + N) : k \in {1, 2, 3, 4} \/ k \in 5..(4 + N)
    BY <2>1 DEF N
  <2>8. \A k \in 1..(4 + N) : Increasing(Stage(k))
    BY <2>4, <2>6, <2>7
  <2>9. ASSUME NEW k \in 1..(4 + N), NEW l \in 1..(k - 1) PROVE Precedes(Stage(l), Stage(k))
    <3>1. l \in 1..(4 + N) /\ l < k /\ k \in Nat /\ N \in Nat
      BY <2>1 DEF N
    <3>2. CASE k \in {1, 2, 3, 4}
      <4>1. l \in {1, 2, 3, 4}
        BY <3>1, <3>2
      <4> QED  BY <2>6, <3>1, <3>2, <4>1
    <3>3. CASE k \in 5..(4 + N)
      <4>1. CASE l \in {1, 2, 3, 4}
        BY <2>4, <3>3, <4>1
      <4>2. CASE l \in 5..(4 + N)
        BY <2>5, <3>1, <3>3, <4>2
      <4> QED  BY <2>7, <3>1, <4>1, <4>2
    <3> QED  BY <2>7, <3>2, <3>3
  <2> QED  BY <2>8, <2>9 DEF InOrder, N
<1> QED  BY <1>1, Inductive, PTL
==============================================================================
