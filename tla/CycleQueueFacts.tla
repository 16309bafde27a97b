---------------------------- MODULE CycleQueueFacts ----------------------------
(***************************************************************************)
(* Facts about the ring of cycle_queue.c that hold for every size: index   *)
(* arithmetic, the bytes read from a place on, and what a whole            *)
(* QueueInsert or QueueDelete does to them.                                *)
(***************************************************************************)
EXTENDS CycleQueueCalls, SequenceTheorems, FiniteSetTheorems, TLAPS

(* The index arithmetic of the ring: a step forward, and a reach of less   *)
(* than two turns, as the provers use them.                                *)
LEMMA WrapFacts ==
  ASSUME NEW i \in 0..(2 * Size - 1)
  PROVE  Wrap(i) = IF i < Size THEN i ELSE i - Size
<1>1. CASE i < Size
  BY <1>1, SizeAssumption DEF Wrap
<1>2. CASE i >= Size
  <2>1. i - Size \in 0..(Size - 1)
    BY <1>2, SizeAssumption
  <2>2. i = Size * 1 + (i - Size)
    BY SizeAssumption
  <2> QED
    BY <1>2, <2>1, <2>2, SizeAssumption, SMTT(60) DEF Wrap
<1> QED BY <1>1, <1>2, SizeAssumption

(* Moving an index one place forward stays on the ring, and two distinct   *)
(* places have distinct successors.                                        *)
LEMMA StepFacts ==
  ASSUME NEW i \in Index
  PROVE  /\ Wrap(i + 1) \in Index
         /\ Wrap(i + 1) = IF i = Size - 1 THEN 0 ELSE i + 1
BY WrapFacts, SizeAssumption DEF Index

(* The record of the ring keeps its type under every loop body and exit.   *)
LEMMA QueueTypes ==
  ASSUME NEW cq \in Queue, NEW b \in Byte, NEW ret \in Nat
  PROVE  /\ QueueClean(cq) \in Queue
         /\ PutByte(cq, b) \in Queue
         /\ PutExit(cq) \in Queue
         /\ TakeByte(cq) \in Queue
         /\ TakeExit(cq, ret) \in Queue
         /\ cq.buf[cq.tail] \in Byte
<1>1. /\ Wrap(cq.head + 1) \in Index
      /\ Wrap(cq.tail + 1) \in Index
  BY StepFacts DEF Queue
<1>2. 0 \in Index
  BY SizeAssumption DEF Index
<1>3. PutByte(cq, b) \in Queue
  BY <1>1 DEF PutByte, Queue
<1>4. TakeByte(cq) \in Queue
  BY <1>1 DEF TakeByte, Queue
<1> QED BY <1>2, <1>3, <1>4 DEF Queue, QueueClean, PutExit, TakeExit

(* A ring read from a place on is a sequence of its bytes.                 *)
LEMMA RingType ==
  ASSUME NEW buf \in [Index -> Byte], NEW from \in Index, NEW n \in 0..Size
  PROVE  /\ Ring(buf, from, n) \in Seq(Byte)
         /\ Len(Ring(buf, from, n)) = n
<1>1. ASSUME NEW i \in 1..n PROVE buf[Wrap(from + i - 1)] \in Byte
  <2>1. from + i - 1 \in 0..(2 * Size - 1)
    BY SizeAssumption DEF Index
  <2>2. Wrap(from + i - 1) \in Index
    BY <2>1, WrapFacts, SizeAssumption DEF Index
  <2> QED BY <2>2
<1> QED BY <1>1, SizeAssumption DEF Ring

(* Writing the byte after the last one appends it.                         *)
LEMMA RingAppend ==
  ASSUME NEW buf \in [Index -> Byte], NEW from \in Index,
         NEW n \in 0..(Size - 1), NEW b \in Byte
  PROVE  Ring([buf EXCEPT ![Wrap(from + n)] = b], from, n + 1)
           = Append(Ring(buf, from, n), b)
<1> DEFINE new == [buf EXCEPT ![Wrap(from + n)] = b]
           R == Ring(buf, from, n)
           R1 == Ring(new, from, n + 1)
<1>1. Wrap(from + n) \in Index
  BY WrapFacts, SizeAssumption DEF Index
<1>2. new \in [Index -> Byte]
  BY <1>1
<1>3. n \in 0..Size /\ n + 1 \in 0..Size
  BY SizeAssumption
<1>31. R \in Seq(Byte) /\ Len(R) = n
  BY <1>3, RingType
<1>32. R1 \in Seq(Byte) /\ Len(R1) = n + 1
  BY <1>2, <1>3, RingType
<1>4. ASSUME NEW i \in 1..n PROVE R1[i] = R[i]
  <2>1. from + i - 1 \in 0..(2 * Size - 1) /\ from + n \in 0..(2 * Size - 1)
    BY SizeAssumption DEF Index
  <2>2. Wrap(from + i - 1) \in Index /\ Wrap(from + i - 1) # Wrap(from + n)
    BY <2>1, WrapFacts, SizeAssumption DEF Index
  <2>3. new[Wrap(from + i - 1)] = buf[Wrap(from + i - 1)]
    BY <2>2
  <2>4. i \in 1..(n + 1)
    BY SizeAssumption
  <2> QED BY <2>3, <2>4 DEF Ring
<1>5. R1[n + 1] = b
  <2>1. n + 1 \in 1..(n + 1) /\ from + (n + 1) - 1 = from + n
    BY SizeAssumption DEF Index
  <2>2. new[Wrap(from + n)] = b
    BY <1>1
  <2> QED BY <2>1, <2>2 DEF Ring
<1>6. R1 = Append(R, b)
  <2> HIDE DEF R, R1, new
  <2>1. Append(R, b) \in Seq(Byte) /\ Len(Append(R, b)) = n + 1
    BY <1>31
  <2>2. ASSUME NEW i \in 1..(n + 1) PROVE R1[i] = Append(R, b)[i]
    <3>1. CASE i = n + 1
      BY <3>1, <1>31, <1>5
    <3>2. CASE i \in 1..n
      BY <3>2, <1>31, <1>4
    <3>3. i = n + 1 \/ i \in 1..n
      BY SizeAssumption
    <3> QED BY <3>1, <3>2, <3>3
  <2> QED BY <1>32, <2>1, <2>2, SeqEqual
<1> QED BY <1>6

(* Removing the byte at the start leaves the rest.                         *)
LEMMA RingTail ==
  ASSUME NEW buf \in [Index -> Byte], NEW from \in Index, NEW n \in 1..Size
  PROVE  /\ Ring(buf, Wrap(from + 1), n - 1) = Tail(Ring(buf, from, n))
         /\ Head(Ring(buf, from, n)) = buf[from]
<1> DEFINE R == Ring(buf, from, n)
           R1 == Ring(buf, Wrap(from + 1), n - 1)
<1>1. Wrap(from + 1) \in Index
  BY StepFacts
<1>2. n \in 0..Size /\ n - 1 \in 0..Size
  BY SizeAssumption
<1>21. R \in Seq(Byte) /\ Len(R) = n
  BY <1>2, RingType
<1>22. R1 \in Seq(Byte) /\ Len(R1) = n - 1
  BY <1>1, <1>2, RingType
<1>3. ASSUME NEW i \in 1..(n - 1) PROVE R1[i] = R[i + 1]
  <2>1. /\ from + i \in 0..(2 * Size - 1)
        /\ Wrap(from + 1) + i - 1 \in 0..(2 * Size - 1)
    BY <1>1, SizeAssumption DEF Index
  <2>2. Wrap(Wrap(from + 1) + i - 1) = Wrap(from + i)
    <3> DEFINE w == Wrap(from + 1)
    <3>1. w = (IF from = Size - 1 THEN 0 ELSE from + 1)
      BY StepFacts
    <3>2. Wrap(w + i - 1) = IF w + i - 1 < Size THEN w + i - 1 ELSE w + i - 1 - Size
      BY <2>1, WrapFacts, SizeAssumption DEF Index
    <3>3. Wrap(from + i) = IF from + i < Size THEN from + i ELSE from + i - Size
      BY <2>1, WrapFacts, SizeAssumption DEF Index
    <3> HIDE DEF w
    <3>4. from \in Int /\ i \in Int /\ Size \in Int /\ i >= 1 /\ i < Size /\ from < Size
      BY SizeAssumption DEF Index
    <3>5. Wrap(w + i - 1) = Wrap(from + i)
      BY <3>1, <3>2, <3>3, <3>4
    <3> QED BY <3>5 DEF w
  <2>3. i + 1 \in 1..n /\ from + (i + 1) - 1 = from + i
    BY SizeAssumption DEF Index
  <2> QED BY <2>2, <2>3 DEF Ring
<1>4. R[1] = buf[from]
  <2>1. 1 \in 1..n /\ from + 1 - 1 = from
    BY SizeAssumption DEF Index
  <2>2. Wrap(from) = from
    BY WrapFacts, SizeAssumption DEF Index
  <2> QED BY <2>1, <2>2 DEF Ring
<1>5. R1 = Tail(R) /\ Head(R) = R[1]
  <2> HIDE DEF R, R1
  <2>1. R # <<>>
    BY <1>21
  <2>2. /\ Tail(R) \in Seq(Byte) /\ Len(Tail(R)) = n - 1
        /\ \A i \in 1..(n - 1) : Tail(R)[i] = R[i + 1]
    BY <1>21, <2>1, HeadTailProperties
  <2>3. R1 = Tail(R)
    BY <1>22, <1>3, <2>2, SeqEqual
  <2> QED BY <1>21, <2>1, <2>3
<1> QED BY <1>4, <1>5

(* Overwriting the oldest byte of a full ring drops it and appends.        *)
LEMMA RingSlide ==
  ASSUME NEW buf \in [Index -> Byte], NEW from \in Index, NEW b \in Byte
  PROVE  Ring([buf EXCEPT ![from] = b], Wrap(from + 1), Size)
           = Append(Tail(Ring(buf, from, Size)), b)
<1> DEFINE next == Wrap(from + 1)
<1>1. next \in Index /\ Wrap(next + (Size - 1)) = from
  <2>1. next \in Index /\ next = IF from = Size - 1 THEN 0 ELSE from + 1
    BY StepFacts
  <2>2. next + (Size - 1) \in 0..(2 * Size - 1)
    BY <2>1, SizeAssumption DEF Index
  <2> QED BY <2>1, <2>2, WrapFacts, SizeAssumption DEF Index
<1>2. Ring([buf EXCEPT ![from] = b], next, (Size - 1) + 1)
        = Append(Ring(buf, next, Size - 1), b)
  <2> HIDE DEF next
  <2>1. Size - 1 \in 0..(Size - 1)
    BY SizeAssumption
  <2>2. Ring([buf EXCEPT ![Wrap(next + (Size - 1))] = b], next, (Size - 1) + 1)
          = Append(Ring(buf, next, Size - 1), b)
    <3>1. ASSUME NEW c \in [Index -> Byte], NEW f \in Index, NEW n \in 0..(Size - 1)
          PROVE  Ring([c EXCEPT ![Wrap(f + n)] = b], f, n + 1) = Append(Ring(c, f, n), b)
      BY RingAppend
    <3> QED BY ONLY <1>1, <2>1, <3>1, Zenon
  <2> QED BY <1>1, <2>2
<1>3. Ring(buf, next, Size - 1) = Tail(Ring(buf, from, Size))
  BY RingTail, SizeAssumption
<1>4. (Size - 1) + 1 = Size
  BY SizeAssumption
<1> QED BY <1>2, <1>3, <1>4

------------------------------------------------------------------------------
(* Induction, and the loop of QueueInsert. *)

(* A set of numbers that is not empty has a least one.                     *)
LEMMA LeastNumber ==
    ASSUME NEW T \in SUBSET Nat, T # {}
    PROVE  \E x \in T : \A y \in T : x <= y
  <1> DEFINE F == {0..n : n \in T}
             R == StrictSubsetOrdering(Nat)
  <1>1. F \subseteq FiniteSubsetsOf(Nat)
    <2>1. ASSUME NEW n \in T PROVE 0..n \in FiniteSubsetsOf(Nat)
      BY FS_Interval DEF FiniteSubsetsOf
    <2> QED BY <2>1
  <1>2. F # {}
    OBVIOUS
  <1>3. IsWellFoundedOn(R, FiniteSubsetsOf(Nat))
    BY FS_StrictSubsetOrderingWellFounded
  <1>4. PICK s \in F : \A t \in F : ~(<<t, s>> \in R)
    <2> HIDE DEF F, R
    <2> QED BY <1>1, <1>2, <1>3, WFMin
  <1>5. PICK x \in T : s = 0..x
    OBVIOUS
  <1>6. ASSUME NEW y \in T, y < x PROVE FALSE
    <2>1. <<0..y, 0..x>> \in R
      BY <1>6, x \in 0..x, x \notin 0..y DEF StrictSubsetOrdering
    <2> QED BY <2>1, <1>4, <1>5
  <1>. QED
    BY <1>6

(* Induction over the numbers up to m, stated for a set.                   *)
LEMMA Induction ==
    ASSUME NEW m \in Nat, NEW S, 0 \in S, \A n \in 0..(m - 1) : n \in S => n + 1 \in S
    PROVE  0..m \subseteq S
  <1> DEFINE T == {n \in 0..m : n \notin S}
  <1> SUFFICES ASSUME T # {} PROVE FALSE
    OBVIOUS
  <1>1. PICK x \in T : \A y \in T : x <= y
    <2> T \in SUBSET Nat OBVIOUS
    <2> HIDE DEF T
    <2> QED BY LeastNumber
  <1>2. x - 1 \in 0..(m - 1) /\ x - 1 \in S
    BY <1>1
  <1> QED BY <1>1, <1>2

\* f is the loop of QueueInsert over the first m bytes
IsLoop(f, cq, bytes, m) ==
    f = [n \in 0..m |-> IF n = 0 THEN cq ELSE PutByte(f[n - 1], bytes[n])]

(* The loop of QueueInsert exists for every number of bytes.               *)
LEMMA LoopExists ==
    ASSUME NEW cq, NEW bytes, NEW m \in Nat
    PROVE  \E f : IsLoop(f, cq, bytes, m)
  <1> DEFINE S == {n \in 0..m : \E f : IsLoop(f, cq, bytes, n)}
  <1>1. 0 \in S
    <2> DEFINE f == [n \in 0..0 |-> cq]
    <2>1. IsLoop(f, cq, bytes, 0)
      BY DEF IsLoop
    <2> HIDE DEF f
    <2> QED BY <2>1
  <1>2. ASSUME NEW n \in 0..(m - 1), n \in S PROVE n + 1 \in S
    <2>1. PICK f : IsLoop(f, cq, bytes, n)
      BY <1>2
    <2> DEFINE g == [i \in 0..(n + 1) |-> IF i = n + 1 THEN PutByte(f[n], bytes[n + 1]) ELSE f[i]]
    <2>2. ASSUME NEW i \in 0..(n + 1)
          PROVE  g[i] = IF i = 0 THEN cq ELSE PutByte(g[i - 1], bytes[i])
      <3>1. CASE i = 0
        BY <2>1, <3>1 DEF IsLoop
      <3>2. CASE i = n + 1
        <4>1. g[i - 1] = f[n] /\ g[i] = PutByte(f[n], bytes[n + 1])
          BY <3>2
        <4> HIDE DEF g
        <4> QED BY <3>2, <4>1
      <3>3. CASE i \in 1..n
        <4>1. g[i - 1] = f[i - 1] /\ g[i] = f[i]
          BY <3>3
        <4>2. f[i] = PutByte(f[i - 1], bytes[i])
          BY <2>1, <3>3 DEF IsLoop
        <4> HIDE DEF g
        <4> QED BY <3>3, <4>1, <4>2
      <3> QED BY <3>1, <3>2, <3>3
    <2>3. IsLoop(g, cq, bytes, n + 1)
      <3>1. g = [i \in 0..(n + 1) |-> g[i]]
        OBVIOUS
      <3> HIDE DEF g
      <3> QED BY <2>2, <3>1 DEF IsLoop
    <2> HIDE DEF g
    <2>4. n + 1 \in 0..m
      OBVIOUS
    <2> QED BY <2>3, <2>4
  <1>3. 0..m \subseteq S
    <2> HIDE DEF S
    <2> QED BY <1>1, <1>2, Induction
  <1> QED BY <1>3

(* What the loop of QueueInsert does, byte by byte.                        *)
LEMMA InsertLoopDef ==
    ASSUME NEW cq, NEW bytes, Len(bytes) \in Nat
    PROVE  LET f == InsertLoop(cq, bytes) IN
           /\ f[0] = cq
           /\ \A n \in 1..Len(bytes) : f[n] = PutByte(f[n - 1], bytes[n])
  <1>1. IsLoop(InsertLoop(cq, bytes), cq, bytes, Len(bytes))
    <2>1. InsertLoop(cq, bytes) = CHOOSE f : IsLoop(f, cq, bytes, Len(bytes))
      BY DEF InsertLoop, IsLoop
    <2> QED BY <2>1, LoopExists
  <1> QED BY <1>1 DEF IsLoop
------------------------------------------------------------------------------
(* What QueueInsert keeps.  A ring at rest may be marked empty although    *)
(* head and tail differ: uart.clear leaves it so when an interrupt comes   *)
(* between its stores.  The bytes in between are hidden by the flag until  *)
(* the next insert.                                                        *)

\* The number of places from one index up to the writer.
Gap(from, cq) == IF cq.head > from THEN cq.head - from ELSE cq.head - from + Size

\* The oldest byte, inside the loop of QueueInsert too.
Start(cq) == IF cq.overflow THEN cq.head ELSE cq.tail

\* The bytes stored, visible or hidden.
Span(cq)   == IF cq.head = Start(cq) /\ cq.empty THEN 0 ELSE Gap(Start(cq), cq)
Stored(cq) == Ring(cq.buf, Start(cq), Span(cq))

\* What the flags must say for the loop to keep order, and between calls.
Loopable(cq) == cq \in Queue /\ (cq.overflow => cq.full) /\ (cq.empty => ~cq.full)
Rest(cq)     == Loopable(cq) /\ (cq.overflow => cq.head = cq.tail)

(* The stored bytes are a sequence that ends before the writer.            *)
LEMMA StoredType ==
  ASSUME NEW cq \in Queue
  PROVE  /\ Start(cq) \in Index /\ Span(cq) \in 0..Size
         /\ Stored(cq) \in Seq(Byte) /\ Len(Stored(cq)) = Span(cq)
         /\ cq.head = Wrap(Start(cq) + Span(cq))
<1>1. Start(cq) \in Index /\ cq.head \in Index /\ cq.buf \in [Index -> Byte]
  BY DEF Start, Queue
<1>2. Span(cq) \in 0..Size
  BY <1>1, SizeAssumption DEF Span, Gap, Index
<1>3. Start(cq) + Span(cq) \in 0..(2 * Size - 1)
  BY <1>1, <1>2, SizeAssumption DEF Index
<1>4. cq.head = Wrap(Start(cq) + Span(cq))
  <2>1. Wrap(Start(cq) + Span(cq)) = IF Start(cq) + Span(cq) < Size THEN Start(cq) + Span(cq)
                                     ELSE Start(cq) + Span(cq) - Size
    BY <1>1, <1>2, <1>3, WrapFacts, SizeAssumption DEF Index
  <2> QED BY <1>1, <2>1, SizeAssumption DEF Span, Gap, Index
<1> QED BY <1>1, <1>2, <1>4, RingType DEF Stored

(* One iteration appends the byte to what was stored, to that without its  *)
(* oldest byte, or to nothing.                                             *)
LEMMA PutAppends ==
  ASSUME NEW cq, Loopable(cq), NEW b \in Byte
  PROVE  /\ Loopable(PutByte(cq, b)) /\ ~PutByte(cq, b).empty
         /\ PutByte(cq, b).tail = cq.tail
         /\ \/ Stored(PutByte(cq, b)) = Append(Stored(cq), b)
            \/ Span(cq) # 0 /\ Stored(PutByte(cq, b)) = Append(Tail(Stored(cq)), b)
            \/ Stored(PutByte(cq, b)) = Append(<<>>, b)
<1> DEFINE d == PutByte(cq, b)
           next == Wrap(cq.head + 1)
<1>1. /\ cq.buf \in [Index -> Byte] /\ cq.head \in Index /\ cq.tail \in Index
      /\ cq.empty \in BOOLEAN /\ cq.full \in BOOLEAN /\ cq.overflow \in BOOLEAN
      /\ cq \in Queue
  BY DEF Loopable, Queue
<1>2. /\ d.buf = [cq.buf EXCEPT ![cq.head] = b]
      /\ d.head = next /\ d.tail = cq.tail /\ ~d.empty
      /\ d.full = (cq.full \/ next = cq.tail)
      /\ d.overflow = (cq.overflow \/ (cq.full /\ cq.head = cq.tail))
  BY DEF PutByte
<1>3. d \in Queue
  BY <1>1, QueueTypes, 0 \in Nat
<1>4. next \in Index /\ next = IF cq.head = Size - 1 THEN 0 ELSE cq.head + 1
  BY <1>1, StepFacts
<1> HIDE DEF d, next
<1>5. Loopable(d)
  BY <1>1, <1>2, <1>3 DEF Loopable
<1>6. /\ cq.head \in Int /\ cq.tail \in Int /\ next \in Int /\ Size \in Int
      /\ 0 <= cq.head /\ cq.head < Size /\ 0 <= cq.tail /\ cq.tail < Size
      /\ 0 <= next /\ next < Size
  BY <1>1, <1>4, SizeAssumption DEF Index
<1>7. CASE d.overflow
  <2>1. Start(cq) = cq.head /\ ~cq.empty
    BY <1>1, <1>2, <1>7 DEF Start, Loopable
  <2>2. Span(cq) = Size
    BY <1>6, <2>1 DEF Span, Gap
  <2>3. Start(d) = next /\ Span(d) = Size
    BY <1>2, <1>6, <1>7 DEF Start, Span, Gap
  <2>4. Stored(d) = Ring([cq.buf EXCEPT ![cq.head] = b], Wrap(cq.head + 1), Size)
    BY <1>2, <2>3 DEF Stored, next
  <2>5. Stored(cq) = Ring(cq.buf, cq.head, Size)
    BY <2>1, <2>2 DEF Stored
  <2>6. Stored(d) = Append(Tail(Stored(cq)), b)
    BY <1>1, <2>4, <2>5, RingSlide
  <2> QED BY <1>2, <1>5, <1>6, <2>2, <2>6, SizeAssumption DEF d
<1>8. CASE ~d.overflow /\ cq.head = cq.tail /\ ~cq.empty
  <2>1. Start(d) = cq.head /\ Span(d) = 1
    BY <1>2, <1>4, <1>6, <1>8 DEF Start, Span, Gap
  <2>2. Stored(d) = Ring([cq.buf EXCEPT ![cq.head] = b], cq.head, 1)
    BY <1>2, <2>1 DEF Stored
  <2>3. Wrap(cq.head + 0) = cq.head
    BY <1>1, <1>6, WrapFacts
  <2>4. Ring(cq.buf, cq.head, 0) = <<>>
    BY DEF Ring
  <2>5. Ring([cq.buf EXCEPT ![Wrap(cq.head + 0)] = b], cq.head, 0 + 1) = Append(Ring(cq.buf, cq.head, 0), b)
    <3>1. 0 \in 0..(Size - 1)
      BY SizeAssumption
    <3>2. ASSUME NEW c \in [Index -> Byte], NEW f \in Index, NEW n \in 0..(Size - 1)
          PROVE  Ring([c EXCEPT ![Wrap(f + n)] = b], f, n + 1) = Append(Ring(c, f, n), b)
      BY RingAppend
    <3> QED BY ONLY <1>1, <3>1, <3>2, Zenon
  <2>6. Stored(d) = Append(<<>>, b)
    <3>1. 0 + 1 = 1
      OBVIOUS
    <3> QED BY ONLY <2>2, <2>3, <2>4, <2>5, <3>1, Zenon
  <2> QED BY <1>2, <1>5, <2>6 DEF d
<1>9. CASE ~d.overflow /\ ~(cq.head = cq.tail /\ ~cq.empty)
  <2>1. ~cq.overflow /\ Start(cq) = cq.tail /\ Start(d) = cq.tail
    BY <1>1, <1>2, <1>9 DEF Start
  <2>2. Span(cq) \in 0..(Size - 1) /\ cq.head = Wrap(cq.tail + Span(cq))
    <3>1. cq.head = Wrap(cq.tail + Span(cq))
      BY <1>1, <2>1, StoredType
    <3>2. Span(cq) \in 0..(Size - 1)
      BY <1>6, <1>9, <2>1 DEF Span, Gap
    <3> QED BY <3>1, <3>2
  <2>3. Span(d) = Span(cq) + 1
    BY <1>2, <1>4, <1>6, <1>9, <2>1 DEF Span, Gap
  <2>4. Stored(d) = Ring([cq.buf EXCEPT ![Wrap(cq.tail + Span(cq))] = b], cq.tail, Span(cq) + 1)
    BY <1>2, <2>1, <2>2, <2>3 DEF Stored
  <2>5. Stored(cq) = Ring(cq.buf, cq.tail, Span(cq))
    BY <2>1 DEF Stored
  <2>6. Stored(d) = Append(Stored(cq), b)
    <3>1. ASSUME NEW c \in [Index -> Byte], NEW f \in Index, NEW n \in 0..(Size - 1)
          PROVE  Ring([c EXCEPT ![Wrap(f + n)] = b], f, n + 1) = Append(Ring(c, f, n), b)
      BY RingAppend
    <3>2. Ring([cq.buf EXCEPT ![Wrap(cq.tail + Span(cq))] = b], cq.tail, Span(cq) + 1)
             = Append(Ring(cq.buf, cq.tail, Span(cq)), b)
      BY ONLY <1>1, <2>2, <3>1, Zenon
    <3> QED BY <2>4, <2>5, <3>2
  <2> QED BY <1>2, <1>5, <2>6 DEF d
<1> QED BY <1>7, <1>8, <1>9

(* Appending a greater byte to a part of an increasing sequence.           *)
LEMMA AppendIncreasing ==
  ASSUME NEW s \in Seq(Int), NEW t \in Seq(Int), NEW b \in Int, Increasing(s),
         \A i \in 1..Len(s) : s[i] < b,
         \/ t = Append(s, b)
         \/ Len(s) # 0 /\ t = Append(Tail(s), b)
         \/ t = Append(<<>>, b)
  PROVE  /\ Increasing(t) /\ Len(t) # 0 /\ t[Len(t)] = b
         /\ \A i \in 1..Len(t) : t[i] = b \/ \E j \in 1..Len(s) : t[i] = s[j]
<1>1. CASE t = Append(s, b)
  BY <1>1 DEF Increasing
<1>2. CASE Len(s) # 0 /\ t = Append(Tail(s), b)
  <2>1. /\ Tail(s) \in Seq(Int) /\ Len(Tail(s)) = Len(s) - 1
        /\ \A i \in 1..(Len(s) - 1) : Tail(s)[i] = s[i + 1]
    BY <1>2, HeadTailProperties
  <2> DEFINE r == Tail(s)
  <2>2. Len(t) = Len(s) /\ t[Len(s)] = b /\ \A i \in 1..(Len(s) - 1) : t[i] = s[i + 1]
    <3> HIDE DEF r
    <3>1. t = Append(r, b)
      BY <1>2 DEF r
    <3>2. r \in Seq(Int) /\ Len(r) = Len(s) - 1 /\ \A i \in 1..(Len(s) - 1) : r[i] = s[i + 1]
      BY <2>1 DEF r
    <3>3. /\ Len(t) = Len(r) + 1 /\ t[Len(r) + 1] = b
          /\ \A i \in 1..Len(r) : t[i] = r[i]
      BY <3>1, <3>2, AppendProperties
    <3> QED BY <3>2, <3>3
  <2>3. Len(s) \in Nat \ {0}
    BY <1>2
  <2>4. ASSUME NEW i \in 1..Len(t), NEW j \in 1..Len(t), i < j PROVE t[i] < t[j]
    <3>1. i \in 1..(Len(s) - 1) /\ i + 1 \in 1..Len(s)
      BY <2>2, <2>3, <2>4
    <3>2. t[i] = s[i + 1]
      BY <2>2, <3>1
    <3>3. CASE j = Len(s)
      BY <2>2, <3>1, <3>2, <3>3
    <3>4. CASE j # Len(s)
      <4>1. j \in 1..(Len(s) - 1) /\ j + 1 \in 1..Len(s) /\ i + 1 < j + 1
        BY <2>2, <2>3, <2>4, <3>4
      <4>2. t[j] = s[j + 1]
        BY <2>2, <4>1
      <4>3. s[i + 1] < s[j + 1]
        BY <3>1, <4>1 DEF Increasing
      <4> QED BY <3>2, <4>2, <4>3
    <3> QED BY <3>3, <3>4
  <2>5. ASSUME NEW i \in 1..Len(t) PROVE t[i] = b \/ \E j \in 1..Len(s) : t[i] = s[j]
    <3>1. i = Len(s) \/ i + 1 \in 1..Len(s)
      BY <2>2, <2>3
    <3> QED BY <2>2, <2>3, <3>1
  <2> QED BY <2>2, <2>3, <2>4, <2>5 DEF Increasing
<1>3. CASE t = Append(<<>>, b)
  BY <1>3 DEF Increasing
<1> QED BY <1>1, <1>2, <1>3

\* What a loop of QueueInsert that started with the bytes s has stored after n
\* of its bytes.
Kept(cq, s, bytes, n) ==
    /\ Loopable(cq)
    /\ n > 0 => ~cq.empty /\ Span(cq) # 0 /\ Stored(cq)[Span(cq)] = bytes[n]
    /\ Increasing(Stored(cq))
    /\ \A i \in 1..Span(cq) : \/ \E j \in 1..Len(s) : Stored(cq)[i] = s[j]
                              \/ \E j \in 1..n : Stored(cq)[i] = bytes[j]

(* An iteration of the loop keeps what is stored increasing.               *)
LEMMA KeptStep ==
  ASSUME Byte \subseteq Int,
         NEW bytes \in Seq(Byte), NEW s \in Seq(Byte), NEW n \in 0..(Len(bytes) - 1),
         Increasing(bytes), \A i \in 1..Len(s) : \A j \in 1..Len(bytes) : s[i] < bytes[j],
         NEW cq, Kept(cq, s, bytes, n)
  PROVE  Kept(PutByte(cq, bytes[n + 1]), s, bytes, n + 1)
<1> DEFINE b == bytes[n + 1]
           d == PutByte(cq, b)
           S == Stored(cq)
           T == Stored(d)
<1>1. n + 1 \in 1..Len(bytes) /\ b \in Byte /\ b \in Int
  <2>1. Len(bytes) \in Nat
    OBVIOUS
  <2>2. n + 1 \in 1..Len(bytes)
    BY <2>1
  <2>3. b \in Byte
    BY <2>2, ElementOfSeq
  <2> QED BY <2>2, <2>3
<1>2. Loopable(cq) /\ cq \in Queue
  BY DEF Kept, Loopable
<1>3. /\ Loopable(d) /\ ~d.empty
      /\ \/ T = Append(S, b)
         \/ Span(cq) # 0 /\ T = Append(Tail(S), b)
         \/ T = Append(<<>>, b)
  BY <1>1, <1>2, PutAppends
<1>4. d \in Queue
  BY <1>3 DEF Loopable
<1>5. /\ S \in Seq(Byte) /\ Len(S) = Span(cq) /\ T \in Seq(Byte) /\ Len(T) = Span(d)
      /\ Span(cq) \in Nat /\ Span(d) \in Nat
  BY <1>2, <1>4, StoredType, SizeAssumption
<1>6. S \in Seq(Int) /\ T \in Seq(Int)
  <2>1. Seq(Byte) \subseteq Seq(Int)
    BY SeqMonotonic
  <2> QED BY <1>5, <2>1
<1>7. ASSUME NEW i \in 1..Len(S) PROVE S[i] < b
  <2>1. CASE \E j \in 1..Len(s) : S[i] = s[j]
    BY <1>1, <2>1
  <2>2. CASE \E j \in 1..n : S[i] = bytes[j]
    BY <1>1, <2>2 DEF Increasing
  <2> QED BY <1>5, <2>1, <2>2 DEF Kept
<1>8. Increasing(S)
  BY DEF Kept
<1>9. /\ Increasing(T) /\ Len(T) # 0 /\ T[Len(T)] = b
      /\ \A i \in 1..Len(T) : T[i] = b \/ \E j \in 1..Len(S) : T[i] = S[j]
  <2> HIDE DEF S, T, d, b
  <2>1. \/ T = Append(S, b)
        \/ Len(S) # 0 /\ T = Append(Tail(S), b)
        \/ T = Append(<<>>, b)
    BY <1>3, <1>5
  <2>2. \A i \in 1..Len(S) : S[i] < b
    BY <1>7
  <2>3. b \in Int
    BY <1>1
  <2> QED BY <1>6, <1>8, <2>1, <2>2, <2>3, AppendIncreasing, SMTT(30)
<1>10. ASSUME NEW i \in 1..Span(d)
       PROVE  \/ \E j \in 1..Len(s) : T[i] = s[j]
              \/ \E j \in 1..(n + 1) : T[i] = bytes[j]
  <2>1. CASE T[i] = b
    BY <1>1, <2>1
  <2>2. CASE \E j \in 1..Len(S) : T[i] = S[j]
    <3>1. PICK j \in 1..Len(S) : T[i] = S[j]
      BY <2>2
    <3>2. \/ \E k \in 1..Len(s) : S[j] = s[k]
          \/ \E k \in 1..n : S[j] = bytes[k]
      BY <1>5 DEF Kept
    <3> HIDE DEF S, T
    <3> QED BY <3>1, <3>2
  <2> QED BY <1>5, <1>9, <2>1, <2>2
<1> HIDE DEF b, d, S, T
<1>11. Kept(d, s, bytes, n + 1)
  BY <1>3, <1>5, <1>9, <1>10 DEF Kept, S, T, b
<1> QED BY <1>11 DEF d, b

(* The reader's side of a queue at rest.                                   *)
LEMMA RestFacts ==
  ASSUME NEW cq, Rest(cq)
  PROVE  /\ PutExit(cq) = cq /\ Start(cq) = cq.tail /\ cq \in Queue
         /\ ~cq.empty => Used(cq) = Span(cq) /\ Held(cq) = Stored(cq)
         /\ cq.empty => Used(cq) = 0 /\ Held(cq) = <<>>
<1>1. cq \in Queue /\ Start(cq) = cq.tail
  BY DEF Rest, Loopable, Start
<1>2. PutExit(cq) = cq
  BY <1>1 DEF Rest, PutExit, Queue
<1>3. ~cq.empty => Used(cq) = Span(cq)
  BY <1>1 DEF Used, Span, Gap
<1>4. cq.empty => Used(cq) = 0 /\ Held(cq) = <<>>
  BY DEF Used, Held, Ring
<1> QED BY <1>1, <1>2, <1>3, <1>4 DEF Held, Stored

(* The end of QueueInsert leaves the ring at rest with the same bytes.     *)
LEMMA ExitRests ==
  ASSUME NEW cq, Loopable(cq)
  PROVE  /\ Rest(PutExit(cq)) /\ Stored(PutExit(cq)) = Stored(cq)
         /\ Span(PutExit(cq)) = Span(cq) /\ PutExit(cq).empty = cq.empty
<1> DEFINE d == PutExit(cq)
<1>1. cq \in Queue
  BY DEF Loopable
<1>2. d \in Queue
  BY <1>1, QueueTypes, ByteAssumption, 0 \in Nat
<1>3. /\ d.buf = cq.buf /\ d.head = cq.head /\ d.empty = cq.empty /\ d.full = cq.full
      /\ d.overflow = cq.overflow /\ (d.overflow => d.tail = d.head)
      /\ ~d.overflow => d.tail = cq.tail
  BY <1>1 DEF PutExit, Queue
<1> HIDE DEF d
<1>4. Rest(d)
  BY <1>2, <1>3 DEF Loopable, Rest
<1>5. Start(d) = Start(cq)
  BY <1>3 DEF Start
<1>6. Span(d) = Span(cq)
  BY <1>3, <1>5 DEF Span, Gap
<1> QED BY <1>3, <1>4, <1>5, <1>6 DEF Stored, d

(* A whole QueueInsert, whatever the flags say: the indices stay inside    *)
(* the buffer, and tail moves only if the ring overruns.                   *)
LEMMA InsertType ==
  ASSUME NEW cq \in Queue, NEW bytes \in Seq(Byte)
  PROVE  /\ QueueInsert(cq, bytes) \in Queue
         /\ Len(bytes) # 0 => ~QueueInsert(cq, bytes).empty
         /\ Len(bytes) = 0 => QueueInsert(cq, bytes) = PutExit(cq)
         /\ ~QueueInsert(cq, bytes).overflow => QueueInsert(cq, bytes).tail = cq.tail
         /\ Loopable(cq) => Rest(QueueInsert(cq, bytes))
<1> DEFINE f == InsertLoop(cq, bytes)
           m == Len(bytes)
           P(n) == /\ f[n] \in Queue /\ f[n].tail = cq.tail
                   /\ Loopable(cq) => Loopable(f[n])
                   /\ n # 0 => ~f[n].empty
           S == {n \in 0..m : P(n)}
<1>1. m \in Nat
  OBVIOUS
<1>2. f[0] = cq /\ \A n \in 1..m : f[n] = PutByte(f[n - 1], bytes[n])
  BY <1>1, InsertLoopDef
<1> HIDE DEF f
<1>3. 0 \in S
  BY <1>1, <1>2
<1>4. ASSUME NEW n \in 0..(m - 1), n \in S PROVE n + 1 \in S
  <2>1. n + 1 \in 1..m /\ n + 1 \in 0..m /\ n + 1 # 0 /\ (n + 1) - 1 = n
    BY <1>1
  <2>2. bytes[n + 1] \in Byte
    BY <2>1, ElementOfSeq
  <2>3. f[n + 1] = PutByte(f[n], bytes[n + 1])
    BY <1>2, <2>1
  <2>4. f[n] \in Queue /\ f[n].tail = cq.tail
    BY <1>4
  <2>5. PutByte(f[n], bytes[n + 1]) \in Queue
    BY <2>2, <2>4, QueueTypes, 0 \in Nat
  <2>6. PutByte(f[n], bytes[n + 1]).tail = f[n].tail /\ ~PutByte(f[n], bytes[n + 1]).empty
    BY DEF PutByte
  <2>7. Loopable(cq) => Loopable(PutByte(f[n], bytes[n + 1]))
    BY <1>4, <2>2, PutAppends
  <2> QED BY <2>1, <2>3, <2>4, <2>5, <2>6, <2>7
<1>5. P(m)
  <2>1. 0..m \subseteq S
    <3> HIDE DEF S, m
    <3> QED BY <1>1, <1>3, <1>4, Induction
  <2> QED BY <1>1, <2>1
<1>6. QueueInsert(cq, bytes) = PutExit(f[m])
  BY DEF QueueInsert, f
<1>7. PutExit(f[m]) \in Queue
  BY <1>5, QueueTypes, ByteAssumption, 0 \in Nat
<1>8. /\ PutExit(f[m]).empty = f[m].empty /\ PutExit(f[m]).overflow = f[m].overflow
      /\ ~f[m].overflow => PutExit(f[m]).tail = f[m].tail
  BY <1>5 DEF PutExit, Queue
<1>9. Loopable(cq) => Rest(PutExit(f[m]))
  BY <1>5, ExitRests
<1> QED BY <1>2, <1>5, <1>6, <1>7, <1>8, <1>9

(* QueueInsert does not look at the flag empty, only sets it: it goes on   *)
(* after the bytes that are stored, be they visible or hidden.  If these   *)
(* are increasing and the new ones come after them, so is the result, and  *)
(* it ends with the last byte inserted.                                    *)
LEMMA InsertKeeps ==
  ASSUME Byte \subseteq Int,
         NEW cq \in Queue, NEW e \in BOOLEAN, NEW c0, c0 = [cq EXCEPT !.empty = e], Rest(c0),
         NEW bytes \in Seq(Byte), Len(bytes) # 0, Increasing(bytes),
         Increasing(Stored(c0)),
         \A i \in 1..Span(c0) : \A j \in 1..Len(bytes) : Stored(c0)[i] < bytes[j]
  PROVE  LET r == QueueInsert(cq, bytes) IN
         /\ Rest(r) /\ Increasing(Stored(r))
         /\ Span(r) # 0 /\ Stored(r)[Span(r)] = bytes[Len(bytes)]
         /\ \A i \in 1..Span(r) : \/ \E j \in 1..Span(c0) : Stored(r)[i] = Stored(c0)[j]
                                  \/ \E j \in 1..Len(bytes) : Stored(r)[i] = bytes[j]
<1> DEFINE f == InsertLoop(cq, bytes)
           m == Len(bytes)
           s == Stored(c0)
           g(n) == IF n = 0 THEN c0 ELSE f[n]
           S == {n \in 0..m : Kept(g(n), s, bytes, n)}
<1>1. m \in Nat
  OBVIOUS
<1>2. f[0] = cq /\ \A n \in 1..m : f[n] = PutByte(f[n - 1], bytes[n])
  BY <1>1, InsertLoopDef
<1>3. c0 \in Queue /\ Loopable(c0)
  BY DEF Rest, Loopable
<1>4. s \in Seq(Byte) /\ Len(s) = Span(c0)
  BY <1>3, StoredType
<1>5. \A b : PutByte(cq, b) = PutByte(c0, b)
  <2>1. /\ c0.buf = cq.buf /\ c0.head = cq.head /\ c0.tail = cq.tail
        /\ c0.full = cq.full /\ c0.overflow = cq.overflow
    BY DEF Queue
  <2> QED BY <2>1 DEF PutByte
<1>6. \A n \in 0..(m - 1) : g(n + 1) = PutByte(g(n), bytes[n + 1])
  <2> SUFFICES ASSUME NEW n \in 0..(m - 1) PROVE g(n + 1) = PutByte(g(n), bytes[n + 1])
    OBVIOUS
  <2>1. n + 1 \in 1..m /\ (n + 1) - 1 = n /\ n + 1 # 0
    BY <1>1
  <2>2. f[n + 1] = PutByte(f[n], bytes[n + 1])
    BY <1>2, <2>1
  <2> HIDE DEF f
  <2>3. CASE n = 0
    BY <1>2, <1>5, <2>1, <2>2, <2>3
  <2>4. CASE n # 0
    BY <2>1, <2>2, <2>4
  <2> QED BY <2>3, <2>4
<1> HIDE DEF f
<1>7. Kept(c0, s, bytes, 0)
  <2>1. Span(c0) = Len(s)
    BY <1>4
  <2>2. \A i \in 1..Span(c0) : \E j \in 1..Len(s) : Stored(c0)[i] = s[j]
    BY <2>1
  <2>3. ~(0 > 0)
    OBVIOUS
  <2>4. Increasing(Stored(c0))
    OBVIOUS
  <2> HIDE DEF s
  <2> QED BY ONLY <1>3, <2>2, <2>3, <2>4, Zenon DEF Kept
<1>8. 0 \in S
  BY <1>1, <1>7
<1>9. ASSUME NEW n \in 0..(m - 1), n \in S PROVE n + 1 \in S
  <2>1. Kept(g(n), s, bytes, n) /\ n + 1 \in 0..m
    BY <1>1, <1>9
  <2>2. g(n + 1) = PutByte(g(n), bytes[n + 1])
    BY <1>6
  <2>3. \A i \in 1..Len(s) : \A j \in 1..Len(bytes) : s[i] < bytes[j]
    BY <1>4
  <2> HIDE DEF s, g
  <2>4. Kept(PutByte(g(n), bytes[n + 1]), s, bytes, n + 1)
    BY <1>4, <2>1, <2>3, KeptStep
  <2> QED BY <2>1, <2>2, <2>4
<1>10. Kept(f[m], s, bytes, m)
  <2>1. 0..m \subseteq S
    <3> HIDE DEF S, m
    <3> QED BY <1>1, <1>8, <1>9, Induction
  <2>2. m \in 0..m /\ m # 0
    BY <1>1
  <2>3. Kept(g(m), s, bytes, m)
    <3> HIDE DEF m, s, g
    <3> QED BY <2>1, <2>2
  <2>4. g(m) = f[m]
    BY <2>2
  <2> HIDE DEF g
  <2> QED BY <2>3, <2>4
<1>11. QueueInsert(cq, bytes) = PutExit(f[m])
  BY DEF QueueInsert, f
<1> HIDE DEF s
<1>12. m > 0
  BY <1>1
<1>13. Loopable(f[m])
  BY <1>10 DEF Kept
<1>14. /\ Rest(PutExit(f[m])) /\ Stored(PutExit(f[m])) = Stored(f[m])
       /\ Span(PutExit(f[m])) = Span(f[m])
  BY <1>13, ExitRests
<1>15. /\ Increasing(Stored(f[m])) /\ Span(f[m]) # 0 /\ Stored(f[m])[Span(f[m])] = bytes[m]
       /\ \A i \in 1..Span(f[m]) : \/ \E j \in 1..Span(c0) : Stored(f[m])[i] = s[j]
                                   \/ \E j \in 1..m : Stored(f[m])[i] = bytes[j]
  BY <1>4, <1>10, <1>12 DEF Kept
<1> QED BY <1>11, <1>14, <1>15 DEF s

(* The same for a ring at rest and any number of bytes.                    *)
LEMMA InsertOrdered ==
  ASSUME Byte \subseteq Int, NEW cq, Rest(cq), NEW bytes \in Seq(Byte), Increasing(bytes),
         Increasing(Stored(cq)),
         \A i \in 1..Span(cq) : \A j \in 1..Len(bytes) : Stored(cq)[i] < bytes[j]
  PROVE  LET r == QueueInsert(cq, bytes) IN
         /\ Rest(r) /\ Increasing(Stored(r))
         /\ \A i \in 1..Span(r) : \/ \E j \in 1..Span(cq) : Stored(r)[i] = Stored(cq)[j]
                                  \/ \E j \in 1..Len(bytes) : Stored(r)[i] = bytes[j]
<1>1. cq \in Queue /\ cq = [cq EXCEPT !.empty = cq.empty] /\ cq.empty \in BOOLEAN
  BY DEF Rest, Loopable, Queue
<1>2. CASE Len(bytes) = 0
  <2>1. QueueInsert(cq, bytes) = cq
    BY <1>1, <1>2, InsertType, RestFacts
  <2> QED BY <2>1
<1>3. CASE Len(bytes) # 0
  BY <1>1, <1>3, InsertKeeps
<1> QED BY <1>2, <1>3

(* Skipping k bytes of a ring.                                             *)
LEMMA RingShift ==
  ASSUME NEW buf \in [Index -> Byte], NEW from \in Index, NEW n \in 0..Size,
         NEW k \in 0..n, NEW i \in 1..(n - k)
  PROVE  /\ Wrap(from + k) \in Index
         /\ Ring(buf, Wrap(from + k), n - k)[i] = Ring(buf, from, n)[i + k]
<1> DEFINE w == Wrap(from + k)
<1>1. from + k \in 0..(2 * Size - 1) /\ from + k + i - 1 \in 0..(2 * Size - 1)
  BY SizeAssumption DEF Index
<1>2. w = IF from + k < Size THEN from + k ELSE from + k - Size
  BY <1>1, WrapFacts, SizeAssumption DEF Index
<1>3. w \in Index
  BY <1>1, <1>2, SizeAssumption DEF Index
<1> HIDE DEF w
<1>4. w + i - 1 \in 0..(2 * Size - 1)
  BY <1>3, SizeAssumption DEF Index
<1>5. Wrap(w + i - 1) = IF w + i - 1 < Size THEN w + i - 1 ELSE w + i - 1 - Size
  BY <1>3, <1>4, WrapFacts, SizeAssumption DEF Index
<1>6. Wrap(from + k + i - 1) = IF from + k + i - 1 < Size THEN from + k + i - 1
                               ELSE from + k + i - 1 - Size
  BY <1>1, WrapFacts, SizeAssumption DEF Index
<1>7. from \in Int /\ k \in Int /\ i \in Int /\ Size \in Int /\ from < Size /\ 0 <= from
      /\ k <= n /\ n <= Size /\ n \in Int /\ 1 <= i /\ i <= n - k /\ 0 <= k
  BY SizeAssumption DEF Index
<1>8. Wrap(w + i - 1) = Wrap(from + k + i - 1)
  BY <1>2, <1>5, <1>6, <1>7
<1>9. i + k \in 1..n /\ from + (i + k) - 1 = from + k + i - 1
  BY <1>7
<1>10. Ring(buf, w, n - k)[i] = buf[Wrap(w + i - 1)]
  BY DEF Ring
<1>11. Ring(buf, from, n)[i + k] = buf[Wrap(from + (i + k) - 1)]
  BY <1>9 DEF Ring
<1>12. Ring(buf, w, n - k)[i] = Ring(buf, from, n)[i + k]
  BY <1>8, <1>9, <1>10, <1>11
<1> QED BY <1>3, <1>12 DEF w

(* A whole QueueDelete takes the oldest bytes and leaves the others; it    *)
(* takes something unless the ring is marked empty.                        *)
LEMMA DeleteTakes ==
  ASSUME NEW cq, Rest(cq), NEW len \in Nat \ {0}
  PROVE  LET d == Delete(cq, len)
             r == d.queue
             t == Len(d.data)
         IN  /\ Rest(r) /\ d.data \in Seq(Byte) /\ t <= len
             /\ cq.empty => d.data = <<>> /\ r = cq
             /\ ~cq.empty => /\ t \in 1..Span(cq) /\ Span(r) = Span(cq) - t
                             /\ \A i \in 1..t : d.data[i] = Stored(cq)[i]
                             /\ \A i \in 1..Span(r) : Stored(r)[i] = Stored(cq)[i + t]
                             /\ r.empty => r.head = r.tail
<1> DEFINE ret  == IF Used(cq) < len THEN Used(cq) ELSE len
           next == Wrap(cq.tail + ret)
           rest == [cq EXCEPT !.tail = next,
                              !.empty = cq.empty \/ (ret > 0 /\ next = cq.head)]
           data == Ring(cq.buf, cq.tail, ret)
           r    == TakeExit(rest, ret)
<1>1. Delete(cq, len).data = data /\ Delete(cq, len).queue = r
  BY DEF Delete
<1>2. /\ cq \in Queue /\ cq.buf \in [Index -> Byte] /\ cq.tail \in Index /\ cq.head \in Index
      /\ cq.empty \in BOOLEAN /\ cq.full \in BOOLEAN /\ cq.overflow \in BOOLEAN
  BY DEF Rest, Loopable, Queue
<1>3. /\ Start(cq) = cq.tail
      /\ ~cq.empty => Used(cq) = Span(cq) /\ Held(cq) = Stored(cq)
      /\ cq.empty => Used(cq) = 0
  BY RestFacts
<1>4. Span(cq) \in 0..Size /\ cq.head = Wrap(cq.tail + Span(cq))
  BY <1>2, <1>3, StoredType
<1>5. ~cq.empty => Span(cq) # 0
  BY <1>2, <1>3, SizeAssumption DEF Span, Gap, Index
<1>6. ret \in 0..Size /\ ret <= len /\ (cq.empty => ret = 0)
      /\ (~cq.empty => ret \in 1..Span(cq))
  BY <1>3, <1>4, <1>5, SizeAssumption
<1> HIDE DEF ret
<1>7. data \in Seq(Byte) /\ Len(data) = ret
  BY <1>2, <1>6, RingType
<1>8. cq.tail + ret \in 0..(2 * Size - 1)
  BY <1>2, <1>6, SizeAssumption DEF Index
<1>9. next = IF cq.tail + ret < Size THEN cq.tail + ret ELSE cq.tail + ret - Size
  BY <1>2, <1>6, <1>8, WrapFacts, SizeAssumption DEF Index
<1>10. next \in Index
  BY <1>2, <1>6, <1>9, SizeAssumption DEF Index
<1> HIDE DEF next
<1>11. /\ rest.buf = cq.buf /\ rest.head = cq.head /\ rest.tail = next /\ rest.full = cq.full
       /\ rest.overflow = cq.overflow /\ rest.empty = (cq.empty \/ (ret > 0 /\ next = cq.head))
       /\ rest \in Queue
  BY <1>2, <1>10 DEF Queue
<1>12. CASE cq.empty
  <2>1. ret = 0 /\ next = cq.tail
    BY <1>2, <1>6, <1>9, <1>12, SizeAssumption DEF Index
  <2>2. rest = cq
    BY <1>2, <1>12, <2>1 DEF Queue
  <2>3. r = cq
    BY <2>1, <2>2 DEF TakeExit
  <2>4. data = <<>>
    BY <1>7, <2>1
  <2> HIDE DEF r, data, rest
  <2> QED BY <1>1, <1>7, <1>6, <1>12, <2>3, <2>4
<1>13. CASE ~cq.empty
  <2>1. ret > 0 /\ ret \in 1..Span(cq)
    BY <1>4, <1>6, <1>13
  <2>2. /\ r.buf = cq.buf /\ r.head = cq.head /\ r.tail = next /\ r.empty = (next = cq.head)
        /\ ~r.full /\ ~r.overflow /\ r \in Queue
    <3>1. r \in Queue
      BY <1>6, <1>11, QueueTypes, ByteAssumption
    <3> HIDE DEF rest
    <3>2. /\ r.buf = rest.buf /\ r.head = rest.head /\ r.tail = rest.tail
          /\ r.empty = rest.empty
          /\ rest.full => ~r.full /\ ~r.overflow
          /\ ~rest.full => r.full = rest.full /\ r.overflow = rest.overflow
      BY <1>11, <2>1 DEF TakeExit, Queue
    <3> QED BY <1>2, <1>11, <1>13, <2>1, <3>1, <3>2 DEF Rest, Loopable
  <2> HIDE DEF r
  <2>3. Rest(r)
    BY <2>2 DEF Rest, Loopable
  <2>4. Start(r) = next
    BY <2>2 DEF Start
  <2>5. Span(r) = Span(cq) - ret
    <3>1. Span(cq) = IF cq.head > cq.tail THEN cq.head - cq.tail ELSE cq.head - cq.tail + Size
      BY <1>3, <1>13 DEF Span, Gap
    <3>2. Span(r) = IF cq.head = next THEN 0
                    ELSE IF cq.head > next THEN cq.head - next ELSE cq.head - next + Size
      BY <2>2, <2>4 DEF Span, Gap
    <3>3. /\ cq.head \in Int /\ cq.tail \in Int /\ next \in Int /\ Size \in Int /\ ret \in Int
          /\ 0 <= cq.head /\ cq.head < Size /\ 0 <= cq.tail /\ cq.tail < Size
          /\ 0 <= next /\ next < Size /\ 1 <= ret /\ ret <= Span(cq)
      BY <1>2, <1>4, <1>10, <2>1, SizeAssumption DEF Index
    <3> QED BY <1>9, <3>1, <3>2, <3>3
  <2>6. \A i \in 1..ret : data[i] = Stored(cq)[i]
    BY <1>3, <1>4, <2>1 DEF Stored, Ring
  <2>7. ASSUME NEW i \in 1..Span(r) PROVE Stored(r)[i] = Stored(cq)[i + ret]
    <3>1. i \in 1..(Span(cq) - ret) /\ ret \in 0..Span(cq)
      BY <1>4, <2>1, <2>5
    <3>2. Ring(cq.buf, Wrap(cq.tail + ret), Span(cq) - ret)[i] = Ring(cq.buf, cq.tail, Span(cq))[i + ret]
      BY <1>2, <1>4, <3>1, RingShift
    <3>3. Stored(r) = Ring(cq.buf, Wrap(cq.tail + ret), Span(cq) - ret)
      BY <2>2, <2>4, <2>5 DEF Stored, next
    <3>4. Stored(cq) = Ring(cq.buf, cq.tail, Span(cq))
      BY <1>3 DEF Stored
    <3> QED BY <3>2, <3>3, <3>4
  <2>8. r.empty => r.head = r.tail
    BY <2>2
  <2> HIDE DEF data
  <2> QED BY <1>1, <1>6, <1>7, <1>13, <2>1, <2>3, <2>5, <2>6, <2>7, <2>8
<1> QED BY <1>12, <1>13
------------------------------------------------------------------------------
(* Order between the places that hold bytes.                               *)

(* Every byte of s is numbered up to n.                                    *)
UpTo(s, n) == \A i \in 1..Len(s) : s[i] <= n

(* Every byte of s is one of t.                                            *)
Within(s, t) == \A i \in 1..Len(s) : \E j \in 1..Len(t) : s[i] = t[j]

(* Order passes to what holds fewer bytes.                                 *)
LEMMA PrecedesWithin ==
  ASSUME NEW s, NEW t, NEW s1, NEW t1, Precedes(s, t), Within(s1, s), Within(t1, t)
  PROVE  Precedes(s1, t1)
BY Zenon DEF Precedes, Within

(* A byte not above sent stays so in what holds fewer bytes.               *)
LEMMA UpToWithin ==
  ASSUME NEW s, NEW s1, NEW n, UpTo(s, n), Within(s1, s)
  PROVE  UpTo(s1, n)
BY Zenon DEF UpTo, Within

(* A stage holds its own bytes, and an empty one holds no others.          *)
LEMMA WithinSelf ==
  ASSUME NEW s
  PROVE  Within(s, s) /\ Within(<<>>, s)
BY DEF Within

(* The bytes after the first.                                              *)
LEMMA TailFacts ==
  ASSUME NEW S, NEW s \in Seq(S), s # <<>>
  PROVE  /\ Len(s) \in Nat \ {0} /\ Head(s) = s[1] /\ Head(s) \in S
         /\ Tail(s) \in Seq(S) /\ Len(Tail(s)) = Len(s) - 1
         /\ \A i \in 1..(Len(s) - 1) : Tail(s)[i] = s[i + 1]
OBVIOUS

(* An empty ring, and one after QueueClean, are at rest.                   *)
LEMMA CleanRests ==
  /\ ZeroQueue \in Queue /\ Rest(ZeroQueue) /\ Span(ZeroQueue) = 0 /\ ZeroQueue.empty
  /\ ZeroQueue.head = ZeroQueue.tail
  /\ \A cq \in Queue : LET c == QueueClean(cq) IN
       c \in Queue /\ Rest(c) /\ Span(c) = 0 /\ c.empty /\ c.head = c.tail
<1>1. 0 \in Index
  BY SizeAssumption DEF Index
<1>2. ZeroQueue \in Queue /\ \A cq \in Queue : QueueClean(cq) \in Queue
  BY <1>1, ByteAssumption DEF ZeroQueue, Queue, QueueClean
<1> QED  BY <1>2 DEF ZeroQueue, QueueClean, Rest, Loopable, Span, Start

(* A ring that spans nothing stores nothing.                               *)
LEMMA StoredNothing ==
  ASSUME NEW cq, Span(cq) = 0
  PROVE  Stored(cq) = <<>>
BY DEF Stored, Ring
==============================================================================
