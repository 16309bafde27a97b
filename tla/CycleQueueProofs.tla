--------------------------- MODULE CycleQueueProofs ---------------------------
(***************************************************************************)
(* CycleQueue for every ring size: the types, the meaning of the flags,    *)
(* and the refinement of the drop-oldest queue.                            *)
(***************************************************************************)
EXTENDS CycleQueue, CycleQueueFacts

(* Type correctness: the ring's indices never leave the buffer, whatever   *)
(* the lengths passed to QueueInsert and QueueDelete.                      *)
THEOREM TypeCorrect == Spec => []TypeOK
<1>1. Init => TypeOK
  BY SizeAssumption, ByteAssumption, MaxCallAssumption
     DEF Init, TypeOK, ZeroQueue, Queue, Index
<1>2. TypeOK /\ [Next]_vars => TypeOK'
  <2> SUFFICES ASSUME TypeOK, [Next]_vars PROVE TypeOK'
    OBVIOUS
  <2> USE MaxCallAssumption DEF TypeOK
  <2>1. CASE Clean
    BY <2>1, QueueTypes, ByteAssumption DEF Clean
  <2>2. ASSUME NEW len \in 0..MaxCall, CallInsert(len) \/ CallDelete(len) PROVE TypeOK'
    <3>1. CASE CallInsert(len)
      BY <3>1 DEF CallInsert
    <3>2. CASE CallDelete(len)
      BY <3>2 DEF CallDelete
    <3> QED BY <2>2, <3>1, <3>2
  <2>3. ASSUME NEW b \in Byte, InsertStep(b) PROVE TypeOK'
    BY <2>3, QueueTypes DEF InsertStep
  <2>4. CASE InsertReturn
    BY <2>4, QueueTypes, ByteAssumption DEF InsertReturn
  <2>5. CASE DeleteStep
    BY <2>5, QueueTypes, ByteAssumption DEF DeleteStep
  <2>6. CASE DeleteReturn
    BY <2>6, QueueTypes, ByteAssumption DEF DeleteReturn
  <2>7. CASE UNCHANGED vars
    BY <2>7 DEF vars
  <2> QED BY <2>1, <2>2, <2>3, <2>4, <2>5, <2>6, <2>7 DEF Next
<1> QED BY <1>1, <1>2, PTL DEF Spec

(* The flags inside a call: inductive relative to the types.               *)
THEOREM FlagsInductive == Spec => []FlagsInv
<1>1. Init => FlagsInv
  BY DEF Init, FlagsInv, ZeroQueue
<1>2. TypeOK /\ FlagsInv /\ [Next]_vars => FlagsInv'
  <2> SUFFICES ASSUME TypeOK, FlagsInv, [Next]_vars PROVE FlagsInv'
    OBVIOUS
  <2> USE DEF TypeOK, FlagsInv
  <2>1. CASE Clean
    BY <2>1 DEF Clean, QueueClean
  <2>2. ASSUME NEW len \in 0..MaxCall, CallInsert(len) PROVE FlagsInv'
    BY <2>2 DEF CallInsert
  <2>3. ASSUME NEW len \in 0..MaxCall, CallDelete(len) PROVE FlagsInv'
    BY <2>3 DEF CallDelete
  <2>4. ASSUME NEW b \in Byte, InsertStep(b) PROVE FlagsInv'
    BY <2>4 DEF InsertStep, PutByte
  <2>5. CASE InsertReturn
    BY <2>5 DEF InsertReturn, PutExit, Queue
  <2>6. CASE DeleteStep
    <3>1. data' # <<>>
      BY <2>6, QueueTypes, ByteAssumption DEF DeleteStep
    <3>2. /\ q'.empty = (q'.tail = q'.head)
          /\ q'.full = q.full /\ q'.overflow = q.overflow
      BY <2>6 DEF DeleteStep, TakeByte, Queue
    <3> QED BY <2>6, <3>1, <3>2 DEF DeleteStep
  <2>7. CASE DeleteReturn
    BY <2>7 DEF DeleteReturn, TakeExit, Queue
  <2>8. CASE UNCHANGED vars
    BY <2>8 DEF vars
  <2> QED BY <2>1, <2>2, <2>3, <2>4, <2>5, <2>6, <2>7, <2>8 DEF Next
<1> QED BY <1>1, <1>2, TypeCorrect, PTL DEF Spec

(* FlagsAgree for every size: full, empty and overflow mean what the       *)
(* callers of cycle_queue.c read into them.                                *)
THEOREM FlagsCorrect == Spec => []FlagsAgree
<1>1. TypeOK /\ FlagsInv => FlagsAgree
  <2> SUFFICES ASSUME TypeOK, FlagsInv, pc = "idle"
               PROVE  /\ q.full <=> Count = Size
                      /\ q.empty <=> Count = 0
                      /\ q.overflow => q.full
    BY DEF FlagsAgree
  <2>1. q.head \in Int /\ q.tail \in Int /\ q.head < Size /\ q.tail < Size
        /\ q.head >= 0 /\ q.tail >= 0
    BY SizeAssumption DEF TypeOK, Queue, Index
  <2>2. Oldest = q.tail
    BY DEF Oldest
  <2> QED BY <2>1, <2>2, SizeAssumption DEF FlagsInv, Count
<1> QED BY <1>1, TypeCorrect, FlagsInductive, PTL


------------------------------------------------------------------------------
(* Refinement. *)

(* Where the writer stands: Count bytes past the oldest one.               *)
LEMMA WriterPosition ==
  ASSUME TypeOK, FlagsInv
  PROVE  /\ Oldest \in Index /\ Count \in 0..Size
         /\ q.head = Wrap(Oldest + Count)
         /\ q.empty <=> Count = 0
<1>1. Oldest \in Index /\ q.head \in Index
  BY DEF TypeOK, Queue, Oldest
<1>2. q.empty => q.head = Oldest
  BY DEF FlagsInv, Oldest
<1>3. Count \in 0..Size /\ (q.empty <=> Count = 0)
  BY <1>1, SizeAssumption DEF Count, Index
<1>4. Oldest + Count \in 0..(2 * Size - 1)
  BY <1>1, <1>3, SizeAssumption DEF Index
<1>5. Wrap(Oldest + Count) = IF Oldest + Count < Size THEN Oldest + Count
                             ELSE Oldest + Count - Size
  BY <1>1, <1>3, <1>4, WrapFacts, SizeAssumption DEF Index
<1> QED BY <1>1, <1>2, <1>3, <1>5, SizeAssumption DEF Count, Index

(* An insert's loop body pushes the byte, dropping the oldest when full.   *)
LEMMA InsertPushes ==
  ASSUME TypeOK, FlagsInv, FlagsInv', TypeOK', NEW b \in Byte, InsertStep(b)
  PROVE  Contents' = Append(IF Count = Size THEN Tail(Contents) ELSE Contents, b)
<1> USE DEF InsertStep
<1>1. /\ q.buf \in [Index -> Byte] /\ q.head \in Index /\ q.tail \in Index
      /\ q'.buf = [q.buf EXCEPT ![q.head] = b]
      /\ q'.head = Wrap(q.head + 1) /\ q'.tail = q.tail /\ ~q'.empty
      /\ q'.overflow = (q.overflow \/ (q.full /\ q.head = q.tail))
  BY DEF TypeOK, Queue, PutByte
<1>2. CASE Count = Size
  <2>1. Oldest = q.head
    BY <1>1, <1>2, WriterPosition, WrapFacts, SizeAssumption DEF Index
  <2>2. q'.overflow
    BY <1>1, <1>2, <2>1, WriterPosition, SizeAssumption DEF FlagsInv, Oldest
  <2>3. Oldest' = Wrap(q.head + 1)
    BY <1>1, <2>2 DEF Oldest
  <2>4. Count' = Size
    BY <1>1, <2>3, StepFacts, SizeAssumption DEF Count, Index
  <2>5. Contents' = Ring(q'.buf, Oldest', Count')
    BY DEF Contents
  <2>6. Contents' = Ring([q.buf EXCEPT ![q.head] = b], Wrap(q.head + 1), Size)
    BY <1>1, <2>3, <2>4, <2>5
  <2>7. Contents = Ring(q.buf, q.head, Size)
    BY <1>2, <2>1 DEF Contents
  <2>8. Contents' = Append(Tail(Contents), b)
    BY <1>1, <2>6, <2>7, RingSlide
  <2> QED BY <1>2, <2>8
<1>3. CASE Count # Size
  <2>1. Count \in 0..(Size - 1) /\ Oldest \in Index /\ q.head = Wrap(Oldest + Count)
    BY <1>3, WriterPosition, SizeAssumption
  <2>2. ~q.overflow /\ ~(q.full /\ q.head = q.tail)
    BY <1>1, <1>3, SizeAssumption DEF FlagsInv, Count, Oldest, Index
  <2>3. Oldest = q.tail /\ Oldest' = Oldest
    BY <1>1, <2>2 DEF Oldest
  <2>4. Count' = Count + 1
    <3>1. Oldest + Count \in 0..(2 * Size - 1)
      BY <2>1, SizeAssumption DEF Index
    <3>2. q.head = IF Oldest + Count < Size THEN Oldest + Count ELSE Oldest + Count - Size
      BY <2>1, <3>1, WrapFacts, SizeAssumption DEF Index
    <3>3. q'.head = IF q.head = Size - 1 THEN 0 ELSE q.head + 1
      BY <1>1, StepFacts
    <3>4. Count' = IF q'.head > Oldest THEN q'.head - Oldest ELSE q'.head - Oldest + Size
      BY <1>1, <2>3 DEF Count
    <3> QED BY <1>1, <2>1, <3>2, <3>3, <3>4, SizeAssumption DEF Index
  <2>5. Contents' = Ring(q'.buf, Oldest', Count')
    BY DEF Contents
  <2>6. Contents' = Ring([q.buf EXCEPT ![Wrap(Oldest + Count)] = b], Oldest, Count + 1)
    BY <1>1, <2>1, <2>3, <2>4, <2>5
  <2>7. Ring([q.buf EXCEPT ![Wrap(Oldest + Count)] = b], Oldest, Count + 1)
          = Append(Ring(q.buf, Oldest, Count), b)
    <3>1. ASSUME NEW c \in [Index -> Byte], NEW f \in Index, NEW n \in 0..(Size - 1)
          PROVE  Ring([c EXCEPT ![Wrap(f + n)] = b], f, n + 1) = Append(Ring(c, f, n), b)
      BY RingAppend
    <3> QED BY ONLY <1>1, <2>1, <3>1, Zenon
  <2>8. Contents = Ring(q.buf, Oldest, Count)
    BY DEF Contents
  <2> QED BY <1>3, <2>6, <2>7, <2>8
<1> QED BY <1>2, <1>3

(* A delete's loop body pops the oldest byte into the caller's buffer.     *)
LEMMA DeletePops ==
  ASSUME TypeOK, FlagsInv, TypeOK', FlagsInv', DeleteStep
  PROVE  /\ Contents # <<>>
         /\ data' = Append(data, Head(Contents))
         /\ Contents' = Tail(Contents)
<1> USE DEF DeleteStep
<1>1. /\ q.buf \in [Index -> Byte] /\ q.head \in Index /\ q.tail \in Index
      /\ q'.buf = q.buf /\ q'.head = q.head /\ q'.tail = Wrap(q.tail + 1)
      /\ q'.empty = (q'.tail = q.head) /\ ~q.empty
  BY DEF TypeOK, Queue, TakeByte
<1>2. Oldest = q.tail /\ Oldest' = q'.tail
  BY DEF Oldest
<1>3. Count \in 1..Size
  BY <1>1, WriterPosition, SizeAssumption
<1>4. Count' = Count - 1
  <2>1. q'.tail = IF q.tail = Size - 1 THEN 0 ELSE q.tail + 1
    BY <1>1, StepFacts
  <2>2. Count = IF q.head > q.tail THEN q.head - q.tail ELSE q.head - q.tail + Size
    BY <1>1, <1>2 DEF Count
  <2>3. Count' = IF q'.tail = q.head THEN 0
                 ELSE IF q.head > q'.tail THEN q.head - q'.tail
                 ELSE q.head - q'.tail + Size
    BY <1>1, <1>2 DEF Count
  <2> QED BY <1>1, <2>1, <2>2, <2>3, SizeAssumption DEF Index
<1>5. Contents' = Tail(Contents) /\ Head(Contents) = q.buf[q.tail]
  BY <1>1, <1>2, <1>3, <1>4, RingTail DEF Contents
<1>6. Contents # <<>>
  <2>1. Len(Contents) = Count
    BY <1>1, <1>2, <1>3, RingType, SizeAssumption DEF Contents
  <2> QED BY <1>3, <2>1, SizeAssumption
<1> QED BY <1>5, <1>6

(* cycle_queue.c implements the drop-oldest queue for every size, every    *)
(* byte set and every call length: the flags, the deferred catch-up of     *)
(* tail and the early break of the delete loop are invisible to callers.   *)
THEOREM Refinement == Spec => ImplementsFifo
<1>1. Init => Fifo!Init
  <2> SUFFICES ASSUME Init PROVE Contents = <<>> /\ data = <<>>
    BY DEF Fifo!Init
  <2>1. Count = 0
    BY DEF Init, ZeroQueue, Count
  <2> QED BY <2>1 DEF Init, Contents, Ring
<1>2. ASSUME TypeOK, FlagsInv, TypeOK', FlagsInv', [Next]_vars
      PROVE  [Fifo!Next]_(Fifo!vars)
  <2> USE <1>2
  <2>1. CASE Clean
    <3>1. Count' = 0
      BY <2>1 DEF Clean, QueueClean, Count
    <3>2. Contents' = <<>>
      BY <3>1 DEF Contents, Ring
    <3> QED BY <2>1, <3>2 DEF Clean, Fifo!Next, Fifo!Flush
  <2>2. ASSUME NEW len \in 0..MaxCall, CallInsert(len) PROVE UNCHANGED Fifo!vars
    <3>1. Oldest' = Oldest
      BY <2>2 DEF CallInsert, Oldest, FlagsInv
    <3>2. Count' = Count
      BY <2>2, <3>1 DEF CallInsert, Count
    <3> QED BY <2>2, <3>1, <3>2 DEF CallInsert, Contents, Fifo!vars
  <2>3. ASSUME NEW len \in 0..MaxCall, CallDelete(len) PROVE Fifo!BeginRead
    <3>1. Oldest' = Oldest
      BY <2>3 DEF CallDelete, Oldest
    <3>2. Count' = Count
      BY <2>3, <3>1 DEF CallDelete, Count
    <3> QED BY <2>3, <3>1, <3>2 DEF CallDelete, Contents, Fifo!BeginRead
  <2>4. ASSUME NEW b \in Byte, InsertStep(b) PROVE Fifo!Push(b)
    <3>1. Len(Contents) = Count
      BY WriterPosition, RingType DEF Contents, TypeOK, Queue
    <3>2. Contents' = Append(IF Len(Contents) = Size THEN Tail(Contents) ELSE Contents, b)
      BY <2>4, <3>1, InsertPushes
    <3> QED BY <2>4, <3>2 DEF InsertStep, Fifo!Push
  <2>5. CASE InsertReturn
    <3>1. Oldest' = Oldest /\ q'.buf = q.buf /\ q'.head = q.head /\ q'.empty = q.empty
      BY <2>5 DEF InsertReturn, PutExit, Oldest, TypeOK, Queue
    <3>2. Count' = Count
      BY <3>1 DEF Count
    <3> QED BY <2>5, <3>1, <3>2 DEF InsertReturn, Contents, Fifo!vars
  <2>6. CASE DeleteStep
    BY <2>6, DeletePops DEF Fifo!Next, Fifo!Pop
  <2>7. CASE DeleteReturn
    <3>1. Oldest' = Oldest /\ q'.buf = q.buf /\ q'.head = q.head /\ q'.empty = q.empty
      BY <2>7 DEF DeleteReturn, TakeExit, Oldest, TypeOK, Queue
    <3>2. Count' = Count
      BY <3>1 DEF Count
    <3> QED BY <2>7, <3>1, <3>2 DEF DeleteReturn, Contents, Fifo!vars
  <2>8. CASE UNCHANGED vars
    BY <2>8 DEF vars, Contents, Count, Oldest, Fifo!vars
  <2> QED
    BY <2>1, <2>2, <2>3, <2>4, <2>5, <2>6, <2>7, <2>8 DEF Next, Fifo!Next
<1> QED
  BY <1>1, <1>2, TypeCorrect, FlagsInductive, PTL DEF Spec, ImplementsFifo, Fifo!Spec
==============================================================================
