---------------------------- MODULE CycleQueueOps ----------------------------
(***************************************************************************)
(* The CycleQueue structure of cycle_queue.c and the loop bodies and exits *)
(* of its three operations, as functions of the queue.                     *)
(***************************************************************************)
EXTENDS Integers, Sequences

CONSTANTS Size,     \* CycleQueue.size: 1460 for a UART, 8192 for the AT channel
          Byte      \* the byte values (uint8)

ASSUME SizeAssumption == Size \in Nat \ {0}
ASSUME ByteAssumption == 0 \in Byte

Index == 0..(Size - 1)

Queue == [buf : [Index -> Byte], head : Index, tail : Index,
          empty : BOOLEAN, full : BOOLEAN, overflow : BOOLEAN]

\* A statically initialised queue over a zeroed buffer.
ZeroQueue == [buf |-> [i \in Index |-> 0], head |-> 0, tail |-> 0,
              empty |-> TRUE, full |-> FALSE, overflow |-> FALSE]

\* Mutant: the index is allowed to reach Size.
WrapLate(i) == i % (Size + 1)

Wrap(i) == i % Size

\* The n bytes of a buffer from a place on, going round the ring.
Ring(buf, from, n) == [i \in 1..n |-> buf[Wrap(from + i - 1)]]
------------------------------------------------------------------------------
(* The code, as functions of the queue. *)

QueueClean(cq) == [buf |-> cq.buf, head |-> 0, tail |-> 0,
                   empty |-> TRUE, full |-> FALSE, overflow |-> FALSE]

\* One iteration of QueueInsert's loop.
PutByte(cq, b) ==
    LET next == Wrap(cq.head + 1)
    IN  [buf      |-> [cq.buf EXCEPT ![cq.head] = b],
         head     |-> next,
         tail     |-> cq.tail,
         empty    |-> FALSE,
         full     |-> cq.full \/ next = cq.tail,
         overflow |-> cq.overflow \/ (cq.full /\ cq.head = cq.tail)]

\* Mutant: the overrun is noted but tail stays where it was.
PutExitNoCatchUp(cq) == cq

\* QueueInsert after its loop: an overrun reader is moved up to the writer.
PutExit(cq) == IF cq.overflow THEN [cq EXCEPT !.tail = cq.head] ELSE cq

\* One iteration of QueueDelete's loop; the byte copied is cq.buf[cq.tail].
TakeByte(cq) ==
    LET next == Wrap(cq.tail + 1)
    IN  [cq EXCEPT !.tail = next, !.empty = (next = cq.head)]

\* Mutant: a queue that was full once stays marked full.
TakeExitKeepsFull(cq, ret) == cq

\* QueueDelete after its loop, having copied ret bytes.
TakeExit(cq, ret) == IF ret > 0 /\ cq.full
                     THEN [cq EXCEPT !.full = FALSE, !.overflow = FALSE]
                     ELSE cq
==============================================================================
