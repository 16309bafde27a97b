------------------------------ MODULE CycleQueue ------------------------------
(***************************************************************************)
(* The ring buffer of cycle_queue.c, byte by byte.                         *)
(*                                                                         *)
(* Calls of QueueClean, QueueInsert and QueueDelete run one at a time,     *)
(* which is the discipline of the virtual AT channel (hAtcReadSem is held  *)
(* around every call).  Module UartRx uses the same operators where the    *)
(* discipline is weaker.                                                   *)
(***************************************************************************)
EXTENDS CycleQueueOps

CONSTANT MaxCall    \* bound: the longest len passed to one call

ASSUME MaxCallAssumption == MaxCall \in Nat

VARIABLES q,      \* the CycleQueue structure
          pc,     \* which call is in progress
          left,   \* len - ret, the bytes the call may still transfer
          data    \* QueueDelete's output buffer (ret = Len(data))

vars == <<q, pc, left, data>>
------------------------------------------------------------------------------
(* The state machine: calls run one at a time, a byte per step. *)

Init == /\ q = ZeroQueue
        /\ pc = "idle"
        /\ left = 0
        /\ data = <<>>

Clean == /\ pc = "idle"
         /\ q' = QueueClean(q)
         /\ UNCHANGED <<pc, left, data>>

CallInsert(len) == /\ pc = "idle"
                   /\ pc' = "insert"
                   /\ left' = len
                   /\ UNCHANGED <<q, data>>

InsertStep(b) == /\ pc = "insert" /\ left > 0
                 /\ q' = PutByte(q, b)
                 /\ left' = left - 1
                 /\ UNCHANGED <<pc, data>>

InsertReturn == /\ pc = "insert" /\ left = 0
                /\ q' = PutExit(q)
                /\ pc' = "idle"
                /\ UNCHANGED <<left, data>>

CallDelete(len) == /\ pc = "idle"
                   /\ pc' = "delete"
                   /\ left' = len
                   /\ data' = <<>>
                   /\ UNCHANGED q

\* The entry test on empty and the break when tail meets head are the same
\* condition: the loop goes on while there is room and the queue has a byte.
DeleteStep == /\ pc = "delete" /\ left > 0 /\ ~q.empty
              /\ data' = Append(data, q.buf[q.tail])
              /\ q' = TakeByte(q)
              /\ left' = left - 1
              /\ UNCHANGED pc

DeleteReturn == /\ pc = "delete" /\ (left = 0 \/ q.empty)
                /\ q' = TakeExit(q, Len(data))
                /\ pc' = "idle"
                /\ left' = 0
                /\ UNCHANGED data

Next == \/ Clean
        \/ \E len \in 0..MaxCall : CallInsert(len) \/ CallDelete(len)
        \/ \E b \in Byte : InsertStep(b)
        \/ InsertReturn
        \/ DeleteStep
        \/ DeleteReturn

Spec == Init /\ [][Next]_vars
------------------------------------------------------------------------------
(* What the ring holds. *)

\* Between the overrun and the end of the insert, tail is stale: the oldest
\* byte is the one the writer will overwrite next.
Oldest == IF pc = "insert" /\ q.overflow THEN q.head ELSE q.tail

Count == IF q.empty THEN 0
         ELSE IF q.head > Oldest THEN q.head - Oldest
         ELSE q.head - Oldest + Size

Contents == Ring(q.buf, Oldest, Count)

\* The abstract queue this ring is meant to be.
Fifo == INSTANCE BoundedFifo WITH fifo <- Contents, taken <- data

\* The ring, its three flags and the call state have their types.
TypeOK == /\ q \in Queue
          /\ pc \in {"idle", "insert", "delete"}
          /\ left \in 0..MaxCall
          /\ data \in Seq(Byte)

\* Between calls the flags of cycle_queue.c tell the two meanings of head =
\* tail apart: full says Size bytes are held, empty says none, never both.
FlagsAgree == pc = "idle" =>
    /\ q.full <=> Count = Size
    /\ q.empty <=> Count = 0
    /\ q.overflow => q.full

\* The strengthening that makes FlagsAgree inductive: what the flags mean
\* while a call is under way, when full and overflow may lag behind.
FlagsInv ==
    /\ q.empty => q.head = q.tail
    /\ q.overflow => q.full
    /\ pc = "idle" => (q.full <=> ~q.empty /\ q.head = q.tail)
    /\ pc = "insert" => /\ q.full <=> q.overflow \/ (~q.empty /\ q.head = q.tail)
                        /\ q.empty => ~q.overflow
    /\ pc = "delete" =>
         IF data = <<>> THEN q.full <=> ~q.empty /\ q.head = q.tail
                        ELSE ~q.empty => q.head # q.tail

\* cycle_queue.c implements the drop-oldest queue: every insert keeps the
\* last Size bytes in order, every delete hands them out oldest first, and
\* the overrun of a full ring loses exactly the oldest bytes.
ImplementsFifo == Fifo!Spec
==============================================================================
