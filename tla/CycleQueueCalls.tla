--------------------------- MODULE CycleQueueCalls ---------------------------
(***************************************************************************)
(* Whole calls of cycle_queue.c, for the places where nothing can run      *)
(* between the steps of a call.                                            *)
(***************************************************************************)
EXTENDS CycleQueueOps

\* The queue after each iteration of QueueInsert's loop.
InsertLoop(cq, bytes) ==
    LET loop[n \in 0..Len(bytes)] == IF n = 0 THEN cq ELSE PutByte(loop[n - 1], bytes[n])
    IN  loop

QueueInsert(cq, bytes) == PutExit(InsertLoop(cq, bytes)[Len(bytes)])

\* The number of bytes a ring holds when no call is under way.
Used(cq) == IF cq.empty THEN 0
            ELSE IF cq.head > cq.tail THEN cq.head - cq.tail
            ELSE cq.head - cq.tail + Size

\* These bytes, oldest first.
Held(cq) == Ring(cq.buf, cq.tail, Used(cq))

\* The loop and the exit of QueueDelete at once: the first len bytes held.
Delete(cq, len) ==
    LET ret  == IF Used(cq) < len THEN Used(cq) ELSE len
        next == Wrap(cq.tail + ret)
        rest == [cq EXCEPT !.tail = next,
                           !.empty = cq.empty \/ (ret > 0 /\ next = cq.head)]
    IN  [data |-> Ring(cq.buf, cq.tail, ret), queue |-> TakeExit(rest, ret)]

\* Where bytes are numbered in the order they arrive: s has them in this order,
\* each at most once.
Increasing(s) == \A i, j \in 1..Len(s) : i < j => s[i] < s[j]

\* Every byte of s came before every byte of t.
Precedes(s, t) == \A i \in 1..Len(s), j \in 1..Len(t) : s[i] < t[j]
==============================================================================
