----------------------------- MODULE BoundedFifo -----------------------------
(***************************************************************************)
(* What a receive buffer of the firmware promises: a first-in first-out    *)
(* queue of at most Size bytes that, when it is full, makes room for a new *)
(* byte by forgetting the oldest one.  cycle_queue.c implements it with a  *)
(* ring and three flags; module CycleQueue is that implementation.         *)
(***************************************************************************)
EXTENDS Integers, Sequences

CONSTANTS Size,   \* capacity in bytes
          Byte    \* the byte values

VARIABLES fifo,   \* the bytes held, oldest first
          taken   \* what the current (or last) read call has handed out

vars == <<fifo, taken>>

Init == /\ fifo = <<>>
        /\ taken = <<>>

Push(b) == /\ fifo' = Append(IF Len(fifo) = Size THEN Tail(fifo) ELSE fifo, b)
           /\ UNCHANGED taken

BeginRead == /\ taken' = <<>>
             /\ UNCHANGED fifo

Pop == /\ fifo # <<>>
       /\ taken' = Append(taken, Head(fifo))
       /\ fifo' = Tail(fifo)

Flush == /\ fifo' = <<>>
         /\ UNCHANGED taken

Next == \/ \E b \in Byte : Push(b)
        \/ BeginRead
        \/ Pop
        \/ Flush

Spec == Init /\ [][Next]_vars
==============================================================================
