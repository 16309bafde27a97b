-------------------------------- MODULE UartRx --------------------------------
(***************************************************************************)
(* One physical UART of platform_uart.c: the receive interrupt, which      *)
(* fills the ring and tells the Lua task once per empty ring, against the  *)
(* Lua task, which opens, reads, clears and closes the port.               *)
(*                                                                         *)
(* Bytes are numbered in the order they arrive on the wire, so that losing,*)
(* repeating or reordering them shows.  The interrupt runs to completion;  *)
(* the Lua task can be interrupted between any two of its steps.  The port *)
(* is not the console and not the host port in mode 2, and one Lua id      *)
(* stands for it.                                                          *)
(***************************************************************************)
EXTENDS CycleQueueCalls, Functions

CONSTANTS ReadSize,   \* READ_BUFFER_SIZE (126)
          LengthMod,  \* the values of uint8 length (256, also RX_BUFFER_SIZE)
          MaxFifo,    \* bound: bytes waiting in the driver
          MaxBytes,   \* bound: bytes that ever arrive
          MaxTx       \* bound: writes with a TX_DONE report

ASSUME BoundsAssumption == /\ ReadSize \in Nat \ {0} /\ LengthMod \in Nat \ {0}
                           /\ MaxFifo \in Nat /\ MaxBytes \in Nat /\ MaxTx \in Nat
                           /\ 0..MaxBytes \subseteq Byte /\ Byte \subseteq Nat

VARIABLES drv,      \* the driver: is it open, has it a handler, rx int on
          fifo,     \* bytes received by the driver and not yet read from it
          wire,     \* number of the last byte that arrived
          q,        \* uartPhyContext.rxqueue
          rbuf,     \* the part of readbuf from readindex up to readsize
          port,     \* uartContext: opened, workmode
          msgs,     \* messages queued for the Lua task
          tx,       \* writes made, and those whose TX_DONE is outstanding
          pc,       \* where the Lua task is inside a call
          last,     \* the last byte handed to Lua
          owes,     \* Lua got an rx message and has not read to the end since
          cleared,  \* history: the last byte that had arrived when clear or close began
          newest,   \* history: the last byte put in the ring since it was reset
          torn      \* history: an interrupt inside clear found the ring full or overran it

vars == <<drv, fifo, wire, q, rbuf, port, msgs, tx, pc, last, owes,
          cleared, newest, torn>>
lua     == <<last, owes>>
history == <<cleared, newest, torn>>

\* The stores of QueueClean, in the source's order, as fields of the ring.
CleanOrder == <<"tail", "head", "empty", "full", "overflow">>
CleanValue == [tail |-> 0, head |-> 0, empty |-> TRUE, full |-> FALSE, overflow |-> FALSE]
Flags      == {"empty", "full", "overflow"}

Init == /\ drv = [open |-> FALSE, handler |-> FALSE, rxint |-> FALSE]
        /\ fifo = <<>> /\ wire = 0
        /\ q = ZeroQueue /\ rbuf = <<>>
        /\ port = [opened |-> FALSE, workmode |-> 0]
        /\ msgs = <<>> /\ tx = [made |-> 0, pending |-> 0]
        /\ pc = "ready" /\ last = 0 /\ owes = FALSE
        /\ cleared = 0 /\ newest = 0 /\ torn = FALSE
------------------------------------------------------------------------------
(* The wire and the interrupt. *)

\* A byte arrives at an open driver.
Arrive == /\ drv.open /\ Len(fifo) < MaxFifo /\ wire < MaxBytes
          /\ wire' = wire + 1
          /\ fifo' = Append(fifo, wire + 1)
          /\ UNCHANGED <<drv, q, rbuf, port, msgs, tx, pc, lua, history>>

\* Mutant: the flag is sampled after the insert, when it is never set.
NeedMsgLate(cq) == FALSE

NeedMsg(cq) == cq.empty

\* uart_message_handle on RX_DATA_IND with dataLen = n.  The number of bytes
\* read is kept in a uint8: 256 of them count as none, and are lost.  The
\* flags share a word, so an interrupt that lands inside a flag's
\* read-modify-write in QueueClean has its own flag updates undone ("lost").
RxDataInd(n, lost) ==
    LET length == n % LengthMod
        in     == QueueInsert(q, SubSeq(fifo, 1, length))
    IN  /\ drv.open /\ drv.handler /\ drv.rxint
        /\ lost => pc \in Flags
        /\ fifo' = SubSeq(fifo, n + 1, Len(fifo))
        /\ IF length = 0
           THEN UNCHANGED <<q, msgs, newest, torn>>
           ELSE /\ q' = IF lost THEN [q EXCEPT !.buf = in.buf, !.head = in.head,
                                               !.tail = in.tail]
                                ELSE in
                /\ msgs' = IF NeedMsg(q) THEN Append(msgs, "rx") ELSE msgs
                /\ newest' = fifo[length]
                /\ torn' = \/ torn
                           \/ pc \in Range(CleanOrder) /\ (q.full \/ q.overflow)
                           \/ pc \in Range(CleanOrder) \ {"tail"} /\ in.overflow
        /\ UNCHANGED <<drv, wire, rbuf, port, tx, pc, lua, cleared>>

\* uart_message_handle on TX_DONE_IND, after sendUartMessage saw the
\* transmitter empty.
TxDoneInd == /\ drv.open /\ drv.handler /\ tx.pending > 0
             /\ tx' = [tx EXCEPT !.pending = @ - 1]
             /\ msgs' = Append(msgs, "tx")
             /\ UNCHANGED <<drv, fifo, wire, q, rbuf, port, pc, lua, history>>
------------------------------------------------------------------------------
(* The Lua task. *)

\* rtos.receive takes the next message of the port.
Receive == /\ pc = "ready" /\ msgs # <<>>
           /\ msgs' = Tail(msgs)
           /\ owes' = (owes \/ Head(msgs) = "rx")
           /\ UNCHANGED <<drv, fifo, wire, q, rbuf, port, tx, pc, last, history>>

\* uart_phy_open when the parameters are accepted; in every other case it
\* changes nothing.  In mode 1 Lua polls and the driver gets no handler.
Open(mode) == /\ pc = "ready" /\ ~port.opened
              /\ drv' = [open |-> TRUE, handler |-> mode # 1, rxint |-> TRUE]
              /\ port' = [opened |-> TRUE, workmode |-> mode]
              /\ UNCHANGED <<fifo, wire, q, rbuf, msgs, tx, pc, lua, history>>

\* Mutant: what readbuf holds survives the close.
CloseKeepsReadBuf ==
    /\ pc = "ready" /\ port.opened
    /\ drv' = [open |-> FALSE, handler |-> FALSE, rxint |-> FALSE]
    /\ fifo' = <<>> /\ tx' = [tx EXCEPT !.pending = 0]
    /\ port' = [port EXCEPT !.opened = FALSE]
    /\ q' = QueueClean(q)
    /\ cleared' = wire /\ newest' = 0
    /\ UNCHANGED <<wire, rbuf, msgs, pc, lua, torn>>

\* uart_phy_close: close_uart ends the interrupts before the ring is reset.
Close == /\ pc = "ready" /\ port.opened
         /\ drv' = [open |-> FALSE, handler |-> FALSE, rxint |-> FALSE]
         /\ fifo' = <<>> /\ tx' = [tx EXCEPT !.pending = 0]
         /\ port' = [port EXCEPT !.opened = FALSE]
         /\ q' = QueueClean(q)
         /\ rbuf' = <<>>
         /\ cleared' = wire /\ newest' = 0
         /\ UNCHANGED <<wire, msgs, pc, lua, torn>>

\* uart_phy_write; with txDoneReport the driver will report the end.
Write == /\ pc = "ready" /\ port.opened /\ tx.made < MaxTx
         /\ tx' = [made |-> tx.made + 1, pending |-> tx.pending + 1]
         /\ UNCHANGED <<drv, fifo, wire, q, rbuf, port, msgs, pc, lua, history>>

\* uart_phy_clear of the receive buffer: the driver's buffer first, ...
ClearDriver == /\ pc = "ready" /\ port.opened
               /\ fifo' = <<>>
               /\ cleared' = wire
               /\ pc' = CleanOrder[1]
               /\ UNCHANGED <<drv, wire, q, rbuf, port, msgs, tx, lua, newest, torn>>

\* ... then QueueClean, a store at a time, with the interrupt enabled, ...
CleanStore == \E i \in DOMAIN CleanOrder :
    /\ pc = CleanOrder[i]
    /\ q' = [q EXCEPT ![pc] = CleanValue[pc]]
    /\ pc' = IF i < Len(CleanOrder) THEN CleanOrder[i + 1] ELSE "readbuf"
    /\ UNCHANGED <<drv, fifo, wire, rbuf, port, msgs, tx, lua, history>>

\* ... then readindex = readsize = 0.
ClearReadBuf == /\ pc = "readbuf"
                /\ rbuf' = <<>>
                /\ newest' = 0
                /\ pc' = "ready"
                /\ UNCHANGED <<drv, fifo, wire, q, port, msgs, tx, lua, cleared, torn>>
------------------------------------------------------------------------------
(* uart.read: one byte per platform_s_uart_recv. *)

\* Mode 1 reads the driver itself.
ReadPolled == /\ pc = "ready" /\ port.opened /\ port.workmode = 1 /\ fifo # <<>>
              /\ last' = Head(fifo)
              /\ fifo' = Tail(fifo)
              /\ UNCHANGED <<drv, wire, q, rbuf, port, msgs, tx, pc, owes, history>>

\* readindex < readsize: the next byte comes from readbuf.
ReadBuffered == /\ pc \in {"ready", "filled"} /\ port.opened /\ port.workmode # 1
                /\ rbuf # <<>>
                /\ last' = Head(rbuf)
                /\ rbuf' = Tail(rbuf)
                /\ pc' = "ready"
                /\ UNCHANGED <<drv, fifo, wire, q, port, msgs, tx, owes, history>>

\* Mutant: the ring is read with the receive interrupt enabled.
RefillUnmasked == /\ pc = "ready" /\ port.opened /\ port.workmode # 1 /\ rbuf = <<>>
                  /\ pc' = IF q.empty THEN "exit" ELSE "copy"
                  /\ UNCHANGED <<drv, fifo, wire, q, rbuf, port, msgs, tx, lua, history>>

\* readbuf is used up: mask the receive interrupt and enter QueueDelete.
RefillMask == /\ pc = "ready" /\ port.opened /\ port.workmode # 1 /\ rbuf = <<>>
              /\ drv' = [drv EXCEPT !.rxint = FALSE]
              /\ pc' = IF q.empty THEN "exit" ELSE "copy"
              /\ UNCHANGED <<fifo, wire, q, rbuf, port, msgs, tx, lua, history>>

\* Its loop copies a byte and advances tail, ...
RefillCopy == /\ pc = "copy"
              /\ rbuf' = Append(rbuf, q.buf[q.tail])
              /\ q' = [q EXCEPT !.tail = Wrap(@ + 1)]
              /\ pc' = "test"
              /\ UNCHANGED <<drv, fifo, wire, port, msgs, tx, lua, history>>

\* ... compares tail with head, ...
RefillTest == /\ pc = "test"
              /\ pc' = IF q.tail = q.head THEN "drained"
                       ELSE IF Len(rbuf) < ReadSize THEN "copy" ELSE "exit"
              /\ UNCHANGED <<drv, fifo, wire, q, rbuf, port, msgs, tx, lua, history>>

\* ... and marks the ring empty when they meet.
RefillDrained == /\ pc = "drained"
                 /\ q' = [q EXCEPT !.empty = TRUE]
                 /\ pc' = "exit"
                 /\ UNCHANGED <<drv, fifo, wire, rbuf, port, msgs, tx, lua, history>>

\* QueueDelete returns and the interrupt is enabled again.
RefillUnmask == /\ pc = "exit"
                /\ q' = TakeExit(q, Len(rbuf))
                /\ drv' = [drv EXCEPT !.rxint = TRUE]
                /\ pc' = "filled"
                /\ UNCHANGED <<fifo, wire, rbuf, port, msgs, tx, lua, history>>

\* QueueDelete returned 0: Lua sees the end of the data.
ReadNone == /\ pc = "filled" /\ rbuf = <<>>
            /\ owes' = FALSE
            /\ pc' = "ready"
            /\ UNCHANGED <<drv, fifo, wire, q, rbuf, port, msgs, tx, last, history>>

Next == \/ Arrive
        \/ \E n \in 1..LengthMod : n <= Len(fifo) /\ \E lost \in BOOLEAN : RxDataInd(n, lost)
        \/ TxDoneInd
        \/ Receive
        \/ \E mode \in {0, 1} : Open(mode)
        \/ Close \/ Write
        \/ ClearDriver \/ CleanStore \/ ClearReadBuf
        \/ ReadPolled \/ ReadBuffered
        \/ RefillMask \/ RefillCopy \/ RefillTest \/ RefillDrained
        \/ RefillUnmask \/ ReadNone

Spec == Init /\ [][Next]_vars
------------------------------------------------------------------------------
\* The ring's indices, the read buffer and the queues stay within their bounds
\* through interrupts, overruns and clears.
TypeOK == /\ drv \in [open : BOOLEAN, handler : BOOLEAN, rxint : BOOLEAN]
          /\ fifo \in Seq(1..MaxBytes) /\ Len(fifo) <= MaxFifo
          /\ wire \in 0..MaxBytes
          /\ q \in Queue
          /\ rbuf \in Seq(Byte) /\ Len(rbuf) <= ReadSize
          /\ port \in [opened : BOOLEAN, workmode : {0, 1}]
          /\ msgs \in Seq({"rx", "tx"})
          /\ tx \in [made : 0..MaxTx, pending : 0..MaxTx]
          /\ pc \in {"ready", "copy", "test", "drained", "exit", "filled", "readbuf"}
                    \cup Range(CleanOrder)
          /\ last \in Byte /\ owes \in BOOLEAN
          /\ cleared \in 0..MaxBytes /\ newest \in 0..MaxBytes /\ torn \in BOOLEAN

\* The one message per empty ring of uart_message_handle is enough: when no
\* rx message is queued and Lua has read to the end since the last one it
\* got, neither the ring nor readbuf holds a byte.
NoLostWakeup == ~owes /\ (\A i \in DOMAIN msgs : msgs[i] # "rx")
                  => q.empty /\ rbuf = <<>>

\* What uart.read would hand out next.
Pending == rbuf \o Held(q)

\* uart.read never hands out a byte twice or out of order: whenever Lua may
\* call it, what is pending is newer than what was read and in the order of
\* arrival, unless an interrupt inside clear met a full ring or overran it.
InOrder == pc = "ready" /\ ~torn => Increasing(<<last>> \o Pending)

\* The last byte received is never lost, even when the ring overruns: until
\* the ring is reset it is in the ring, in readbuf, or with Lua already.
NewestKept == pc = "ready" /\ ~torn /\ newest > last => newest \in Range(Pending)

\* A byte that arrived before uart.close, or before uart.clear, is not there
\* to be read afterwards, with the same exception.
NothingStale == pc = "ready" /\ ~torn => \A b \in Range(Pending) : b > cleared

\* What the clear interface is for, without the exception: a byte that arrived
\* before uart.clear is not there to be read afterwards.
ClearForgets == pc = "ready" => \A b \in Range(Pending) : b > cleared
==============================================================================
