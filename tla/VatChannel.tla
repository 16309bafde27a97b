------------------------------ MODULE VatChannel ------------------------------
(***************************************************************************)
(* The virtual AT channel: the modem's bytes go through cust_at_message    *)
(* (called by the platform) to the custom task's queue, from there into    *)
(* the ring vatcRx_Q under hAtcReadSem, and to Lua through vatc_read under *)
(* the same semaphore.  Lua is told once per empty ring, after the         *)
(* semaphore is released.                                                  *)
(*                                                                         *)
(* Bytes are numbered in the order the modem sends them.  Lua runs the     *)
(* loop of the message sample: on a message, read to the end; a script may *)
(* also read on its own.                                                   *)
(***************************************************************************)
EXTENDS CycleQueueCalls

CONSTANTS ReadSize,   \* VATC_READ_BUF_SIZE (512)
          MaxChunk,   \* bound: bytes per cust_at_message (the modem passes at least one)
          MaxPending, \* bound: messages waiting for the custom task
          MaxBytes,   \* bound: bytes the modem ever sends
          MaxPolls    \* bound: reads Lua makes without a message

ASSUME BoundsAssumption == /\ ReadSize \in Nat \ {0}
                           /\ MaxChunk \in Nat /\ MaxPending \in Nat /\ MaxPolls \in Nat
                           /\ MaxBytes \in Nat
                           /\ 0..MaxBytes \subseteq Byte /\ Byte \subseteq Nat

VARIABLES boot,    \* how far cust_main is
          sent,    \* number of the last byte the modem sent
          custq,   \* messages for the custom task: CustMessage.data
          cpc,     \* where the custom task is
          chunk,   \* the message it handles
          need,    \* its needMsg
          holder,  \* who holds hAtcReadSem
          q,       \* vatcRx_Q
          rbuf,    \* vatc_read_buffer from its index up to its size
          msgs,    \* rx messages queued for Lua
          lpc,     \* where Lua is
          last,    \* the last byte handed to Lua
          polls,   \* reads made without a message
          garbled  \* history: a message without data was handled

vars == <<boot, sent, custq, cpc, chunk, need, holder, q, rbuf, msgs, lpc, last,
          polls, garbled>>
cust == <<cpc, chunk, need>>
luav == <<rbuf, lpc, last, polls>>

\* What a CustMessage carries.  Without memory for the data, data is NULL and
\* len is not set.
Data(bytes) == [ok |-> TRUE, bytes |-> bytes]
NoData      == [ok |-> FALSE, bytes |-> <<>>]
Nothing     == Data(<<>>)
Message     == [ok : BOOLEAN, bytes : Seq(Byte)]

Init == /\ boot = "start" /\ sent = 0 /\ custq = <<>>
        /\ cpc = "poweron" /\ chunk = Nothing /\ need = FALSE
        /\ holder = "nobody" /\ q = ZeroQueue /\ rbuf = <<>>
        /\ msgs = 0 /\ lpc = "wait" /\ last = 0 /\ polls = 0 /\ garbled = FALSE
------------------------------------------------------------------------------
(* cust_main, the modem, and cust_at_message. *)

\* platform_setup_vat_queue, then init_at.
InitAt == /\ boot = "start"
          /\ q' = QueueClean(q) /\ holder' = "nobody"
          /\ boot' = "at"
          /\ UNCHANGED <<sent, custq, cust, msgs, luav, garbled>>

\* create_task: from here g_CustTaskHandle receives messages.
CreateTasks == /\ boot = "at"
               /\ boot' = "up"
               /\ UNCHANGED <<sent, custq, cust, holder, q, msgs, luav, garbled>>

\* cust_at_message with length = n.  Without memory for the message, or
\* before the custom task exists, the data is lost; without memory for the
\* data the message goes out all the same.
AtMessage(n) ==
    /\ boot # "start" /\ sent + n <= MaxBytes /\ Len(custq) < MaxPending
    /\ sent' = sent + n
    /\ \/ UNCHANGED custq
       \/ /\ boot = "up"
          /\ custq' \in {Append(custq, m) : m \in {Data([i \in 1..n |-> sent + i]), NoData}}
    /\ UNCHANGED <<boot, cust, holder, q, msgs, luav, garbled>>
------------------------------------------------------------------------------
(* cust_task_main: its message loop, and RILAPI_ReceiveData. *)

\* cust_wait_for_poweron_reason(TRUE): messages pile up until it returns.
CustPoweron == /\ boot = "up" /\ cpc = "poweron"
               /\ cpc' = "wait"
               /\ UNCHANGED <<boot, sent, custq, chunk, need, holder, q, msgs, luav, garbled>>

CustReceive == /\ cpc = "wait" /\ custq # <<>>
               /\ chunk' = Head(custq)
               /\ custq' = Tail(custq)
               /\ cpc' = "lock"
               /\ UNCHANGED <<boot, sent, need, holder, q, msgs, luav, garbled>>

CustLock == /\ cpc = "lock" /\ holder = "nobody"
            /\ holder' = "cust"
            /\ cpc' = "insert"
            /\ UNCHANGED <<boot, sent, custq, chunk, need, q, msgs, luav, garbled>>

\* What QueueInsert copies: of a message without data, any number of bytes
\* that no modem sent.
Copied(c) == IF c.ok THEN {c.bytes} ELSE {[i \in 1..n |-> 0] : n \in 0..MaxChunk}

\* Mutant: Lua is told when the ring was not empty.
NeedMsgWrong(cq) == ~cq.empty

NeedMsg(cq) == cq.empty

CustInsert == /\ cpc = "insert"
              /\ need' = NeedMsg(q)
              /\ \E bytes \in Copied(chunk) : q' = QueueInsert(q, bytes)
              /\ garbled' = (garbled \/ ~chunk.ok)
              /\ chunk' = Nothing
              /\ cpc' = "release"
              /\ UNCHANGED <<boot, sent, custq, holder, msgs, luav>>

CustRelease == /\ cpc = "release"
               /\ holder' = "nobody"
               /\ cpc' = IF need THEN "send" ELSE "wait"
               /\ UNCHANGED <<boot, sent, custq, chunk, need, q, msgs, luav, garbled>>

CustSend == /\ cpc = "send"
            /\ msgs' = msgs + 1
            /\ cpc' = "wait"
            /\ UNCHANGED <<boot, sent, custq, chunk, need, holder, q, luav, garbled>>
------------------------------------------------------------------------------
(* Lua: the sample's loop around vatc_read. *)

LuaReceive == /\ lpc = "wait" /\ msgs > 0
              /\ msgs' = msgs - 1
              /\ lpc' = "read"
              /\ UNCHANGED <<boot, sent, custq, cust, holder, q, rbuf, last, polls, garbled>>

LuaPoll == /\ boot = "up" /\ lpc = "wait" /\ polls < MaxPolls
           /\ polls' = polls + 1
           /\ lpc' = "read"
           /\ UNCHANGED <<boot, sent, custq, cust, holder, q, rbuf, msgs, last, garbled>>

VatcBuffered == /\ lpc = "read" /\ rbuf # <<>>
                /\ last' = Head(rbuf)
                /\ rbuf' = Tail(rbuf)
                /\ UNCHANGED <<boot, sent, custq, cust, holder, q, msgs, lpc, polls, garbled>>

VatcLock == /\ lpc = "read" /\ rbuf = <<>> /\ holder = "nobody"
            /\ holder' = "lua"
            /\ lpc' = "delete"
            /\ UNCHANGED <<boot, sent, custq, cust, q, rbuf, msgs, last, polls, garbled>>

VatcDelete == /\ lpc = "delete"
              /\ LET d == Delete(q, ReadSize) IN q' = d.queue /\ rbuf' = d.data
              /\ lpc' = "release"
              /\ UNCHANGED <<boot, sent, custq, cust, holder, msgs, last, polls, garbled>>

\* Mutant: vatc_read returns without releasing the semaphore when it found
\* nothing.
VatcReleaseForgets ==
    /\ lpc = "release"
    /\ holder' = IF rbuf = <<>> THEN holder ELSE "nobody"
    /\ lpc' = IF rbuf = <<>> THEN "wait" ELSE "read"
    /\ UNCHANGED <<boot, sent, custq, cust, q, rbuf, msgs, last, polls, garbled>>

\* With nothing read, uart.read returns and Lua waits for the next message.
VatcRelease ==
    /\ lpc = "release"
    /\ holder' = "nobody"
    /\ lpc' = IF rbuf = <<>> THEN "wait" ELSE "read"
    /\ UNCHANGED <<boot, sent, custq, cust, q, rbuf, msgs, last, polls, garbled>>
------------------------------------------------------------------------------
Modem    == \E n \in 1..MaxChunk : AtMessage(n)
CustTask == CustReceive \/ CustLock \/ CustInsert \/ CustRelease \/ CustSend
LuaTask  == LuaReceive \/ VatcBuffered \/ VatcLock \/ VatcDelete \/ VatcRelease

Next == InitAt \/ CreateTasks \/ CustPoweron \/ Modem \/ CustTask \/ LuaTask \/ LuaPoll

\* The OS schedules both tasks and serves the semaphore's waiters in turn.
Spec == Init /\ [][Next]_vars /\ SF_vars(CustTask) /\ SF_vars(LuaTask)
------------------------------------------------------------------------------
\* The ring's indices and the read buffer stay within their bounds, whatever
\* the modem sends and whichever allocation fails.
TypeOK == /\ boot \in {"start", "at", "up"} /\ sent \in 0..MaxBytes
          /\ Len(custq) <= MaxPending
          /\ custq \in Seq(Message)
          /\ cpc \in {"poweron", "wait", "lock", "insert", "release", "send"}
          /\ chunk \in Message
          /\ need \in BOOLEAN /\ holder \in {"nobody", "cust", "lua"}
          /\ q \in Queue /\ rbuf \in Seq(Byte) /\ Len(rbuf) <= ReadSize
          /\ msgs \in Nat /\ lpc \in {"wait", "read", "delete", "release"}
          /\ last \in Byte /\ polls \in 0..MaxPolls /\ garbled \in BOOLEAN

\* Telling Lua once per empty ring, after the semaphore is released, loses no
\* wake-up: while Lua waits with no message queued or about to be sent, there
\* is nothing to read.
NoLostWakeup == lpc = "wait" /\ msgs = 0 /\ ~(need /\ cpc \in {"release", "send"})
                  => q.empty /\ rbuf = <<>>

\* The places a byte goes through, from Lua back to the modem.
Stage(k) == CASE k = 1 -> <<last>>
              [] k = 2 -> rbuf
              [] k = 3 -> Held(q)
              [] k = 4 -> chunk.bytes
              [] k > 4 -> custq[k - 4].bytes

\* Through the task's queue, the ring and the read buffer the modem's bytes
\* stay in order and none is repeated, until a message without data is handled.
InOrder == ~garbled =>
    \A k \in 1..(4 + Len(custq)) : /\ Increasing(Stage(k))
                                   /\ \A l \in 1..(k - 1) : Precedes(Stage(l), Stage(k))

\* Bytes the custom task's queue, the ring or the read buffer holds.
InTransit == custq # <<>> \/ ~q.empty \/ rbuf # <<>>

\* Once the custom task runs, what is in transit reaches Lua in the end (or is
\* overrun): neither task is left waiting for the semaphore, and Lua is not left
\* waiting for a message.
Drained == InTransit /\ cpc # "poweron" ~> ~InTransit
==============================================================================
