----------------------------- MODULE UartPorts -----------------------------
(***************************************************************************)
(* The Lua uart ids and the ports: uartmap maps the ids to ports, and two  *)
(* of them to the same one.  The flag opened is kept per id, the driver    *)
(* and the receive buffers per port.  The ports share nothing, so that a   *)
(* behaviour is one of the ids of one port.  A call is one step; what      *)
(* happens inside a read or a clear is the matter of UartRx.  Bytes are    *)
(* only counted.                                                           *)
(***************************************************************************)
EXTENDS Naturals

CONSTANTS
    Console,   \* the id of platform_get_console_port
    NoId,      \* no handler
    RingSize,  \* UART_RX_BUF_SIZE
    ReadSize,  \* READ_BUFFER_SIZE
    MaxSent    \* rx messages of one id that wait for Lua (bounds the model)

AllIds == 0..3  \* NUM_UART ids

ASSUME NoIdAssumption == NoId \notin AllIds

ASSUME SizesAssumption ==
    RingSize \in Nat \ {0} /\ ReadSize \in Nat \ {0} /\ MaxSent \in Nat \ {0}

VARIABLES
    port,      \* the port of this behaviour
    opened,    \* uartContext[id].opened
    workmode,  \* uartContext[id].workmode: 0 message, 1 polling, 2 host
    driver,    \* the port's driver runs: config_uart came after close_uart
    handler,   \* the id whose message handler it calls
    hosted,    \* host_uart_recv is registered
    ring,      \* bytes in rxqueue
    readbuf,   \* bytes in readbuf
    sent,      \* per id: rx messages that Lua has not received
    owes,      \* ids that Lua was told about and has not read to the end
    taken,     \* history: open ids whose driver was closed through another id
    stuck      \* history: close_uart failed last

portsVars == <<port, opened, workmode, driver, handler, hosted, ring, readbuf, sent,
               owes, taken, stuck>>

\* uartmap: ids 0 and 2 are the same port
PHY_PORT(id) == IF id = 0 THEN 2 ELSE id

HostPort == 3  \* OPENAT_UART_3, the port that has a mode 2

Ids == {id \in AllIds : PHY_PORT(id) = port}

PortsTypeOK ==
    /\ port \in {PHY_PORT(id) : id \in AllIds}
    /\ opened \subseteq Ids
    /\ workmode \in [AllIds -> 0..2]
    /\ driver \in BOOLEAN
    /\ handler \in Ids \cup {NoId}
    /\ hosted \in BOOLEAN
    /\ ring \in 0..RingSize
    /\ readbuf \in 0..ReadSize
    /\ sent \in [AllIds -> 0..MaxSent]
    /\ owes \subseteq Ids
    /\ taken \subseteq Ids
    /\ stuck \in BOOLEAN

PortsInit ==
    /\ port \in {PHY_PORT(id) : id \in AllIds}
    /\ opened = {}
    /\ workmode = [id \in AllIds |-> 0]
    /\ driver = FALSE
    /\ handler = NoId
    /\ hosted = FALSE
    /\ ring = 0
    /\ readbuf = 0
    /\ sent = [id \in AllIds |-> 0]
    /\ owes = {}
    /\ taken = {}
    /\ stuck = FALSE

buffers == <<ring, readbuf>>
told == <<sent, owes>>

-----------------------------------------------------------------------------
(***************************************************************************)
(* uart.setup.  An open id is left as it is, whatever the arguments; bad   *)
(* arguments, or a driver that refuses, change nothing.                    *)
(***************************************************************************)
OpenHost(id) ==
    /\ id \notin opened
    /\ port = HostPort
    /\ hosted' = TRUE
    /\ opened' = opened \cup {id}
    /\ workmode' = [workmode EXCEPT ![id] = 2]
    /\ UNCHANGED <<port, driver, handler, buffers, told, taken, stuck>>

\* The console and an id that polls get no message handler
Handler(id, mode) == IF id = Console \/ mode = 1 THEN NoId ELSE id

OpenPhy(id, mode) ==
    /\ id \notin opened
    /\ port = HostPort => mode # 2
    /\ driver' = TRUE
    /\ handler' = Handler(id, mode)
    /\ opened' = opened \cup {id}
    /\ workmode' = [workmode EXCEPT ![id] = mode]
    /\ taken' = {}
    /\ UNCHANGED <<port, hosted, buffers, told, stuck>>

IsHost(id) == port = HostPort /\ workmode[id] = 2

\* Mutant: close does not reset the ring
CleanReadbuf == ring' = ring /\ readbuf' = 0

\* QueueClean and readindex = readsize = 0
CleanBuffers == ring' = 0 /\ readbuf' = 0

\* Mutant: close_uart is called, the id stays open
MarkClosedNot(id) == opened' = opened

\* uartContext[id].opened = FALSE
MarkClosed(id) == opened' = opened \ {id}

(***************************************************************************)
(* uart.close.  The id counts as closed even if close_uart fails.  In mode *)
(* 2 the call does nothing.                                                *)
(***************************************************************************)
Close(id) ==
    /\ id \in opened
    /\ ~IsHost(id)
    /\ MarkClosed(id)
    /\ CleanBuffers
    /\ owes' = owes \ {id}
    /\ \/ /\ driver' = FALSE
          /\ handler' = NoId
          /\ taken' = (taken \cup opened) \ {id}
          /\ stuck' = FALSE
       \/ /\ stuck' = TRUE
          /\ taken' = taken \ {id}
          /\ UNCHANGED <<driver, handler>>
    /\ UNCHANGED <<port, workmode, hosted, sent>>

\* uart.clear of the receive buffer; of the send buffer only the driver's is cleared
Clear(id) ==
    /\ id \in opened
    /\ ~IsHost(id)
    /\ CleanBuffers
    /\ owes' = owes \ {id}
    /\ UNCHANGED <<port, opened, workmode, driver, handler, hosted, sent, taken, stuck>>

Least(a, b) == IF a < b THEN a ELSE b

(***************************************************************************)
(* One byte of uart.read: from readbuf, which is first filled from the     *)
(* ring if it is used up.  Lua reads until it gets nothing.                *)
(***************************************************************************)
Read(id) ==
    /\ id \in opened
    /\ workmode[id] # 1
    /\ LET moved == IF readbuf = 0 THEN Least(ring, ReadSize) ELSE 0
           left == readbuf + moved
       IN  /\ ring' = ring - moved
           /\ readbuf' = IF left = 0 THEN 0 ELSE left - 1
           /\ owes' = IF left = 0 THEN owes \ {id} ELSE owes
    /\ UNCHANGED <<port, opened, workmode, driver, handler, hosted, sent, taken, stuck>>

\* rtos.receive takes an rx message; a read of an id that is not open gives nothing
ReceiveRx(id) ==
    /\ sent[id] > 0
    /\ sent' = [sent EXCEPT ![id] = @ - 1]
    /\ owes' = IF id \in opened THEN owes \cup {id} ELSE owes
    /\ UNCHANGED <<port, opened, workmode, driver, handler, hosted, buffers, taken, stuck>>

-----------------------------------------------------------------------------
(***************************************************************************)
(* n bytes for the ring, announced to id when it was empty.                *)
(***************************************************************************)
Store(id, n) ==
    /\ ring = 0 => sent[id] < MaxSent
    /\ ring' = Least(ring + n, RingSize)
    /\ sent' = IF ring = 0 THEN [sent EXCEPT ![id] = @ + 1] ELSE sent
    /\ UNCHANGED <<port, opened, workmode, driver, handler, hosted, readbuf, owes, taken, stuck>>

\* uart_message_handle, called by the driver
RxInd(n) == driver /\ handler # NoId /\ Store(handler, n)

\* host_uart_recv, which always speaks for id 3
HostRecv(n) == hosted /\ Store(3, n)

PortsNext ==
    \/ \E id \in Ids :
         \/ OpenHost(id) \/ Close(id) \/ Clear(id) \/ Read(id) \/ ReceiveRx(id)
         \/ \E mode \in 0..2 : OpenPhy(id, mode)
    \/ \E n \in 1..RingSize : RxInd(n) \/ HostRecv(n)

PortsSpec == PortsInit /\ [][PortsNext]_portsVars

-----------------------------------------------------------------------------
(***************************************************************************)
(* An open id has a driver, unless another id of its port closed it, and a *)
(* driver that delivers data does so for an open id, unless close_uart     *)
(* failed.  Ids 0 and 2 share a port: uart.close(0) stops id 2 silently,   *)
(* and a new uart.setup(2) returns success without starting it again.      *)
(***************************************************************************)
DriverMatches ==
    /\ \A id \in opened : IsHost(id) \/ driver \/ id \in taken
    /\ driver /\ handler # NoId => handler \in opened \/ stuck

(***************************************************************************)
(* Bytes never wait unannounced, over all ids of a port: as long as the    *)
(* ring or the read buffer holds something, a message for an open id of    *)
(* the port waits or Lua is still reading one.  A failed close_uart is the *)
(* exception: the driver goes on filling the ring of the closed id, and as *)
(* the ring is not empty, data that arrives after the next setup is never  *)
(* announced.                                                              *)
(***************************************************************************)
Announced ==
    ~stuck /\ ring + readbuf > 0 => \E id \in opened : sent[id] > 0 \/ id \in owes
=============================================================================
