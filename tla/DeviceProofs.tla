---------------------------- MODULE DeviceProofs ----------------------------
(***************************************************************************)
(* Proofs about the smaller parts, each on its own: rtos.receive, the ids  *)
(* of a uart, the debug port, the screen, the motion sensor.               *)
(***************************************************************************)
EXTENDS RtosReceive, Drivers, FiniteSetTheorems, TLAPS

-----------------------------------------------------------------------------
(* RtosReceive, for every number of queued messages. *)

\* Timeouts that are still to be queued
Coming == (IF firing THEN 1 ELSE 0) + (IF timer = "running" THEN 1 ELSE 0)

\* The queue has room for them
RoomInv == Len(queue) + Coming <= MaxQueue + 2

\* A blocking receive has stopped the timer, and nothing starts it again
StoppedInv == pc = "wait" /\ wait = "inf" => timer = "stopped"

ReceiveIndInv == TypeOK /\ RoomInv /\ StoppedInv /\ OnlyStaleTimeouts

\* The state after start-up satisfies the invariant
LEMMA ReceiveInitInd == Init => ReceiveIndInv
  <1> SUFFICES ASSUME Init PROVE ReceiveIndInv
    OBVIOUS
  <1>1. firing \in BOOLEAN /\ stale \in BOOLEAN
    BY Zenon DEF Init
  <1>2. queue \in Seq({"timeout", "msg"}) /\ Len(queue) = 0
    BY DEF Init
  <1>3. TypeOK
    BY <1>1, <1>2, MaxQueueAssumption DEF Init, TypeOK
  <1> QED
    BY <1>2, <1>3, MaxQueueAssumption DEF Init, ReceiveIndInv, RoomInv, Coming, StoppedInv, OnlyStaleTimeouts

\* Every step keeps the invariant
LEMMA ReceiveNextInd == ReceiveIndInv /\ [Next]_vars => ReceiveIndInv'
  <1> SUFFICES ASSUME ReceiveIndInv, [Next]_vars PROVE ReceiveIndInv'
    OBVIOUS
  <1> USE MaxQueueAssumption
  <1>1. CASE UNCHANGED vars
    BY <1>1 DEF vars, ReceiveIndInv, TypeOK, RoomInv, Coming, StoppedInv, OnlyStaleTimeouts, TimeoutComing
  <1>2. ASSUME NEW w \in {"inf", "timed"}, Call(w) PROVE ReceiveIndInv'
    <2>1. TypeOK'
      <3>1. stale' \in BOOLEAN
        BY <1>2 DEF Call, TimeoutComing, ReceiveIndInv, TypeOK
      <3> QED
        BY <1>2, <3>1 DEF Call, TimerAfterCall, ReceiveIndInv, TypeOK
    <2>2. RoomInv' /\ StoppedInv'
      BY <1>2 DEF Call, TimerAfterCall, ReceiveIndInv, TypeOK, RoomInv, Coming, StoppedInv
    <2>3. OnlyStaleTimeouts'
      BY <1>2 DEF Call, OnlyStaleTimeouts, TimeoutComing
    <2> QED
      BY <2>1, <2>2, <2>3 DEF ReceiveIndInv
  <1>3. CASE Return
    <2>1. /\ Head(queue) \in {"timeout", "msg"} /\ Tail(queue) \in Seq({"timeout", "msg"})
          /\ Len(Tail(queue)) = Len(queue) - 1
      BY <1>3 DEF Return, ReceiveIndInv, TypeOK
    <2>2. TypeOK' /\ RoomInv'
      BY <1>3, <2>1 DEF Return, ReceiveIndInv, TypeOK, RoomInv, Coming
    <2> QED
      BY <1>3, <2>2 DEF Return, ReceiveIndInv, StoppedInv, OnlyStaleTimeouts
  <1>4. CASE Expire
    BY <1>4 DEF Expire, ReceiveIndInv, TypeOK, RoomInv, Coming, StoppedInv, OnlyStaleTimeouts
  <1>5. CASE SendTimeout
    <2>1. queue' \in Seq({"timeout", "msg"}) /\ Len(queue') = Len(queue) + 1
      BY <1>5 DEF SendTimeout, ReceiveIndInv, TypeOK
    <2>2. TypeOK' /\ RoomInv' /\ StoppedInv'
      <3>1. Len(queue) \in Nat /\ Len(queue) + 1 <= MaxQueue + 2
        BY <1>5 DEF SendTimeout, ReceiveIndInv, TypeOK, RoomInv, Coming
      <3>2. RoomInv' /\ StoppedInv'
        BY <1>5, <2>1, <3>1 DEF SendTimeout, ReceiveIndInv, TypeOK, RoomInv, Coming, StoppedInv
      <3>3. firing' \in BOOLEAN
        BY <1>5, Zenon DEF SendTimeout
      <3>4. TypeOK'
        BY <1>5, <2>1, <3>1, <3>3 DEF SendTimeout, ReceiveIndInv, TypeOK
      <3> QED
        BY <3>2, <3>4
    <2>3. OnlyStaleTimeouts'
      BY <1>5 DEF SendTimeout, ReceiveIndInv, OnlyStaleTimeouts, TimeoutComing
    <2> QED
      BY <2>2, <2>3 DEF ReceiveIndInv
  <1>6. CASE Post
    <2>1. queue' \in Seq({"timeout", "msg"}) /\ Len(queue') = Len(queue) + 1
      BY <1>6 DEF Post, ReceiveIndInv, TypeOK
    <2>2. TypeOK' /\ RoomInv' /\ StoppedInv'
      BY <1>6, <2>1 DEF Post, ReceiveIndInv, TypeOK, RoomInv, Coming, StoppedInv
    <2>3. TimeoutComing' => TimeoutComing
      BY <1>6, <2>1 DEF Post, ReceiveIndInv, TypeOK, TimeoutComing
    <2>4. OnlyStaleTimeouts'
      BY <1>6, <2>3 DEF Post, ReceiveIndInv, OnlyStaleTimeouts
    <2> QED
      BY <2>2, <2>4 DEF ReceiveIndInv
  <1> QED
    BY <1>1, <1>2, <1>3, <1>4, <1>5, <1>6 DEF Next

\* The invariant holds for ever
THEOREM ReceiveInductive == Spec => []ReceiveIndInv
  BY ReceiveInitInd, ReceiveNextInd, PTL DEF Spec

\* TypeOK: however often platform_rtos_receive starts its timer, at most two
\* timeouts are queued beyond the messages of the other senders
THEOREM ReceiveTypeCorrect == Spec => []TypeOK
  <1>1. ReceiveIndInv => TypeOK
    BY DEF ReceiveIndInv
  <1> QED
    BY <1>1, ReceiveInductive, PTL

\* OnlyStaleTimeouts: a timeout in a blocking platform_rtos_receive was on its
\* way before the call
THEOREM TimeoutsAreStale == Spec => []OnlyStaleTimeouts
  <1>1. ReceiveIndInv => OnlyStaleTimeouts
    BY DEF ReceiveIndInv
  <1> QED
    BY <1>1, ReceiveInductive, PTL

-----------------------------------------------------------------------------
(* UartPorts, for every size of the ring and of the read buffer and every  *)
(* number of waiting messages.                                             *)

\* The strengthening: host_uart_recv is registered only while id 3 is open
\* in mode 2, and an id in mode 2 of the host port is never closed.
HostInv == hosted => port = HostPort /\ 3 \in opened /\ workmode[3] = 2

PortsIndInv == PortsTypeOK /\ DriverMatches /\ Announced /\ HostInv

\* The ids that share a port, and that the host port has only one
LEMMA PortFacts ==
    ASSUME PortsTypeOK
    PROVE  /\ Ids \subseteq AllIds
           /\ NoId \notin Ids
           /\ port = HostPort => Ids = {3}
  BY NoIdAssumption DEF PortsTypeOK, Ids, AllIds, PHY_PORT, HostPort

\* The state after start-up satisfies the invariant
LEMMA PortsInitInd == PortsInit => PortsIndInv
  <1> SUFFICES ASSUME PortsInit PROVE PortsIndInv
    OBVIOUS
  <1>1. workmode \in [AllIds -> 0..2] /\ sent \in [AllIds -> 0..MaxSent]
    BY SizesAssumption DEF PortsInit
  <1>2. PortsTypeOK
    <2>1. ring \in 0..RingSize /\ readbuf \in 0..ReadSize
      BY SizesAssumption DEF PortsInit
    <2>2. driver \in BOOLEAN /\ hosted \in BOOLEAN /\ stuck \in BOOLEAN
      BY Zenon DEF PortsInit
    <2>3. /\ port \in {PHY_PORT(id) : id \in AllIds}
          /\ handler \in Ids \cup {NoId}
          /\ opened \subseteq Ids /\ owes \subseteq Ids /\ taken \subseteq Ids
      BY Zenon DEF PortsInit
    <2> QED
      BY <1>1, <2>1, <2>2, <2>3, Zenon DEF PortsTypeOK
  <1>3. DriverMatches /\ HostInv
    BY DEF PortsInit, DriverMatches, HostInv
  <1>4. ring + readbuf = 0
    BY DEF PortsInit
  <1> QED
    BY <1>2, <1>3, <1>4 DEF PortsIndInv, Announced

\* uart.setup in mode 2
LEMMA OpenHostInd ==
    ASSUME PortsIndInv, NEW id \in Ids, OpenHost(id)
    PROVE  PortsIndInv'
  <1> USE PortFacts DEF PortsIndInv, OpenHost, buffers, told
  <1>1. workmode' \in [AllIds -> 0..2] /\ Ids' = Ids
    BY DEF PortsTypeOK, Ids
  <1>2. PortsTypeOK'
    BY <1>1 DEF PortsTypeOK
  <1>3. DriverMatches'
    BY <1>1 DEF DriverMatches, IsHost, PortsTypeOK
  <1>4. Announced'
    BY DEF Announced
  <1>5. HostInv'
    BY <1>1 DEF HostInv, PortsTypeOK
  <1> QED
    BY <1>2, <1>3, <1>4, <1>5

\* uart.setup in the other cases
LEMMA OpenPhyInd ==
    ASSUME PortsIndInv, NEW id \in Ids, NEW mode \in 0..2, OpenPhy(id, mode)
    PROVE  PortsIndInv'
  <1> USE PortFacts DEF PortsIndInv, OpenPhy, buffers, told
  <1>1. workmode' \in [AllIds -> 0..2] /\ Ids' = Ids
    BY DEF PortsTypeOK, Ids
  <1>2. PortsTypeOK'
    BY <1>1 DEF PortsTypeOK, Handler
  <1>3. DriverMatches'
    BY <1>1 DEF DriverMatches, Handler
  <1>4. Announced'
    BY DEF Announced
  <1>5. HostInv'
    BY <1>1 DEF HostInv, PortsTypeOK
  <1> QED
    BY <1>2, <1>3, <1>4, <1>5

\* uart.close, whether close_uart succeeds or not
LEMMA CloseInd ==
    ASSUME PortsIndInv, NEW id \in Ids, Close(id)
    PROVE  PortsIndInv'
  <1> USE PortFacts DEF PortsIndInv, Close, MarkClosed, CleanBuffers
  <1>1. Ids' = Ids
    BY DEF Ids
  <1>2. PortsTypeOK'
    <2>1. ring' \in 0..RingSize /\ readbuf' \in 0..ReadSize
      BY SizesAssumption
    <2>2. driver' \in BOOLEAN /\ handler' \in Ids \cup {NoId}
      BY DEF PortsTypeOK
    <2>3. stuck' \in BOOLEAN /\ hosted' \in BOOLEAN
      BY Zenon DEF PortsTypeOK
    <2>4. opened' \subseteq Ids /\ owes' \subseteq Ids /\ taken' \subseteq Ids
      BY DEF PortsTypeOK
    <2>5. port' = port /\ workmode' = workmode /\ sent' = sent
      OBVIOUS
    <2> QED
      BY <1>1, <2>1, <2>2, <2>3, <2>4, <2>5, Zenon DEF PortsTypeOK
  <1>3. DriverMatches'
    BY DEF DriverMatches, IsHost
  <1>4. Announced'
    BY DEF Announced
  <1>5. HostInv'
    BY DEF HostInv, IsHost, HostPort
  <1> QED
    BY <1>2, <1>3, <1>4, <1>5

\* uart.clear
LEMMA ClearInd ==
    ASSUME PortsIndInv, NEW id \in Ids, Clear(id)
    PROVE  PortsIndInv'
  <1> USE DEF PortsIndInv, Clear, CleanBuffers
  <1>1. Ids' = Ids
    BY DEF Ids
  <1>2. PortsTypeOK'
    BY <1>1, SizesAssumption DEF PortsTypeOK
  <1>3. DriverMatches' /\ HostInv'
    BY DEF DriverMatches, HostInv, IsHost
  <1>4. Announced'
    BY DEF Announced
  <1> QED
    BY <1>2, <1>3, <1>4

\* uart.read: who reads to the end has left nothing
LEMMA ReadInd ==
    ASSUME PortsIndInv, NEW id \in Ids, Read(id)
    PROVE  PortsIndInv'
  <1> USE DEF PortsIndInv, Read
  <1>1. Ids' = Ids
    BY DEF Ids
  <1>2. ring' \in 0..RingSize /\ readbuf' \in 0..ReadSize
    BY SizesAssumption DEF PortsTypeOK, Least
  <1>3. PortsTypeOK'
    BY <1>1, <1>2 DEF PortsTypeOK
  <1>4. DriverMatches' /\ HostInv'
    BY DEF DriverMatches, HostInv, IsHost
  <1>5. Announced'
    BY SizesAssumption DEF Announced, PortsTypeOK, Least
  <1> QED
    BY <1>3, <1>4, <1>5

\* rtos.receive hands the wake-up on to the script
LEMMA ReceiveInd ==
    ASSUME PortsIndInv, NEW id \in Ids, ReceiveRx(id)
    PROVE  PortsIndInv'
  <1> USE PortFacts DEF PortsIndInv, ReceiveRx, buffers
  <1>1. Ids' = Ids
    BY DEF Ids
  <1>2. sent' \in [AllIds -> 0..MaxSent]
    BY SizesAssumption DEF PortsTypeOK
  <1>3. PortsTypeOK'
    BY <1>1, <1>2 DEF PortsTypeOK
  <1>4. DriverMatches' /\ HostInv'
    BY DEF DriverMatches, HostInv, IsHost
  <1>5. Announced'
    BY DEF Announced, PortsTypeOK
  <1> QED
    BY <1>3, <1>4, <1>5

\* Both receive paths: what is announced to an open id is announced
LEMMA StoreInd ==
    ASSUME PortsIndInv, NEW n \in 1..RingSize, NEW id \in Ids, Store(id, n), id \in opened \/ stuck
    PROVE  PortsIndInv'
  <1> USE PortFacts DEF PortsIndInv, Store
  <1>1. Ids' = Ids
    BY DEF Ids
  <1>2. ring' \in 0..RingSize
    BY SizesAssumption DEF PortsTypeOK, Least
  <1>3. sent' \in [AllIds -> 0..MaxSent]
    BY SizesAssumption DEF PortsTypeOK
  <1>4. PortsTypeOK'
    BY <1>1, <1>2, <1>3 DEF PortsTypeOK
  <1>5. DriverMatches' /\ HostInv'
    BY DEF DriverMatches, HostInv, IsHost
  <1>6. Announced'
    <2> SUFFICES ASSUME ~stuck PROVE \E i \in opened : sent'[i] > 0 \/ i \in owes
      BY DEF Announced
    <2>1. CASE ring = 0
      <3>1. sent'[id] > 0
        BY <2>1, SizesAssumption DEF PortsTypeOK
      <3> QED
        BY <3>1
    <2>2. CASE ring # 0
      BY <2>2, SizesAssumption DEF Announced, PortsTypeOK
    <2> QED
      BY <2>1, <2>2
  <1> QED
    BY <1>4, <1>5, <1>6

\* Every step keeps the invariant
LEMMA PortsNextInd == PortsIndInv /\ [PortsNext]_portsVars => PortsIndInv'
  <1> SUFFICES ASSUME PortsIndInv, [PortsNext]_portsVars PROVE PortsIndInv'
    OBVIOUS
  <1>1. CASE UNCHANGED portsVars
    BY <1>1 DEF portsVars, PortsIndInv, PortsTypeOK, DriverMatches, Announced, HostInv, IsHost, Ids
  <1>2. ASSUME NEW id \in Ids,
               OpenHost(id) \/ Close(id) \/ Clear(id) \/ Read(id) \/ ReceiveRx(id)
        PROVE  PortsIndInv'
    BY <1>2, OpenHostInd, CloseInd, ClearInd, ReadInd, ReceiveInd
  <1>3. ASSUME NEW id \in Ids, NEW mode \in 0..2, OpenPhy(id, mode)
        PROVE  PortsIndInv'
    BY <1>3, OpenPhyInd
  <1>4. ASSUME NEW n \in 1..RingSize, RxInd(n)
        PROVE  PortsIndInv'
    <2>1. handler \in Ids /\ (handler \in opened \/ stuck) /\ Store(handler, n)
      BY <1>4 DEF RxInd, PortsIndInv, PortsTypeOK, DriverMatches
    <2> QED
      BY <2>1, StoreInd
  <1>5. ASSUME NEW n \in 1..RingSize, HostRecv(n)
        PROVE  PortsIndInv'
    <2>1. 3 \in Ids /\ 3 \in opened /\ Store(3, n)
      BY <1>5, PortFacts DEF HostRecv, PortsIndInv, HostInv
    <2> QED
      BY <2>1, StoreInd
  <1> QED
    BY <1>1, <1>2, <1>3, <1>4, <1>5 DEF PortsNext

\* The invariant holds for ever
THEOREM PortsInductive == PortsSpec => []PortsIndInv
  BY PortsInitInd, PortsNextInd, PTL DEF PortsSpec

\* PortsTypeOK: the rings, counters and sets of ids keep their ranges
THEOREM PortsTypeCorrect == PortsSpec => []PortsTypeOK
  <1>1. PortsIndInv => PortsTypeOK
    BY DEF PortsIndInv
  <1> QED
    BY <1>1, PortsInductive, PTL

\* DriverMatches: opened of uart_phy_open and uart_phy_close agrees with the
\* driver but for a close through the other id or one that failed
THEOREM DriversMatch == PortsSpec => []DriverMatches
  <1>1. PortsIndInv => DriverMatches
    BY DEF PortsIndInv
  <1> QED
    BY <1>1, PortsInductive, PTL

\* Announced: uart_message_handle and host_uart_recv leave no bytes of an
\* open port without a message to an open id or a script that is reading
THEOREM AllAnnounced == PortsSpec => []Announced
  <1>1. PortsIndInv => Announced
    BY DEF PortsIndInv
  <1> QED
    BY <1>1, PortsInductive, PTL

-----------------------------------------------------------------------------
(* The debug port, for every size of its buffer.  print is a loop, so the  *)
(* facts about it need an induction; the library states it for operators,  *)
(* here it is stated for sets.                                             *)

(* A set of numbers that is not empty has a least one.                     *)
LEMMA LeastNumber ==
  ASSUME NEW T \in SUBSET Nat, T # {}
  PROVE  \E x \in T : \A y \in T : x <= y
<1> DEFINE F == {0..n : n \in T}
           R == StrictSubsetOrdering(Nat)
<1>1. F \subseteq FiniteSubsetsOf(Nat)
  <2>1. ASSUME NEW n \in T PROVE 0..n \in FiniteSubsetsOf(Nat)
    BY FS_Interval DEF FiniteSubsetsOf
  <2> QED BY <2>1
<1>2. F # {}
  OBVIOUS
<1>3. IsWellFoundedOn(R, FiniteSubsetsOf(Nat))
  BY FS_StrictSubsetOrderingWellFounded
<1>4. PICK s \in F : \A t \in F : ~(<<t, s>> \in R)
  <2> HIDE DEF F, R
  <2> QED BY <1>1, <1>2, <1>3, WFMin
<1>5. PICK x \in T : s = 0..x
  OBVIOUS
<1>6. ASSUME NEW y \in T, y < x PROVE FALSE
  <2>1. <<0..y, 0..x>> \in R
    BY <1>6, x \in 0..x, x \notin 0..y DEF StrictSubsetOrdering
  <2> QED BY <2>1, <1>4, <1>5
<1>. QED
  BY <1>6

(* Induction over numbers up to m, stated for a set.                       *)
LEMMA Induction ==
  ASSUME NEW m \in Nat, NEW S, 0 \in S, \A n \in 0..(m - 1) : n \in S => n + 1 \in S
  PROVE  0..m \subseteq S
<1> DEFINE T == {n \in 0..m : n \notin S}
<1> SUFFICES ASSUME T # {} PROVE FALSE
  OBVIOUS
<1>1. PICK x \in T : \A y \in T : x <= y
  <2> T \in SUBSET Nat OBVIOUS
  <2> HIDE DEF T
  <2> QED BY LeastNumber
<1>2. x - 1 \in 0..(m - 1) /\ x - 1 \in S
  BY <1>1
<1> QED BY <1>1, <1>2

\* How far print has come
Scanning == [out : Seq(Chars), percent : BOOLEAN]
Unread == [out |-> <<>>, percent |-> FALSE]

\* f is the loop of print over the first m characters
IsScan(f, s, m) ==
    f = [i \in 0..m |-> IF i = 0 THEN Unread ELSE Scan(f[i - 1], s[i])]

(* The loop of print exists for every format.                              *)
LEMMA ScanExists ==
  ASSUME NEW s, NEW m \in Nat
  PROVE  \E f : IsScan(f, s, m)
<1> DEFINE S == {n \in 0..m : \E f : IsScan(f, s, n)}
<1>1. 0 \in S
  <2> DEFINE f == [n \in 0..0 |-> Unread]
  <2>1. IsScan(f, s, 0)
    BY DEF IsScan
  <2> HIDE DEF f
  <2> QED BY <2>1
<1>2. ASSUME NEW n \in 0..(m - 1), n \in S PROVE n + 1 \in S
  <2>1. PICK f : IsScan(f, s, n)
    BY <1>2
  <2> DEFINE g == [i \in 0..(n + 1) |-> IF i = n + 1 THEN Scan(f[n], s[n + 1]) ELSE f[i]]
  <2>2. ASSUME NEW i \in 0..(n + 1)
        PROVE  g[i] = IF i = 0 THEN Unread ELSE Scan(g[i - 1], s[i])
    <3>1. CASE i = 0
      BY <2>1, <3>1 DEF IsScan
    <3>2. CASE i = n + 1
      <4>1. g[i - 1] = f[n] /\ g[i] = Scan(f[n], s[n + 1])
        BY <3>2
      <4> HIDE DEF g
      <4> QED BY <3>2, <4>1
    <3>3. CASE i \in 1..n
      <4>1. g[i - 1] = f[i - 1] /\ g[i] = f[i]
        BY <3>3
      <4>2. f[i] = Scan(f[i - 1], s[i])
        BY <2>1, <3>3 DEF IsScan
      <4> HIDE DEF g
      <4> QED BY <3>3, <4>1, <4>2
    <3> QED BY <3>1, <3>2, <3>3
  <2>3. IsScan(g, s, n + 1)
    <3>1. g = [i \in 0..(n + 1) |-> g[i]]
      OBVIOUS
    <3> HIDE DEF g
    <3> QED BY <2>2, <3>1 DEF IsScan
  <2> HIDE DEF g
  <2>4. n + 1 \in 0..m
    OBVIOUS
  <2> QED BY <2>3, <2>4
<1>3. 0..m \subseteq S
  <2> HIDE DEF S
  <2> QED BY <1>1, <1>2, Induction
<1> QED BY <1>3

(* What the loop of print does, step by step.                              *)
LEMMA ScansDef ==
  ASSUME NEW s, Len(s) \in Nat
  PROVE  /\ Scans(s)[0] = Unread
         /\ \A i \in 1..Len(s) : Scans(s)[i] = Scan(Scans(s)[i - 1], s[i])
<1>1. Scans(s) = CHOOSE f : IsScan(f, s, Len(s))
  BY DEF Scans, IsScan, Unread
<1>2. IsScan(Scans(s), s, Len(s))
  BY <1>1, ScanExists
<1> QED BY <1>2 DEF IsScan

(* print reads from left to right: one more character is one more step     *)
(* after the same steps as before.                                         *)
LEMMA ScanAppend ==
  ASSUME NEW s \in Seq(Chars), NEW c \in Chars
  PROVE  Scans(s \o <<c>>)[Len(s \o <<c>>)] = Scan(Scans(s)[Len(s)], c)
<1> DEFINE t == s \o <<c>>
           S == {i \in 0..Len(s) : Scans(t)[i] = Scans(s)[i]}
<1>1. /\ Len(s) \in Nat /\ Len(t) = Len(s) + 1
      /\ t[Len(s) + 1] = c /\ \A i \in 1..Len(s) : t[i] = s[i]
  OBVIOUS
<1> HIDE DEF t
<1>2. /\ Scans(s)[0] = Unread
      /\ \A i \in 1..Len(s) : Scans(s)[i] = Scan(Scans(s)[i - 1], s[i])
  BY <1>1, ScansDef
<1>3. /\ Scans(t)[0] = Unread
      /\ \A i \in 1..Len(t) : Scans(t)[i] = Scan(Scans(t)[i - 1], t[i])
  BY <1>1, ScansDef
<1>4. 0 \in S
  BY <1>1, <1>2, <1>3
<1>5. ASSUME NEW n \in 0..(Len(s) - 1), n \in S PROVE n + 1 \in S
  <2>1. n + 1 \in 1..Len(s) /\ n + 1 \in 1..Len(t) /\ (n + 1) - 1 = n /\ n + 1 \in 0..Len(s)
    BY <1>1
  <2>2. Scans(t)[n] = Scans(s)[n] /\ t[n + 1] = s[n + 1]
    BY <1>1, <1>5, <2>1
  <2>3. Scans(s)[n + 1] = Scan(Scans(s)[n], s[n + 1])
    BY <1>2, <2>1
  <2>4. Scans(t)[n + 1] = Scan(Scans(t)[n], t[n + 1])
    BY <1>3, <2>1
  <2> QED BY <2>1, <2>2, <2>3, <2>4
<1>6. 0..Len(s) \subseteq S
  <2> HIDE DEF S
  <2> QED BY <1>1, <1>4, <1>5, Induction
<1>7. Scans(t)[Len(s)] = Scans(s)[Len(s)]
  BY <1>1, <1>6
<1>8. Len(t) \in 1..Len(t) /\ Len(t) - 1 = Len(s) /\ t[Len(t)] = c
  BY <1>1
<1>9. Scans(t)[Len(t)] = Scan(Scans(t)[Len(t) - 1], t[Len(t)])
  BY <1>3, <1>8
<1> QED BY <1>7, <1>8, <1>9 DEF t

\* What print would do with the buffer: every '%' in it has its second
WholeInv == Scans(cache)[Len(cache)] \in Scanning /\ ~Scans(cache)[Len(cache)].percent

DebugIndInv == DebugTypeOK /\ WholeInv /\ OutputComplete

(* An empty buffer prints nothing.                                         *)
LEMMA ScanNothing == Scans(<<>>)[Len(<<>>)] = Unread /\ Unread \in Scanning /\ ~Unread.percent
<1>1. Len(<<>>) = 0
  OBVIOUS
<1>2. Scans(<<>>)[0] = Unread
  BY <1>1, ScansDef
<1> QED BY <1>1, <1>2 DEF Unread, Scanning

(* What debugPortWrite stores for a character prints as this character,    *)
(* after a buffer in which every '%' has its second.                       *)
LEMMA ScanStored ==
  ASSUME NEW s \in Seq(Chars), NEW c \in Chars,
         Scans(s)[Len(s)] \in Scanning, ~Scans(s)[Len(s)].percent
  PROVE  LET w == IF c = Percent THEN <<c, c>> ELSE <<c>> IN
         /\ Scans(s \o w)[Len(s \o w)] \in Scanning
         /\ ~Scans(s \o w)[Len(s \o w)].percent
         /\ Formatted(s \o w) = Append(Formatted(s), c)
<1> DEFINE w == IF c = Percent THEN <<c, c>> ELSE <<c>>
           p == Scans(s)[Len(s)]
           t == s \o <<c>>
           q == Scans(t)[Len(t)]
<1>1. q = Scan(p, c)
  BY ScanAppend
<1>2. t \in Seq(Chars)
  OBVIOUS
<1>3. p \in Scanning /\ ~p.percent
  OBVIOUS
<1>4. CASE c # Percent
  <2>1. s \o w = t
    BY <1>4
  <2>2. q = [out |-> Append(p.out, c), percent |-> FALSE]
    <3> HIDE DEF p, q, t
    <3> QED BY <1>1, <1>3, <1>4 DEF Scan
  <2>3. q \in Scanning /\ ~q.percent /\ q.out = Append(p.out, c)
    <3> HIDE DEF p, q, t
    <3> QED BY <1>3, <2>2 DEF Scanning
  <2> QED BY <2>1, <2>3 DEF Formatted
<1>5. CASE c = Percent
  <2> DEFINE u == t \o <<c>>
             r == Scans(u)[Len(u)]
  <2>1. s \o w = u
    BY <1>5
  <2>2. r = Scan(q, c)
    BY <1>2, ScanAppend
  <2>3. q = [out |-> p.out, percent |-> TRUE]
    <3> HIDE DEF p, q, t
    <3> QED BY <1>1, <1>3, <1>5 DEF Scan
  <2>4. r = [out |-> Append(p.out, c), percent |-> FALSE]
    <3> HIDE DEF p, q, r, t, u
    <3> QED BY <1>5, <2>2, <2>3 DEF Scan
  <2>5. r \in Scanning /\ ~r.percent /\ r.out = Append(p.out, c)
    <3> HIDE DEF p, q, r, t, u
    <3> QED BY <1>3, <2>4 DEF Scanning
  <2> QED BY <2>1, <2>5 DEF Formatted
<1> QED BY <1>4, <1>5

(* The output buffer starts empty.                                         *)
LEMMA DebugInitInd == DebugInit => DebugIndInv
BY ScanNothing, BufAssumption
   DEF DebugInit, DebugIndInv, DebugTypeOK, WholeInv, OutputComplete, Formatted, Unread

(* A character is stored whole, behind the others or alone after a flush.  *)
LEMMA WriteCharInd ==
  ASSUME DebugIndInv, NEW c \in Chars, WriteChar(c)
  PROVE  DebugIndInv'
<1> DEFINE w == IF c = Percent THEN <<c, c>> ELSE <<c>>
<1>1. /\ cache \in Seq(Chars) /\ printed \in Seq(Chars) /\ given \in Seq(Chars)
      /\ Scans(cache)[Len(cache)] \in Scanning /\ ~Scans(cache)[Len(cache)].percent
      /\ printed \o Formatted(cache) = given /\ Len(cache) < BufSize
      /\ Formatted(cache) \in Seq(Chars)
  BY DEF DebugIndInv, DebugTypeOK, WholeInv, OutputComplete, Scanning, Formatted
<1>2. w \in Seq(Chars) /\ Len(w) \in 1..2
  OBVIOUS
<1>21. Len(w) < BufSize
  <2>1. Len(w) = 1 \/ Len(w) = 2
    BY <1>2
  <2> QED BY <2>1, BufAssumption
<1>3. given' = Append(given, c) /\ Put(w)
  BY DEF WriteChar
<1>4. given' \in Seq(Chars)
  BY <1>1, <1>3
<1> HIDE DEF w
<1>5. CASE Room(Len(w))
  <2>1. cache' = cache \o w /\ printed' = printed
    BY <1>3, <1>5 DEF Put
  <2>2. /\ Scans(cache')[Len(cache')] \in Scanning
        /\ ~Scans(cache')[Len(cache')].percent
        /\ Formatted(cache') = Append(Formatted(cache), c)
    BY <1>1, <2>1, ScanStored DEF w
  <2>3. printed' \o Formatted(cache') = given'
    BY <1>1, <1>3, <2>1, <2>2
  <2>4. cache' \in Seq(Chars) /\ Len(cache') < BufSize
    BY <1>1, <1>2, <1>5, <2>1, BufAssumption DEF Room
  <2> QED BY <1>1, <1>4, <2>1, <2>2, <2>3, <2>4
       DEF DebugIndInv, DebugTypeOK, WholeInv, OutputComplete
<1>6. CASE ~Room(Len(w))
  <2>1. cache' = w /\ printed' = printed \o Formatted(cache)
    BY <1>3, <1>6 DEF Put
  <2>2. w = <<>> \o w /\ <<>> \in Seq(Chars)
    BY <1>2
  <2>3. Formatted(<<>>) = <<>>
    BY ScanNothing DEF Formatted, Unread
  <2>4. /\ Scans(<<>> \o w)[Len(<<>> \o w)] \in Scanning
        /\ ~Scans(<<>> \o w)[Len(<<>> \o w)].percent
        /\ Formatted(<<>> \o w) = Append(Formatted(<<>>), c)
    BY <2>2, ScanNothing, ScanStored DEF w
  <2>5. /\ Scans(w)[Len(w)] \in Scanning /\ ~Scans(w)[Len(w)].percent
        /\ Formatted(w) = Append(<<>>, c)
    BY <2>2, <2>3, <2>4
  <2>6. printed' \in Seq(Chars) /\ printed' \o Formatted(w) = given'
    BY <1>1, <1>3, <2>1, <2>5
  <2> QED BY <1>2, <1>4, <2>1, <2>5, <2>6, <1>21
       DEF DebugIndInv, DebugTypeOK, WholeInv, OutputComplete
<1> QED BY <1>5, <1>6

(* Every step of the debug port keeps it.                                  *)
LEMMA DebugNextInd == DebugIndInv /\ [DebugNext]_debugVars => DebugIndInv'
<1> SUFFICES ASSUME DebugIndInv, [DebugNext]_debugVars PROVE DebugIndInv'
  OBVIOUS
<1>1. /\ printed \in Seq(Chars) /\ given \in Seq(Chars)
      /\ Formatted(cache) \in Seq(Chars) /\ printed \o Formatted(cache) = given
  BY DEF DebugIndInv, DebugTypeOK, WholeInv, OutputComplete, Scanning, Formatted
<1>2. ASSUME cache' = <<>>, printed' \in Seq(Chars), given' = printed'
      PROVE  DebugIndInv'
  <2>1. /\ Scans(cache')[Len(cache')] \in Scanning
        /\ ~Scans(cache')[Len(cache')].percent
        /\ Formatted(cache') = <<>>
    BY <1>2, ScanNothing DEF Formatted, Unread
  <2>2. cache' \in Seq(Chars) /\ Len(cache') < BufSize
    BY <1>2, BufAssumption
  <2>3. printed' \o Formatted(cache') = given'
    BY <1>2, <2>1
  <2> QED BY <1>2, <2>1, <2>2, <2>3 DEF DebugIndInv, DebugTypeOK, WholeInv, OutputComplete
<1>3. CASE WriteEnd
  <2>1. cache' = <<>> /\ printed' = printed \o Formatted(cache) /\ given' = given
    BY <1>3 DEF WriteEnd
  <2> QED BY <1>1, <1>2, <2>1
<1>4. CASE SetupDebug
  BY <1>1, <1>2, <1>4 DEF SetupDebug
<1>5. ASSUME NEW c \in Chars, WriteChar(c) PROVE DebugIndInv'
  BY <1>5, WriteCharInd
<1>6. CASE UNCHANGED debugVars
  BY <1>6 DEF debugVars, DebugIndInv, DebugTypeOK, WholeInv, OutputComplete, Formatted
<1> QED BY <1>3, <1>4, <1>5, <1>6 DEF DebugNext

(* The inductive invariant of the debug port, for every buffer of more     *)
(* than three characters.                                                  *)
THEOREM DebugInductive == DebugSpec => []DebugIndInv
BY DebugInitInd, DebugNextInd, PTL DEF DebugSpec

(* debugPortWrite and debugPortFlush keep the output whole: what was       *)
(* printed, followed by what the buffer would print, is what was written.  *)
THEOREM NothingLost == DebugSpec => []OutputComplete
<1>1. DebugIndInv => OutputComplete
  BY DEF DebugIndInv
<1> QED BY <1>1, DebugInductive, PTL

-----------------------------------------------------------------------------
(* The OSD, for every screen.  First the pins: what a frame does to a chip *)
(* at rest is what its bits say.                                           *)

Bits == 0..1
Chip == [ncs : Bits, sck : Bits, sdi : Bits, bits : Seq(Bits), auto : BOOLEAN,
         vm0 : Byte, dmah : Byte, dmal : Byte, ram : [Cells -> Byte]]
Pin == {"ncs", "sck", "sdi"} \X Bits

\* Two states of the chip with the same registers and memory
Same(c, d) == /\ d.auto = c.auto /\ d.vm0 = c.vm0 /\ d.dmah = c.dmah
              /\ d.dmal = c.dmal /\ d.ram = c.ram

\* The pins between frames
Idle(c) == c \in Chip /\ c.ncs = 1 /\ c.sck = 1 /\ c.sdi = 1 /\ c.bits = <<>>

\* f is the chip after each of the first m pins
IsDriven(f, c, pins, m) ==
    f = [i \in 0..m |-> IF i = 0 THEN c ELSE SetPin(f[i - 1], pins[i])]

(* The pins can be driven one by one.                                      *)
LEMMA DrivenExists ==
  ASSUME NEW c, NEW pins, NEW m \in Nat
  PROVE  \E f : IsDriven(f, c, pins, m)
<1> DEFINE S == {n \in 0..m : \E f : IsDriven(f, c, pins, n)}
<1>1. 0 \in S
  <2> DEFINE f == [n \in 0..0 |-> c]
  <2>1. IsDriven(f, c, pins, 0)
    BY DEF IsDriven
  <2> HIDE DEF f
  <2> QED BY <2>1
<1>2. ASSUME NEW n \in 0..(m - 1), n \in S PROVE n + 1 \in S
  <2>1. PICK f : IsDriven(f, c, pins, n)
    BY <1>2
  <2> DEFINE g == [i \in 0..(n + 1) |-> IF i = n + 1 THEN SetPin(f[n], pins[n + 1]) ELSE f[i]]
  <2>2. ASSUME NEW i \in 0..(n + 1)
        PROVE  g[i] = IF i = 0 THEN c ELSE SetPin(g[i - 1], pins[i])
    <3>1. CASE i = 0
      BY <2>1, <3>1 DEF IsDriven
    <3>2. CASE i = n + 1
      <4>1. g[i - 1] = f[n] /\ g[i] = SetPin(f[n], pins[n + 1])
        BY <3>2
      <4> HIDE DEF g
      <4> QED BY <3>2, <4>1
    <3>3. CASE i \in 1..n
      <4>1. g[i - 1] = f[i - 1] /\ g[i] = f[i]
        BY <3>3
      <4>2. f[i] = SetPin(f[i - 1], pins[i])
        BY <2>1, <3>3 DEF IsDriven
      <4> HIDE DEF g
      <4> QED BY <3>3, <4>1, <4>2
    <3> QED BY <3>1, <3>2, <3>3
  <2>3. IsDriven(g, c, pins, n + 1)
    <3>1. g = [i \in 0..(n + 1) |-> g[i]]
      OBVIOUS
    <3> HIDE DEF g
    <3> QED BY <2>2, <3>1 DEF IsDriven
  <2> HIDE DEF g
  <2>4. n + 1 \in 0..m
    OBVIOUS
  <2> QED BY <2>3, <2>4
<1>3. 0..m \subseteq S
  <2> HIDE DEF S
  <2> QED BY <1>1, <1>2, Induction
<1> QED BY <1>3

(* The chip after each pin.                                                *)
LEMMA DrivenDef ==
  ASSUME NEW c, NEW pins, Len(pins) \in Nat
  PROVE  /\ Driven(c, pins)[0] = c
         /\ \A i \in 1..Len(pins) : Driven(c, pins)[i] = SetPin(Driven(c, pins)[i - 1], pins[i])
<1>1. Driven(c, pins) = CHOOSE f : IsDriven(f, c, pins, Len(pins))
  BY DEF Driven, IsDriven
<1>2. IsDriven(Driven(c, pins), c, pins, Len(pins))
  BY <1>1, DrivenExists
<1> QED BY <1>2 DEF IsDriven

(* One pin more is one step of the chip more.                              *)
LEMMA DriveAppend ==
  ASSUME NEW c, NEW s \in Seq(Pin), NEW p \in Pin
  PROVE  Drive(c, Append(s, p)) = SetPin(Drive(c, s), p)
<1> DEFINE t == Append(s, p)
           S == {i \in 0..Len(s) : Driven(c, t)[i] = Driven(c, s)[i]}
<1>1. /\ Len(s) \in Nat /\ Len(t) = Len(s) + 1
      /\ t[Len(s) + 1] = p /\ \A i \in 1..Len(s) : t[i] = s[i]
  OBVIOUS
<1> HIDE DEF t
<1>2. /\ Driven(c, s)[0] = c
      /\ \A i \in 1..Len(s) : Driven(c, s)[i] = SetPin(Driven(c, s)[i - 1], s[i])
  BY <1>1, DrivenDef
<1>3. /\ Driven(c, t)[0] = c
      /\ \A i \in 1..Len(t) : Driven(c, t)[i] = SetPin(Driven(c, t)[i - 1], t[i])
  BY <1>1, DrivenDef
<1>4. 0 \in S
  BY <1>1, <1>2, <1>3
<1>5. ASSUME NEW n \in 0..(Len(s) - 1), n \in S PROVE n + 1 \in S
  <2>1. n + 1 \in 1..Len(s) /\ n + 1 \in 1..Len(t) /\ (n + 1) - 1 = n /\ n + 1 \in 0..Len(s)
    BY <1>1
  <2>2. Driven(c, t)[n] = Driven(c, s)[n] /\ t[n + 1] = s[n + 1]
    BY <1>1, <1>5, <2>1
  <2>3. Driven(c, s)[n + 1] = SetPin(Driven(c, s)[n], s[n + 1])
    BY <1>2, <2>1
  <2>4. Driven(c, t)[n + 1] = SetPin(Driven(c, t)[n], t[n + 1])
    BY <1>3, <2>1
  <2> QED BY <2>1, <2>2, <2>3, <2>4
<1>6. 0..Len(s) \subseteq S
  <2> HIDE DEF S
  <2> QED BY <1>1, <1>4, <1>5, Induction
<1>7. Driven(c, t)[Len(s)] = Driven(c, s)[Len(s)]
  BY <1>1, <1>6
<1>8. Len(t) \in 1..Len(t) /\ Len(t) - 1 = Len(s) /\ t[Len(t)] = p
  BY <1>1
<1>9. Driven(c, t)[Len(t)] = SetPin(Driven(c, t)[Len(t) - 1], t[Len(t)])
  BY <1>3, <1>8
<1> QED BY <1>7, <1>8, <1>9 DEF t, Drive

(* Without a pin nothing happens.                                          *)
LEMMA DriveNothing == \A c : Drive(c, <<>>) = c
<1>1. Len(<<>>) = 0
  OBVIOUS
<1> QED BY <1>1, DrivenDef DEF Drive

(* The data pin.                                                           *)
LEMMA PinSdi ==
  ASSUME NEW c \in Chip, NEW b \in Bits
  PROVE  LET d == SetPin(c, <<"sdi", b>>) IN
         /\ d \in Chip /\ Same(c, d) /\ d.ncs = c.ncs /\ d.sck = c.sck /\ d.sdi = b
         /\ d.bits = c.bits
<1>1. SetPin(c, <<"sdi", b>>) = [c EXCEPT !["sdi"] = b]
  BY DEF SetPin
<1> QED BY <1>1 DEF Chip, Same

(* The clock rises: a selected chip takes the bit.                         *)
LEMMA PinRise ==
  ASSUME NEW c \in Chip, c.sck = 0, c.ncs = 0
  PROVE  LET d == SetPin(c, <<"sck", 1>>) IN
         /\ d \in Chip /\ Same(c, d) /\ d.ncs = 0 /\ d.sck = 1 /\ d.sdi = c.sdi
         /\ d.bits = Append(c.bits, c.sdi)
<1> DEFINE e == [c EXCEPT !["sck"] = 1]
<1>1. SetPin(c, <<"sck", 1>>) = [e EXCEPT !.bits = Append(e.bits, c.sdi)]
  BY DEF SetPin
<1>2. 1 \in Bits /\ Append(c.bits, c.sdi) \in Seq(Bits)
  BY DEF Chip, Bits
<1> QED BY <1>1, <1>2 DEF Chip, Same

(* The clock falls, or rises while the chip is not selected.               *)
LEMMA PinClock ==
  ASSUME NEW c \in Chip, NEW b \in Bits, b = 0 \/ c.ncs = 1
  PROVE  LET d == SetPin(c, <<"sck", b>>) IN
         /\ d \in Chip /\ Same(c, d) /\ d.ncs = c.ncs /\ d.sck = b /\ d.sdi = c.sdi
         /\ d.bits = c.bits
<1>1. SetPin(c, <<"sck", b>>) = [c EXCEPT !["sck"] = b]
  <2>1. ~(b = 1 /\ c.ncs = 0)
    OBVIOUS
  <2> QED BY <2>1, Zenon DEF SetPin
<1> QED BY <1>1 DEF Chip, Same

(* The chip is selected: the bits it had are forgotten.                    *)
LEMMA PinSelect ==
  ASSUME NEW c \in Chip
  PROVE  LET d == SetPin(c, <<"ncs", 0>>) IN
         /\ d \in Chip /\ Same(c, d) /\ d.ncs = 0 /\ d.sck = c.sck /\ d.bits = <<>>
<1> DEFINE e == [c EXCEPT !["ncs"] = 0]
<1>1. SetPin(c, <<"ncs", 0>>) = [e EXCEPT !.bits = <<>>]
  BY DEF SetPin
<1>2. 0 \in Bits /\ <<>> \in Seq(Bits)
  BY DEF Bits
<1> QED BY <1>1, <1>2 DEF Chip, Same

(* It is deselected: it acts on the bits.                                  *)
LEMMA PinDeselect ==
  ASSUME NEW c \in Chip, c.ncs = 0
  PROVE  LET e == [c EXCEPT !["ncs"] = 1] IN
         /\ SetPin(c, <<"ncs", 1>>) = [Deselected(e) EXCEPT !.bits = <<>>]
         /\ e \in Chip /\ Same(c, e) /\ e.ncs = 1 /\ e.sck = c.sck /\ e.bits = c.bits
<1> DEFINE e == [c EXCEPT !["ncs"] = 1]
<1>1. SetPin(c, <<"ncs", 1>>) = [Deselected(e) EXCEPT !.bits = <<>>]
  BY DEF SetPin
<1>2. 1 \in Bits
  BY DEF Bits
<1> QED BY <1>1, <1>2 DEF Chip, Same

(* Concatenation is associative.                                           *)
LEMMA PinAssoc ==
  ASSUME NEW a \in Seq(Pin), NEW b \in Seq(Pin), NEW d \in Seq(Pin)
  PROVE  b \o d \in Seq(Pin) /\ a \o (b \o d) = (a \o b) \o d
OBVIOUS

\* In a frame, before a bit
Selected(c) == c \in Chip /\ c.ncs = 0 /\ c.sck = 0

(* A bit is shifted in.                                                    *)
LEMMA BitDriven ==
  ASSUME NEW c, NEW s \in Seq(Pin), NEW b \in Bits, Selected(Drive(c, s))
  PROVE  /\ s \o BitOut(b) \in Seq(Pin)
         /\ Selected(Drive(c, s \o BitOut(b)))
         /\ Same(Drive(c, s), Drive(c, s \o BitOut(b)))
         /\ Drive(c, s \o BitOut(b)).bits = Append(Drive(c, s).bits, b)
<1> DEFINE p1 == <<"sdi", b>>
           p2 == <<"sck", 1>>
           p3 == <<"sck", 0>>
           s1 == Append(s, p1)
           s2 == Append(s1, p2)
           s3 == Append(s2, p3)
           c0 == Drive(c, s)
           c1 == SetPin(c0, p1)
           c2 == SetPin(c1, p2)
           c3 == SetPin(c2, p3)
<1>1. p1 \in Pin /\ p2 \in Pin /\ p3 \in Pin
  BY DEF Pin, Bits
<1>2. s \o BitOut(b) = s3
  <2> HIDE DEF p1, p2, p3
  <2>1. BitOut(b) = <<p1, p2, p3>>
    BY DEF BitOut, p1, p2, p3
  <2>2. s \o <<p1, p2, p3>> = Append(s \o <<p1, p2>>, p3)
    BY <1>1
  <2>3. s \o <<p1, p2>> = Append(Append(s, p1), p2)
    BY <1>1
  <2> QED BY <2>1, <2>2, <2>3
<1>3. s1 \in Seq(Pin) /\ s2 \in Seq(Pin) /\ s3 \in Seq(Pin)
  <2> HIDE DEF p1, p2, p3
  <2> QED BY <1>1
<1>4. Drive(c, s1) = c1
  BY <1>1, DriveAppend
<1>5. Drive(c, s2) = c2
  <2> HIDE DEF s1, p2, c1
  <2> QED BY <1>1, <1>3, <1>4, DriveAppend DEF c2
<1>6. Drive(c, s3) = c3
  <2> HIDE DEF s2, p3, c2
  <2> QED BY <1>1, <1>3, <1>5, DriveAppend DEF c3
<1> HIDE DEF s1, s2, s3, c0
<1>7. c0 \in Chip /\ c0.ncs = 0 /\ c0.sck = 0
  BY DEF Selected, c0
<1>8. c1 \in Chip /\ Same(c0, c1) /\ c1.ncs = 0 /\ c1.sck = 0 /\ c1.sdi = b /\ c1.bits = c0.bits
  BY <1>7, PinSdi
<1> HIDE DEF c1
<1>9. c2 \in Chip /\ Same(c1, c2) /\ c2.ncs = 0 /\ c2.bits = Append(c0.bits, b)
  BY <1>8, PinRise
<1> HIDE DEF c2
<1>10. c3 \in Chip /\ Same(c2, c3) /\ c3.ncs = 0 /\ c3.sck = 0 /\ c3.bits = c2.bits
  BY <1>9, PinClock DEF Bits
<1> HIDE DEF c3
<1>11. Same(c0, c3)
  BY <1>8, <1>9, <1>10 DEF Same
<1> QED BY <1>2, <1>3, <1>6, <1>9, <1>10, <1>11 DEF Selected, c0

\* The bits of a byte, the highest first
ByteBits(v) == <<Bit(v, 7), Bit(v, 6), Bit(v, 5), Bit(v, 4), Bit(v, 3), Bit(v, 2), Bit(v, 1), Bit(v, 0)>>

(* A bit is 0 or 1.                                                        *)
LEMMA BitType == \A v \in Byte : /\ Bit(v, 0) \in Bits /\ Bit(v, 1) \in Bits /\ Bit(v, 2) \in Bits
                                 /\ Bit(v, 3) \in Bits /\ Bit(v, 4) \in Bits /\ Bit(v, 5) \in Bits
                                 /\ Bit(v, 6) \in Bits /\ Bit(v, 7) \in Bits
BY DEF Bit, Bits, Byte

(* A byte is shifted in, the highest bit first.                            *)
LEMMA ByteDriven ==
  ASSUME NEW c, NEW s \in Seq(Pin), NEW v \in Byte, Selected(Drive(c, s))
  PROVE  /\ s \o ByteOut(v) \in Seq(Pin)
         /\ Selected(Drive(c, s \o ByteOut(v)))
         /\ Same(Drive(c, s), Drive(c, s \o ByteOut(v)))
         /\ Drive(c, s \o ByteOut(v)).bits = Drive(c, s).bits \o ByteBits(v)
<1> DEFINE b7 == Bit(v, 7)
           b6 == Bit(v, 6)
           b5 == Bit(v, 5)
           b4 == Bit(v, 4)
           b3 == Bit(v, 3)
           b2 == Bit(v, 2)
           b1 == Bit(v, 1)
           b0 == Bit(v, 0)
           o7 == BitOut(b7)
           o6 == o7 \o BitOut(b6)
           o5 == o6 \o BitOut(b5)
           o4 == o5 \o BitOut(b4)
           o3 == o4 \o BitOut(b3)
           o2 == o3 \o BitOut(b2)
           o1 == o2 \o BitOut(b1)
           o0 == o1 \o BitOut(b0)
           B == Drive(c, s).bits
<1>0. /\ b7 \in Bits /\ b6 \in Bits /\ b5 \in Bits /\ b4 \in Bits
      /\ b3 \in Bits /\ b2 \in Bits /\ b1 \in Bits /\ b0 \in Bits
  BY BitType
<1>12. ByteOut(v) = o0 /\ ByteBits(v) = <<b7, b6, b5, b4, b3, b2, b1, b0>>
  BY DEF ByteOut, ByteBits
<1> HIDE DEF b7, b6, b5, b4, b3, b2, b1, b0
<1>1. B \in Seq(Bits)
  BY DEF Selected, Chip
<1>2. ASSUME NEW b \in Bits PROVE BitOut(b) \in Seq(Pin)
  BY DEF BitOut, Pin, Bits
<1>3. /\ o7 \in Seq(Pin) /\ s \o o7 \in Seq(Pin) /\ Selected(Drive(c, s \o o7))
      /\ Same(Drive(c, s), Drive(c, s \o o7)) /\ Drive(c, s \o o7).bits = Append(B, b7)
  BY <1>0, <1>2, BitDriven
<1> HIDE DEF o7, o6, o5, o4, o3, o2, o1, o0, B
<1>4. Drive(c, s \o o7).bits = B \o <<b7>>
  <2>1. Append(B, b7) = B \o <<b7>>
    BY <1>0, <1>1
  <2> QED BY <1>3, <2>1
<1>5. /\ o6 \in Seq(Pin) /\ s \o o6 \in Seq(Pin) /\ Selected(Drive(c, s \o o6))
      /\ Same(Drive(c, s), Drive(c, s \o o6)) /\ Drive(c, s \o o6).bits = B \o <<b7, b6>>
  <2> DEFINE p == s \o o7
  <2>1. o6 \in Seq(Pin) /\ s \o o6 = p \o BitOut(b6)
    <3>1. BitOut(b6) \in Seq(Pin)
      BY <1>0, <1>2
    <3>2. o7 \in Seq(Pin)
      BY <1>3, <1>4
    <3> QED BY <3>1, <3>2, PinAssoc DEF o6
  <2>2. p \in Seq(Pin) /\ Selected(Drive(c, p)) /\ Same(Drive(c, s), Drive(c, p))
    BY <1>3, <1>4
  <2> HIDE DEF p
  <2>3. /\ p \o BitOut(b6) \in Seq(Pin) /\ Selected(Drive(c, p \o BitOut(b6)))
        /\ Same(Drive(c, p), Drive(c, p \o BitOut(b6)))
        /\ Drive(c, p \o BitOut(b6)).bits = Append(Drive(c, p).bits, b6)
    BY <1>0, <2>2, BitDriven
  <2>4. Same(Drive(c, s), Drive(c, s \o o6))
    BY <2>1, <2>2, <2>3 DEF Same
  <2>5. Append(B \o <<b7>>, b6) = B \o <<b7, b6>>
    BY <1>0, <1>1
  <2> QED BY <1>3, <1>4, <2>1, <2>3, <2>4, <2>5 DEF p
<1>6. /\ o5 \in Seq(Pin) /\ s \o o5 \in Seq(Pin) /\ Selected(Drive(c, s \o o5))
      /\ Same(Drive(c, s), Drive(c, s \o o5)) /\ Drive(c, s \o o5).bits = B \o <<b7, b6, b5>>
  <2> DEFINE p == s \o o6
  <2>1. o5 \in Seq(Pin) /\ s \o o5 = p \o BitOut(b5)
    <3>1. BitOut(b5) \in Seq(Pin)
      BY <1>0, <1>2
    <3>2. o6 \in Seq(Pin)
      BY <1>5
    <3> QED BY <3>1, <3>2, PinAssoc DEF o5
  <2>2. p \in Seq(Pin) /\ Selected(Drive(c, p)) /\ Same(Drive(c, s), Drive(c, p))
    BY <1>5
  <2> HIDE DEF p
  <2>3. /\ p \o BitOut(b5) \in Seq(Pin) /\ Selected(Drive(c, p \o BitOut(b5)))
        /\ Same(Drive(c, p), Drive(c, p \o BitOut(b5)))
        /\ Drive(c, p \o BitOut(b5)).bits = Append(Drive(c, p).bits, b5)
    BY <1>0, <2>2, BitDriven
  <2>4. Same(Drive(c, s), Drive(c, s \o o5))
    BY <2>1, <2>2, <2>3 DEF Same
  <2>5. Append(B \o <<b7, b6>>, b5) = B \o <<b7, b6, b5>>
    BY <1>0, <1>1
  <2> QED BY <1>5, <2>1, <2>3, <2>4, <2>5 DEF p
<1>7. /\ o4 \in Seq(Pin) /\ s \o o4 \in Seq(Pin) /\ Selected(Drive(c, s \o o4))
      /\ Same(Drive(c, s), Drive(c, s \o o4)) /\ Drive(c, s \o o4).bits = B \o <<b7, b6, b5, b4>>
  <2> DEFINE p == s \o o5
  <2>1. o4 \in Seq(Pin) /\ s \o o4 = p \o BitOut(b4)
    <3>1. BitOut(b4) \in Seq(Pin)
      BY <1>0, <1>2
    <3>2. o5 \in Seq(Pin)
      BY <1>6
    <3> QED BY <3>1, <3>2, PinAssoc DEF o4
  <2>2. p \in Seq(Pin) /\ Selected(Drive(c, p)) /\ Same(Drive(c, s), Drive(c, p))
    BY <1>6
  <2> HIDE DEF p
  <2>3. /\ p \o BitOut(b4) \in Seq(Pin) /\ Selected(Drive(c, p \o BitOut(b4)))
        /\ Same(Drive(c, p), Drive(c, p \o BitOut(b4)))
        /\ Drive(c, p \o BitOut(b4)).bits = Append(Drive(c, p).bits, b4)
    BY <1>0, <2>2, BitDriven
  <2>4. Same(Drive(c, s), Drive(c, s \o o4))
    BY <2>1, <2>2, <2>3 DEF Same
  <2>5. Append(B \o <<b7, b6, b5>>, b4) = B \o <<b7, b6, b5, b4>>
    BY <1>0, <1>1
  <2> QED BY <1>6, <2>1, <2>3, <2>4, <2>5 DEF p
<1>8. /\ o3 \in Seq(Pin) /\ s \o o3 \in Seq(Pin) /\ Selected(Drive(c, s \o o3))
      /\ Same(Drive(c, s), Drive(c, s \o o3)) /\ Drive(c, s \o o3).bits = B \o <<b7, b6, b5, b4, b3>>
  <2> DEFINE p == s \o o4
  <2>1. o3 \in Seq(Pin) /\ s \o o3 = p \o BitOut(b3)
    <3>1. BitOut(b3) \in Seq(Pin)
      BY <1>0, <1>2
    <3>2. o4 \in Seq(Pin)
      BY <1>7
    <3> QED BY <3>1, <3>2, PinAssoc DEF o3
  <2>2. p \in Seq(Pin) /\ Selected(Drive(c, p)) /\ Same(Drive(c, s), Drive(c, p))
    BY <1>7
  <2> HIDE DEF p
  <2>3. /\ p \o BitOut(b3) \in Seq(Pin) /\ Selected(Drive(c, p \o BitOut(b3)))
        /\ Same(Drive(c, p), Drive(c, p \o BitOut(b3)))
        /\ Drive(c, p \o BitOut(b3)).bits = Append(Drive(c, p).bits, b3)
    BY <1>0, <2>2, BitDriven
  <2>4. Same(Drive(c, s), Drive(c, s \o o3))
    BY <2>1, <2>2, <2>3 DEF Same
  <2>5. Append(B \o <<b7, b6, b5, b4>>, b3) = B \o <<b7, b6, b5, b4, b3>>
    BY <1>0, <1>1
  <2> QED BY <1>7, <2>1, <2>3, <2>4, <2>5 DEF p
<1>9. /\ o2 \in Seq(Pin) /\ s \o o2 \in Seq(Pin) /\ Selected(Drive(c, s \o o2))
      /\ Same(Drive(c, s), Drive(c, s \o o2)) /\ Drive(c, s \o o2).bits = B \o <<b7, b6, b5, b4, b3, b2>>
  <2> DEFINE p == s \o o3
  <2>1. o2 \in Seq(Pin) /\ s \o o2 = p \o BitOut(b2)
    <3>1. BitOut(b2) \in Seq(Pin)
      BY <1>0, <1>2
    <3>2. o3 \in Seq(Pin)
      BY <1>8
    <3> QED BY <3>1, <3>2, PinAssoc DEF o2
  <2>2. p \in Seq(Pin) /\ Selected(Drive(c, p)) /\ Same(Drive(c, s), Drive(c, p))
    BY <1>8
  <2> HIDE DEF p
  <2>3. /\ p \o BitOut(b2) \in Seq(Pin) /\ Selected(Drive(c, p \o BitOut(b2)))
        /\ Same(Drive(c, p), Drive(c, p \o BitOut(b2)))
        /\ Drive(c, p \o BitOut(b2)).bits = Append(Drive(c, p).bits, b2)
    BY <1>0, <2>2, BitDriven
  <2>4. Same(Drive(c, s), Drive(c, s \o o2))
    BY <2>1, <2>2, <2>3 DEF Same
  <2>5. Append(B \o <<b7, b6, b5, b4, b3>>, b2) = B \o <<b7, b6, b5, b4, b3, b2>>
    BY <1>0, <1>1
  <2> QED BY <1>8, <2>1, <2>3, <2>4, <2>5 DEF p
<1>10. /\ o1 \in Seq(Pin) /\ s \o o1 \in Seq(Pin) /\ Selected(Drive(c, s \o o1))
      /\ Same(Drive(c, s), Drive(c, s \o o1)) /\ Drive(c, s \o o1).bits = B \o <<b7, b6, b5, b4, b3, b2, b1>>
  <2> DEFINE p == s \o o2
  <2>1. o1 \in Seq(Pin) /\ s \o o1 = p \o BitOut(b1)
    <3>1. BitOut(b1) \in Seq(Pin)
      BY <1>0, <1>2
    <3>2. o2 \in Seq(Pin)
      BY <1>9
    <3> QED BY <3>1, <3>2, PinAssoc DEF o1
  <2>2. p \in Seq(Pin) /\ Selected(Drive(c, p)) /\ Same(Drive(c, s), Drive(c, p))
    BY <1>9
  <2> HIDE DEF p
  <2>3. /\ p \o BitOut(b1) \in Seq(Pin) /\ Selected(Drive(c, p \o BitOut(b1)))
        /\ Same(Drive(c, p), Drive(c, p \o BitOut(b1)))
        /\ Drive(c, p \o BitOut(b1)).bits = Append(Drive(c, p).bits, b1)
    BY <1>0, <2>2, BitDriven
  <2>4. Same(Drive(c, s), Drive(c, s \o o1))
    BY <2>1, <2>2, <2>3 DEF Same
  <2>5. Append(B \o <<b7, b6, b5, b4, b3, b2>>, b1) = B \o <<b7, b6, b5, b4, b3, b2, b1>>
    BY <1>0, <1>1
  <2> QED BY <1>9, <2>1, <2>3, <2>4, <2>5 DEF p
<1>11. /\ o0 \in Seq(Pin) /\ s \o o0 \in Seq(Pin) /\ Selected(Drive(c, s \o o0))
      /\ Same(Drive(c, s), Drive(c, s \o o0)) /\ Drive(c, s \o o0).bits = B \o <<b7, b6, b5, b4, b3, b2, b1, b0>>
  <2> DEFINE p == s \o o1
  <2>1. o0 \in Seq(Pin) /\ s \o o0 = p \o BitOut(b0)
    <3>1. BitOut(b0) \in Seq(Pin)
      BY <1>0, <1>2
    <3>2. o1 \in Seq(Pin)
      BY <1>10
    <3> QED BY <3>1, <3>2, PinAssoc DEF o0
  <2>2. p \in Seq(Pin) /\ Selected(Drive(c, p)) /\ Same(Drive(c, s), Drive(c, p))
    BY <1>10
  <2> HIDE DEF p
  <2>3. /\ p \o BitOut(b0) \in Seq(Pin) /\ Selected(Drive(c, p \o BitOut(b0)))
        /\ Same(Drive(c, p), Drive(c, p \o BitOut(b0)))
        /\ Drive(c, p \o BitOut(b0)).bits = Append(Drive(c, p).bits, b0)
    BY <1>0, <2>2, BitDriven
  <2>4. Same(Drive(c, s), Drive(c, s \o o0))
    BY <2>1, <2>2, <2>3 DEF Same
  <2>5. Append(B \o <<b7, b6, b5, b4, b3, b2, b1>>, b0) = B \o <<b7, b6, b5, b4, b3, b2, b1, b0>>
    BY <1>0, <1>1
  <2> QED BY <1>10, <2>1, <2>3, <2>4, <2>5 DEF p
<1> QED BY <1>11, <1>12 DEF B

(* The bits of a byte make up the byte.                                    *)
LEMMA ByteValue ==
  \A v \in Byte : 128 * Bit(v, 7) + 64 * Bit(v, 6) + 32 * Bit(v, 5) + 16 * Bit(v, 4)
                    + 8 * Bit(v, 3) + 4 * Bit(v, 2) + 2 * Bit(v, 1) + Bit(v, 0) = v
BY DEF Bit, Byte

(* Eight bits shifted in have their value.                                 *)
LEMMA EightBits ==
  ASSUME NEW v \in Byte
  PROVE  /\ <<>> \o ByteBits(v) \in Seq(Bits) /\ Len(<<>> \o ByteBits(v)) = 8
         /\ Value(<<>> \o ByteBits(v), 1) = v
<1>1. <<>> \o ByteBits(v) = ByteBits(v) /\ ByteBits(v) \in Seq(Bits) /\ Len(ByteBits(v)) = 8
  BY BitType DEF ByteBits
<1>2. Value(ByteBits(v), 1) = v
  BY ByteValue DEF Value, ByteBits
<1> QED BY <1>1, <1>2

(* Sixteen bits are two bytes.                                             *)
LEMMA SixteenBits ==
  ASSUME NEW r \in Byte, NEW v \in Byte
  PROVE  LET b == (<<>> \o ByteBits(r)) \o ByteBits(v) IN
         b \in Seq(Bits) /\ Len(b) = 16 /\ Value(b, 1) = r /\ Value(b, 9) = v
<1> DEFINE x == ByteBits(r)
           y == ByteBits(v)
           b == x \o y
<1>1. /\ <<>> \o x = x /\ x \in Seq(Bits) /\ Len(x) = 8
      /\ y \in Seq(Bits) /\ Len(y) = 8
  BY BitType DEF ByteBits
<1>2. Value(x, 1) = r /\ Value(y, 1) = v
  BY ByteValue DEF Value, ByteBits
<1> HIDE DEF x, y
<1>3. /\ b \in Seq(Bits) /\ Len(b) = Len(x) + Len(y)
      /\ \A i \in 1..Len(x) : b[i] = x[i]
      /\ \A i \in 1..Len(y) : b[Len(x) + i] = y[i]
  <2>1. x \in Seq(Bits) /\ y \in Seq(Bits)
    BY <1>1
  <2> QED BY <2>1
<1> HIDE DEF b
<1>4. /\ b[1] = x[1] /\ b[2] = x[2] /\ b[3] = x[3] /\ b[4] = x[4]
      /\ b[5] = x[5] /\ b[6] = x[6] /\ b[7] = x[7] /\ b[8] = x[8]
  BY <1>1, <1>3
<1>5. /\ b[9] = y[1] /\ b[10] = y[2] /\ b[11] = y[3] /\ b[12] = y[4]
      /\ b[13] = y[5] /\ b[14] = y[6] /\ b[15] = y[7] /\ b[16] = y[8]
  <2>1. \A i \in 1..8 : b[8 + i] = y[i]
    BY <1>1, <1>3
  <2> QED BY <2>1
<1>6. Value(b, 1) = Value(x, 1) /\ Value(b, 9) = Value(y, 1)
  BY <1>4, <1>5 DEF Value
<1>7. Len(b) = 16
  BY <1>1, <1>3
<1> QED BY <1>1, <1>2, <1>3, <1>6, <1>7 DEF b, x, y

(* A register is written, whatever the pins are.                           *)
LEMMA RegisterFacts ==
  ASSUME NEW c \in Chip, NEW d \in Chip, Same(c, d), NEW r \in Byte, NEW v \in Byte
  PROVE  LET g == Register(d, r, v) IN
         /\ g \in Chip /\ Same(Register(c, r, v), g)
         /\ g.ncs = d.ncs /\ g.sck = d.sck /\ g.sdi = d.sdi /\ g.bits = d.bits
<1>1. CASE r = VM0
  <2>1. \A e : Register(e, r, v) = [e EXCEPT !.vm0 = v]
    BY <1>1 DEF Register, VM0, DMM, DMAH, DMAL
  <2>2. Register(c, r, v) = [c EXCEPT !.vm0 = v] /\ Register(d, r, v) = [d EXCEPT !.vm0 = v]
    BY <2>1
  <2> QED BY <2>2 DEF Chip, Same
<1>2. CASE r = DMM
  <2>1. \A e : Register(e, r, v) = [e EXCEPT !.auto = (Bit(v, 0) = 1)]
    BY <1>2 DEF Register, VM0, DMM, DMAH, DMAL
  <2>2. Register(c, r, v) = [c EXCEPT !.auto = (Bit(v, 0) = 1)] /\ Register(d, r, v) = [d EXCEPT !.auto = (Bit(v, 0) = 1)]
    BY <2>1
  <2> QED BY <2>2 DEF Chip, Same
<1>3. CASE r = DMAH
  <2>1. \A e : Register(e, r, v) = [e EXCEPT !.dmah = v]
    BY <1>3 DEF Register, VM0, DMM, DMAH, DMAL
  <2>2. Register(c, r, v) = [c EXCEPT !.dmah = v] /\ Register(d, r, v) = [d EXCEPT !.dmah = v]
    BY <2>1
  <2> QED BY <2>2 DEF Chip, Same
<1>4. CASE r = DMAL
  <2>1. \A e : Register(e, r, v) = [e EXCEPT !.dmal = v]
    BY <1>4 DEF Register, VM0, DMM, DMAH, DMAL
  <2>2. Register(c, r, v) = [c EXCEPT !.dmal = v] /\ Register(d, r, v) = [d EXCEPT !.dmal = v]
    BY <2>1
  <2> QED BY <2>2 DEF Chip, Same
<1>5. CASE r \notin {VM0, DMM, DMAH, DMAL}
  <2>1. Register(c, r, v) = c /\ Register(d, r, v) = d
    BY <1>5 DEF Register
  <2> QED BY <2>1
<1> QED BY <1>1, <1>2, <1>3, <1>4, <1>5

(* Addresses stay in their registers.                                      *)
LEMMA AddressBytes ==
  ASSUME NEW a \in Nat, a <= Rows * Cols
  PROVE  a \div Page \in Byte /\ a % Page \in Byte /\ (a \div Page) * Page + (a % Page) = a
<1>1. /\ Page \in Nat \ {0} /\ Page <= 256 /\ a < 256 * Page
  BY ScreenAssumption
<1>2. (a \div Page) * Page + (a % Page) = a /\ a % Page \in 0..(Page - 1) /\ a \div Page \in Nat
  BY <1>1
<1>3. a \div Page < 256
  BY <1>1, <1>2
<1> QED BY <1>1, <1>2, <1>3 DEF Byte

(* A character is written, whatever the pins are.                          *)
LEMMA CharacterFacts ==
  ASSUME NEW c \in Chip, NEW d \in Chip, Same(c, d), NEW v \in Byte
  PROVE  LET g == Character(d, v) IN
         /\ g \in Chip /\ Same(Character(c, v), g)
         /\ g.ncs = d.ncs /\ g.sck = d.sck /\ g.sdi = d.sdi /\ g.bits = d.bits
<1> DEFINE a == d.dmah * Page + d.dmal
<1>1. c.dmah * Page + c.dmal = a /\ a \in Nat
  <2>0. Page \in Nat
    BY ScreenAssumption
  <2>1. c.dmah = d.dmah /\ c.dmal = d.dmal /\ d.dmah \in Nat /\ d.dmal \in Nat
    <3>1. d.dmah \in Byte /\ d.dmal \in Byte
      BY DEF Chip
    <3>2. c.dmah = d.dmah /\ c.dmal = d.dmal
      BY DEF Same
    <3> QED BY <3>1, <3>2 DEF Byte
  <2>2. d.dmah * Page \in Nat
    BY <2>0, <2>1
  <2> QED BY <2>1, <2>2
<1>2. CASE v = END \/ a \notin Cells
  <2>1. Character(d, v) = [d EXCEPT !.auto = FALSE] /\ Character(c, v) = [c EXCEPT !.auto = FALSE]
    BY <1>1, <1>2 DEF Character
  <2> QED BY <2>1 DEF Chip, Same
<1>3. CASE ~(v = END \/ a \notin Cells)
  <2> DEFINE n == a + 1
             x(e) == [e EXCEPT !.ram[a] = v, !.auto = n \in Cells, !.dmah = n \div Page, !.dmal = n % Page]
  <2>1. Character(d, v) = x(d) /\ Character(c, v) = x(c)
    BY <1>1, <1>3 DEF Character
  <2>2. n \in Nat /\ n <= Rows * Cols
    BY <1>1, <1>3, ScreenAssumption DEF Cells
  <2>3. n \div Page \in Byte /\ n % Page \in Byte
    BY <2>2, AddressBytes
  <2>4. a \in Cells
    BY <1>3
  <2> HIDE DEF n, a
  <2>5. ASSUME NEW e \in Chip
        PROVE  /\ x(e) \in Chip /\ x(e).ncs = e.ncs /\ x(e).sck = e.sck
               /\ x(e).sdi = e.sdi /\ x(e).bits = e.bits
               /\ x(e).auto = (n \in Cells) /\ x(e).vm0 = e.vm0
               /\ x(e).dmah = n \div Page /\ x(e).dmal = n % Page
               /\ x(e).ram = [e.ram EXCEPT ![a] = v]
    <3>1. [e.ram EXCEPT ![a] = v] \in [Cells -> Byte] /\ (n \in Cells) \in BOOLEAN
      BY <2>4 DEF Chip
    <3> DEFINE y == [e.ram EXCEPT ![a] = v]
               w == n \in Cells
               h == n \div Page
               l == n % Page
    <3>2. x(e) = [e EXCEPT !.ram = y, !.auto = w, !.dmah = h, !.dmal = l]
      BY DEF Chip
    <3> HIDE DEF x, y, w, h, l
    <3>3. y \in [Cells -> Byte] /\ w \in BOOLEAN /\ h \in Byte /\ l \in Byte
      BY <2>3, <3>1 DEF y, w, h, l
    <3>4. /\ x(e) \in Chip /\ x(e).ncs = e.ncs /\ x(e).sck = e.sck
          /\ x(e).sdi = e.sdi /\ x(e).bits = e.bits
          /\ x(e).auto = w /\ x(e).vm0 = e.vm0 /\ x(e).dmah = h /\ x(e).dmal = l /\ x(e).ram = y
      BY <3>2, <3>3 DEF Chip
    <3> QED BY <3>4 DEF y, w, h, l
  <2> HIDE DEF x
  <2>6. c.vm0 = d.vm0 /\ c.ram = d.ram
    BY DEF Same
  <2>7. /\ x(c).auto = (n \in Cells) /\ x(c).vm0 = c.vm0
        /\ x(c).dmah = n \div Page /\ x(c).dmal = n % Page
        /\ x(c).ram = [c.ram EXCEPT ![a] = v]
    BY <2>5
  <2>8. /\ x(d) \in Chip /\ x(d).ncs = d.ncs /\ x(d).sck = d.sck
        /\ x(d).sdi = d.sdi /\ x(d).bits = d.bits
        /\ x(d).auto = (n \in Cells) /\ x(d).vm0 = d.vm0
        /\ x(d).dmah = n \div Page /\ x(d).dmal = n % Page
        /\ x(d).ram = [d.ram EXCEPT ![a] = v]
    BY <2>5
  <2>9. Same(x(c), x(d))
    BY <2>6, <2>7, <2>8 DEF Same
  <2> QED BY <2>1, <2>8, <2>9
<1> QED BY <1>2, <1>3

(* Equal fields make equal chips.                                          *)
LEMMA ChipEqual ==
  ASSUME NEW c \in Chip, NEW d \in Chip, Same(c, d),
         c.ncs = d.ncs, c.sck = d.sck, c.sdi = d.sdi, c.bits = d.bits
  PROVE  c = d
BY DEF Chip, Same

(* The start of a frame selects the chip.                                  *)
LEMMA StartDriven ==
  ASSUME NEW c \in Chip
  PROVE  /\ Start \in Seq(Pin) /\ Selected(Drive(c, Start))
         /\ Same(c, Drive(c, Start)) /\ Drive(c, Start).bits = <<>>
<1> DEFINE p1 == <<"sck", 0>>
           p2 == <<"ncs", 0>>
           s1 == Append(<<>>, p1)
           c1 == SetPin(c, p1)
           c2 == SetPin(c1, p2)
<1>1. p1 \in Pin /\ p2 \in Pin /\ 0 \in Bits
  BY DEF Pin, Bits
<1>2. Start = Append(s1, p2) /\ s1 \in Seq(Pin) /\ <<>> \in Seq(Pin) /\ Start \in Seq(Pin)
  <2>1. Start = <<p1, p2>>
    BY DEF Start
  <2> HIDE DEF p1, p2
  <2> QED BY <1>1, <2>1
<1>3. c1 \in Chip /\ Same(c, c1) /\ c1.sck = 0
  BY <1>1, PinClock
<1>4. c2 \in Chip /\ Same(c1, c2) /\ c2.ncs = 0 /\ c2.sck = c1.sck /\ c2.bits = <<>>
  <2> HIDE DEF c1
  <2> QED BY <1>3, PinSelect
<1>5. Drive(c, s1) = c1
  <2> DEFINE s0 == <<>>
  <2>1. Drive(c, s0) = c /\ s0 \in Seq(Pin) /\ s1 = Append(s0, p1)
    BY DriveNothing
  <2> HIDE DEF p1, s0, s1
  <2> QED BY <1>1, <2>1, DriveAppend
<1>6. Drive(c, Start) = c2
  <2> HIDE DEF s1, p2, c1
  <2> QED BY <1>1, <1>2, <1>5, DriveAppend DEF c2
<1>7. Same(c, c2)
  <2> HIDE DEF c1, c2
  <2> QED BY <1>3, <1>4 DEF Same
<1> HIDE DEF c1, c2
<1> QED BY <1>2, <1>3, <1>4, <1>6, <1>7 DEF Selected

\* The chip as it acts on its bits
Raised(c) == [c EXCEPT !["ncs"] = 1]

(* The end of a frame: the chip acts, and the pins rest.                   *)
LEMMA FinishDriven ==
  ASSUME NEW c, NEW s \in Seq(Pin), Selected(Drive(c, s)),
         Deselected(Raised(Drive(c, s))) \in Chip, Deselected(Raised(Drive(c, s))).ncs = 1
  PROVE  Idle(Drive(c, s \o Finish)) /\ Same(Deselected(Raised(Drive(c, s))), Drive(c, s \o Finish))
<1> DEFINE p1 == <<"ncs", 1>>
           p2 == <<"sck", 1>>
           p3 == <<"sdi", 1>>
           s1 == Append(s, p1)
           s2 == Append(s1, p2)
           s3 == Append(s2, p3)
           c0 == Drive(c, s)
           g == Deselected(Raised(c0))
           c1 == SetPin(c0, p1)
           c2 == SetPin(c1, p2)
           c3 == SetPin(c2, p3)
<1>1. p1 \in Pin /\ p2 \in Pin /\ p3 \in Pin /\ 1 \in Bits /\ <<>> \in Seq(Bits)
  BY DEF Pin, Bits
<1>2. s \o Finish = s3
  <2> HIDE DEF p1, p2, p3
  <2>1. Finish = <<p1, p2, p3>>
    BY DEF Finish, p1, p2, p3
  <2>2. s \o <<p1, p2, p3>> = Append(s \o <<p1, p2>>, p3)
    BY <1>1
  <2>3. s \o <<p1, p2>> = Append(Append(s, p1), p2)
    BY <1>1
  <2> QED BY <2>1, <2>2, <2>3
<1>3. s1 \in Seq(Pin) /\ s2 \in Seq(Pin) /\ s3 \in Seq(Pin)
  <2> HIDE DEF p1, p2, p3
  <2> QED BY <1>1
<1>4. Drive(c, s1) = c1
  BY <1>1, DriveAppend
<1>5. Drive(c, s2) = c2
  <2> HIDE DEF s1, p2, c1
  <2> QED BY <1>1, <1>3, <1>4, DriveAppend DEF c2
<1>6. Drive(c, s3) = c3
  <2> HIDE DEF s2, p3, c2
  <2> QED BY <1>1, <1>3, <1>5, DriveAppend DEF c3
<1> HIDE DEF s1, s2, s3, c0
<1>7. c0 \in Chip /\ c0.ncs = 0 /\ g \in Chip /\ g.ncs = 1
  BY DEF Selected, c0
<1>8. c1 = [g EXCEPT !.bits = <<>>]
  BY <1>7, PinDeselect DEF Raised
<1> HIDE DEF c1, g
<1>9. c1 \in Chip /\ Same(g, c1) /\ c1.ncs = 1 /\ c1.bits = <<>>
  BY <1>1, <1>7, <1>8 DEF Chip, Same
<1>10. c2 \in Chip /\ Same(c1, c2) /\ c2.ncs = 1 /\ c2.sck = 1 /\ c2.bits = <<>>
  BY <1>1, <1>9, PinClock
<1> HIDE DEF c2
<1>11. c3 \in Chip /\ Same(c2, c3) /\ c3.ncs = 1 /\ c3.sck = 1 /\ c3.sdi = 1 /\ c3.bits = <<>>
  BY <1>1, <1>10, PinSdi
<1> HIDE DEF c3
<1>12. Same(g, c3)
  BY <1>9, <1>10, <1>11 DEF Same
<1> QED BY <1>2, <1>6, <1>11, <1>12 DEF Idle, c0, g

(* write_at7456_addr_data writes the register, unless the chip takes       *)
(* characters.                                                             *)
LEMMA RegFrame ==
  ASSUME NEW c, Idle(c), NEW r \in Byte, NEW v \in Byte
  PROVE  LET d == Drive(c, write_at7456_addr_data(r, v)) IN
         /\ Idle(d)
         /\ d = IF c.auto THEN c ELSE Register(c, r, v)
<1> DEFINE s == (Start \o ByteOut(r)) \o ByteOut(v)
           e == Drive(c, s)
           x == Raised(e)
           d == Drive(c, s \o Finish)
           z == IF c.auto THEN c ELSE Register(c, r, v)
<1>1. c \in Chip /\ Same(c, c) /\ c.auto \in BOOLEAN
  BY DEF Idle, Same, Chip
<1>2. /\ Start \in Seq(Pin) /\ Selected(Drive(c, Start))
      /\ Same(c, Drive(c, Start)) /\ Drive(c, Start).bits = <<>>
  BY <1>1, StartDriven
<1> DEFINE s1 == Start \o ByteOut(r)
<1>3. /\ s1 \in Seq(Pin) /\ Selected(Drive(c, s1))
      /\ Same(Drive(c, Start), Drive(c, s1)) /\ Drive(c, s1).bits = <<>> \o ByteBits(r)
  <2>1. /\ s1 \in Seq(Pin) /\ Selected(Drive(c, s1)) /\ Same(Drive(c, Start), Drive(c, s1))
        /\ Drive(c, s1).bits = Drive(c, Start).bits \o ByteBits(r)
    BY <1>2, ByteDriven
  <2> QED BY <1>2, <2>1
<1>4. /\ s \in Seq(Pin) /\ Selected(e)
      /\ Same(Drive(c, s1), e) /\ e.bits = (<<>> \o ByteBits(r)) \o ByteBits(v)
  <2>1. s = s1 \o ByteOut(v)
    OBVIOUS
  <2> HIDE DEF s1
  <2>2. /\ s1 \o ByteOut(v) \in Seq(Pin)
        /\ Selected(Drive(c, s1 \o ByteOut(v)))
        /\ Same(Drive(c, s1), Drive(c, s1 \o ByteOut(v)))
        /\ Drive(c, s1 \o ByteOut(v)).bits = Drive(c, s1).bits \o ByteBits(v)
    BY <1>3, ByteDriven
  <2> HIDE DEF s
  <2> QED BY <1>3, <2>1, <2>2
<1>5. write_at7456_addr_data(r, v) = s \o Finish
  BY DEF write_at7456_addr_data
<1> HIDE DEF s, s1
<1>6. Same(c, e)
  BY <1>2, <1>3, <1>4 DEF Same
<1>7. Len(e.bits) = 16 /\ Value(e.bits, 1) = r /\ Value(e.bits, 9) = v
  BY <1>4, SixteenBits
<1>8. e \in Chip /\ 1 \in Bits
  BY <1>4 DEF Selected, Bits
<1> HIDE DEF e
<1>9. x \in Chip /\ Same(c, x) /\ x.ncs = 1 /\ x.bits = e.bits
  BY <1>6, <1>8 DEF Raised, Chip, Same
<1> HIDE DEF x
<1>10. Deselected(x) = IF c.auto THEN x ELSE Register(x, r, v)
  <2>1. x.auto = c.auto
    BY <1>9 DEF Same
  <2>2. Len(x.bits) = 16 /\ Value(x.bits, 1) = r /\ Value(x.bits, 9) = v
    BY <1>7, <1>9
  <2>3. Len(x.bits) # 8
    BY <2>2
  <2> QED BY <2>1, <2>2, <2>3 DEF Deselected
<1>11. Deselected(x) \in Chip /\ Deselected(x).ncs = 1 /\ Same(z, Deselected(x))
  <2>1. CASE c.auto
    BY <1>9, <1>10, <2>1
  <2>2. CASE ~c.auto
    BY <1>1, <1>9, <1>10, <2>2, RegisterFacts
  <2> QED BY <2>1, <2>2
<1>12. Idle(d) /\ Same(Deselected(x), d)
  BY <1>4, <1>11, FinishDriven DEF e, x
<1>13. z \in Chip /\ z.ncs = 1 /\ z.sck = 1 /\ z.sdi = 1 /\ z.bits = <<>>
  <2>1. CASE c.auto
    BY <2>1 DEF Idle
  <2>2. CASE ~c.auto
    BY <1>1, <2>2, RegisterFacts DEF Idle
  <2> QED BY <2>1, <2>2
<1> HIDE DEF z, d
<1>14. Same(z, d)
  BY <1>11, <1>12 DEF Same
<1>15. z = d
  BY <1>12, <1>13, <1>14, ChipEqual DEF Idle
<1> QED BY <1>5, <1>12, <1>15 DEF d, z

(* write_at7456_data writes a character, if the chip takes characters.     *)
LEMMA DataFrame ==
  ASSUME NEW c, Idle(c), NEW v \in Byte
  PROVE  LET d == Drive(c, write_at7456_data(v)) IN
         /\ Idle(d)
         /\ d = IF c.auto THEN Character(c, v) ELSE c
<1> DEFINE s == Start \o ByteOut(v)
           e == Drive(c, s)
           x == Raised(e)
           d == Drive(c, s \o Finish)
           z == IF c.auto THEN Character(c, v) ELSE c
<1>1. c \in Chip /\ Same(c, c) /\ c.auto \in BOOLEAN
  BY DEF Idle, Same, Chip
<1>2. /\ Start \in Seq(Pin) /\ Selected(Drive(c, Start))
      /\ Same(c, Drive(c, Start)) /\ Drive(c, Start).bits = <<>>
  BY <1>1, StartDriven
<1>3. /\ s \in Seq(Pin) /\ Selected(e)
      /\ Same(Drive(c, Start), e) /\ e.bits = <<>> \o ByteBits(v)
  <2>1. /\ s \in Seq(Pin) /\ Selected(e) /\ Same(Drive(c, Start), e)
        /\ e.bits = Drive(c, Start).bits \o ByteBits(v)
    BY <1>2, ByteDriven
  <2> QED BY <1>2, <2>1
<1>5. write_at7456_data(v) = s \o Finish
  BY DEF write_at7456_data
<1> HIDE DEF s
<1>6. Same(c, e)
  BY <1>2, <1>3 DEF Same
<1>7. Len(e.bits) = 8 /\ Value(e.bits, 1) = v
  BY <1>3, EightBits
<1>8. e \in Chip /\ 1 \in Bits
  BY <1>3 DEF Selected, Bits
<1> HIDE DEF e
<1>9. x \in Chip /\ Same(c, x) /\ x.ncs = 1 /\ x.bits = e.bits
  BY <1>6, <1>8 DEF Raised, Chip, Same
<1> HIDE DEF x
<1>10. Deselected(x) = IF c.auto THEN Character(x, v) ELSE x
  <2>1. x.auto = c.auto
    BY <1>9 DEF Same
  <2>2. Len(x.bits) = 8 /\ Value(x.bits, 1) = v
    BY <1>7, <1>9
  <2>3. Len(x.bits) # 16
    BY <2>2
  <2> QED BY <2>1, <2>2, <2>3 DEF Deselected
<1>11. Deselected(x) \in Chip /\ Deselected(x).ncs = 1 /\ Same(z, Deselected(x))
  <2>1. CASE c.auto
    BY <1>1, <1>9, <1>10, <2>1, CharacterFacts
  <2>2. CASE ~c.auto
    BY <1>9, <1>10, <2>2
  <2> QED BY <2>1, <2>2
<1>12. Idle(d) /\ Same(Deselected(x), d)
  BY <1>3, <1>11, FinishDriven DEF e, x
<1>13. z \in Chip /\ z.ncs = 1 /\ z.sck = 1 /\ z.sdi = 1 /\ z.bits = <<>>
  <2>1. CASE c.auto
    BY <1>1, <2>1, CharacterFacts DEF Idle
  <2>2. CASE ~c.auto
    BY <2>2 DEF Idle
  <2> QED BY <2>1, <2>2
<1> HIDE DEF z, d
<1>14. Same(z, d)
  BY <1>11, <1>12 DEF Same
<1>15. z = d
  BY <1>12, <1>13, <1>14, ChipEqual DEF Idle
<1> QED BY <1>5, <1>12, <1>15 DEF d, z

-----------------------------------------------------------------------------
(* What a Lua call still has to send, and what is then on the screen.      *)

\* What the chip shows, once a reset under way is done
Screen == IF resetting THEN Blank ELSE chip.ram
Light == ~resetting /\ Bit(chip.vm0, 3) = 1

\* What it shows when the characters t are written from address a on
Becoming(screen, a, t) == Over(screen, a, Before(t, END))

\* Frames that write VM0 back
Switch(on) == VM0From(IF on THEN "on" ELSE "off")
Probe == VM0From("probe")
Restore == VM0From("restore")

\* No call, or one that has sent nothing yet
RestInv == frames = <<>> /\ ~chip.auto /\ (~disturbed => shown = Screen /\ lit = Light)
ResetInv == frames = <<Reg(VM0, 2)>> /\ ~chip.auto /\ (~disturbed => shown = Blank /\ lit = FALSE)

\* at7456e.osd, before and after it has read VM0
EnableInv(on) == /\ frames = <<ReadVM0("r1"), Switch(on)>> /\ ~chip.auto
                 /\ ~disturbed => shown = Screen /\ lit = on
SwitchInv(on) == /\ frames = <<Switch(on)>> /\ ~chip.auto
                 /\ ~disturbed => /\ ~resetting /\ shown = chip.ram /\ lit = on
                                  /\ r1 = chip.vm0

\* at7456e.init, before and after it has read VM0; then VM0 may differ from r1
CheckInv == /\ frames = <<ReadVM0("r1"), Probe, ReadVM0("r2"), Restore>> /\ ~chip.auto
            /\ ~disturbed => shown = Screen /\ lit = Light
ProbeInv == /\ frames \in {<<Probe, ReadVM0("r2"), Restore>>, <<ReadVM0("r2"), Restore>>, <<Restore>>}
            /\ ~chip.auto
            /\ ~disturbed => /\ ~resetting /\ shown = chip.ram
                             /\ Bit(r1, 1) = 0 /\ lit = (Bit(r1, 3) = 1)

\* The calls that write characters t from address kk on, register by register
WriteInv(kk, t) == /\ frames = Written(kk, t) /\ ~chip.auto
                   /\ ~disturbed => shown = Becoming(Screen, kk, t) /\ lit = Light
LowInv(kk, t) == /\ frames = <<Reg(DMAL, kk % Page), Reg(DMM, 1)>> \o Characters(t) /\ ~chip.auto
                 /\ ~disturbed => /\ ~resetting /\ shown = Becoming(chip.ram, kk, t) /\ lit = Light
                                  /\ chip.dmah = kk \div Page
ModeInv(kk, t) == /\ frames = <<Reg(DMM, 1)>> \o Characters(t) /\ ~chip.auto
                  /\ ~disturbed => /\ ~resetting /\ shown = Becoming(chip.ram, kk, t) /\ lit = Light
                                   /\ chip.dmah * Page + chip.dmal = kk

\* The characters; those after the end of the screen or an END are ignored
TextInv(t) == /\ frames = Characters(t) /\ (chip.auto => ~resetting)
              /\ ~disturbed =>
                   /\ ~resetting /\ lit = Light
                   /\ shown = IF chip.auto THEN Becoming(chip.ram, chip.dmah * Page + chip.dmal, t)
                              ELSE chip.ram

CallInv ==
    \/ RestInv \/ ResetInv \/ CheckInv \/ ProbeInv
    \/ \E on \in BOOLEAN : EnableInv(on) \/ SwitchInv(on)
    \/ \E kk \in Cells, t \in Seq(Byte) : WriteInv(kk, t) \/ LowInv(kk, t) \/ ModeInv(kk, t) \/ TextInv(t)

\* Between frames the pins rest, and only a reset sets its bit of VM0
ChipInv == Idle(chip) /\ resetting = (Bit(chip.vm0, 1) = 1)

OsdIndInv == OsdTypeOK /\ ChipInv /\ CallInv

-----------------------------------------------------------------------------
(* The texts: where one stops, and what it leaves on the screen.           *)

\* The first n characters of t come before the code
Stops(t, code, n) == /\ \A i \in 1..n : t[i] # code
                     /\ n < Len(t) => t[n + 1] = code

(* A text stops somewhere: at the first such code, or at its end.          *)
LEMMA StopExists ==
  ASSUME NEW t \in Seq(Byte), NEW code
  PROVE  \E n \in 0..Len(t) : Stops(t, code, n)
<1> DEFINE T == {n \in 0..Len(t) : n < Len(t) => t[n + 1] = code}
<1>0. Len(t) \in Nat
  OBVIOUS
<1>1. T \in SUBSET Nat /\ Len(t) \in T
  BY <1>0
<1>2. PICK n \in T : \A m \in T : n <= m
  <2> HIDE DEF T
  <2> QED BY <1>1, LeastNumber
<1>3. ASSUME NEW i \in 1..n PROVE t[i] # code
  <2>0. n \in 0..Len(t)
    BY <1>2
  <2>1. i - 1 \in 0..Len(t) /\ ~ (n <= i - 1) /\ i - 1 < Len(t) /\ (i - 1) + 1 = i
    BY <1>0, <2>0
  <2>2. i - 1 \notin T
    <3> HIDE DEF T
    <3> QED BY <2>1, <1>2
  <2> QED BY <2>1, <2>2
<1> QED BY <1>2, <1>3 DEF Stops

(* It stops at one place only, and Before takes what comes before it.      *)
LEMMA BeforeIs ==
  ASSUME NEW t \in Seq(Byte), NEW code, NEW n \in 0..Len(t), Stops(t, code, n)
  PROVE  Before(t, code) = SubSeq(t, 1, n)
<1>0. Len(t) \in Nat
  OBVIOUS
<1>1. ASSUME NEW m \in 0..Len(t), Stops(t, code, m) PROVE m = n
  <2>1. ~ (m < n)
    <3> SUFFICES ASSUME m < n PROVE FALSE
      OBVIOUS
    <3>1. m + 1 \in 1..n /\ m < Len(t)
      BY <1>0
    <3> QED BY <3>1, <1>1 DEF Stops
  <2>2. ~ (n < m)
    <3> SUFFICES ASSUME n < m PROVE FALSE
      OBVIOUS
    <3>1. n + 1 \in 1..m /\ n < Len(t)
      BY <1>0
    <3> QED BY <3>1, <1>1 DEF Stops
  <2> QED BY <2>1, <2>2, <1>0
<1>2. n = CHOOSE m \in 0..Len(t) : Stops(t, code, m)
  BY <1>1
<1> QED BY <1>2 DEF Before, Stops

(* What a text leaves: its characters before an END, cell by cell.         *)
LEMMA BecomingIs ==
  ASSUME NEW t \in Seq(Byte), NEW n \in 0..Len(t), Stops(t, END, n), NEW screen, NEW a \in Nat
  PROVE  Becoming(screen, a, t)
           = [x \in Cells |-> IF x >= a /\ x < a + n THEN t[x - a + 1] ELSE screen[x]]
<1>1. Before(t, END) = SubSeq(t, 1, n)
  BY BeforeIs
<1>2. Len(t) \in Nat /\ Rows * Cols \in Int
  BY ScreenAssumption
<1>3. /\ Len(SubSeq(t, 1, n)) = n
      /\ \A i \in 1..n : SubSeq(t, 1, n)[i] = t[i]
  BY <1>2
<1>4. ASSUME NEW x \in Cells, x >= a, x < a + n PROVE SubSeq(t, 1, n)[x - a + 1] = t[x - a + 1]
  BY <1>2, <1>3, <1>4 DEF Cells
<1> QED BY <1>1, <1>2, <1>3, <1>4 DEF Becoming, Over

(* No text, or one that starts with END, changes nothing.                  *)
LEMMA BecomingNothing ==
  ASSUME NEW t \in Seq(Byte), t = <<>> \/ t[1] = END, NEW screen \in [Cells -> Byte], NEW a \in Nat
  PROVE  Becoming(screen, a, t) = screen
<1>0. Rows * Cols \in Int
  BY ScreenAssumption
<1>1. 0 \in 0..Len(t) /\ Stops(t, END, 0)
  BY DEF Stops
<1>2. Becoming(screen, a, t)
        = [x \in Cells |-> IF x >= a /\ x < a + 0 THEN t[x - a + 1] ELSE screen[x]]
  BY <1>1, BecomingIs
<1>3. \A x \in Cells : ~ (x >= a /\ x < a + 0)
  BY <1>0 DEF Cells
<1> QED BY <1>2, <1>3

(* Nor does one that starts after the last cell.                           *)
LEMMA BecomingBeyond ==
  ASSUME NEW t \in Seq(Byte), NEW screen \in [Cells -> Byte], NEW a \in Nat, a \notin Cells
  PROVE  Becoming(screen, a, t) = screen
<1>0. Rows * Cols \in Int
  BY ScreenAssumption
<1>1. PICK n \in 0..Len(t) : Stops(t, END, n)
  BY StopExists
<1>2. Becoming(screen, a, t)
        = [x \in Cells |-> IF x >= a /\ x < a + n THEN t[x - a + 1] ELSE screen[x]]
  BY <1>1, BecomingIs
<1>3. \A x \in Cells : ~ (x >= a)
  BY <1>0 DEF Cells
<1> QED BY <1>2, <1>3

(* Otherwise the first character is written and the rest follows it.       *)
LEMMA BecomingStep ==
  ASSUME NEW t \in Seq(Byte), t # <<>>, t[1] # END, NEW screen \in [Cells -> Byte], NEW a \in Cells
  PROVE  /\ Tail(t) \in Seq(Byte) /\ a \in Nat
         /\ [screen EXCEPT ![a] = t[1]] \in [Cells -> Byte]
         /\ Becoming(screen, a, t) = Becoming([screen EXCEPT ![a] = t[1]], a + 1, Tail(t))
<1> DEFINE u == Tail(t)
           w == [screen EXCEPT ![a] = t[1]]
<1>0. Rows * Cols \in Int /\ a \in Nat /\ Len(t) \in Nat \ {0}
  BY ScreenAssumption DEF Cells
<1>1. u \in Seq(Byte) /\ Len(u) = Len(t) - 1 /\ \A i \in 1..Len(u) : u[i] = t[i + 1]
  BY <1>0
<1>2. w \in [Cells -> Byte] /\ w[a] = t[1] /\ \A x \in Cells : x # a => w[x] = screen[x]
  BY <1>0
<1>3. PICK n \in 0..Len(t) : Stops(t, END, n)
  BY StopExists
<1>4. n \in 1..Len(t)
  <2>1. n # 0
    BY <1>0, <1>3 DEF Stops
  <2> QED BY <2>1, <1>0
<1> HIDE DEF u, w
<1>5. n - 1 \in 0..Len(u) /\ Stops(u, END, n - 1)
  <2>1. n - 1 \in 0..Len(u)
    BY <1>4, <1>1, <1>0
  <2>2. ASSUME NEW i \in 1..(n - 1) PROVE u[i] # END
    <3>1. i \in 1..Len(u) /\ i + 1 \in 1..n
      BY <1>4, <1>1, <1>0
    <3> QED BY <3>1, <1>1, <1>3 DEF Stops
  <2>3. ASSUME n - 1 < Len(u) PROVE u[(n - 1) + 1] = END
    <3>1. (n - 1) + 1 = n /\ n \in 1..Len(u) /\ n < Len(t)
      BY <1>4, <1>1, <1>0, <2>3
    <3> QED BY <3>1, <1>1, <1>3 DEF Stops
  <2> QED BY <2>1, <2>2, <2>3 DEF Stops
<1>6. Becoming(screen, a, t)
        = [x \in Cells |-> IF x >= a /\ x < a + n THEN t[x - a + 1] ELSE screen[x]]
  BY <1>3, <1>0, BecomingIs
<1>7. Becoming(w, a + 1, u)
        = [x \in Cells |-> IF x >= a + 1 /\ x < (a + 1) + (n - 1) THEN u[x - (a + 1) + 1] ELSE w[x]]
  <2> DEFINE m == n - 1
             b == a + 1
  <2>1. u \in Seq(Byte) /\ m \in 0..Len(u) /\ Stops(u, END, m) /\ b \in Nat
    BY <1>5, <1>0, <1>1
  <2> HIDE DEF m, b
  <2>2. Becoming(w, b, u) = [x \in Cells |-> IF x >= b /\ x < b + m THEN u[x - b + 1] ELSE w[x]]
    BY <2>1, BecomingIs
  <2> QED BY <2>2 DEF m, b
<1>8. ASSUME NEW x \in Cells
      PROVE  (IF x >= a /\ x < a + n THEN t[x - a + 1] ELSE screen[x])
               = (IF x >= a + 1 /\ x < (a + 1) + (n - 1) THEN u[x - (a + 1) + 1] ELSE w[x])
  <2>0. x \in Nat
    BY <1>0 DEF Cells
  <2>1. CASE x < a
    BY <2>0, <2>1, <1>0, <1>2, <1>4
  <2>2. CASE x = a
    <3>1. x >= a /\ x < a + n /\ ~(x >= a + 1) /\ x - a + 1 = 1
      BY <2>0, <2>2, <1>0, <1>4
    <3> QED BY <2>2, <3>1, <1>2
  <2>3. CASE x > a /\ x < a + n
    <3>1. /\ x >= a /\ x >= a + 1 /\ x < (a + 1) + (n - 1)
          /\ x - (a + 1) + 1 \in 1..Len(u) /\ (x - (a + 1) + 1) + 1 = x - a + 1
      BY <2>0, <2>3, <1>0, <1>1, <1>4
    <3> QED BY <2>3, <3>1, <1>1
  <2>4. CASE x >= a + n
    <3>1. ~(x < a + n) /\ ~(x < (a + 1) + (n - 1)) /\ x # a
      BY <2>0, <2>4, <1>0, <1>4
    <3> QED BY <3>1, <1>2
  <2> QED BY <2>0, <2>1, <2>2, <2>3, <2>4, <1>0, <1>4
<1>9. Becoming(screen, a, t) = Becoming(w, a + 1, u)
  BY <1>6, <1>7, <1>8
<1> QED BY <1>9, <1>0, <1>1, <1>2 DEF u, w

(* A character has a code, and only END has END's.                         *)
LEMMA GlyphFacts ==
  ASSUME NEW c \in Byte
  PROVE  Glyph(c) \in Byte /\ (Glyph(c) = END <=> c = END)
<1> DEFINE P == \E i \in DOMAIN Signs : Signs[i] = c
           j == CHOOSE i \in DOMAIN Signs : Signs[i] = c
<1>1. DOMAIN Signs = 1..14 /\ \A i \in 1..14 : Signs[i] \in 0..64
  BY DEF Signs
<1>2. P => j \in 1..14 /\ c \in 0..64
  <2>1. P => j \in DOMAIN Signs
    OBVIOUS
  <2> QED BY <1>1, <2>1
<1>3. Glyph(c) = CASE c = 48        -> 10
      [] c \in 49..57  -> c - 48
      [] c \in 65..90  -> c - 65 + 11
      [] c \in 97..122 -> c - 97 + 37
      [] c = 32        -> 0
      [] P -> 62 + j
      [] OTHER         -> c
  BY DEF Glyph
<1>4. P \in BOOLEAN
  OBVIOUS
<1> HIDE DEF P, j
<1>5. CASE P
  <2>1. c \in Byte /\ c # 255 /\ j \in 1..14
    BY <1>5, <1>2
  <2>2. \/ Glyph(c) = 10 \/ (c \in 49..57 /\ Glyph(c) = c - 48)
        \/ Glyph(c) = 0 \/ Glyph(c) = 62 + j
    BY <1>5, <1>3, <1>2
  <2> QED BY <2>1, <2>2 DEF Byte, END
<1>6. CASE ~P
  BY <1>6, <1>3 DEF Byte, END
<1> QED BY <1>5, <1>6

(* The codes of a text are a text, which stops where the text does.        *)
LEMMA GlyphsBefore ==
  ASSUME NEW s \in Seq(Byte)
  PROVE  Glyphs(s) \in Seq(Byte) /\ Before(Glyphs(s), END) = Glyphs(Before(s, END))
<1> DEFINE g == Glyphs(s)
<1>0. Len(s) \in Nat /\ \A i \in 1..Len(s) : s[i] \in Byte
  OBVIOUS
<1>1. g \in Seq(Byte) /\ Len(g) = Len(s) /\ \A i \in 1..Len(s) : g[i] = Glyph(s[i])
  <2>1. \A i \in 1..Len(s) : Glyph(s[i]) \in Byte
    BY <1>0, GlyphFacts
  <2> QED BY <1>0, <2>1 DEF Glyphs
<1>2. PICK n \in 0..Len(s) : Stops(s, END, n)
  BY StopExists
<1>3. n \in 0..Len(g) /\ Stops(g, END, n)
  <2> HIDE DEF g
  <2>1. \A i \in 1..Len(s) : g[i] = END <=> s[i] = END
    BY <1>0, <1>1, GlyphFacts
  <2>2. \A i \in 1..n : i \in 1..Len(s)
    BY <1>0
  <2>3. n < Len(s) => n + 1 \in 1..Len(s)
    BY <1>0
  <2> QED BY <2>1, <2>2, <2>3, <1>2, <1>1 DEF Stops
<1>4. Before(g, END) = SubSeq(g, 1, n) /\ Before(s, END) = SubSeq(s, 1, n)
  <2> HIDE DEF g
  <2> QED BY <1>1, <1>2, <1>3, BeforeIs
<1>5. /\ Len(SubSeq(s, 1, n)) = n /\ \A i \in 1..n : SubSeq(s, 1, n)[i] = s[i]
      /\ SubSeq(g, 1, n) = [i \in 1..n |-> g[i]]
  <2> HIDE DEF g
  <2> QED BY <1>0, <1>1
<1>6. SubSeq(g, 1, n) = Glyphs(SubSeq(s, 1, n))
  <2>1. \A i \in 1..n : g[i] = Glyph(s[i])
    <3> HIDE DEF g
    <3> QED BY <1>0, <1>1
  <2> HIDE DEF g
  <2> QED BY <1>5, <2>1 DEF Glyphs
<1> QED BY <1>1, <1>4, <1>6

(* What comes before the end of a C string is a text.                      *)
LEMMA BeforeType ==
  ASSUME NEW t \in Seq(Byte), NEW code
  PROVE  Before(t, code) \in Seq(Byte)
<1>1. PICK n \in 0..Len(t) : Stops(t, code, n)
  BY StopExists
<1>2. Before(t, code) = SubSeq(t, 1, n)
  BY <1>1, BeforeIs
<1>3. Len(t) \in Nat
  OBVIOUS
<1> QED BY <1>2, <1>3

(* A screen of zeros blanks every cell.                                    *)
LEMMA ZerosClear ==
  ASSUME NEW screen
  PROVE  LET z == [i \in 1..(Rows * Cols) |-> 0] IN
         z \in Seq(Byte) /\ Becoming(screen, 0, z) = Blank
<1> DEFINE N == Rows * Cols
           z == [i \in 1..N |-> 0]
<1>1. N \in Nat
  BY ScreenAssumption
<1> HIDE DEF N
<1>2. z \in Seq(Byte) /\ Len(z) = N /\ \A i \in 1..N : z[i] = 0
  BY <1>1 DEF Byte
<1> HIDE DEF z
<1>3. N \in 0..Len(z) /\ Stops(z, END, N)
  BY <1>1, <1>2 DEF Stops, END
<1>4. Becoming(screen, 0, z)
        = [x \in Cells |-> IF x >= 0 /\ x < 0 + N THEN z[x - 0 + 1] ELSE screen[x]]
  BY <1>2, <1>3, BecomingIs
<1>5. \A x \in Cells : x >= 0 /\ x < 0 + N /\ x - 0 + 1 \in 1..N
  BY <1>1 DEF Cells, N
<1>6. Becoming(screen, 0, z) = [x \in Cells |-> 0]
  BY <1>4, <1>5, <1>2
<1> QED BY <1>2, <1>6 DEF z, N, Blank

(* A place on the screen has an address.                                   *)
LEMMA AddressInCells ==
  ASSUME NEW row \in 0..(Rows - 1), NEW col \in 0..(Cols - 1)
  PROVE  Address(row, col) \in Cells /\ Address(row, col) = row * Cols + col
<1>1. Rows \in Nat /\ Cols \in Nat
  BY ScreenAssumption
<1>2. row \in Nat /\ col \in Nat /\ row <= Rows - 1 /\ col <= Cols - 1
  BY <1>1
<1>3. row * Cols <= (Rows - 1) * Cols
  BY <1>1, <1>2
<1>4. (Rows - 1) * Cols = Rows * Cols - Cols
  BY <1>1
<1>5. row * Cols \in Nat /\ Rows * Cols \in Nat
  BY <1>1, <1>2
<1>6. row * Cols + col \in 0..(Rows * Cols - 1)
  BY <1>1, <1>2, <1>3, <1>4, <1>5
<1> QED BY <1>6 DEF Address, Cells

\* The frames that write
Frame == {Reg(r, v) : r \in Byte, v \in Byte} \cup {Data(v) : v \in Byte}

(* The frames of a text: its characters one by one, then END.              *)
LEMMA CharactersFacts ==
  ASSUME NEW t \in Seq(Byte)
  PROVE  /\ Characters(t) \in Seq(Frame) /\ Characters(t) # <<>>
         /\ t = <<>> => Head(Characters(t)) = Data(END) /\ Tail(Characters(t)) = <<>>
         /\ t # <<>> => /\ Tail(t) \in Seq(Byte) /\ t[1] \in Byte
                        /\ Head(Characters(t)) = Data(t[1])
                        /\ Tail(Characters(t)) = Characters(Tail(t))
<1> DEFINE D(u) == [i \in 1..Len(u) |-> Data(u[i])]
           e == Data(END)
<1>0. e \in Frame
  BY DEF Frame, Byte, END
<1>1. ASSUME NEW u \in Seq(Byte)
      PROVE  D(u) \in Seq(Frame) /\ Len(D(u)) = Len(u) /\ \A i \in 1..Len(u) : D(u)[i] = Data(u[i])
  <2>1. \A i \in 1..Len(u) : Data(u[i]) \in Frame
    BY DEF Frame
  <2> QED BY <2>1
<1>2. \A u \in Seq(Byte) : Characters(u) = Append(D(u), e)
  BY DEF Characters
<1> HIDE DEF D, e
<1>3. Characters(t) \in Seq(Frame) /\ Characters(t) # <<>>
  BY <1>0, <1>1, <1>2
<1>4. CASE t = <<>>
  <2>1. D(t) = <<>>
    <3>1. D(t) \in Seq(Frame) /\ Len(D(t)) = Len(t)
      BY <1>1
    <3>2. Len(t) = 0
      BY <1>4
    <3> QED BY <3>1, <3>2
  <2>2. Characters(t) = Append(<<>>, e)
    BY <2>1, <1>2
  <2>3. Head(Append(<<>>, e)) = e /\ Tail(Append(<<>>, e)) = <<>>
    BY <1>0
  <2> QED BY <2>2, <2>3, <1>3, <1>4 DEF e
<1>5. CASE t # <<>>
  <2> DEFINE u == Tail(t)
  <2>1. u \in Seq(Byte) /\ Len(u) = Len(t) - 1 /\ Len(t) \in Nat \ {0} /\ t[1] \in Byte
        /\ \A i \in 1..Len(u) : u[i] = t[i + 1]
    BY <1>5
  <2> HIDE DEF u
  <2>2. /\ D(t) \in Seq(Frame) /\ Len(D(t)) = Len(t) /\ D(t)[1] = Data(t[1])
        /\ D(u) \in Seq(Frame) /\ Len(D(u)) = Len(t) - 1
    BY <1>1, <2>1
  <2>3. \A i \in 1..(Len(t) - 1) : D(t)[i + 1] = D(u)[i]
    <3> TAKE i \in 1..(Len(t) - 1)
    <3>1. i \in 1..Len(u) /\ i + 1 \in 1..Len(t)
      BY <2>1
    <3> QED BY <3>1, <1>1, <2>1
  <2> DEFINE f == D(t)
             g == D(u)
  <2> HIDE DEF f, g
  <2>4. /\ f \in Seq(Frame) /\ Len(f) = Len(t) /\ f[1] = Data(t[1])
        /\ g \in Seq(Frame) /\ Len(g) = Len(t) - 1
        /\ \A i \in 1..(Len(t) - 1) : f[i + 1] = g[i]
    BY <2>2, <2>3 DEF f, g
  <2>5. Head(Append(f, e)) = Data(t[1])
    BY <2>4, <2>1, <1>0
  <2>6. Tail(Append(f, e)) = Append(g, e)
    BY <2>4, <2>1, <1>0
  <2> QED BY <2>5, <2>6, <2>1, <1>2, <1>3, <1>5 DEF f, g, u
<1> QED BY <1>4, <1>5

(* The frames of a call are taken one by one.                              *)
LEMMA FramesTaken ==
  ASSUME NEW x \in Seq(Frame)
  PROVE  /\ \A a, b, c \in Frame :
              /\ <<a, b, c>> \o x # <<>> /\ Head(<<a, b, c>> \o x) = a
              /\ Tail(<<a, b, c>> \o x) = <<b, c>> \o x
         /\ \A b, c \in Frame :
              <<b, c>> \o x # <<>> /\ Head(<<b, c>> \o x) = b /\ Tail(<<b, c>> \o x) = <<c>> \o x
         /\ \A c \in Frame :
              <<c>> \o x # <<>> /\ Head(<<c>> \o x) = c /\ Tail(<<c>> \o x) = x
<1>1. ASSUME NEW a \in Frame, NEW b \in Frame, NEW c \in Frame
      PROVE  /\ <<a, b, c>> \o x # <<>> /\ Head(<<a, b, c>> \o x) = a
             /\ Tail(<<a, b, c>> \o x) = <<b, c>> \o x
  <2>1. <<a, b, c>> \in Seq(Frame) /\ <<b, c>> \in Seq(Frame)
    OBVIOUS
  <2> QED BY <2>1
<1>2. ASSUME NEW b \in Frame, NEW c \in Frame
      PROVE  <<b, c>> \o x # <<>> /\ Head(<<b, c>> \o x) = b /\ Tail(<<b, c>> \o x) = <<c>> \o x
  <2>1. <<b, c>> \in Seq(Frame) /\ <<c>> \in Seq(Frame)
    OBVIOUS
  <2> QED BY <2>1
<1>3. ASSUME NEW c \in Frame
      PROVE  <<c>> \o x # <<>> /\ Head(<<c>> \o x) = c /\ Tail(<<c>> \o x) = x
  <2>1. <<c>> \in Seq(Frame)
    OBVIOUS
  <2> QED BY <2>1
<1> QED BY <1>1, <1>2, <1>3

-----------------------------------------------------------------------------
(* The bits of VM0: 1 resets the chip, 3 switches the display on.          *)

(* Setting bit 3 switches the display on and starts no reset.              *)
LEMMA OrOn ==
  ASSUME NEW v \in Byte
  PROVE  Or(v, 3) \in Byte /\ Bit(Or(v, 3), 1) = Bit(v, 1) /\ Bit(Or(v, 3), 3) = 1
BY DEF Or, Bit, Byte

(* Clearing it switches the display off and starts no reset.               *)
LEMMA AndNotOn ==
  ASSUME NEW v \in Byte
  PROVE  AndNot(v, 3) \in Byte /\ Bit(AndNot(v, 3), 1) = Bit(v, 1) /\ Bit(AndNot(v, 3), 3) = 0
BY DEF AndNot, Bit, Byte

(* Clearing bit 1.                                                         *)
LEMMA AndNotReset ==
  ASSUME NEW v \in Byte
  PROVE  AndNot(v, 1) \in Byte /\ Bit(AndNot(v, 1), 1) = 0
BY DEF AndNot, Bit, Byte

(* Setting bit 7 starts no reset.                                          *)
LEMMA OrTest ==
  ASSUME NEW v \in Byte
  PROVE  Or(v, 7) \in Byte /\ Bit(Or(v, 7), 1) = Bit(v, 1)
BY DEF Or, Bit, Byte

(* Zero and the value that resets.                                         *)
LEMMA BitsOf ==
  /\ Bit(0, 1) = 0 /\ Bit(0, 3) = 0 /\ Bit(2, 1) = 1 /\ Bit(2, 3) = 0 /\ Bit(1, 0) = 1
  /\ \A v \in Byte : Bit(v, 1) \in 0..1 /\ Bit(v, 3) \in 0..1
BY DEF Bit, Byte

(* What a call writes back to VM0.                                         *)
LEMMA ChangedFacts ==
  ASSUME r1 \in Byte
  PROVE  /\ \A on \in BOOLEAN :
              LET v == Changed(IF on THEN "on" ELSE "off") IN
              v \in Byte /\ Bit(v, 1) = Bit(r1, 1) /\ (Bit(v, 3) = 1) = on
         /\ Changed("probe") \in Byte /\ Bit(Changed("probe"), 1) = 0
         /\ Changed("restore") = r1
<1>1. Changed("on") = Or(r1, 3) /\ Changed("off") = AndNot(r1, 3)
  BY DEF Changed
<1>2. Changed("probe") = Or(Or(AndNot(r1, 1), 3), 7) /\ Changed("restore") = r1
  BY DEF Changed
<1>3. ASSUME NEW on \in BOOLEAN
      PROVE  LET v == Changed(IF on THEN "on" ELSE "off") IN
              v \in Byte /\ Bit(v, 1) = Bit(r1, 1) /\ (Bit(v, 3) = 1) = on
  <2>1. CASE on = TRUE
    BY <1>1, <2>1, OrOn
  <2>2. CASE on = FALSE
    BY <1>1, <2>2, AndNotOn
  <2> QED BY <2>1, <2>2
<1>4. AndNot(r1, 1) \in Byte /\ Bit(AndNot(r1, 1), 1) = 0
  BY AndNotReset
<1>5. Or(AndNot(r1, 1), 3) \in Byte /\ Bit(Or(AndNot(r1, 1), 3), 1) = 0
  BY <1>4, OrOn
<1>6. Changed("probe") \in Byte /\ Bit(Changed("probe"), 1) = 0
  BY <1>2, <1>5, OrTest
<1> QED BY <1>2, <1>3, <1>6

-----------------------------------------------------------------------------
(* What a frame does to the chip.                                          *)

(* A register frame: nothing while characters are expected.                *)
LEMMA SentReg ==
  ASSUME Idle(chip), NEW r \in Byte, NEW v \in Byte, Sent(Reg(r, v))
  PROVE  /\ Idle(chip') /\ resetting' = (Bit(chip'.vm0, 1) = 1)
         /\ chip' = IF chip.auto THEN chip ELSE Register(chip, r, v)
<1>1. PinsOf(Reg(r, v)) = write_at7456_addr_data(r, v)
  BY DEF PinsOf, Reg
<1> QED BY <1>1, RegFrame DEF Sent

(* A frame that writes VM0 back.                                           *)
LEMMA SentVM0 ==
  ASSUME Idle(chip), NEW ch, Changed(ch) \in Byte, Sent(VM0From(ch))
  PROVE  /\ Idle(chip') /\ resetting' = (Bit(chip'.vm0, 1) = 1)
         /\ chip' = IF chip.auto THEN chip ELSE Register(chip, VM0, Changed(ch))
<1>1. PinsOf(VM0From(ch)) = write_at7456_addr_data(VM0, Changed(ch))
  BY DEF PinsOf, VM0From
<1>2. VM0 \in Byte
  BY DEF VM0, Byte
<1> QED BY <1>1, <1>2, RegFrame DEF Sent

(* A frame with a character.                                               *)
LEMMA SentData ==
  ASSUME Idle(chip), NEW v \in Byte, Sent(Data(v))
  PROVE  /\ Idle(chip') /\ resetting' = (Bit(chip'.vm0, 1) = 1)
         /\ chip' = IF chip.auto THEN Character(chip, v) ELSE chip
<1>1. PinsOf(Data(v)) = write_at7456_data(v)
  BY DEF PinsOf, Data
<1> QED BY <1>1, DataFrame DEF Sent

(* The registers that the calls write: VM0.                                *)
LEMMA RegisterVM0 ==
  ASSUME NEW c \in Chip, NEW v \in Byte
  PROVE  LET d == Register(c, VM0, v) IN
         d.vm0 = v /\ d.auto = c.auto /\ d.ram = c.ram /\ d.dmah = c.dmah /\ d.dmal = c.dmal
<1>1. Register(c, VM0, v) = [c EXCEPT !.vm0 = v]
  BY DEF Register, VM0, DMM, DMAH, DMAL
<1> QED BY <1>1 DEF Chip

(* The high part of the address.                                           *)
LEMMA RegisterDMAH ==
  ASSUME NEW c \in Chip, NEW v \in Byte
  PROVE  LET d == Register(c, DMAH, v) IN
         d.dmah = v /\ d.vm0 = c.vm0 /\ d.auto = c.auto /\ d.ram = c.ram /\ d.dmal = c.dmal
<1>1. Register(c, DMAH, v) = [c EXCEPT !.dmah = v]
  BY DEF Register, VM0, DMM, DMAH, DMAL
<1> QED BY <1>1 DEF Chip

(* Its low part.                                                           *)
LEMMA RegisterDMAL ==
  ASSUME NEW c \in Chip, NEW v \in Byte
  PROVE  LET d == Register(c, DMAL, v) IN
         d.dmal = v /\ d.vm0 = c.vm0 /\ d.auto = c.auto /\ d.ram = c.ram /\ d.dmah = c.dmah
<1>1. Register(c, DMAL, v) = [c EXCEPT !.dmal = v]
  BY DEF Register, VM0, DMM, DMAH, DMAL
<1> QED BY <1>1 DEF Chip

(* DMM starts the automatic increment.                                     *)
LEMMA RegisterDMM ==
  ASSUME NEW c \in Chip
  PROVE  LET d == Register(c, DMM, 1) IN
         d.auto = TRUE /\ d.vm0 = c.vm0 /\ d.ram = c.ram /\ d.dmah = c.dmah /\ d.dmal = c.dmal
<1>1. Register(c, DMM, 1) = [c EXCEPT !.auto = Bit(1, 0) = 1]
  BY DEF Register, VM0, DMM, DMAH, DMAL
<1>2. (Bit(1, 0) = 1) = TRUE
  BY BitsOf
<1>3. Register(c, DMM, 1) = [c EXCEPT !.auto = TRUE]
  BY <1>1, <1>2
<1> QED BY <1>3 DEF Chip

(* A character in the automatic increment goes where it should: the screen *)
(* that the rest of the text will leave does not change.                   *)
LEMMA CharacterWritten ==
  ASSUME NEW c \in Chip, NEW t \in Seq(Byte), t # <<>>
  PROVE  LET d == Character(c, t[1])
             a == c.dmah * Page + c.dmal
             b == d.dmah * Page + d.dmal
         IN  /\ d.vm0 = c.vm0
             /\ Becoming(c.ram, a, t) = IF d.auto THEN Becoming(d.ram, b, Tail(t)) ELSE d.ram
<1> DEFINE a == c.dmah * Page + c.dmal
           d == Character(c, t[1])
           n == a + 1
           w == [c.ram EXCEPT ![a] = t[1]]
<1>0. /\ Page \in Nat /\ c.dmah \in Nat /\ c.dmal \in Nat
      /\ c.ram \in [Cells -> Byte] /\ t[1] \in Byte /\ Rows * Cols \in Nat
  <2>1. Page \in Nat /\ Rows * Cols \in Nat
    BY ScreenAssumption
  <2>2. c.dmah \in Nat /\ c.dmal \in Nat /\ c.ram \in [Cells -> Byte]
    <3>1. c.dmah \in Byte /\ c.dmal \in Byte /\ c.ram \in [Cells -> Byte]
      BY DEF Chip
    <3>2. Byte \subseteq Nat
      BY DEF Byte
    <3> QED BY <3>1, <3>2
  <2>3. t[1] \in Byte
    OBVIOUS
  <2> QED BY <2>1, <2>2, <2>3
<1>1. a \in Nat
  BY <1>0
<1>2. CASE t[1] = END \/ a \notin Cells
  <2>1. d = [c EXCEPT !.auto = FALSE]
    BY <1>2 DEF Character
  <2>2. d.auto = FALSE /\ d.ram = c.ram /\ d.vm0 = c.vm0
    BY <2>1 DEF Chip
  <2>3. Becoming(c.ram, a, t) = c.ram
    <3> HIDE DEF a
    <3> QED BY <1>0, <1>1, <1>2, BecomingNothing, BecomingBeyond
  <2> HIDE DEF d, a
  <2>4. /\ d.vm0 = c.vm0
        /\ Becoming(c.ram, a, t) = IF d.auto THEN Becoming(d.ram, d.dmah * Page + d.dmal, Tail(t)) ELSE d.ram
    BY <2>2, <2>3
  <2> QED BY <2>4 DEF d, a
<1>3. CASE t[1] # END /\ a \in Cells
  <2>1. d = [c EXCEPT !.ram[a] = t[1], !.auto = n \in Cells, !.dmah = n \div Page, !.dmal = n % Page]
    BY <1>3 DEF Character
  <2>2. /\ d.auto = (n \in Cells) /\ d.ram = w /\ d.vm0 = c.vm0
        /\ d.dmah = n \div Page /\ d.dmal = n % Page
    BY <2>1 DEF Chip
  <2>3. n \in Nat /\ n <= Rows * Cols
    BY <1>0, <1>1, <1>3 DEF Cells
  <2>4. (n \div Page) * Page + (n % Page) = n
    <3> HIDE DEF n
    <3> QED BY <2>3, AddressBytes
  <2>5. /\ Tail(t) \in Seq(Byte) /\ w \in [Cells -> Byte]
        /\ Becoming(c.ram, a, t) = Becoming(w, n, Tail(t))
    <3> HIDE DEF a
    <3> QED BY <1>0, <1>3, BecomingStep
  <2>6. n \notin Cells => Becoming(w, n, Tail(t)) = w
    <3> HIDE DEF n, w
    <3> QED BY <2>3, <2>5, BecomingBeyond
  <2> HIDE DEF d, a, n, w
  <2>7. /\ d.vm0 = c.vm0
        /\ Becoming(c.ram, a, t) = IF d.auto THEN Becoming(d.ram, d.dmah * Page + d.dmal, Tail(t)) ELSE d.ram
    <3>1. d.dmah * Page + d.dmal = n
      BY <2>2, <2>4
    <3> QED BY <2>2, <2>5, <2>6, <3>1
  <2> QED BY <2>7 DEF d, a
<1> QED BY <1>2, <1>3

-----------------------------------------------------------------------------
(* The steps.                                                              *)

(* The frames of the calls that write no text.                             *)
LEMMA ShortFrames ==
  /\ \A a : <<a>> # <<>> /\ Head(<<a>>) = a /\ Tail(<<a>>) = <<>>
  /\ \A a, b : <<a, b>> # <<>> /\ Head(<<a, b>>) = a /\ Tail(<<a, b>>) = <<b>>
  /\ \A a, b, c : <<a, b, c>> # <<>> /\ Head(<<a, b, c>>) = a /\ Tail(<<a, b, c>>) = <<b, c>>
  /\ \A a, b, c, d : /\ <<a, b, c, d>> # <<>> /\ Head(<<a, b, c, d>>) = a
                     /\ Tail(<<a, b, c, d>>) = <<b, c, d>>
OBVIOUS

(* The frames of the calls that write a text.                              *)
LEMMA TextFrames ==
  ASSUME NEW kk \in Cells, NEW t \in Seq(Byte)
  PROVE  LET low == <<Reg(DMAL, kk % Page), Reg(DMM, 1)>> \o Characters(t)
             mode == <<Reg(DMM, 1)>> \o Characters(t)
         IN  /\ kk \div Page \in Byte /\ kk % Page \in Byte /\ (kk \div Page) * Page + (kk % Page) = kk
             /\ Written(kk, t) # <<>> /\ Head(Written(kk, t)) = Reg(DMAH, kk \div Page)
             /\ Tail(Written(kk, t)) = low
             /\ low # <<>> /\ Head(low) = Reg(DMAL, kk % Page) /\ Tail(low) = mode
             /\ mode # <<>> /\ Head(mode) = Reg(DMM, 1) /\ Tail(mode) = Characters(t)
<1>1. /\ kk \div Page \in Byte /\ kk % Page \in Byte /\ (kk \div Page) * Page + (kk % Page) = kk
  <2>1. Rows * Cols \in Nat
    BY ScreenAssumption
  <2>2. kk \in Nat /\ kk <= Rows * Cols
    BY <2>1 DEF Cells
  <2> QED BY <2>2, AddressBytes
<1>2. \A r \in Byte, v \in Byte : Reg(r, v) \in Frame
  BY DEF Frame
<1>3. DMAH \in Byte /\ DMAL \in Byte /\ DMM \in Byte /\ 1 \in Byte
  BY DEF DMAH, DMAL, DMM, Byte
<1>4. Reg(DMAH, kk \div Page) \in Frame /\ Reg(DMAL, kk % Page) \in Frame /\ Reg(DMM, 1) \in Frame
  BY <1>1, <1>2, <1>3
<1>5. Characters(t) \in Seq(Frame)
  BY CharactersFacts
<1> DEFINE a == Reg(DMAH, kk \div Page)
           b == Reg(DMAL, kk % Page)
           c == Reg(DMM, 1)
           x == Characters(t)
<1>6. a \in Frame /\ b \in Frame /\ c \in Frame /\ x \in Seq(Frame) /\ Written(kk, t) = <<a, b, c>> \o x
  BY <1>4, <1>5 DEF Written
<1> HIDE DEF a, b, c, x
<1>7. /\ <<a, b, c>> \o x # <<>> /\ Head(<<a, b, c>> \o x) = a /\ Tail(<<a, b, c>> \o x) = <<b, c>> \o x
      /\ <<b, c>> \o x # <<>> /\ Head(<<b, c>> \o x) = b /\ Tail(<<b, c>> \o x) = <<c>> \o x
      /\ <<c>> \o x # <<>> /\ Head(<<c>> \o x) = c /\ Tail(<<c>> \o x) = x
  <2>1. a \in Frame /\ b \in Frame /\ c \in Frame /\ x \in Seq(Frame)
    BY <1>6
  <2>2. <<a, b, c>> \o x # <<>> /\ Head(<<a, b, c>> \o x) = a /\ Tail(<<a, b, c>> \o x) = <<b, c>> \o x
    BY <2>1, FramesTaken
  <2>3. <<b, c>> \o x # <<>> /\ Head(<<b, c>> \o x) = b /\ Tail(<<b, c>> \o x) = <<c>> \o x
    BY <2>1, FramesTaken
  <2>4. <<c>> \o x # <<>> /\ Head(<<c>> \o x) = c /\ Tail(<<c>> \o x) = x
    BY <2>1, FramesTaken
  <2> QED BY <2>2, <2>3, <2>4
<1> QED BY <1>1, <1>6, <1>7, Zenon DEF a, b, c, x

(* What the state of a call says of the frames that are left.              *)
LEMMA CallCases ==
  ASSUME CallInv
  PROVE  \/ RestInv
         \/ frames # <<>> /\ (ResetInv \/ CheckInv \/ ProbeInv)
         \/ frames # <<>> /\ \E on \in BOOLEAN : EnableInv(on) \/ SwitchInv(on)
         \/ frames # <<>> /\ \E kk \in Cells, t \in Seq(Byte) :
                                WriteInv(kk, t) \/ LowInv(kk, t) \/ ModeInv(kk, t) \/ TextInv(t)
<1>1. ResetInv \/ CheckInv \/ ProbeInv => frames # <<>>
  BY ShortFrames DEF ResetInv, CheckInv, ProbeInv
<1>2. ASSUME NEW on \in BOOLEAN, EnableInv(on) \/ SwitchInv(on) PROVE frames # <<>>
  BY <1>2, ShortFrames DEF EnableInv, SwitchInv
<1>3. ASSUME NEW kk \in Cells, NEW t \in Seq(Byte),
             WriteInv(kk, t) \/ LowInv(kk, t) \/ ModeInv(kk, t) \/ TextInv(t)
      PROVE  frames # <<>>
  BY <1>3, TextFrames, CharactersFacts DEF WriteInv, LowInv, ModeInv, TextInv
<1> QED BY <1>1, <1>2, <1>3 DEF CallInv

(* A frame that meets a chip in reset is lost, and the history knows it.   *)
LEMMA LostStep ==
  ASSUME CallInv, resetting, frames # <<>>, frames' = Tail(frames),
         chip' = chip, resetting' = resetting, disturbed' = TRUE
  PROVE  CallInv'
<1>0. \/ ResetInv \/ CheckInv \/ ProbeInv
      \/ \E on \in BOOLEAN : EnableInv(on) \/ SwitchInv(on)
      \/ \E kk \in Cells, t \in Seq(Byte) :
            WriteInv(kk, t) \/ LowInv(kk, t) \/ ModeInv(kk, t) \/ TextInv(t)
  BY CallCases DEF RestInv
<1>1. CASE ResetInv
  <2>1. RestInv'
    BY <1>1, ShortFrames DEF ResetInv, RestInv
  <2> QED BY <2>1 DEF CallInv
<1>2. CASE CheckInv
  <2>1. ProbeInv'
    BY <1>2, ShortFrames DEF CheckInv, ProbeInv
  <2> QED BY <2>1 DEF CallInv
<1>3. CASE ProbeInv
  <2>0. frames' = <<ReadVM0("r2"), Restore>> \/ frames' = <<Restore>> \/ frames' = <<>>
    <3>1. \/ frames = <<Probe, ReadVM0("r2"), Restore>> \/ frames = <<ReadVM0("r2"), Restore>>
          \/ frames = <<Restore>>
      BY <1>3 DEF ProbeInv
    <3>2. CASE frames = <<Probe, ReadVM0("r2"), Restore>>
      <4>1. Tail(<<Probe, ReadVM0("r2"), Restore>>) = <<ReadVM0("r2"), Restore>>
        BY ShortFrames
      <4> QED BY <3>2, <4>1
    <3>3. CASE frames = <<ReadVM0("r2"), Restore>>
      BY <3>3, ShortFrames, Zenon
    <3>4. CASE frames = <<Restore>>
      BY <3>4, ShortFrames, Zenon
    <3> QED BY <3>1, <3>2, <3>3, <3>4
  <2>1. ProbeInv' \/ RestInv'
    BY <1>3, <2>0 DEF RestInv, ProbeInv
  <2> QED BY <2>1 DEF CallInv
<1>4. ASSUME NEW on \in BOOLEAN, EnableInv(on) \/ SwitchInv(on) PROVE CallInv'
  <2>0. frames' = <<Switch(on)>> \/ frames' = <<>>
    <3>1. frames = <<ReadVM0("r1"), Switch(on)>> \/ frames = <<Switch(on)>>
      BY <1>4 DEF EnableInv, SwitchInv
    <3> QED BY <3>1, ShortFrames, Zenon
  <2>1. SwitchInv(on)' \/ RestInv'
    BY <1>4, <2>0 DEF RestInv, EnableInv, SwitchInv
  <2> QED BY <2>1 DEF CallInv
<1>5. ASSUME NEW kk \in Cells, NEW t \in Seq(Byte),
             WriteInv(kk, t) \/ LowInv(kk, t) \/ ModeInv(kk, t)
      PROVE  CallInv'
  <2>1. LowInv(kk, t)' \/ ModeInv(kk, t)' \/ TextInv(t)'
    BY <1>5, TextFrames DEF WriteInv, LowInv, ModeInv, TextInv
  <2> QED BY <2>1 DEF CallInv
<1>6. ASSUME NEW kk \in Cells, NEW t \in Seq(Byte), TextInv(t) PROVE CallInv'
  <2>1. CASE t = <<>>
    <3>1. RestInv'
      BY <1>6, <2>1, CharactersFacts DEF TextInv, RestInv
    <3> QED BY <3>1 DEF CallInv
  <2>2. CASE t # <<>>
    <3>1. Tail(t) \in Seq(Byte) /\ TextInv(Tail(t))'
      BY <1>6, <2>2, CharactersFacts DEF TextInv
    <3> QED BY <3>1 DEF CallInv
  <2> QED BY <2>1, <2>2
<1> QED BY <1>0, <1>1, <1>2, <1>3, <1>4, <1>5, <1>6

(* A chip that is not in reset takes the frame.                            *)
LEMMA TakenReset ==
  ASSUME ChipInv, ~resetting, ResetInv, Sent(Head(frames)), frames' = Tail(frames),
         UNCHANGED <<shown, lit, disturbed>>
  PROVE  ChipInv' /\ RestInv'
<1>1. Head(frames) = Reg(VM0, 2) /\ frames' = <<>>
  BY ShortFrames DEF ResetInv
<1>2. VM0 \in Byte /\ 2 \in Byte /\ Idle(chip) /\ chip \in Chip /\ chip.auto = FALSE
  <2>1. VM0 \in Byte /\ 2 \in Byte
    BY DEF VM0, Byte
  <2>2. Idle(chip) /\ chip \in Chip
    BY DEF ChipInv, Idle
  <2> QED BY <2>1, <2>2 DEF ResetInv, Chip
<1>3. /\ Idle(chip') /\ resetting' = (Bit(chip'.vm0, 1) = 1)
      /\ chip' = Register(chip, VM0, 2)
  BY <1>1, <1>2, SentReg
<1>4. chip'.vm0 = 2 /\ chip'.auto = FALSE
  BY <1>2, <1>3, RegisterVM0
<1>5. resetting' = TRUE
  BY <1>3, <1>4, BitsOf
<1> QED BY <1>1, <1>3, <1>4, <1>5 DEF ChipInv, RestInv, ResetInv, Screen, Light

(* at7456e.osd writes VM0 back.                                            *)
LEMMA TakenSwitch ==
  ASSUME ChipInv, r1 \in Byte, ~resetting, NEW on \in BOOLEAN, SwitchInv(on), Sent(Head(frames)),
         frames' = Tail(frames), UNCHANGED <<shown, lit, disturbed>>
  PROVE  ChipInv' /\ RestInv'
<1> DEFINE ch == IF on THEN "on" ELSE "off"
           v == Changed(ch)
<1>1. Head(frames) = VM0From(ch) /\ frames' = <<>>
  BY ShortFrames DEF SwitchInv, Switch
<1>2. v \in Byte /\ Bit(v, 1) = Bit(r1, 1) /\ (Bit(v, 3) = 1) = on
  BY ChangedFacts
<1>3. Idle(chip) /\ chip \in Chip /\ chip.auto = FALSE
  BY DEF ChipInv, Idle, SwitchInv, Chip
<1> HIDE DEF ch
<1>4. /\ Idle(chip') /\ resetting' = (Bit(chip'.vm0, 1) = 1)
      /\ chip' = Register(chip, VM0, v)
  BY <1>1, <1>2, <1>3, SentVM0
<1> HIDE DEF v
<1>5. chip'.vm0 = v /\ chip'.auto = FALSE /\ chip'.ram = chip.ram
  BY <1>2, <1>3, <1>4, RegisterVM0
<1>6. ~disturbed => /\ Bit(chip.vm0, 1) # 1 /\ r1 = chip.vm0 /\ shown = chip.ram /\ lit = on
  BY DEF ChipInv, SwitchInv
<1>7. ~disturbed => resetting' = FALSE /\ (Bit(chip'.vm0, 3) = 1) = on
  BY <1>2, <1>4, <1>5, <1>6
<1>8. ~disturbed' => shown' = Screen' /\ lit' = Light'
  <2> SUFFICES ASSUME ~disturbed PROVE shown' = Screen' /\ lit' = Light'
    OBVIOUS
  <2>1. Screen' = chip'.ram
    BY <1>7 DEF Screen
  <2>2. Light' = (Bit(chip'.vm0, 3) = 1)
    BY <1>7 DEF Light
  <2> QED BY <1>5, <1>6, <1>7, <2>1, <2>2
<1> QED BY <1>1, <1>4, <1>5, <1>8 DEF ChipInv, RestInv

(* at7456e.init writes VM0 to probe it, and writes r1 back.                *)
LEMMA TakenProbe ==
  ASSUME ChipInv, r1 \in Byte, ~resetting, ProbeInv, Head(frames).kind # "read", Sent(Head(frames)),
         frames' = Tail(frames), frames' # <<>> => r1' = r1, UNCHANGED <<shown, lit, disturbed>>
  PROVE  ChipInv' /\ (ProbeInv' \/ RestInv')
<1>0. Idle(chip) /\ chip \in Chip /\ chip.auto = FALSE
  BY DEF ChipInv, Idle, ProbeInv, Chip
<1>1. frames = <<Probe, ReadVM0("r2"), Restore>> \/ frames = <<Restore>>
  <2>1. frames # <<ReadVM0("r2"), Restore>>
    BY ShortFrames DEF ReadVM0
  <2> QED BY <2>1 DEF ProbeInv
<1>a. ASSUME NEW ch, Changed(ch) \in Byte, Head(frames) = VM0From(ch)
      PROVE  /\ Idle(chip') /\ resetting' = (Bit(chip'.vm0, 1) = 1)
             /\ chip'.vm0 = Changed(ch) /\ chip'.auto = FALSE /\ chip'.ram = chip.ram
  <2>1. /\ Idle(chip') /\ resetting' = (Bit(chip'.vm0, 1) = 1)
        /\ chip' = Register(chip, VM0, Changed(ch))
    BY <1>0, <1>a, SentVM0
  <2> QED BY <1>0, <1>a, <2>1, RegisterVM0
<1>2. CASE frames = <<Probe, ReadVM0("r2"), Restore>>
  <2>1. Head(frames) = VM0From("probe") /\ frames' = <<ReadVM0("r2"), Restore>>
    <3>1. /\ Head(<<Probe, ReadVM0("r2"), Restore>>) = Probe
          /\ Tail(<<Probe, ReadVM0("r2"), Restore>>) = <<ReadVM0("r2"), Restore>>
      BY ShortFrames
    <3> QED BY <1>2, <3>1 DEF Probe
  <2>2. Changed("probe") \in Byte /\ Bit(Changed("probe"), 1) = 0
    BY ChangedFacts
  <2>3. /\ Idle(chip') /\ resetting' = (Bit(chip'.vm0, 1) = 1)
        /\ chip'.vm0 = Changed("probe") /\ chip'.auto = FALSE /\ chip'.ram = chip.ram
    BY <1>a, <2>1, <2>2
  <2>4. resetting' = FALSE /\ r1' = r1
    <3>1. Bit(chip'.vm0, 1) # 1
      BY <2>2, <2>3
    <3>2. frames' # <<>>
      BY <2>1, ShortFrames
    <3> QED BY <2>3, <3>1, <3>2
  <2>5. ProbeInv'
    BY <2>1, <2>3, <2>4 DEF ProbeInv
  <2> QED BY <2>3, <2>5 DEF ChipInv
<1>3. CASE frames = <<Restore>>
  <2>1. Head(frames) = VM0From("restore") /\ frames' = <<>>
    BY <1>3, ShortFrames DEF Restore
  <2>2. Changed("restore") = r1
    BY ChangedFacts
  <2>3. /\ Idle(chip') /\ resetting' = (Bit(chip'.vm0, 1) = 1)
        /\ chip'.vm0 = r1 /\ chip'.auto = FALSE /\ chip'.ram = chip.ram
    BY <1>a, <2>1, <2>2
  <2>4. ~disturbed' => shown' = Screen' /\ lit' = Light'
    <3> SUFFICES ASSUME ~disturbed PROVE shown' = Screen' /\ lit' = Light'
      OBVIOUS
    <3>1. shown = chip.ram /\ Bit(r1, 1) = 0 /\ lit = (Bit(r1, 3) = 1)
      BY DEF ProbeInv
    <3>2. resetting' = FALSE
      <4>1. Bit(chip'.vm0, 1) # 1
        BY <2>3, <3>1
      <4> QED BY <2>3, <4>1
    <3>3. Screen' = chip'.ram
      BY <3>2 DEF Screen
    <3>4. Light' = (Bit(chip'.vm0, 3) = 1)
      BY <3>2 DEF Light
    <3> QED BY <2>3, <3>1, <3>3, <3>4
  <2> QED BY <2>1, <2>3, <2>4 DEF ChipInv, RestInv
<1> QED BY <1>1, <1>2, <1>3

(* The calls that write a text set the address and start the increment.    *)
LEMMA TakenWrite ==
  ASSUME ChipInv, ~resetting, NEW kk \in Cells, NEW t \in Seq(Byte),
         WriteInv(kk, t) \/ LowInv(kk, t) \/ ModeInv(kk, t), Sent(Head(frames)),
         frames' = Tail(frames), UNCHANGED <<shown, lit, disturbed>>
  PROVE  ChipInv' /\ (LowInv(kk, t)' \/ ModeInv(kk, t)' \/ TextInv(t)')
<1>0. Idle(chip) /\ chip \in Chip /\ chip.auto = FALSE
  <2>1. Idle(chip) /\ chip \in Chip
    BY DEF ChipInv, Idle
  <2> QED BY <2>1 DEF WriteInv, LowInv, ModeInv, Chip
<1>1. /\ kk \div Page \in Byte /\ kk % Page \in Byte /\ (kk \div Page) * Page + (kk % Page) = kk
      /\ DMAH \in Byte /\ DMAL \in Byte /\ DMM \in Byte /\ 1 \in Byte
  <2>1. DMAH \in Byte /\ DMAL \in Byte /\ DMM \in Byte /\ 1 \in Byte
    BY DEF DMAH, DMAL, DMM, Byte
  <2> QED BY <2>1, TextFrames
<1>2. Bit(chip.vm0, 1) # 1
  BY DEF ChipInv
<1>a. ASSUME chip'.vm0 = chip.vm0, resetting' = (Bit(chip'.vm0, 1) = 1)
      PROVE  resetting' = FALSE /\ Light' = Light
  <2>1. resetting' = FALSE
    BY <1>2, <1>a
  <2> QED BY <2>1, <1>a DEF Light
<1>3. CASE WriteInv(kk, t)
  <2>1. Head(frames) = Reg(DMAH, kk \div Page)
        /\ frames' = <<Reg(DMAL, kk % Page), Reg(DMM, 1)>> \o Characters(t)
    BY <1>3, TextFrames DEF WriteInv
  <2>2. /\ Idle(chip') /\ resetting' = (Bit(chip'.vm0, 1) = 1)
        /\ chip' = Register(chip, DMAH, kk \div Page)
    BY <1>0, <1>1, <2>1, SentReg
  <2>3. chip'.dmah = kk \div Page /\ chip'.auto = FALSE /\ chip'.ram = chip.ram /\ chip'.vm0 = chip.vm0
    BY <1>0, <1>1, <2>2, RegisterDMAH
  <2>4. resetting' = FALSE /\ Light' = Light
    BY <1>a, <2>2, <2>3
  <2>5. ~disturbed => shown = Becoming(chip.ram, kk, t) /\ lit = Light
    BY <1>3 DEF WriteInv, Screen
  <2>6. LowInv(kk, t)'
    BY <2>1, <2>3, <2>4, <2>5 DEF LowInv
  <2> QED BY <2>2, <2>6 DEF ChipInv
<1>4. CASE LowInv(kk, t)
  <2>1. Head(frames) = Reg(DMAL, kk % Page) /\ frames' = <<Reg(DMM, 1)>> \o Characters(t)
    BY <1>4, TextFrames DEF LowInv
  <2>2. /\ Idle(chip') /\ resetting' = (Bit(chip'.vm0, 1) = 1)
        /\ chip' = Register(chip, DMAL, kk % Page)
    BY <1>0, <1>1, <2>1, SentReg
  <2>3. /\ chip'.dmal = kk % Page /\ chip'.auto = FALSE /\ chip'.ram = chip.ram /\ chip'.vm0 = chip.vm0
        /\ chip'.dmah = chip.dmah
    BY <1>0, <1>1, <2>2, RegisterDMAL
  <2>4. resetting' = FALSE /\ Light' = Light
    BY <1>a, <2>2, <2>3
  <2>5. ~disturbed => /\ shown = Becoming(chip.ram, kk, t) /\ lit = Light
                      /\ chip.dmah = kk \div Page
    BY <1>4 DEF LowInv
  <2>6. ~disturbed => chip'.dmah * Page + chip'.dmal = kk
    BY <1>1, <2>3, <2>5
  <2>7. ModeInv(kk, t)'
    BY <2>1, <2>3, <2>4, <2>5, <2>6 DEF ModeInv
  <2> QED BY <2>2, <2>7 DEF ChipInv
<1>5. CASE ModeInv(kk, t)
  <2>1. Head(frames) = Reg(DMM, 1) /\ frames' = Characters(t)
    BY <1>5, TextFrames DEF ModeInv
  <2>2. /\ Idle(chip') /\ resetting' = (Bit(chip'.vm0, 1) = 1)
        /\ chip' = Register(chip, DMM, 1)
    BY <1>0, <1>1, <2>1, SentReg
  <2>3. /\ chip'.auto = TRUE /\ chip'.ram = chip.ram /\ chip'.vm0 = chip.vm0
        /\ chip'.dmah = chip.dmah /\ chip'.dmal = chip.dmal
    BY <1>0, <2>2, RegisterDMM
  <2>4. resetting' = FALSE /\ Light' = Light
    BY <1>a, <2>2, <2>3
  <2>5. ~disturbed => /\ shown = Becoming(chip.ram, kk, t) /\ lit = Light
                      /\ chip.dmah * Page + chip.dmal = kk
    BY <1>5 DEF ModeInv
  <2>6. ~disturbed => shown = Becoming(chip'.ram, chip'.dmah * Page + chip'.dmal, t)
    BY <2>3, <2>5
  <2>7. TextInv(t)'
    BY <2>1, <2>3, <2>4, <2>5, <2>6 DEF TextInv
  <2> QED BY <2>2, <2>7 DEF ChipInv
<1> QED BY <1>3, <1>4, <1>5

(* A character, or the END after the last one.                             *)
LEMMA TakenText ==
  ASSUME ChipInv, ~resetting, NEW t \in Seq(Byte), TextInv(t), Sent(Head(frames)),
         frames' = Tail(frames), UNCHANGED <<shown, lit, disturbed>>
  PROVE  ChipInv' /\ (RestInv' \/ (t # <<>> /\ Tail(t) \in Seq(Byte) /\ TextInv(Tail(t))'))
<1>0. Idle(chip) /\ chip \in Chip /\ chip.auto \in BOOLEAN /\ Bit(chip.vm0, 1) # 1
  <2>1. Idle(chip) /\ chip \in Chip /\ Bit(chip.vm0, 1) # 1
    BY DEF ChipInv, Idle
  <2> QED BY <2>1 DEF Chip
<1>a. ASSUME chip'.vm0 = chip.vm0, resetting' = (Bit(chip'.vm0, 1) = 1)
      PROVE  resetting' = FALSE /\ Light' = Light
  <2>1. resetting' = FALSE
    BY <1>0, <1>a
  <2> QED BY <2>1, <1>a DEF Light
<1>1. CASE t = <<>>
  <2>1. Head(frames) = Data(END) /\ frames' = <<>> /\ END \in Byte
    <3>1. END \in Byte
      BY DEF END, Byte
    <3> QED BY <1>1, <3>1, CharactersFacts DEF TextInv
  <2>2. /\ Idle(chip') /\ resetting' = (Bit(chip'.vm0, 1) = 1)
        /\ chip' = IF chip.auto THEN Character(chip, END) ELSE chip
    BY <1>0, <2>1, SentData
  <2>3. Character(chip, END) = [chip EXCEPT !.auto = FALSE]
    BY DEF Character
  <2>4. chip'.auto = FALSE /\ chip'.ram = chip.ram /\ chip'.vm0 = chip.vm0
    BY <1>0, <2>2, <2>3 DEF Chip
  <2>5. resetting' = FALSE /\ Light' = Light
    BY <1>a, <2>2, <2>4
  <2>6. ~disturbed => shown = chip.ram /\ lit = Light
    <3> SUFFICES ASSUME ~disturbed PROVE shown = chip.ram /\ lit = Light
      OBVIOUS
    <3> DEFINE a == chip.dmah * Page + chip.dmal
    <3>1. lit = Light /\ shown = IF chip.auto THEN Becoming(chip.ram, a, t) ELSE chip.ram
      BY DEF TextInv
    <3>2. a \in Nat /\ chip.ram \in [Cells -> Byte]
      <4>1. Page \in Nat
        BY ScreenAssumption
      <4>2. chip.dmah \in Byte /\ chip.dmal \in Byte /\ chip.ram \in [Cells -> Byte]
        BY <1>0 DEF Chip
      <4>3. Byte \subseteq Nat
        BY DEF Byte
      <4>4. chip.dmah \in Nat /\ chip.dmal \in Nat
        BY <4>2, <4>3
      <4>5. chip.dmah * Page \in Nat
        BY <4>1, <4>4
      <4> QED BY <4>2, <4>4, <4>5
    <3> HIDE DEF a
    <3>3. Becoming(chip.ram, a, t) = chip.ram
      BY <3>2, <1>1, BecomingNothing
    <3> QED BY <3>1, <3>3
  <2>7. Screen' = chip'.ram
    BY <2>5 DEF Screen
  <2>8. RestInv'
    BY <2>1, <2>4, <2>5, <2>6, <2>7 DEF RestInv
  <2> QED BY <2>2, <2>8 DEF ChipInv
<1>2. CASE t # <<>>
  <2>1. /\ Head(frames) = Data(t[1]) /\ frames' = Characters(Tail(t)) /\ t[1] \in Byte
        /\ Tail(t) \in Seq(Byte)
    BY <1>2, CharactersFacts DEF TextInv
  <2>2. /\ Idle(chip') /\ resetting' = (Bit(chip'.vm0, 1) = 1)
        /\ chip' = IF chip.auto THEN Character(chip, t[1]) ELSE chip
    BY <1>0, <2>1, SentData
  <2>3. CASE chip.auto = TRUE
    <3>1. /\ chip'.vm0 = chip.vm0
          /\ Becoming(chip.ram, chip.dmah * Page + chip.dmal, t)
               = IF chip'.auto THEN Becoming(chip'.ram, chip'.dmah * Page + chip'.dmal, Tail(t))
                 ELSE chip'.ram
      <4>1. chip' = Character(chip, t[1])
        BY <2>2, <2>3
      <4> QED BY <1>0, <1>2, <4>1, CharacterWritten
    <3>2. resetting' = FALSE /\ Light' = Light
      BY <1>a, <2>2, <3>1
    <3>3. ~disturbed => shown = Becoming(chip.ram, chip.dmah * Page + chip.dmal, t) /\ lit = Light
      BY <2>3 DEF TextInv
    <3>4. TextInv(Tail(t))'
      BY <2>1, <3>1, <3>2, <3>3 DEF TextInv
    <3> QED BY <1>2, <2>1, <2>2, <3>4 DEF ChipInv
  <2>4. CASE chip.auto = FALSE
    <3>1. chip' = chip
      BY <2>2, <2>4
    <3>2. resetting' = FALSE /\ Light' = Light
      BY <1>a, <2>2, <3>1
    <3>3. TextInv(Tail(t))'
      BY <2>1, <2>4, <3>1, <3>2 DEF TextInv
    <3> QED BY <1>2, <2>1, <2>2, <3>3 DEF ChipInv
  <2> QED BY <1>0, <2>3, <2>4
<1> QED BY <1>1, <1>2

(* The types of the history and of r1, and the chip's own.                 *)
LEMMA OsdTypeKept ==
  ASSUME ChipInv', r1' \in Byte, shown' \in [Cells -> Byte], lit' \in BOOLEAN, disturbed' \in BOOLEAN
  PROVE  OsdTypeOK'
<1>1. chip' \in Chip /\ resetting' = (Bit(chip'.vm0, 1) = 1)
  BY DEF ChipInv, Idle
<1>2. resetting' \in BOOLEAN
  BY <1>1
<1>3. /\ chip'.ncs \in 0..1 /\ chip'.sck \in 0..1 /\ chip'.sdi \in 0..1 /\ chip'.auto \in BOOLEAN
      /\ chip'.vm0 \in Byte /\ chip'.dmah \in Byte /\ chip'.dmal \in Byte /\ chip'.ram \in [Cells -> Byte]
  BY <1>1 DEF Chip, Bits
<1> QED BY <1>2, <1>3 DEF OsdTypeOK

(* Blank is a screen.                                                      *)
LEMMA BlankType == Blank \in [Cells -> Byte]
<1>1. 0 \in Byte
  BY DEF Byte
<1> QED BY <1>1 DEF Blank

(* SendFrame keeps the invariant.                                          *)
LEMMA OsdSendInd ==
  ASSUME OsdIndInv, SendFrame
  PROVE  OsdIndInv'
<1>0. /\ ChipInv /\ CallInv /\ frames # <<>> /\ Head(frames).kind # "read" /\ frames' = Tail(frames)
      /\ r1 \in Byte /\ r1' \in Byte /\ resetting \in BOOLEAN
  <2>1. 0 \in Byte
    BY DEF Byte
  <2> QED BY <2>1 DEF OsdIndInv, SendFrame, OsdTypeOK
<1>a. frames' # <<>> => r1' = r1
  BY DEF SendFrame
<1>1. CASE resetting = TRUE
  <2>1. /\ chip' = chip /\ resetting' = resetting /\ disturbed' = TRUE
        /\ shown' = Blank /\ lit' = FALSE
    BY <1>1 DEF SendFrame, Disturb
  <2>2. CallInv'
    BY <1>0, <1>1, <2>1, LostStep
  <2>3. ChipInv'
    BY <1>0, <2>1 DEF ChipInv
  <2>4. OsdTypeOK'
    BY <1>0, <2>1, <2>3, BlankType, OsdTypeKept
  <2> QED BY <2>2, <2>3, <2>4 DEF OsdIndInv
<1>2. CASE resetting = FALSE
  <2>1. Sent(Head(frames)) /\ UNCHANGED <<shown, lit, disturbed>>
    BY <1>2 DEF SendFrame
  <2>2. ChipInv' /\ CallInv'
    <3>0. \/ ResetInv \/ CheckInv \/ ProbeInv
          \/ \E on \in BOOLEAN : EnableInv(on) \/ SwitchInv(on)
          \/ \E kk \in Cells, t \in Seq(Byte) :
                WriteInv(kk, t) \/ LowInv(kk, t) \/ ModeInv(kk, t) \/ TextInv(t)
      BY <1>0, CallCases DEF RestInv
    <3>1. CASE ResetInv
      <4>1. ChipInv' /\ RestInv'
        BY <1>0, <1>2, <2>1, <3>1, TakenReset
      <4> QED BY <4>1 DEF CallInv
    <3>2. CASE CheckInv
      <4>1. Head(frames) = ReadVM0("r1")
        BY <3>2, ShortFrames DEF CheckInv
      <4> QED BY <1>0, <4>1 DEF ReadVM0
    <3>3. CASE ProbeInv
      <4>1. ChipInv' /\ (ProbeInv' \/ RestInv')
        BY <1>0, <1>a, <1>2, <2>1, <3>3, TakenProbe
      <4> QED BY <4>1 DEF CallInv
    <3>4. ASSUME NEW on \in BOOLEAN, EnableInv(on) PROVE FALSE
      <4>1. Head(frames) = ReadVM0("r1")
        BY <3>4, ShortFrames DEF EnableInv
      <4> QED BY <1>0, <4>1 DEF ReadVM0
    <3>5. ASSUME NEW on \in BOOLEAN, SwitchInv(on) PROVE ChipInv' /\ CallInv'
      <4>1. ChipInv' /\ RestInv'
        BY <1>0, <1>2, <2>1, <3>5, TakenSwitch
      <4> QED BY <4>1 DEF CallInv
    <3>6. ASSUME NEW kk \in Cells, NEW t \in Seq(Byte),
                 WriteInv(kk, t) \/ LowInv(kk, t) \/ ModeInv(kk, t)
          PROVE  ChipInv' /\ CallInv'
      <4>1. ChipInv' /\ (LowInv(kk, t)' \/ ModeInv(kk, t)' \/ TextInv(t)')
        BY <1>0, <1>2, <2>1, <3>6, TakenWrite
      <4> QED BY <4>1 DEF CallInv
    <3>7. ASSUME NEW kk \in Cells, NEW t \in Seq(Byte), TextInv(t) PROVE ChipInv' /\ CallInv'
      <4>1. ChipInv' /\ (RestInv' \/ (t # <<>> /\ Tail(t) \in Seq(Byte) /\ TextInv(Tail(t))'))
        BY <1>0, <1>2, <2>1, <3>7, TakenText
      <4> QED BY <4>1 DEF CallInv
    <3> QED BY <3>0, <3>1, <3>2, <3>3, <3>4, <3>5, <3>6, <3>7
  <2>3. OsdTypeOK'
    <3>1. shown' \in [Cells -> Byte] /\ lit' \in BOOLEAN /\ disturbed' \in BOOLEAN
      BY <2>1 DEF OsdIndInv, OsdTypeOK
    <3> QED BY <1>0, <2>2, <3>1, OsdTypeKept
  <2> QED BY <2>2, <2>3 DEF OsdIndInv
<1> QED BY <1>0, <1>1, <1>2

(* ReadFrame keeps it.                                                     *)
LEMMA OsdReadInd ==
  ASSUME OsdIndInv, ReadFrame
  PROVE  OsdIndInv'
<1>0. /\ ChipInv /\ CallInv /\ frames # <<>> /\ Head(frames).kind = "read" /\ frames' = Tail(frames)
      /\ r1 \in Byte /\ resetting \in BOOLEAN /\ chip' = chip /\ resetting' = resetting
      /\ chip.vm0 \in Byte
  BY DEF OsdIndInv, ReadFrame, OsdTypeOK
<1>1. r1' \in CASE Head(frames).var = "r2" -> {r1}
                [] Head(frames).var # "r2" /\ resetting -> {0, 255}
                [] OTHER -> {chip.vm0}
  BY DEF ReadFrame
<1>2. r1' \in Byte
  <2>1. 0 \in Byte /\ 255 \in Byte
    BY DEF Byte
  <2>2. r1' = r1 \/ r1' = 0 \/ r1' = 255 \/ r1' = chip.vm0
    BY <1>1
  <2> QED BY <1>0, <2>1, <2>2
<1>3. ChipInv'
  BY <1>0 DEF ChipInv
<1>4. CASE resetting = TRUE
  <2>1. disturbed' = TRUE /\ shown' = Blank /\ lit' = FALSE
    BY <1>4 DEF ReadFrame, Disturb
  <2>2. CallInv'
    BY <1>0, <1>4, <2>1, LostStep
  <2>3. OsdTypeOK'
    BY <1>2, <1>3, <2>1, BlankType, OsdTypeKept
  <2> QED BY <1>3, <2>2, <2>3 DEF OsdIndInv
<1>5. CASE resetting = FALSE
  <2>1. UNCHANGED <<shown, lit, disturbed>>
    BY <1>5 DEF ReadFrame
  <2>2. Bit(chip.vm0, 1) = 0
    <3>1. Bit(chip.vm0, 1) \in 0..1
      BY <1>0, BitsOf
    <3>2. Bit(chip.vm0, 1) # 1
      BY <1>0, <1>5 DEF ChipInv
    <3> QED BY <3>1, <3>2
  <2>3. /\ Screen = chip.ram /\ Light = (Bit(chip.vm0, 3) = 1)
    BY <1>5 DEF Screen, Light
  <2>4. ASSUME Head(frames) = ReadVM0("r1") PROVE r1' = chip.vm0
    <3>1. Head(frames).var # "r2"
      BY <2>4 DEF ReadVM0
    <3> QED BY <1>1, <1>5, <3>1
  <2>5. CallInv'
    <3>0. \/ ResetInv \/ CheckInv \/ ProbeInv
          \/ \E on \in BOOLEAN : EnableInv(on) \/ SwitchInv(on)
          \/ \E kk \in Cells, t \in Seq(Byte) :
                WriteInv(kk, t) \/ LowInv(kk, t) \/ ModeInv(kk, t) \/ TextInv(t)
      BY <1>0, CallCases DEF RestInv
    <3>1. CASE ResetInv
      <4>1. Head(frames) = Reg(VM0, 2)
        BY <3>1, ShortFrames DEF ResetInv
      <4> QED BY <1>0, <4>1 DEF Reg
    <3>2. CASE CheckInv
      <4>1. Head(frames) = ReadVM0("r1") /\ frames' = <<Probe, ReadVM0("r2"), Restore>>
        BY <1>0, <3>2, ShortFrames DEF CheckInv
      <4>2. r1' = chip.vm0
        BY <2>4, <4>1
      <4>3. ProbeInv'
        BY <1>0, <1>5, <2>1, <2>2, <2>3, <3>2, <4>1, <4>2 DEF ProbeInv, CheckInv
      <4> QED BY <4>3 DEF CallInv
    <3>3. CASE ProbeInv
      <4>1. frames = <<ReadVM0("r2"), Restore>>
        <5>1. frames # <<Restore>>
          BY <1>0, ShortFrames DEF Restore, VM0From
        <5>2. frames # <<Probe, ReadVM0("r2"), Restore>>
          <6>1. Head(<<Probe, ReadVM0("r2"), Restore>>) = Probe
            BY ShortFrames
          <6> QED BY <1>0, <6>1 DEF Probe, VM0From
        <5> QED BY <5>1, <5>2, <3>3 DEF ProbeInv
      <4>2. Head(frames) = ReadVM0("r2") /\ frames' = <<Restore>>
        BY <1>0, <4>1, ShortFrames
      <4>3. r1' = r1
        <5>1. Head(frames).var = "r2"
          BY <4>2 DEF ReadVM0
        <5> QED BY <1>1, <1>5, <5>1
      <4>4. ProbeInv'
        BY <1>0, <2>1, <3>3, <4>2, <4>3 DEF ProbeInv
      <4> QED BY <4>4 DEF CallInv
    <3>4. ASSUME NEW on \in BOOLEAN, EnableInv(on) PROVE CallInv'
      <4>1. Head(frames) = ReadVM0("r1") /\ frames' = <<Switch(on)>>
        BY <1>0, <3>4, ShortFrames DEF EnableInv
      <4>2. r1' = chip.vm0
        BY <2>4, <4>1
      <4>3. SwitchInv(on)'
        BY <1>0, <1>5, <2>1, <2>3, <3>4, <4>1, <4>2 DEF EnableInv, SwitchInv
      <4> QED BY <4>3 DEF CallInv
    <3>5. ASSUME NEW on \in BOOLEAN, SwitchInv(on) PROVE FALSE
      <4>1. Head(frames) = Switch(on)
        BY <3>5, ShortFrames DEF SwitchInv
      <4> QED BY <1>0, <4>1 DEF Switch, VM0From
    <3>6. ASSUME NEW kk \in Cells, NEW t \in Seq(Byte),
                 WriteInv(kk, t) \/ LowInv(kk, t) \/ ModeInv(kk, t)
          PROVE  FALSE
      <4>1. Head(frames).kind = "reg"
        BY <3>6, TextFrames DEF WriteInv, LowInv, ModeInv, Reg
      <4> QED BY <1>0, <4>1
    <3>7. ASSUME NEW kk \in Cells, NEW t \in Seq(Byte), TextInv(t) PROVE FALSE
      <4>1. Head(frames) = Data(END) \/ Head(frames) = Data(t[1])
        BY <3>7, CharactersFacts DEF TextInv
      <4> QED BY <1>0, <4>1 DEF Data
    <3> QED BY <3>0, <3>1, <3>2, <3>3, <3>4, <3>5, <3>6, <3>7
  <2>6. OsdTypeOK'
    <3>1. shown' \in [Cells -> Byte] /\ lit' \in BOOLEAN /\ disturbed' \in BOOLEAN
      BY <2>1 DEF OsdIndInv, OsdTypeOK
    <3> QED BY <1>2, <1>3, <3>1, OsdTypeKept
  <2> QED BY <1>3, <2>5, <2>6 DEF OsdIndInv
<1> QED BY <1>0, <1>4, <1>5

(* The end of a reset keeps it: what it blanks was expected to be blank.   *)
LEMMA OsdResetInd ==
  ASSUME OsdIndInv, ResetDone
  PROVE  OsdIndInv'
<1>0. /\ ChipInv /\ CallInv /\ resetting = TRUE /\ resetting' = FALSE
      /\ chip' = [chip EXCEPT !.auto = FALSE, !.vm0 = 0, !.dmah = 0, !.dmal = 0, !.ram = Blank]
      /\ UNCHANGED <<frames, r1, shown, lit, disturbed>>
  BY DEF OsdIndInv, OsdTypeOK, ResetDone
<1>1. Idle(chip) /\ chip \in Chip /\ 0 \in Byte /\ FALSE \in BOOLEAN
  BY <1>0 DEF ChipInv, Idle, Byte
<1>2. /\ chip' \in Chip /\ chip'.ncs = chip.ncs /\ chip'.sck = chip.sck /\ chip'.sdi = chip.sdi
      /\ chip'.bits = chip.bits /\ chip'.auto = FALSE /\ chip'.vm0 = 0 /\ chip'.ram = Blank
  BY <1>0, <1>1, BlankType DEF Chip
<1>3. ChipInv'
  <2>1. Idle(chip')
    BY <1>1, <1>2 DEF Idle
  <2>2. Bit(chip'.vm0, 1) # 1
    BY <1>2, BitsOf
  <2> QED BY <1>0, <2>1, <2>2 DEF ChipInv
<1>4. Screen = Blank /\ Screen' = Blank /\ Light = FALSE /\ Light' = FALSE
  <2>1. Bit(chip'.vm0, 3) # 1
    BY <1>2, BitsOf
  <2> QED BY <1>0, <1>2, <2>1 DEF Screen, Light
<1>5. CallInv'
  <2>1. CASE RestInv
    <3>1. RestInv'
      BY <1>0, <1>2, <1>4, <2>1 DEF RestInv
    <3> QED BY <3>1 DEF CallInv
  <2>2. CASE ResetInv
    <3>1. ResetInv'
      BY <1>0, <1>2, <2>2 DEF ResetInv
    <3> QED BY <3>1 DEF CallInv
  <2>3. CASE CheckInv
    <3>1. CheckInv'
      BY <1>0, <1>2, <1>4, <2>3 DEF CheckInv
    <3> QED BY <3>1 DEF CallInv
  <2>4. CASE ProbeInv
    <3>1. ProbeInv'
      BY <1>0, <1>2, <2>4 DEF ProbeInv
    <3> QED BY <3>1 DEF CallInv
  <2>5. ASSUME NEW on \in BOOLEAN, EnableInv(on) PROVE CallInv'
    <3>1. EnableInv(on)'
      BY <1>0, <1>2, <1>4, <2>5 DEF EnableInv
    <3> QED BY <3>1 DEF CallInv
  <2>6. ASSUME NEW on \in BOOLEAN, SwitchInv(on) PROVE CallInv'
    <3>1. SwitchInv(on)'
      BY <1>0, <1>2, <2>6 DEF SwitchInv
    <3> QED BY <3>1 DEF CallInv
  <2>7. ASSUME NEW kk \in Cells, NEW t \in Seq(Byte), WriteInv(kk, t) PROVE CallInv'
    <3>1. WriteInv(kk, t)'
      BY <1>0, <1>2, <1>4, <2>7 DEF WriteInv
    <3> QED BY <3>1 DEF CallInv
  <2>8. ASSUME NEW kk \in Cells, NEW t \in Seq(Byte), LowInv(kk, t) PROVE CallInv'
    <3>1. LowInv(kk, t)'
      BY <1>0, <1>2, <2>8 DEF LowInv
    <3> QED BY <3>1 DEF CallInv
  <2>9. ASSUME NEW kk \in Cells, NEW t \in Seq(Byte), ModeInv(kk, t) PROVE CallInv'
    <3>1. ModeInv(kk, t)'
      BY <1>0, <1>2, <2>9 DEF ModeInv
    <3> QED BY <3>1 DEF CallInv
  <2>10. ASSUME NEW kk \in Cells, NEW t \in Seq(Byte), TextInv(t) PROVE CallInv'
    <3>1. TextInv(t)'
      BY <1>0, <1>2, <2>10 DEF TextInv
    <3> QED BY <3>1 DEF CallInv
  <2> QED
    BY <1>0, <2>1, <2>2, <2>3, <2>4, <2>5, <2>6, <2>7, <2>8, <2>9, <2>10 DEF CallInv
<1>6. OsdTypeOK'
  <2>1. r1' \in Byte /\ shown' \in [Cells -> Byte] /\ lit' \in BOOLEAN /\ disturbed' \in BOOLEAN
    BY <1>0 DEF OsdIndInv, OsdTypeOK
  <2> QED BY <1>3, <2>1, OsdTypeKept
<1> QED BY <1>3, <1>5, <1>6 DEF OsdIndInv

(* Between calls the history is what the chip shows.                       *)
LEMMA AtRest ==
  ASSUME OsdIndInv, frames = <<>>
  PROVE  ChipInv /\ RestInv
BY CallCases DEF OsdIndInv

(* A call finds the chip at rest.                                          *)
LEMMA CallStarts ==
  ASSUME OsdIndInv, NEW fs, Calls(fs)
  PROVE  /\ ChipInv' /\ ~chip.auto /\ ~chip'.auto /\ frames' = fs /\ disturbed \in BOOLEAN
         /\ ~disturbed => shown = Screen /\ lit = Light
         /\ Screen' = Screen /\ Light' = Light
         /\ shown \in [Cells -> Byte] /\ lit \in BOOLEAN /\ Screen \in [Cells -> Byte]
         /\ r1' \in Byte
<1>1. frames = <<>> /\ frames' = fs /\ UNCHANGED <<chip, resetting, r1>>
  BY DEF Calls
<1>2. ChipInv /\ RestInv
  BY <1>1, AtRest
<1>3. ChipInv' /\ Screen' = Screen /\ Light' = Light
  BY <1>1, <1>2 DEF ChipInv, Screen, Light
<1>4. /\ r1' \in Byte /\ shown \in [Cells -> Byte] /\ lit \in BOOLEAN /\ disturbed \in BOOLEAN
      /\ chip.ram \in [Cells -> Byte]
  BY <1>1 DEF OsdIndInv, OsdTypeOK
<1>5. Screen \in [Cells -> Byte]
  BY <1>4, BlankType DEF Screen
<1> QED BY <1>1, <1>2, <1>3, <1>4, <1>5 DEF RestInv

(* The call that writes the text t from address kk on.                     *)
LEMMA WriteStarts ==
  ASSUME OsdIndInv, NEW kk \in Cells, NEW t \in Seq(Byte), Calls(Written(kk, t)),
         NEW screen \in [Cells -> Byte], Expect(screen, lit),
         ~disturbed => screen = Becoming(Screen, kk, t)
  PROVE  OsdIndInv'
<1>1. /\ ChipInv' /\ ~chip'.auto /\ frames' = Written(kk, t) /\ disturbed \in BOOLEAN
      /\ ~disturbed => lit = Light
      /\ Screen' = Screen /\ Light' = Light
      /\ shown \in [Cells -> Byte] /\ lit \in BOOLEAN /\ r1' \in Byte
  <2> DEFINE fs == Written(kk, t)
  <2>1. Calls(fs)
    OBVIOUS
  <2> HIDE DEF fs
  <2>2. QED
    BY <2>1, CallStarts DEF fs
<1>2. /\ shown' = IF disturbed THEN shown ELSE screen
      /\ lit' = lit /\ disturbed' = disturbed
  BY DEF Expect
<1>3. WriteInv(kk, t)'
  BY <1>1, <1>2 DEF WriteInv
<1>4. OsdTypeOK'
  BY <1>1, <1>2, OsdTypeKept
<1> QED BY <1>1, <1>3, <1>4 DEF OsdIndInv, CallInv

(* A screen with a text over it is a screen.                               *)
LEMMA OverType ==
  ASSUME NEW screen \in [Cells -> Byte], NEW a \in Nat, NEW t \in Seq(Byte)
  PROVE  Over(screen, a, t) \in [Cells -> Byte]
<1>1. Rows * Cols \in Nat /\ Len(t) \in Nat
  BY ScreenAssumption
<1>2. ASSUME NEW x \in Cells, x >= a /\ x < a + Len(t) PROVE t[x - a + 1] \in Byte
  <2>1. x - a + 1 \in 1..Len(t)
    BY <1>1, <1>2 DEF Cells
  <2> QED BY <2>1
<1> QED BY <1>2 DEF Over

(* OsdPut writes a C string as codes of the chip.                          *)
LEMMA OsdPutInd ==
  ASSUME OsdIndInv, NEW row \in 0..(Rows - 1), NEW col \in 0..(Cols - 1), NEW text \in Texts,
         OsdPut(row, col, text)
  PROVE  OsdIndInv'
<1> DEFINE string == Before(text, 0)
           kk == Address(row, col)
           t == Glyphs(string)
           u == Glyphs(Before(string, END))
           screen == Over(shown, kk, u)
<1>1. text \in Seq(Byte)
  <2>1. PICK n \in 0..MaxText : text \in [1..n -> Alphabet]
    BY DEF Texts
  <2>2. n \in Nat /\ Alphabet \subseteq Byte
    BY ScreenAssumption DEF Byte
  <2> QED BY <2>1, <2>2
<1>2. string \in Seq(Byte)
  BY <1>1, BeforeType
<1> HIDE DEF string
<1>3. t \in Seq(Byte) /\ Before(t, END) = u
  BY <1>2, GlyphsBefore
<1>4. Before(string, END) \in Seq(Byte)
  BY <1>2, BeforeType
<1>5. u \in Seq(Byte)
  BY <1>4, GlyphsBefore
<1>6. kk \in Cells /\ kk = row * Cols + col
  BY AddressInCells
<1>7. Calls(Written(kk, t)) /\ Expect(screen, lit)
  BY <1>6 DEF OsdPut, string
<1> HIDE DEF t, u, kk
<1>8. kk \in Nat
  <2>1. Rows * Cols \in Nat
    BY ScreenAssumption
  <2> QED BY <1>6, <2>1 DEF Cells
<1>9. (~disturbed => shown = Screen) /\ shown \in [Cells -> Byte]
  <2> DEFINE fs == Written(kk, t)
  <2>1. Calls(fs)
    BY <1>7
  <2> HIDE DEF fs
  <2> QED BY <2>1, CallStarts
<1>10. screen \in [Cells -> Byte] /\ (~disturbed => screen = Becoming(Screen, kk, t))
  <2>1. screen \in [Cells -> Byte]
    BY <1>5, <1>8, <1>9, OverType
  <2>2. Becoming(Screen, kk, t) = Over(Screen, kk, u)
    BY <1>3 DEF Becoming
  <2> QED BY <1>9, <2>1, <2>2
<1> HIDE DEF screen
<1> QED BY <1>3, <1>6, <1>7, <1>10, WriteStarts

(* OsdClear writes a screen of zeros.                                      *)
LEMMA OsdClearInd ==
  ASSUME OsdIndInv, OsdClear
  PROVE  OsdIndInv'
<1> DEFINE z == [i \in 1..(Rows * Cols) |-> 0]
<1>1. Calls(Written(0, z)) /\ Expect(Blank, lit)
  BY DEF OsdClear
<1>2. z \in Seq(Byte) /\ Becoming(Screen, 0, z) = Blank
  BY ZerosClear
<1>3. 0 \in Cells
  <2>1. Rows * Cols \in Nat \ {0}
    BY ScreenAssumption
  <2> QED BY <2>1 DEF Cells
<1> HIDE DEF z
<1> QED BY <1>1, <1>2, <1>3, BlankType, WriteStarts

(* OsdSetup reads VM0 first.                                               *)
LEMMA OsdSetupInd ==
  ASSUME OsdIndInv, OsdSetup
  PROVE  OsdIndInv'
<1> DEFINE fs == <<ReadVM0("r1"), Probe, ReadVM0("r2"), Restore>>
<1>1. Calls(fs) /\ UNCHANGED <<shown, lit, disturbed>>
  BY DEF OsdSetup, Probe, Restore
<1> HIDE DEF fs
<1>2. /\ ChipInv' /\ ~chip'.auto /\ frames' = fs /\ disturbed \in BOOLEAN
      /\ ~disturbed => shown = Screen /\ lit = Light
      /\ Screen' = Screen /\ Light' = Light
      /\ shown \in [Cells -> Byte] /\ lit \in BOOLEAN /\ r1' \in Byte
  BY <1>1, CallStarts
<1>3. CheckInv'
  BY <1>1, <1>2 DEF CheckInv, fs
<1>4. OsdTypeOK'
  BY <1>1, <1>2, OsdTypeKept
<1> QED BY <1>2, <1>3, <1>4 DEF OsdIndInv, CallInv

(* OsdReset writes one register, and knows the screen again.               *)
LEMMA OsdResetCallInd ==
  ASSUME OsdIndInv, OsdReset
  PROVE  OsdIndInv'
<1> DEFINE fs == <<Reg(VM0, 2)>>
<1>1. Calls(fs) /\ shown' = Blank /\ lit' = FALSE /\ disturbed' = FALSE
  BY DEF OsdReset
<1> HIDE DEF fs
<1>2. ChipInv' /\ ~chip'.auto /\ frames' = fs /\ r1' \in Byte
  BY <1>1, CallStarts
<1>3. ResetInv'
  BY <1>1, <1>2 DEF ResetInv, fs
<1>4. OsdTypeOK'
  BY <1>1, <1>2, BlankType, OsdTypeKept
<1> QED BY <1>2, <1>3, <1>4 DEF OsdIndInv, CallInv

(* OsdEnable switches the display, whatever is on it.                      *)
LEMMA OsdEnableInd ==
  ASSUME OsdIndInv, NEW on \in BOOLEAN, OsdEnable(on)
  PROVE  OsdIndInv'
<1> DEFINE fs == <<ReadVM0("r1"), Switch(on)>>
<1>1. Calls(fs) /\ Expect(shown, on)
  BY DEF OsdEnable, Switch
<1> HIDE DEF fs
<1>2. /\ ChipInv' /\ ~chip'.auto /\ frames' = fs /\ disturbed \in BOOLEAN
      /\ ~disturbed => shown = Screen
      /\ Screen' = Screen
      /\ shown \in [Cells -> Byte] /\ lit \in BOOLEAN /\ r1' \in Byte
  BY <1>1, CallStarts
<1>3. /\ shown' = shown /\ disturbed' = disturbed /\ lit' \in BOOLEAN
      /\ ~disturbed => lit' = on
  BY <1>1, <1>2 DEF Expect
<1>4. EnableInv(on)'
  BY <1>2, <1>3 DEF EnableInv, fs
<1>5. OsdTypeOK'
  BY <1>2, <1>3, OsdTypeKept
<1> QED BY <1>2, <1>4, <1>5 DEF OsdIndInv, CallInv

(* The invariant holds at first.                                           *)
LEMMA OsdInitInd == ASSUME OsdInit PROVE OsdIndInv
<1>1. 0 \in Byte /\ <<>> \in Seq(Bits) /\ 0 \in Bits /\ 1 \in Bits
  BY DEF Byte, Bits
<1>2. /\ chip \in Chip /\ chip.ncs = 1 /\ chip.sck = 1 /\ chip.sdi = 1 /\ chip.bits = <<>>
      /\ chip.auto = FALSE /\ chip.vm0 = 0 /\ chip.ram = Blank
  BY <1>1, BlankType DEF OsdInit, Chip
<1>3. Bit(chip.vm0, 1) # 1 /\ Bit(chip.vm0, 3) # 1
  BY <1>2, BitsOf
<1>4. ChipInv
  BY <1>2, <1>3 DEF OsdInit, ChipInv, Idle
<1>5. RestInv
  BY <1>2, <1>3 DEF OsdInit, RestInv, Screen, Light
<1>6. OsdTypeOK
  <2>1. /\ chip.ncs \in 0..1 /\ chip.sck \in 0..1 /\ chip.sdi \in 0..1 /\ chip.auto \in BOOLEAN
        /\ chip.vm0 \in Byte /\ chip.dmah \in Byte /\ chip.dmal \in Byte /\ chip.ram \in [Cells -> Byte]
    BY <1>2 DEF Chip, Bits
  <2> QED BY <1>1, <2>1, BlankType DEF OsdInit, OsdTypeOK
<1> QED BY <1>4, <1>5, <1>6 DEF OsdIndInv, CallInv

(* Every step keeps it.                                                    *)
LEMMA OsdNextInd == ASSUME OsdIndInv, [OsdNext]_osdVars PROVE OsdIndInv'
<1>1. CASE UNCHANGED osdVars
  <2>0. /\ chip' = chip /\ resetting' = resetting /\ frames' = frames /\ r1' = r1
        /\ shown' = shown /\ lit' = lit /\ disturbed' = disturbed
    BY <1>1 DEF osdVars
  <2>1. OsdTypeOK'
    BY <2>0 DEF OsdIndInv, OsdTypeOK
  <2>2. ChipInv'
    BY <2>0 DEF OsdIndInv, ChipInv
  <2>3. CallInv'
    BY <2>0 DEF OsdIndInv, CallInv, RestInv, ResetInv, CheckInv, ProbeInv, EnableInv, SwitchInv,
                WriteInv, LowInv, ModeInv, TextInv, Screen, Light
  <2> QED BY <2>1, <2>2, <2>3 DEF OsdIndInv
<1>2. CASE OsdNext
  BY <1>2, OsdSetupInd, OsdResetCallInd, OsdClearInd, OsdEnableInd, OsdPutInd, OsdSendInd,
     OsdReadInd, OsdResetInd DEF OsdNext
<1> QED BY <1>1, <1>2

(* What holds at every step of every call, and so of every history of      *)
(* calls: the pins are at rest between frames, and what a call has still   *)
(* to send leaves on the screen what the script was promised.              *)
THEOREM OsdInductive == OsdSpec => []OsdIndInv
<1>1. OsdInit => OsdIndInv
  BY OsdInitInd
<1>2. OsdIndInv /\ [OsdNext]_osdVars => OsdIndInv'
  BY OsdNextInd
<1> QED BY <1>1, <1>2, PTL DEF OsdSpec

(* The chip's registers and memory stay bytes; resets are those of VM0.    *)
THEOREM OsdTypeCorrect == OsdSpec => []OsdTypeOK
<1>1. OsdIndInv => OsdTypeOK
  BY DEF OsdIndInv
<1> QED BY <1>1, OsdInductive, PTL

(* Between two calls of a script the screen shows what at7456e.puttext,    *)
(* at7456e.clear and at7456e.osd have put on it, for every screen, every   *)
(* alphabet and every length of text: 16 bits a register and 8 bits a      *)
(* character, the text that stops at an END and at the end of the screen,  *)
(* and no call's registers taken for characters.                           *)
THEOREM ScreenCorrect == OsdSpec => []ScreenShows
<1>1. OsdIndInv => ScreenShows
  <2> SUFFICES ASSUME OsdIndInv, frames = <<>>
               PROVE  /\ ~disturbed /\ ~resetting => chip.ram = shown /\ lit = (Bit(chip.vm0, 3) = 1)
                      /\ ~chip.auto /\ chip.ncs = 1
    BY DEF ScreenShows
  <2>1. ChipInv /\ RestInv
    BY AtRest
  <2>2. ~chip.auto /\ chip.ncs = 1
    BY <2>1 DEF ChipInv, RestInv, Idle
  <2>3. ASSUME ~disturbed, ~resetting PROVE chip.ram = shown /\ lit = (Bit(chip.vm0, 3) = 1)
    <3>1. shown = Screen /\ lit = Light
      BY <2>1, <2>3 DEF RestInv
    <3>2. Screen = chip.ram
      BY <2>3 DEF Screen
    <3>3. Light = (Bit(chip.vm0, 3) = 1)
      BY <2>3 DEF Light
    <3> QED BY <3>1, <3>2, <3>3
  <2> QED BY <2>2, <2>3
<1> QED BY <1>1, OsdInductive, PTL

-----------------------------------------------------------------------------
(* Mpu9250, for every size of the FIFO and of a packet, every speed of the *)
(* sensor and every number of failing transfers.                           *)

\* The FIFO begins with a packet, or its count tells that it overran
Aligned == skew = 0 \/ count = FifoSize

\* It does so whenever ypr looks at the count, unless both resets were lost
AlignedInv ==
    \/ Aligned
    \/ lua = "ctrl"
    \/ lua \in {"lastRead", "lastWrite"} /\ faults >= 1
    \/ faults >= 2

\* What ypr knows of the FIFO between the count and the read
KnownInv ==
    /\ lua = "test" => cnt <= count
    /\ lua = "read" => PacketLen <= count
    /\ lua = "test" /\ 0 < cnt /\ cnt < FifoSize => skew = 0 \/ late \/ faults >= 2
    /\ lua = "read" => skew = 0 \/ late \/ faults >= 2

\* dmp_raw is written by the read only
DataInv == lua \in {"count", "test", "resetRead", "resetWrite", "read"} => data = "garbage"

MpuIndInv == MpuTypeOK /\ AlignedInv /\ KnownInv /\ DataInv /\ WholePacket

\* MpuTypeOK in two parts
MpuFlags == dmp \in BOOLEAN /\ awake \in BOOLEAN /\ tmp \in BOOLEAN /\ late \in BOOLEAN

MpuNumbers ==
    /\ count \in 0..FifoSize /\ skew \in 0..(PacketLen - 1) /\ cnt \in 0..FifoSize
    /\ made \in 0..Burst /\ faults \in 0..MaxFaults
    /\ lua \in LuaAt /\ data \in {"garbage", "whole", "torn"}

USE DEF fifo, power, locals, Goto, Works, Fails, Emptied

\* A remainder is below the divisor
LEMMA ModRange == \A a \in Nat, b \in Nat \ {0} : a % b \in 0..(b - 1)
  OBVIOUS

\* The state after start-up satisfies the invariant
LEMMA MpuInitInd == MpuInit => MpuIndInv
  <1> SUFFICES ASSUME MpuInit PROVE MpuIndInv
    OBVIOUS
  <1>1. dmp \in BOOLEAN /\ awake \in BOOLEAN /\ tmp \in BOOLEAN /\ late \in BOOLEAN
    BY Zenon DEF MpuInit
  <1>2. MpuTypeOK
    BY <1>1, FifoAssumption DEF MpuInit, MpuTypeOK, LuaAt
  <1> QED
    BY <1>2 DEF MpuInit, MpuIndInv, AlignedInv, Aligned, KnownInv, DataInv, WholePacket

\* The sensor: an overrun after the count is remembered, one before it shows
LEMMA SampleInd ==
    ASSUME MpuIndInv, Sample
    PROVE  MpuIndInv'
  <1> USE FifoAssumption DEF MpuIndInv, MpuTypeOK
  <1> DEFINE total == count + PacketLen
  <1>1. CASE total <= FifoSize
    <2>1. count' = total /\ UNCHANGED <<skew, late, dmp, awake, lua, cnt, tmp, data, faults>>
      BY <1>1 DEF Sample
    <2>2. made' \in 0..Burst /\ count' \in 0..FifoSize
      BY <1>1, <2>1 DEF Sample
    <2>3. MpuTypeOK'
      BY <2>1, <2>2
    <2>4. AlignedInv' /\ KnownInv' /\ DataInv' /\ WholePacket'
      BY <1>1, <2>1 DEF AlignedInv, Aligned, KnownInv, DataInv, WholePacket
    <2> QED
      BY <2>3, <2>4
  <1>2. CASE ~(total <= FifoSize)
    <2>1. /\ count' = FifoSize /\ late' = (late \/ lua \in {"test", "read"})
          /\ skew' = (skew + (total - FifoSize)) % PacketLen
          /\ UNCHANGED <<dmp, awake, lua, cnt, tmp, data, faults>>
      BY <1>2 DEF Sample
    <2>2. made' \in 0..Burst /\ count' \in 0..FifoSize
      BY <2>1 DEF Sample
    <2>3. skew' \in 0..(PacketLen - 1)
      <3>1. skew + (total - FifoSize) \in Nat
        BY <1>2
      <3> QED
        BY <2>1, <3>1, ModRange
    <2>4. late' \in BOOLEAN
      BY <2>1, Zenon
    <2>5. MpuTypeOK'
      BY <2>1, <2>2, <2>3, <2>4
    <2>6. KnownInv'
      <3>1. lua \in {"test", "read"} => late'
        BY <2>1, Zenon
      <3> QED
        BY <2>1, <3>1 DEF KnownInv
    <2>7. AlignedInv' /\ DataInv' /\ WholePacket'
      BY <2>1 DEF AlignedInv, Aligned, DataInv, WholePacket
    <2> QED
      BY <2>5, <2>6, <2>7
  <1> QED
    BY <1>1, <1>2

\* Calls made while no other is in progress
LEMMA CallInd ==
    ASSUME MpuIndInv, InitWithDmp \/ Ypr \/ \E on \in BOOLEAN : SetSleep(on)
    PROVE  MpuIndInv'
  <1> USE FifoAssumption DEF MpuIndInv, MpuTypeOK
  <1>1. CASE InitWithDmp
    <2>1. MpuTypeOK'
      <3>1. MpuFlags'
        BY <1>1, Zenon DEF InitWithDmp, MpuFlags
      <3>2. MpuNumbers'
        BY <1>1 DEF InitWithDmp, MpuNumbers
      <3> QED
        BY <3>1, <3>2 DEF MpuFlags, MpuNumbers
    <2> QED
      BY <1>1, <2>1 DEF InitWithDmp, AlignedInv, Aligned, KnownInv, DataInv, WholePacket
  <1>2. CASE Ypr
    <2>1. MpuTypeOK'
      <3>1. MpuFlags'
        BY <1>2, Zenon DEF Ypr, MpuFlags
      <3>2. MpuNumbers'
        BY <1>2 DEF Ypr, LuaAt, MpuNumbers
      <3> QED
        BY <3>1, <3>2 DEF MpuFlags, MpuNumbers
    <2> QED
      BY <1>2, <2>1 DEF Ypr, AlignedInv, Aligned, KnownInv, DataInv, WholePacket
  <1>3. ASSUME NEW on \in BOOLEAN, SetSleep(on) PROVE MpuIndInv'
    <2>1. MpuTypeOK'
      <3>1. MpuFlags'
        BY <1>3, Zenon DEF SetSleep, MpuFlags
      <3>2. MpuNumbers'
        BY <1>3 DEF SetSleep, MpuNumbers
      <3> QED
        BY <3>1, <3>2 DEF MpuFlags, MpuNumbers
    <2> QED
      BY <1>3, <2>1 DEF SetSleep, AlignedInv, Aligned, KnownInv, DataInv, WholePacket
  <1> QED
    BY <1>1, <1>2, <1>3

\* The steps of ypr
LEMMA YprInd ==
    ASSUME MpuIndInv, YprSteps
    PROVE  MpuIndInv'
  <1> USE FifoAssumption DEF MpuIndInv, MpuTypeOK
  <1>1. CASE GetCount
    <2>1. MpuTypeOK'
      <3>1. MpuFlags'
        BY <1>1, Zenon DEF GetCount, MpuFlags
      <3>2. MpuNumbers'
        BY <1>1 DEF GetCount, LuaAt, MpuNumbers
      <3> QED
        BY <3>1, <3>2 DEF MpuFlags, MpuNumbers
    <2> QED
      BY <1>1, <2>1 DEF GetCount, AlignedInv, Aligned, KnownInv, DataInv, WholePacket
  <1>2. CASE TestCount
    <2>1. MpuTypeOK'
      BY <1>2 DEF TestCount, Branch, LuaAt
    <2> QED
      BY <1>2, <2>1 DEF TestCount, Branch, AlignedInv, Aligned, KnownInv, DataInv, WholePacket
  <1>3. CASE ReadDmp
    <2>1. MpuTypeOK'
      BY <1>3 DEF ReadDmp, LuaAt, KnownInv
    <2> QED
      BY <1>3, <2>1 DEF ReadDmp, AlignedInv, Aligned, KnownInv, DataInv, WholePacket
  <1>4. CASE ResetDmp
    <2>1. MpuTypeOK'
      <3>1. MpuFlags'
        BY <1>4, Zenon DEF ResetDmp, MpuFlags
      <3>2. MpuNumbers'
        BY <1>4 DEF ResetDmp, LuaAt, MpuNumbers
      <3> QED
        BY <3>1, <3>2 DEF MpuFlags, MpuNumbers
    <2> QED
      BY <1>4, <2>1 DEF ResetDmp, AlignedInv, Aligned, KnownInv, DataInv, WholePacket
  <1>5. CASE ReadCtrl
    <2>1. MpuTypeOK'
      BY <1>5 DEF ReadCtrl, LuaAt
    <2> QED
      BY <1>5, <2>1 DEF ReadCtrl, AlignedInv, Aligned, KnownInv, DataInv, WholePacket
  <1>6. CASE WriteCtrl
    <2>1. MpuTypeOK'
      <3>1. MpuFlags'
        BY <1>6, Zenon DEF WriteCtrl, Keep, MpuFlags
      <3>2. MpuNumbers'
        BY <1>6 DEF WriteCtrl, Keep, LuaAt, MpuNumbers
      <3> QED
        BY <3>1, <3>2 DEF MpuFlags, MpuNumbers
    <2> QED
      BY <1>6, <2>1 DEF WriteCtrl, AlignedInv, Aligned, KnownInv, DataInv, WholePacket
  <1> QED
    BY <1>1, <1>2, <1>3, <1>4, <1>5, <1>6 DEF YprSteps

\* Every step keeps the invariant
LEMMA MpuNextInd == MpuIndInv /\ [MpuNext]_mpuVars => MpuIndInv'
  <1> SUFFICES ASSUME MpuIndInv, [MpuNext]_mpuVars PROVE MpuIndInv'
    OBVIOUS
  <1>1. CASE UNCHANGED mpuVars
    BY <1>1 DEF mpuVars, MpuIndInv, MpuTypeOK, AlignedInv, Aligned, KnownInv, DataInv, WholePacket
  <1>2. CASE MpuNext
    BY <1>2, SampleInd, CallInd, YprInd DEF MpuNext
  <1> QED
    BY <1>1, <1>2

\* The invariant holds for ever
THEOREM MpuInductive == MpuSpec => []MpuIndInv
  BY MpuInitInd, MpuNextInd, PTL DEF MpuSpec

\* MpuTypeOK: mpu9250_read_dmp never reads more than the FIFO holds
THEOREM MpuTypeCorrect == MpuSpec => []MpuTypeOK
  <1>1. MpuIndInv => MpuTypeOK
    BY DEF MpuIndInv
  <1> QED
    BY <1>1, MpuInductive, PTL

\* WholePacket: lua_mpu9250_ypr uses one whole packet unless the FIFO overran
\* between count and read, both resets were lost, or the read failed
THEOREM PacketIsWhole == MpuSpec => []WholePacket
  <1>1. MpuIndInv => WholePacket
    BY DEF MpuIndInv
  <1> QED
    BY <1>1, MpuInductive, PTL

-----------------------------------------------------------------------------
\* DriversTypeOK: the ranges hold in the behaviours of each of the four drivers
THEOREM DriversTypeCorrect == DriversSpec => []DriversTypeOK
  <1>1. DriversInit => PortsIndInv /\ DebugIndInv /\ OsdIndInv /\ MpuIndInv
    BY PortsInitInd, DebugInitInd, OsdInitInd, MpuInitInd DEF DriversInit
  <1>2. [DriversNext]_driversVars =>
          [PortsNext]_portsVars /\ [DebugNext]_debugVars /\ [OsdNext]_osdVars /\ [MpuNext]_mpuVars
    BY DEF DriversNext, driversVars
  <1>3. /\ PortsIndInv /\ [PortsNext]_portsVars => PortsIndInv'
        /\ DebugIndInv /\ [DebugNext]_debugVars => DebugIndInv'
        /\ OsdIndInv /\ [OsdNext]_osdVars => OsdIndInv'
        /\ MpuIndInv /\ [MpuNext]_mpuVars => MpuIndInv'
    BY PortsNextInd, DebugNextInd, OsdNextInd, MpuNextInd
  <1>4. PortsIndInv /\ DebugIndInv /\ OsdIndInv /\ MpuIndInv => DriversTypeOK
    BY DEF PortsIndInv, DebugIndInv, OsdIndInv, MpuIndInv, DriversTypeOK
  <1> QED
    BY <1>1, <1>2, <1>3, <1>4, PTL DEF DriversSpec
=============================================================================
