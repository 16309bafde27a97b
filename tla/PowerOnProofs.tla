---------------------------- MODULE PowerOnProofs ----------------------------
(***************************************************************************)
(* Proofs about PowerOn, for any set of battery levels: IndInv is inductive*)
(* and implies the properties.                                             *)
(***************************************************************************)
EXTENDS PowerOn, TLAPS

(* cust_init and the initialisers establish the invariant.                 *)
LEMMA InitHolds == Init => IndInv
<1> SUFFICES ASSUME Init PROVE IndInv
  OBVIOUS
<1>1. TypeOK
  <2>1. pmd \in PmdData /\ view \in PmdData \cup {NoView}
    BY DEF Init, PmdData
  <2>2. flag \in -1..1 /\ starts \in 0..2
    BY DEF Init
  <2>3. cause \in Causes /\ reason \in Causes \cup {"invalid"} /\ sem \in {"none", "0", "1"}
    BY DEF Init
  <2>4. cpc \in Pcs \cup {"wait", "decide", "loop"} /\ lpc \in Pcs \cup {"run", "flag", "off"}
    BY DEF Init, Pcs
  <2> QED BY <2>1, <2>2, <2>3, <2>4 DEF Init, TypeOK
<1>2. PoweroffMatches /\ Informed /\ TellInv
  BY DEF Init, PoweroffMatches, Informed, TellInv
<1>3. StartsInv
  BY DEF Init, StartsInv, Starting
<1>4. ReasonInv
  BY DEF Init, ReasonInv
<1> QED BY <1>1, <1>2, <1>3, <1>4 DEF IndInv

(* cust_main's steps only create things.                                   *)
LEMMA MainKeeps == ASSUME IndInv, Main PROVE IndInv'
<1> USE DEF IndInv, luav, sysv, pmv
<1>1. CASE InitPmd
  <2> USE <1>1 DEF InitPmd
  <2>1. TypeOK'
    BY DEF TypeOK, Pcs
  <2>2. StartsInv'
    BY DEF TypeOK, StartsInv, Starting, TellInv
  <2>3. ReasonInv'
    BY DEF TypeOK, ReasonInv, TellInv
  <2>4. PoweroffMatches' /\ Informed' /\ TellInv'
    BY DEF TypeOK, PoweroffMatches, Informed, TellInv, ReasonInv
  <2> QED BY <2>1, <2>2, <2>3, <2>4
<1>2. CASE CreateCust
  <2> USE <1>2 DEF CreateCust
  <2>1. TypeOK'
    BY DEF TypeOK, Pcs
  <2>2. StartsInv'
    BY DEF TypeOK, StartsInv, Starting, TellInv
  <2>3. ReasonInv'
    BY DEF TypeOK, ReasonInv, TellInv
  <2>4. PoweroffMatches' /\ Informed' /\ TellInv'
    BY DEF TypeOK, PoweroffMatches, Informed, TellInv, ReasonInv
  <2> QED BY <2>1, <2>2, <2>3, <2>4
<1>3. CASE CreateLua
  <2> USE <1>3 DEF CreateLua
  <2>1. TypeOK'
    BY DEF TypeOK, Pcs
  <2>2. StartsInv'
    BY DEF TypeOK, StartsInv, Starting, TellInv
  <2>3. ReasonInv'
    BY DEF TypeOK, ReasonInv, TellInv
  <2>4. PoweroffMatches' /\ Informed' /\ TellInv'
    BY DEF TypeOK, PoweroffMatches, Informed, TellInv, ReasonInv
  <2> QED BY <2>1, <2>2, <2>3, <2>4
<1> QED BY <1>1, <1>2, <1>3 DEF Main

(* The callback: it writes pmd, level, view, the reason and the semaphore. *)
LEMMA CallbackKeeps ==
  ASSUME IndInv, PoweronInd \/ PmInner \/ PmEvent
  PROVE  IndInv'
<1> USE DEF IndInv, luav, sysv
<1>1. CASE PoweronInd
  BY <1>1 DEF PoweronInd, PmIdle, TypeOK, PmdData, PoweroffMatches, Informed, StartsInv,
              Starting, ReasonInv, TellInv
<1>2. CASE Release
  BY <1>2 DEF Release, TypeOK, PoweroffMatches, Informed, StartsInv, Starting, ReasonInv,
              TellInv
<1>3. CASE PmSend
  BY <1>3 DEF PmSend, TypeOK, PoweroffMatches, Informed, StartsInv, Starting, ReasonInv,
              TellInv
<1>4. CASE PmEvent
  <2> DEFINE Stores == \E new \in PmdData, lev \in Levels \cup {NoLevel} :
                         PmIdle /\ Store(new, lev) /\ new.level = lev
  <2>1. Stores
    <3>1. ASSUME NEW b \in BOOLEAN, ChargerPresent(b) \/ BatteryPresent(b) PROVE Stores
      <4>1. /\ [pmd EXCEPT !.batt = b] \in PmdData
            /\ [pmd EXCEPT !.charger = b, !.state = IF b THEN @ ELSE "not"] \in PmdData
        BY DEF PmdData, TypeOK
      <4> QED BY <3>1, <4>1 DEF ChargerPresent, BatteryPresent, PmdData, TypeOK, TellInv
    <3>2. ASSUME NEW l \in Levels, BatteryLevel(l) \/ Charging(l) \/ ChargeFull(l)
          PROVE  Stores
      <4>1. /\ [pmd EXCEPT !.level = l] \in PmdData
            /\ [pmd EXCEPT !.state = "charging", !.level = l] \in PmdData
            /\ [pmd EXCEPT !.state = "stop", !.level = l] \in PmdData
        BY DEF PmdData, TypeOK
      <4>2. /\ [pmd EXCEPT !.level = l].level = l
            /\ [pmd EXCEPT !.state = "charging", !.level = l].level = l
            /\ [pmd EXCEPT !.state = "stop", !.level = l].level = l
        BY DEF PmdData, TypeOK
      <4> QED BY <3>2, <4>1, <4>2 DEF BatteryLevel, Charging, ChargeFull
    <3>3. ASSUME NEW st \in {"not", "stop"}, ChargeStop(st) PROVE Stores
      BY <3>3 DEF ChargeStop, PmdData, TypeOK, TellInv
    <3> QED BY <1>4, <3>1, <3>2, <3>3 DEF PmEvent
  <2> QED
    BY <2>1 DEF PmIdle, Store, TypeOK, PoweroffMatches, Informed, StartsInv, Starting,
                ReasonInv, TellInv
<1> QED BY <1>1, <1>2, <1>3, <1>4 DEF PmInner

(* The custom task: the wait, the decision, and its start of the system.   *)
LEMMA CustKeeps == ASSUME IndInv, Cust PROVE IndInv'
<1> USE DEF IndInv, luav, sysv, pmv
<1>1. CASE CustWait
  BY <1>1 DEF CustWait, TypeOK, Pcs, PoweroffMatches, Informed, StartsInv, Starting,
              ReasonInv, TellInv
<1>2. CASE CustDecide
  BY <1>2 DEF CustDecide, TypeOK, Pcs, PoweroffMatches, Informed, StartsInv, Starting,
              ReasonInv, TellInv
<1>3. CASE CustPoweron
  <2> USE <1>3 DEF CustPoweron, PoweronSystem, TestFlag, StoreFlag, StartSystem
  <2>1. StartsInv' /\ starts' \in 0..2 /\ has' \in BOOLEAN /\ raced' \in BOOLEAN
    <3>1. CASE TestFlag(cpc, cpc', lpc, "loop")
      <4>1. raced' \in BOOLEAN /\ (raced' <=> raced \/ (lpc = "set" /\ ~has))
        BY <3>1 DEF TypeOK
      <4>2. /\ cpc = "test" /\ cpc' = (IF has THEN "loop" ELSE "set")
            /\ lpc' = lpc /\ has' = has /\ starts' = starts
        BY <3>1
      <4> QED BY ONLY <4>1, <4>2, TypeOK, StartsInv DEF TypeOK, StartsInv, Starting
    <3>2. CASE StoreFlag(cpc, cpc')
      BY <3>2 DEF TypeOK, StartsInv, Starting
    <3>3. CASE StartSystem(cpc, cpc', "loop")
      BY <3>3 DEF TypeOK, StartsInv, Starting
    <3> QED BY <1>3, <3>1, <3>2, <3>3
  <2>2. TypeOK'
    BY <2>1 DEF TypeOK, Pcs
  <2>3. ReasonInv'
    BY DEF TypeOK, ReasonInv
  <2>4. PoweroffMatches' /\ Informed' /\ TellInv'
    BY DEF TypeOK, ReasonInv, PoweroffMatches, Informed, TellInv
  <2> QED BY <2>1, <2>2, <2>3, <2>4
<1> QED BY <1>1, <1>2, <1>3 DEF Cust

(* The Lua task: requests, the first receive, power-off.                   *)
LEMMA LuaKeeps == ASSUME IndInv, Lua PROVE IndInv'
<1> USE DEF IndInv, sysv, pmv
<1>1. CASE LuaPoweronSystem
  <2> USE <1>1 DEF LuaPoweronSystem, PoweronSystem, TestFlag, StoreFlag, StartSystem
  <2>1. StartsInv' /\ starts' \in 0..2 /\ has' \in BOOLEAN /\ raced' \in BOOLEAN
    <3>1. CASE TestFlag(lpc, lpc', cpc, "flag")
      <4>1. raced' \in BOOLEAN /\ (raced' <=> raced \/ (cpc = "set" /\ ~has))
        BY <3>1 DEF TypeOK
      <4>2. /\ lpc = "test" /\ lpc' = (IF has THEN "flag" ELSE "set")
            /\ cpc' = cpc /\ has' = has /\ starts' = starts
        BY <3>1
      <4> QED BY ONLY <4>1, <4>2, TypeOK, StartsInv DEF TypeOK, StartsInv, Starting
    <3>2. CASE StoreFlag(lpc, lpc')
      BY <3>2 DEF TypeOK, StartsInv, Starting
    <3>3. CASE StartSystem(lpc, lpc', "flag")
      BY <3>3 DEF TypeOK, StartsInv, Starting
    <3> QED BY <1>1, <3>1, <3>2, <3>3
  <2>2. TypeOK'
    BY <2>1 DEF TypeOK, Pcs
  <2>3. ReasonInv'
    BY DEF TypeOK, ReasonInv, StartsInv
  <2>4. PoweroffMatches' /\ Informed' /\ TellInv'
    BY DEF TypeOK, PoweroffMatches, Informed, TellInv
  <2> QED BY <2>1, <2>2, <2>3, <2>4
<1>2. CASE LuaSysFlag
  BY <1>2 DEF LuaSysFlag, TypeOK, Pcs, PoweroffMatches, Informed, StartsInv, Starting,
              ReasonInv, TellInv
<1>3. CASE LuaFirstReceive
  <2> USE <1>3 DEF LuaFirstReceive
  <2>1. TypeOK'
    <3>1. asked' \in BOOLEAN
      BY DEF TypeOK
    <3>2. lpc' \in Pcs \cup {"run", "flag", "off"}
      BY DEF Pcs
    <3>3. firstRecv' \in BOOLEAN
      OBVIOUS
    <3>4. UNCHANGED <<boot, cause, reason, sem, cpc, flag, sysFlag, off, has, starts, raced,
                      pm, pmd, view, level>>
      OBVIOUS
    <3> QED BY ONLY TypeOK, <3>1, <3>2, <3>3, <3>4 DEF TypeOK
  <2>2. StartsInv'
    BY DEF TypeOK, StartsInv, Starting, TellInv
  <2>3. ReasonInv'
    BY DEF TypeOK, ReasonInv, TellInv
  <2>4. PoweroffMatches' /\ Informed' /\ TellInv'
    BY DEF TypeOK, PoweroffMatches, Informed, TellInv, ReasonInv
  <2> QED BY <2>1, <2>2, <2>3, <2>4
<1>4. CASE LuaPoweroff
  BY <1>4 DEF LuaPoweroff, TypeOK, Pcs, PoweroffMatches, Informed, StartsInv, Starting,
              ReasonInv, TellInv
<1>5. ASSUME NEW f \in -1..1, LuaPoweron(f) PROVE IndInv'
  <2> USE <1>5 DEF LuaPoweron
  <2>1. TypeOK'
    BY DEF TypeOK, Pcs
  <2>2. StartsInv'
    BY DEF TypeOK, StartsInv, Starting, TellInv
  <2>3. ReasonInv'
    BY DEF TypeOK, ReasonInv, TellInv
  <2>4. PoweroffMatches' /\ Informed' /\ TellInv'
    BY DEF TypeOK, PoweroffMatches, Informed, TellInv, ReasonInv
  <2> QED BY <2>1, <2>2, <2>3, <2>4
<1> QED BY <1>1, <1>2, <1>3, <1>4, <1>5 DEF Lua, LuaInner

(* A step that changes nothing.                                            *)
LEMMA StutterKeeps == ASSUME IndInv, UNCHANGED vars PROVE IndInv'
BY DEF vars, luav, sysv, pmv, IndInv, TypeOK, PoweroffMatches, Informed, StartsInv,
       Starting, ReasonInv, TellInv

(* IndInv holds in every reachable state of cust_main, the callback and the*)
(* two tasks.                                                              *)
THEOREM Inductive == Spec => []IndInv
<1>1. IndInv /\ [Next]_vars => IndInv'
  BY MainKeeps, CallbackKeeps, CustKeeps, LuaKeeps, StutterKeeps DEF Next
<1> QED BY InitHolds, <1>1, PTL DEF Spec

(* The state keeps its types; poweron_system is called at most twice.      *)
THEOREM TypeCorrect == Spec => []TypeOK
<1>1. IndInv => TypeOK
  BY DEF IndInv
<1> QED BY Inductive, <1>1, PTL

(* But for the window between a test of hasPoweron and its store, the      *)
(* system is started at most once.                                         *)
THEOREM SystemStartedOnce == Spec => []StartedOnce
<1>1. IndInv => StartedOnce
  BY DEF IndInv, TypeOK, StartsInv, Starting, StartedOnce
<1> QED BY Inductive, <1>1, PTL

(* On a charger boot the system starts only when the script lets it.       *)
THEOREM UserDecides == Spec => []ChargerUserDecides
<1>1. IndInv => ChargerUserDecides
  BY DEF IndInv, ReasonInv, ChargerUserDecides
<1> QED BY Inductive, <1>1, PTL

(* rtos.poweroff chooses between shut_down and poweroff_system as meant,   *)
(* though it looks at cust_sys_flag and not at hasPoweron.                 *)
THEOREM PoweroffCorrect == Spec => []PoweroffMatches
<1>1. IndInv => PoweroffMatches
  BY DEF IndInv
<1> QED BY Inductive, <1>1, PTL

(* No change of level or charging state is kept from Lua.                  *)
THEOREM LuaInformed == Spec => []Informed
<1>1. IndInv => Informed
  BY DEF IndInv
<1> QED BY Inductive, <1>1, PTL
==============================================================================
