------------------------------- MODULE PowerOn -------------------------------
(***************************************************************************)
(* Starting the system (the protocol stack) and switching it off: the      *)
(* power management callback cust_pm_message, the custom task, which waits *)
(* for the power-on reason and starts the system unless a charger did, and *)
(* the Lua task, which starts it on request, or at its first receive when  *)
(* the script said nothing.  Also what the callback tells Lua of the       *)
(* battery.                                                                *)
(*                                                                         *)
(* cust_poweron_system is run by both tasks, a step per access to its      *)
(* static flag.  Calls of the callback do not overlap.  Battery voltage is *)
(* left out: it is read along with the level.                              *)
(***************************************************************************)
EXTENDS Integers

CONSTANTS Levels,    \* battery levels the driver reports
          NoLevel    \* 0xff, the level before the first report

ASSUME LevelAssumption == NoLevel \notin Levels

VARIABLES boot,      \* how far cust_main is
          cause,     \* why the device was switched on (get_poweronCasue)
          reason,    \* g_PowronInfo.reason
          sem,       \* poweronSyncSemaphore: "none", or its count
          pm,        \* where cust_pm_message is
          pmd,       \* its static pmdData
          cpc, lpc,  \* where the custom task and the Lua task are
          has,       \* hasPoweron
          starts,    \* calls of poweron_system
          flag,      \* poweron_flag
          sysFlag,   \* cust_sys_flag
          firstRecv, \* l_rtos_receive has not been called
          off,       \* the way Lua switched the device off
          view,      \* the last pmd message sent to the Lua task
          level,     \* history: the level reported last
          asked,     \* history: the script asked for the system, or left it open
          raced      \* history: a task tested hasPoweron between the other's
                     \* test and store

luav == <<lpc, flag, sysFlag, firstRecv, off, asked>>
sysv == <<has, starts, raced>>
pmv  == <<pm, pmd, view, level>>
vars == <<boot, cause, reason, sem, cpc, luav, sysv, pmv>>

Causes  == {"key", "charger"}
PmdData == [batt : BOOLEAN, charger : BOOLEAN, state : {"not", "charging", "stop"},
            level : Levels \cup {NoLevel}]
NoView  == [batt |-> FALSE, charger |-> FALSE, state |-> "none", level |-> NoLevel]

\* cust_init and the static initialisers.
Init == /\ boot = "init" /\ cause \in Causes /\ reason = "invalid" /\ sem = "none"
        /\ pm = "idle" /\ level = NoLevel /\ view = NoView
        /\ pmd = [batt |-> TRUE, charger |-> FALSE, state |-> "not", level |-> NoLevel]
        /\ cpc = "none" /\ lpc = "none" /\ has = FALSE /\ starts = 0 /\ raced = FALSE
        /\ flag = -1 /\ sysFlag = FALSE /\ firstRecv = TRUE /\ off = "on" /\ asked = FALSE
------------------------------------------------------------------------------
(* cust_main. *)

\* cust_poweron_reason_init, then init_pmd registers the callback.
InitPmd == /\ boot = "init"
           /\ sem' = "0" /\ boot' = "pmd"
           /\ UNCHANGED <<cause, reason, cpc, luav, sysv, pmv>>

CreateCust == /\ boot = "pmd"
              /\ cpc' = "wait" /\ boot' = "cust"
              /\ UNCHANGED <<cause, reason, sem, luav, sysv, pmv>>

CreateLua == /\ boot = "cust"
             /\ lpc' = "run" /\ boot' = "up"
             /\ UNCHANGED <<cause, reason, sem, cpc, flag, sysFlag, firstRecv, off, asked,
                            sysv, pmv>>
------------------------------------------------------------------------------
(* cust_pm_message. *)

PmIdle == pm = "idle" /\ boot # "init"

\* POWERON_ON_IND: the first one sets the reason, ...
PoweronInd == /\ PmIdle
              /\ IF reason = "invalid"
                 THEN /\ \E plugged \in BOOLEAN : pmd' = [pmd EXCEPT !.charger = plugged]
                      /\ reason' = cause
                      /\ pm' = "release"
                 ELSE pm' = "send" /\ UNCHANGED <<reason, pmd>>
              /\ UNCHANGED <<boot, cause, sem, cpc, luav, sysv, view, level>>

\* Mutant: the waiting task is not told.
ReleaseNot == /\ pm = "release"
              /\ pm' = "send"
              /\ UNCHANGED <<boot, cause, reason, sem, cpc, luav, sysv, pmd, view, level>>

\* ... and lets the custom task go.
Release == /\ pm = "release"
           /\ sem' = IF sem = "none" THEN sem ELSE "1"
           /\ pm' = "send"
           /\ UNCHANGED <<boot, cause, reason, cpc, luav, sysv, pmd, view, level>>

\* The other events store what they report and go on to the message.
Store(new, lev) == /\ pmd' = new /\ level' = lev
                   /\ pm' = "send"
                   /\ UNCHANGED <<boot, cause, reason, sem, cpc, luav, sysv, view>>

\* CHR_PRESENT_IND: without a charger the battery is not charging.
ChargerPresent(present) ==
    PmIdle /\ Store([pmd EXCEPT !.charger = present,
                                !.state = IF present THEN @ ELSE "not"], level)

BatteryPresent(present) == PmIdle /\ Store([pmd EXCEPT !.batt = present], level)

\* BAT_LEVEL_IND; a level that has not changed is not reported on.
BatteryLevel(l) == PmIdle /\ pmd.level # l /\ Store([pmd EXCEPT !.level = l], l)

\* Mutant: while charging, only the first event is reported on.
ChargingOnce(l) ==
    /\ PmIdle
    /\ IF pmd.state = "charging"
       THEN level' = l /\ UNCHANGED <<boot, cause, reason, sem, cpc, luav, sysv, pm, pmd, view>>
       ELSE Store([pmd EXCEPT !.state = "charging", !.level = l], l)

\* BAT_CHARGING; the driver repeats it, so one without news is not reported on.
Charging(l) == /\ PmIdle
               /\ ~(pmd.state = "charging" /\ pmd.level = l)
               /\ Store([pmd EXCEPT !.state = "charging", !.level = l], l)

ChargeFull(l) == PmIdle /\ Store([pmd EXCEPT !.state = "stop", !.level = l], l)

\* BAT_CHR_STOP (for want of a charger or not) and BAT_CHR_ERR.
ChargeStop(state) == PmIdle /\ Store([pmd EXCEPT !.state = state], level)

\* Before the Lua task exists the message is lost.
PmSend == /\ pm = "send"
          /\ view' = IF boot = "up" THEN pmd ELSE view
          /\ pm' = "idle"
          /\ UNCHANGED <<boot, cause, reason, sem, cpc, luav, sysv, pmd, level>>

PmEvent == \/ \E b \in BOOLEAN : ChargerPresent(b) \/ BatteryPresent(b)
           \/ \E l \in Levels : BatteryLevel(l) \/ Charging(l) \/ ChargeFull(l)
           \/ \E s \in {"not", "stop"} : ChargeStop(s)
------------------------------------------------------------------------------
(* cust_poweron_system, in either task: mine and mine' are the task's pc,  *)
(* other the other task's, next where the task goes on.                    *)

TestFlag(mine, minePrime, other, next) ==
    /\ mine = "test"
    /\ minePrime = IF has THEN next ELSE "set"
    /\ raced' = (raced \/ (other = "set" /\ ~has))
    /\ UNCHANGED <<has, starts>>

\* Mutant: the flag is not stored.
StoreFlagNot(mine, minePrime) ==
    mine = "set" /\ minePrime = "start" /\ UNCHANGED <<has, starts, raced>>

StoreFlag(mine, minePrime) ==
    /\ mine = "set"
    /\ has' = TRUE /\ minePrime = "start"
    /\ UNCHANGED <<starts, raced>>

StartSystem(mine, minePrime, next) ==
    /\ mine = "start"
    /\ starts' = starts + 1 /\ minePrime = next
    /\ UNCHANGED <<has, raced>>

PoweronSystem(mine, minePrime, other, next) ==
    \/ TestFlag(mine, minePrime, other, next)
    \/ StoreFlag(mine, minePrime)
    \/ StartSystem(mine, minePrime, next)
------------------------------------------------------------------------------
(* The custom task. *)

\* cust_wait_for_poweron_reason(TRUE): wait, then delete the semaphore.
CustWait == /\ cpc = "wait" /\ sem = "1"
            /\ sem' = "none" /\ cpc' = "decide"
            /\ UNCHANGED <<boot, cause, reason, luav, sysv, pmv>>

\* Mutant: the system is started whatever the reason.
CustDecideAlways == /\ cpc = "decide"
                    /\ cpc' = "test"
                    /\ UNCHANGED <<boot, cause, reason, sem, luav, sysv, pmv>>

CustDecide == /\ cpc = "decide"
              /\ cpc' = IF reason = "charger" THEN "loop" ELSE "test"
              /\ UNCHANGED <<boot, cause, reason, sem, luav, sysv, pmv>>

CustPoweron == /\ PoweronSystem(cpc, cpc', lpc, "loop")
               /\ UNCHANGED <<boot, cause, reason, sem, luav, pmv>>
------------------------------------------------------------------------------
(* The Lua task. *)

\* rtos.poweron.
LuaPoweron(f) == /\ lpc = "run"
                 /\ flag' = f /\ asked' = (asked \/ f = 1)
                 /\ lpc' = IF f = 1 THEN "test" ELSE "run"
                 /\ UNCHANGED <<boot, cause, reason, sem, cpc, sysFlag, firstRecv, off,
                                sysv, pmv>>

\* The first rtos.receive: platform_poweron_try.
LuaFirstReceive == /\ lpc = "run" /\ firstRecv
                   /\ firstRecv' = FALSE /\ asked' = (asked \/ flag = -1)
                   /\ lpc' = IF flag = -1 THEN "test" ELSE "run"
                   /\ UNCHANGED <<boot, cause, reason, sem, cpc, flag, sysFlag, off,
                                  sysv, pmv>>

LuaPoweronSystem == /\ PoweronSystem(lpc, lpc', cpc, "flag")
                    /\ UNCHANGED <<boot, cause, reason, sem, cpc, flag, sysFlag, firstRecv,
                                   off, asked, pmv>>

\* Mutant: cust_sys_flag is forgotten.
LuaSysFlagNot == /\ lpc = "flag"
                 /\ lpc' = "run"
                 /\ UNCHANGED <<boot, cause, reason, sem, cpc, flag, sysFlag, firstRecv, off,
                                asked, sysv, pmv>>

LuaSysFlag == /\ lpc = "flag"
              /\ sysFlag' = TRUE /\ lpc' = "run"
              /\ UNCHANGED <<boot, cause, reason, sem, cpc, flag, firstRecv, off, asked,
                             sysv, pmv>>

\* rtos.poweroff.
LuaPoweroff == /\ lpc = "run"
               /\ off' = IF cause = "charger" /\ ~sysFlag THEN "shut_down"
                                                          ELSE "poweroff_system"
               /\ lpc' = "off"
               /\ UNCHANGED <<boot, cause, reason, sem, cpc, flag, sysFlag, firstRecv, asked,
                              sysv, pmv>>
------------------------------------------------------------------------------
Main     == InitPmd \/ CreateCust \/ CreateLua
Cust     == CustWait \/ CustDecide \/ CustPoweron
LuaInner == LuaPoweronSystem \/ LuaSysFlag
Lua      == LuaInner \/ LuaFirstReceive \/ LuaPoweroff \/ \E f \in -1..1 : LuaPoweron(f)
PmInner  == Release \/ PmSend

Next == Main \/ Cust \/ Lua \/ PoweronInd \/ PmInner \/ PmEvent

Spec == Init /\ [][Next]_vars

\* The OS runs the tasks and the callback; the platform reports the reason,
\* however many other events it reports.
Fairness == /\ WF_vars(Main) /\ WF_vars(Cust) /\ WF_vars(LuaInner) /\ WF_vars(PmInner)
            /\ SF_vars(PoweronInd)

FairSpec == Spec /\ Fairness
------------------------------------------------------------------------------
Pcs == {"none", "test", "set", "start"}

\* The values of the flags and of pmdData; poweron_system is called at most
\* twice, once by each task.
TypeOK == /\ boot \in {"init", "pmd", "cust", "up"} /\ cause \in Causes
          /\ reason \in Causes \cup {"invalid"} /\ sem \in {"none", "0", "1"}
          /\ pm \in {"idle", "release", "send"} /\ pmd \in PmdData
          /\ view \in PmdData \cup {NoView} /\ level \in Levels \cup {NoLevel}
          /\ cpc \in Pcs \cup {"wait", "decide", "loop"}
          /\ lpc \in Pcs \cup {"run", "flag", "off"}
          /\ has \in BOOLEAN /\ starts \in 0..2 /\ raced \in BOOLEAN
          /\ flag \in -1..1 /\ sysFlag \in BOOLEAN /\ firstRecv \in BOOLEAN
          /\ asked \in BOOLEAN /\ off \in {"on", "shut_down", "poweroff_system"}

\* hasPoweron keeps poweron_system from being called twice, by requests of
\* either task in any order, but for one window: a task testing the flag
\* between the other's test and its store.
StartedOnce == raced \/ starts <= 1

\* After a charger switched the device on the script decides: the system is
\* started only if it asked for it or had set no flag by its first receive.
ChargerUserDecides == cause = "charger" /\ starts > 0 => asked

\* rtos.poweroff uses shut_down exactly when a charger switched the device on
\* and the system was not started, poweroff_system otherwise.
PoweroffMatches == off # "on" =>
    (off = "shut_down" <=> cause = "charger" /\ starts = 0)

\* What Lua was told last is what the driver reported last: not reporting on
\* repeated events hides no change of level or charging state.
Informed == pm = "idle" /\ view # NoView => view = pmd /\ pmd.level = level

\* The strengthening that makes the four inductive.  How many starts are made
\* or under way: a task past its test will make one.
Starting(pc) == IF pc \in {"set", "start"} THEN 1 ELSE 0

StartsInv ==
    /\ ~has => starts = 0 /\ cpc # "start" /\ lpc # "start"
    /\ raced /\ ~has => cpc = "set" /\ lpc = "set"
    /\ starts + Starting(cpc) + Starting(lpc) <= IF raced THEN 2 ELSE 1

\* Who may start: the custom task once the reason is known and not a charger,
\* the Lua task when asked; and what cust_sys_flag says.
ReasonInv ==
    /\ reason \in {"invalid", cause}
    /\ pm = "release" \/ sem = "1" \/ cpc \notin {"none", "wait"} => reason = cause
    /\ cause = "charger" =>
         /\ cpc \notin {"test", "set", "start"}
         /\ starts > 0 \/ lpc \in {"test", "set", "start", "flag"} => asked
         /\ has => starts > 0 \/ lpc = "start"
         /\ sysFlag \/ lpc = "flag" => starts > 0
         /\ starts > 0 => sysFlag \/ lpc = "flag"

\* A task does nothing before it exists, Lua nothing after the device is off;
\* nothing was sent before the Lua task existed; the level stored is the level
\* reported.
TellInv ==
    /\ boot \in {"init", "pmd"} => cpc = "none"
    /\ boot # "up" => lpc = "none" /\ view = NoView
    /\ off # "on" => lpc = "off"
    /\ pmd.level = level

IndInv == /\ TypeOK /\ PoweroffMatches /\ Informed
          /\ StartsInv /\ ReasonInv /\ TellInv

\* Unless a charger switched the device on, the system is started: the reason
\* reaches the custom task, whichever of them is first.
Started == cause = "key" ~> starts > 0
==============================================================================
