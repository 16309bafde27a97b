------------------------------ MODULE RtosTimer ------------------------------
(***************************************************************************)
(* The Lua timers of platform_rtos.c: the table luaTimerParam, shared by   *)
(* the Lua task (rtos.timer_start, rtos.timer_stop) and the callbacks of   *)
(* expired OS timers under hLuaTimerSem, and the messages the callbacks    *)
(* send to Lua.                                                            *)
(*                                                                         *)
(* Steps are the OS calls: a task may be preempted before each of them.    *)
(* OS timers are one-shot.  A callback that has begun is not recalled by   *)
(* deleting its timer, and create_timer may or may not give out the handle *)
(* of a deleted timer whose callback is still running (ReuseInFlight).     *)
(***************************************************************************)
EXTENDS Integers, Sequences, FiniteSets

CONSTANTS Ids,            \* timer ids used by Lua
          MaxTimers,      \* MAX_LUA_TIMERS (40)
          Handles,        \* handles of OS timers
          Callbacks,      \* tasks that run timer callbacks
          ReuseInFlight,  \* may a handle be reused while a callback has it
          MaxBacklog,     \* bound: messages queued and timers about to send one
          Lua,            \* the Lua task, as a holder of the semaphore
          None            \* OPENAT_INVALID_HANDLE; no id; nobody

ASSUME TimersAssumption == MaxTimers \in Nat \ {0}
ASSUME NoneAssumption == None \notin Handles \cup Ids \cup Callbacks \cup {Lua}
ASSUME LuaAssumption == Lua \notin Callbacks
ASSUME BacklogAssumption == MaxBacklog \in Nat /\ ReuseInFlight \in BOOLEAN

VARIABLES slotH,   \* luaTimerParam[].hOsTimer
          slotId,  \* luaTimerParam[].luaTimerId
          semMade, \* hLuaTimerSem has been created
          holder,  \* who holds hLuaTimerSem
          os,      \* the OS timers: state, and what create_timer was given
          cb,      \* the callback each task is running
          queue,   \* the messages sent to the Lua task
          pc,      \* where the Lua task is
          op       \* its call: start or stop, timer_id, high, index, hTimer

vars  == <<slotH, slotId, semMade, holder, os, cb, queue, pc, op>>
table == <<slotH, slotId>>

Slot  == 1..MaxTimers
Deleted == [st |-> "free", id |-> None, high |-> FALSE]
NoOp  == [start |-> FALSE, id |-> None, high |-> FALSE, index |-> None, h |-> None]
Idle  == [pc |-> "idle", h |-> None, id |-> None, high |-> FALSE]

\* The entry of an id, as every search of the table finds it.
Holds(s, id) == slotH[s] # None /\ slotId[s] = id

Init == /\ slotH = [s \in Slot |-> None] /\ slotId = [s \in Slot |-> None]
        /\ semMade = FALSE /\ holder = None
        /\ os = [h \in Handles |-> Deleted]
        /\ cb = [w \in Callbacks |-> Idle]
        /\ queue = <<>> /\ pc = "ready" /\ op = NoOp
------------------------------------------------------------------------------
(* platform_rtos_start_timer and platform_rtos_stop_timer, in the Lua task. *)

Backlog == Len(queue) + Cardinality({h \in Handles : os[h].st = "running"})
                      + Cardinality({w \in Callbacks : cb[w].pc = "send"})

\* Mutant: an id that is already running is not stopped first.
CallStartNoStop(id, high) ==
    /\ pc = "ready" /\ Backlog < MaxBacklog
    /\ semMade' = TRUE
    /\ op' = [NoOp EXCEPT !.start = TRUE, !.id = id, !.high = high]
    /\ pc' = "startLock"
    /\ UNCHANGED <<table, holder, os, cb, queue>>

\* rtos.timer_start and rtos.timer_high_priority_start: the semaphore is made
\* on first use; the id is looked up without holding it.
CallStart(id, high) ==
    /\ pc = "ready" /\ Backlog < MaxBacklog
    /\ semMade' = TRUE
    /\ op' = [NoOp EXCEPT !.start = TRUE, !.id = id, !.high = high]
    /\ pc' = IF \E s \in Slot : Holds(s, id) THEN "stopLock" ELSE "startLock"
    /\ UNCHANGED <<table, holder, os, cb, queue>>

\* rtos.timer_stop.
CallStop(id) ==
    /\ pc = "ready"
    /\ semMade' = TRUE
    /\ op' = [NoOp EXCEPT !.id = id]
    /\ pc' = "stopLock"
    /\ UNCHANGED <<table, holder, os, cb, queue>>

LuaLock == /\ pc \in {"stopLock", "startLock"} /\ semMade /\ holder = None
           /\ holder' = Lua
           /\ pc' = IF pc = "stopLock" THEN "stopFind" ELSE "startFind"
           /\ UNCHANGED <<table, semMade, os, cb, queue, op>>

\* stop_timer, delete_timer and the table entry reset.
StopFound(s) ==
    /\ pc = "stopFind" /\ Holds(s, op.id)
    /\ os' = [os EXCEPT ![slotH[s]] = Deleted]
    /\ slotH' = [slotH EXCEPT ![s] = None]
    /\ pc' = "stopRelease"
    /\ UNCHANGED <<slotId, semMade, holder, cb, queue, op>>

StopNotFound ==
    /\ pc = "stopFind" /\ \A s \in Slot : ~Holds(s, op.id)
    /\ pc' = "stopRelease"
    /\ UNCHANGED <<table, semMade, holder, os, cb, queue, op>>

\* The stop made by a start goes on to the start proper.
StopRelease ==
    /\ pc = "stopRelease"
    /\ holder' = None
    /\ pc' = IF op.start THEN "startLock" ELSE "ready"
    /\ op' = IF op.start THEN op ELSE NoOp
    /\ UNCHANGED <<table, semMade, os, cb, queue>>

FirstFree(s) == slotH[s] = None /\ \A t \in 1..(s - 1) : slotH[t] # None

\* Mutant: the end of the table is not noticed.
StartPastEnd ==
    /\ pc = "startFind" /\ \A s \in Slot : slotH[s] # None
    /\ op' = [op EXCEPT !.index = MaxTimers + 1]
    /\ pc' = "error"
    /\ UNCHANGED <<table, semMade, holder, os, cb, queue>>

StartNoSlot ==
    /\ pc = "startFind" /\ \A s \in Slot : slotH[s] # None
    /\ pc' = "error"
    /\ UNCHANGED <<table, semMade, holder, os, cb, queue, op>>

StartCreateFails ==
    /\ pc = "startFind" /\ \E s \in Slot : slotH[s] = None
    /\ pc' = "error"
    /\ UNCHANGED <<table, semMade, holder, os, cb, queue, op>>

StartCreate(s, h) ==
    /\ pc = "startFind" /\ FirstFree(s)
    /\ os[h].st = "free"
    /\ ReuseInFlight \/ \A w \in Callbacks : cb[w].h # h
    /\ os' = [os EXCEPT ![h] = [st |-> "created", id |-> op.id, high |-> op.high]]
    /\ op' = [op EXCEPT !.index = s, !.h = h]
    /\ pc' = "startOs"
    /\ UNCHANGED <<table, semMade, holder, cb, queue>>

StartOsFails ==
    /\ pc = "startOs"
    /\ pc' = "error"
    /\ UNCHANGED <<table, semMade, holder, os, cb, queue, op>>

\* From here the timer may expire, before the table knows it.
StartOs ==
    /\ pc = "startOs"
    /\ os' = [os EXCEPT ![op.h].st = "running"]
    /\ pc' = "store"
    /\ UNCHANGED <<table, semMade, holder, cb, queue, op>>

StartStore ==
    /\ pc = "store"
    /\ slotH' = [slotH EXCEPT ![op.index] = op.h]
    /\ slotId' = [slotId EXCEPT ![op.index] = op.id]
    /\ op' = [op EXCEPT !.h = None]
    /\ pc' = "startRelease"
    /\ UNCHANGED <<semMade, holder, os, cb, queue>>

StartRelease ==
    /\ pc = "startRelease"
    /\ holder' = None
    /\ op' = NoOp
    /\ pc' = "ready"
    /\ UNCHANGED <<table, semMade, os, cb, queue>>

\* start_timer_error: release first, ...
ErrorRelease ==
    /\ pc = "error"
    /\ holder' = None
    /\ pc' = "errorDelete"
    /\ UNCHANGED <<table, semMade, os, cb, queue, op>>

\* Mutant: the error path leaves the OS timer allocated.
ErrorKeepsTimer ==
    /\ pc = "errorDelete"
    /\ op' = NoOp
    /\ pc' = "ready"
    /\ UNCHANGED <<table, semMade, holder, os, cb, queue>>

\* ... then delete the timer, if there is one.
ErrorDelete ==
    /\ pc = "errorDelete"
    /\ os' = IF op.h # None THEN [os EXCEPT ![op.h] = Deleted] ELSE os
    /\ op' = NoOp
    /\ pc' = "ready"
    /\ UNCHANGED <<table, semMade, holder, cb, queue>>

\* rtos.receive takes a message.
Receive == /\ pc = "ready" /\ queue # <<>>
           /\ queue' = Tail(queue)
           /\ UNCHANGED <<table, semMade, holder, os, cb, pc, op>>
------------------------------------------------------------------------------
(* Expiry, and the two callbacks. *)

Fire(w, h) == /\ os[h].st = "running" /\ cb[w].pc = "idle"
              /\ os' = [os EXCEPT ![h].st = "expired"]
              /\ cb' = [cb EXCEPT ![w] = [pc |-> "send", h |-> h,
                                          id |-> os[h].id, high |-> os[h].high]]
              /\ UNCHANGED <<table, semMade, holder, queue, pc, op>>

\* The message goes out before the table is touched: at the tail of the
\* queue, or at its head from the high priority callback.
CbSend(w) == /\ cb[w].pc = "send"
             /\ queue' = IF cb[w].high THEN <<cb[w].id>> \o queue
                                       ELSE Append(queue, cb[w].id)
             /\ cb' = [cb EXCEPT ![w].pc = "lock"]
             /\ UNCHANGED <<table, semMade, holder, os, pc, op>>

\* Mutant: the callback goes to the table without waiting for the semaphore.
CbNoLock(w) == /\ cb[w].pc = "lock"
               /\ cb' = [cb EXCEPT ![w].pc = "find"]
               /\ UNCHANGED <<table, semMade, holder, os, queue, pc, op>>

CbLock(w) == /\ cb[w].pc = "lock" /\ semMade /\ holder = None
             /\ holder' = w
             /\ cb' = [cb EXCEPT ![w].pc = "find"]
             /\ UNCHANGED <<table, semMade, os, queue, pc, op>>

\* Mutant: the entry is looked up by timer id, not by handle.
IsTimerOfById(s, w) == Holds(s, cb[w].id)

\* The entry a callback looks for: a mismatch of the id is only traced.
IsTimerOf(s, w) == slotH[s] = cb[w].h

\* Mutant: the entry is freed, its OS timer is not.
CbFoundKeepsTimer(w, s) ==
    /\ cb[w].pc = "find" /\ IsTimerOf(s, w)
    /\ slotH' = [slotH EXCEPT ![s] = None]
    /\ cb' = [cb EXCEPT ![w].pc = "release"]
    /\ UNCHANGED <<slotId, os, semMade, holder, queue, pc, op>>

CbFound(w, s) ==
    /\ cb[w].pc = "find" /\ IsTimerOf(s, w)
    /\ os' = [os EXCEPT ![slotH[s]] = Deleted]
    /\ slotH' = [slotH EXCEPT ![s] = None]
    /\ cb' = [cb EXCEPT ![w].pc = "release"]
    /\ UNCHANGED <<slotId, semMade, holder, queue, pc, op>>

\* Lua stopped the timer after it expired: nothing to free.
CbNotFound(w) ==
    /\ cb[w].pc = "find" /\ \A s \in Slot : ~IsTimerOf(s, w)
    /\ cb' = [cb EXCEPT ![w].pc = "release"]
    /\ UNCHANGED <<table, os, semMade, holder, queue, pc, op>>

\* Mutant: the callback returns without releasing the semaphore.
CbKeepsSem(w) == /\ cb[w].pc = "release"
                 /\ cb' = [cb EXCEPT ![w] = Idle]
                 /\ UNCHANGED <<table, semMade, holder, os, queue, pc, op>>

CbRelease(w) == /\ cb[w].pc = "release"
                /\ holder' = None
                /\ cb' = [cb EXCEPT ![w] = Idle]
                /\ UNCHANGED <<table, semMade, os, queue, pc, op>>
------------------------------------------------------------------------------
LuaCall == \/ LuaLock
           \/ (\E s \in Slot : StopFound(s)) \/ StopNotFound \/ StopRelease
           \/ StartNoSlot \/ StartCreateFails
           \/ (\E s \in Slot, h \in Handles : StartCreate(s, h))
           \/ StartOsFails \/ StartOs \/ StartStore \/ StartRelease
           \/ ErrorRelease \/ ErrorDelete

Callback(w) == \/ CbSend(w) \/ CbLock(w)
               \/ (\E s \in Slot : CbFound(w, s)) \/ CbNotFound(w) \/ CbRelease(w)

Next == \/ \E id \in Ids, high \in BOOLEAN : CallStart(id, high)
        \/ \E id \in Ids : CallStop(id)
        \/ LuaCall \/ Receive
        \/ \E w \in Callbacks, h \in Handles : Fire(w, h)
        \/ \E w \in Callbacks : Callback(w)

Spec == Init /\ [][Next]_vars

\* The OS runs every ready task and serves the semaphore's waiters in turn
\* (strong fairness: it is free again and again); a running timer expires.
Fairness == /\ SF_vars(LuaCall)
            /\ \A w \in Callbacks : /\ SF_vars(Callback(w))
                                    /\ SF_vars(\E h \in Handles : Fire(w, h))

FairSpec == Spec /\ Fairness
------------------------------------------------------------------------------
LuaCritical == {"stopFind", "stopRelease", "startFind", "startOs", "store",
                "startRelease", "error"}
CbCritical  == {"find", "release"}
Created     == {"startOs", "store", "error", "errorDelete"}

\* The entry a start picks is inside luaTimerParam, and handles, ids and the
\* places of the tasks are of their kinds.
TypeOK ==
    /\ slotH \in [Slot -> Handles \cup {None}]
    /\ slotId \in [Slot -> Ids \cup {None}]
    /\ semMade \in BOOLEAN
    /\ holder \in Callbacks \cup {Lua, None}
    /\ os \in [Handles -> [st : {"free", "created", "running", "expired"},
                            id : Ids \cup {None}, high : BOOLEAN]]
    /\ cb \in [Callbacks -> [pc : {"idle", "send", "lock"} \cup CbCritical,
                             h : Handles \cup {None}, id : Ids \cup {None},
                             high : BOOLEAN]]
    /\ queue \in Seq(Ids)
    /\ pc \in {"ready", "stopLock", "startLock", "errorDelete"} \cup LuaCritical
    /\ op \in [start : BOOLEAN, id : Ids \cup {None}, high : BOOLEAN,
               index : Slot \cup {None}, h : Handles \cup {None}]

\* hLuaTimerSem protects the table: the Lua task and the callbacks are never
\* in it together, and the semaphore is held by exactly the task that is.
MutualExclusion ==
    /\ holder = Lua <=> pc \in LuaCritical
    /\ \A w \in Callbacks : holder = w <=> cb[w].pc \in CbCritical

\* The table is sound between and during calls: an id has at most one entry,
\* an OS timer is in at most one entry, and no entry names a deleted timer.
TableSound ==
    /\ \A s, t \in Slot : /\ slotH[s] # None /\ slotH[s] = slotH[t] => s = t
                          /\ slotH[s] # None /\ Holds(t, slotId[s]) => s = t
    /\ \A s \in Slot : slotH[s] # None => os[slotH[s]].st \in {"running", "expired"}

\* No OS timer leaks: one that is allocated is in the table, where a stop or
\* its callback finds it, or in the hands of the start that is making it.
NoLeak == \A h \in Handles : os[h].st # "free" =>
              h = op.h \/ \E s \in Slot : slotH[s] = h

\* The strengthening that makes the three inductive.  What the start under way
\* knows: its id has no entry any more, its timer is allocated and not yet in
\* the table, its entry is free.
CallInv ==
    /\ pc # "ready" => op.id \in Ids
    /\ op.h # None => /\ pc \in Created
                      /\ os[op.h].st # "free"
                      /\ \A s \in Slot : slotH[s] # op.h
    /\ pc \in {"startOs", "store"} => /\ op.h # None /\ op.index \in Slot
                                      /\ slotH[op.index] = None
    /\ pc = "startOs" => os[op.h].st = "created"
    /\ pc = "store" => os[op.h].st \in {"running", "expired"}
    /\ pc \in {"startLock", "startFind", "startOs", "store"} \/ (pc = "stopRelease" /\ op.start)
         => \A s \in Slot : ~Holds(s, op.id)

\* What a callback under way carries: a handle and an id.
CarriesInv ==
    /\ \A h \in Handles : os[h].st # "free" => os[h].id \in Ids
    /\ \A w \in Callbacks : cb[w].pc # "idle" => cb[w].h \in Handles /\ cb[w].id \in Ids
    /\ \A w \in Callbacks : cb[w].pc = "idle" => cb[w].h = None

\* Without reuse in flight, the timer a callback carries is spent.
SpentInv == ~ReuseInFlight => \A w \in Callbacks :
                cb[w].h # None => os[cb[w].h].st \in {"free", "expired"}

IndInv == TypeOK /\ MutualExclusion /\ TableSound /\ NoLeak /\ CallInv /\ CarriesInv

\* A callback frees its own, expired timer: only the Lua task deletes a timer
\* that has not expired yet.  It needs handles that are not reused in flight.
RunningOnlyStoppedByLua ==
    [][\A h \in Handles : os[h].st = "running" /\ os'[h].st = "free"
                            => pc \in {"stopFind", "errorDelete"}]_vars

\* Every call of the Lua task returns, whatever the callbacks do.
CallsReturn == pc # "ready" ~> pc = "ready"

\* A timer that expired is freed, and its table entry with it.
ExpiredFreed == \A h \in Handles : os[h].st = "expired" ~> os[h].st = "free"

\* Still to be seen by Lua: the timer runs, or its message is on the way.
Outstanding(s) == \/ os[slotH[s]].st = "running"
                  \/ \E w \in Callbacks : cb[w].pc = "send" /\ cb[w].h = slotH[s]
                  \/ \E i \in DOMAIN queue : queue[i] = slotId[s]

\* All MAX_LUA_TIMERS timers can be used: a start is refused for want of an
\* entry only when every entry belongs to a timer Lua has yet to hear from.
FullCapacity == pc = "startFind" /\ (\A s \in Slot : slotH[s] # None)
                  => \A s \in Slot : Outstanding(s)
==============================================================================
