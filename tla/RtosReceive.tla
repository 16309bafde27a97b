----------------------------- MODULE RtosReceive -----------------------------
(***************************************************************************)
(* rtos.receive: platform_rtos_receive waits for the next message of the   *)
(* Lua task with no OS timeout and lets a timer, hRTOSWaitMsgTimer, post   *)
(* RTOS_MSG_WAIT_MSG_TIMEOUT instead.                                      *)
(*                                                                         *)
(* Expiry and the callback's send are two steps; stopping the timer does   *)
(* not recall a callback that has begun, nor a message already queued.     *)
(***************************************************************************)
EXTENDS Integers, Sequences

CONSTANT MaxQueue    \* bound: messages queued when another one is posted

ASSUME MaxQueueAssumption == MaxQueue \in Nat

VARIABLES timer,   \* hRTOSWaitMsgTimer
          firing,  \* rtos_wait_message_timeout has begun
          queue,   \* the Lua task's messages
          pc,      \* in Lua, or waiting in wait_message
          wait,    \* the timeout of the current receive: blocking or timed
          got,     \* what the last receive returned
          stale    \* history: a timeout was on its way when receive began

vars == <<timer, firing, queue, pc, wait, got, stale>>

TimeoutComing == firing \/ \E i \in DOMAIN queue : queue[i] = "timeout"

Init == /\ timer = "stopped" /\ firing = FALSE /\ queue = <<>>
        /\ pc = "lua" /\ wait = "inf" /\ got = "nothing" /\ stale = FALSE

\* Mutant: a blocking receive leaves the timer of an earlier one running.
TimerAfterCallKeeps(w) == IF w = "timed" THEN "running" ELSE timer

\* start_timer restarts a running timer; a blocking receive stops it.
TimerAfterCall(w) == IF w = "timed" THEN "running" ELSE "stopped"

Call(w) == /\ pc = "lua"
           /\ w = "timed" => Len(queue) <= MaxQueue
           /\ timer' = TimerAfterCall(w)
           /\ wait' = w /\ stale' = TimeoutComing
           /\ pc' = "wait"
           /\ UNCHANGED <<firing, queue, got>>

\* wait_message returns and handle_msg passes the message to Lua; the timer
\* is left running.
Return == /\ pc = "wait" /\ queue # <<>>
          /\ got' = Head(queue)
          /\ queue' = Tail(queue)
          /\ pc' = "lua"
          /\ UNCHANGED <<timer, firing, wait, stale>>

Expire == /\ timer = "running" /\ ~firing
          /\ timer' = "stopped" /\ firing' = TRUE
          /\ UNCHANGED <<queue, pc, wait, got, stale>>

\* Mutant: the callback forgets to send.
SendTimeoutNot == /\ firing
                  /\ firing' = FALSE
                  /\ UNCHANGED <<timer, queue, pc, wait, got, stale>>

\* Mutant: the callback starts the timer again.
SendTimeoutPeriodic == /\ firing
                       /\ firing' = FALSE /\ timer' = "running"
                       /\ queue' = Append(queue, "timeout")
                       /\ UNCHANGED <<pc, wait, got, stale>>

\* rtos_wait_message_timeout.
SendTimeout == /\ firing
               /\ firing' = FALSE
               /\ queue' = Append(queue, "timeout")
               /\ UNCHANGED <<timer, pc, wait, got, stale>>

\* Any other sender: timers, UARTs, keypad, power management.
Post == /\ Len(queue) < MaxQueue
        /\ queue' = Append(queue, "msg")
        /\ UNCHANGED <<timer, firing, pc, wait, got, stale>>

Next == (\E w \in {"inf", "timed"} : Call(w)) \/ Return \/ Expire \/ SendTimeout \/ Post

\* A running timer expires, its callback runs, a waiting task with a message
\* is scheduled.
Spec == Init /\ [][Next]_vars /\ WF_vars(Return) /\ WF_vars(Expire) /\ WF_vars(SendTimeout)
------------------------------------------------------------------------------
\* The queue outgrows MaxQueue by at most two timeouts: the timer is one-shot,
\* and only a receive, made while the queue is within the bound, starts it.
TypeOK == /\ timer \in {"stopped", "running"} /\ firing \in BOOLEAN
          /\ queue \in Seq({"timeout", "msg"}) /\ Len(queue) <= MaxQueue + 2
          /\ pc \in {"lua", "wait"} /\ wait \in {"inf", "timed"}
          /\ got \in {"nothing", "timeout", "msg"} /\ stale \in BOOLEAN

\* A receive with a timeout returns, though wait_message itself waits for ever.
TimedReturns == pc = "wait" /\ wait = "timed" ~> pc = "lua"

\* A blocking receive brings no timeout on itself: one that turns up in it
\* was queued, or being sent, before the call.
OnlyStaleTimeouts == pc = "wait" /\ wait = "inf" /\ ~stale => ~TimeoutComing

\* A script that waits without a timeout need not handle WAIT_MSG_TIMEOUT.
BlockingNeverTimesOut == [][Return /\ wait = "inf" => got' # "timeout"]_vars
==============================================================================
