---------------------------- MODULE MCRtosReceive ----------------------------
(* rtos.receive with up to four messages from other senders waiting. *)
EXTENDS RtosReceive

MCMaxQueue == 4
==============================================================================
