----------------------------- MODULE MCDrivers -----------------------------
(***************************************************************************)
(* The drivers for TLC: each uart port with all its ids, id 1 as the       *)
(* console; a debug buffer of four places; a screen of two rows whose      *)
(* addresses cross a page; a FIFO that is no multiple of a packet.         *)
(***************************************************************************)
EXTENDS Drivers
=============================================================================
