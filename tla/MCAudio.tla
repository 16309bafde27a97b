------------------------------ MODULE MCAudio ------------------------------
(***************************************************************************)
(* Audio for TLC: three blocks (the copy of the playback, the file being   *)
(* loaded and one more), two messages waiting.                             *)
(***************************************************************************)
EXTENDS Audio
=============================================================================
