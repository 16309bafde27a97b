------------------------------ MODULE MCUartRx ------------------------------
(***************************************************************************)
(* A ring of three bytes filled by interrupts of up to four, emptied two   *)
(* at a time.                                                              *)
(***************************************************************************)
EXTENDS UartRx

MCByte == 0..MaxBytes
==============================================================================
