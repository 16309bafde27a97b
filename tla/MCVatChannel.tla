----------------------------- MODULE MCVatChannel -----------------------------
(***************************************************************************)
(* A ring of two bytes, read two at a time, fed by messages of up to three *)
(* bytes, two of which can wait for the custom task.                       *)
(***************************************************************************)
EXTENDS VatChannel

MCByte == 0..MaxBytes
==============================================================================
