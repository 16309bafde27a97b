----------------------------- MODULE MCRtosTimer -----------------------------
(***************************************************************************)
(* Two table entries, three Lua ids and three OS handles, so that the table*)
(* fills up and handles are reused.                                        *)
(***************************************************************************)
EXTENDS RtosTimer, TLC

Symmetry == Permutations(Handles) \cup Permutations(Callbacks) \cup Permutations(Ids)
==============================================================================
