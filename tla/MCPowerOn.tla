------------------------------ MODULE MCPowerOn ------------------------------
(* Power-on with two battery levels. *)
EXTENDS PowerOn

MCLevels == {20, 80}
MCNoLevel == 255
==============================================================================
