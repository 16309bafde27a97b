------------------------------ MODULE Drivers ------------------------------
(***************************************************************************)
(* The drivers that share nothing but the Lua task: a behaviour is one of  *)
(* one driver, chosen at the start.                                        *)
(***************************************************************************)
EXTENDS UartPorts, DebugPort, Osd, Mpu9250

VARIABLE part  \* the driver of this behaviour

driversVars == <<part, portsVars, debugVars, osdVars, mpuVars>>

DriversInit ==
    /\ part \in {"ports", "debug", "osd", "mpu"}
    /\ PortsInit /\ DebugInit /\ OsdInit /\ MpuInit
    /\ part # "ports" => port = HostPort

DriversNext ==
    /\ UNCHANGED part
    /\ \/ part = "ports" /\ PortsNext /\ UNCHANGED <<debugVars, osdVars, mpuVars>>
       \/ part = "debug" /\ DebugNext /\ UNCHANGED <<portsVars, osdVars, mpuVars>>
       \/ part = "osd" /\ OsdNext /\ UNCHANGED <<portsVars, debugVars, mpuVars>>
       \/ part = "mpu" /\ MpuNext /\ UNCHANGED <<portsVars, debugVars, osdVars>>

DriversSpec ==
    DriversInit /\ [][DriversNext]_driversVars /\ (part = "mpu" => MpuFairness)

(***************************************************************************)
(* The counters, sizes and flags of the four drivers stay in their ranges: *)
(* the rings of the uarts, the registers of the screen, the FIFO, whose    *)
(* count never falls below what ypr reads.                                 *)
(***************************************************************************)
DriversTypeOK == PortsTypeOK /\ DebugTypeOK /\ OsdTypeOK /\ MpuTypeOK
=============================================================================
