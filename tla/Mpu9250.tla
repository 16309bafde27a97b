------------------------------ MODULE Mpu9250 ------------------------------
(***************************************************************************)
(* mpu9250.ypr: the Lua task polls the sensor's FIFO over I2C while the    *)
(* sensor goes on putting packets into it.  No transfer is checked for     *)
(* failure: a lost write is lost, a failed read leaves the caller's buffer *)
(* as it was.  Each transfer is a step.                                    *)
(*                                                                         *)
(* The FIFO holds the newest bytes of a stream of packets; what matters of *)
(* them is their number and how far into a packet the oldest one is.       *)
(***************************************************************************)
EXTENDS Naturals

CONSTANTS
    FifoSize,   \* bytes in the FIFO (0x200)
    PacketLen,  \* bytes in a packet (0x2a)
    Burst,      \* packets that the sensor makes during one transfer, at most
    MaxFaults   \* transfers that fail (bounds the model)

ASSUME FifoAssumption ==
    /\ FifoSize \in Nat /\ PacketLen \in Nat \ {0} /\ Burst \in Nat \ {0}
    /\ MaxFaults \in Nat
    /\ Burst * PacketLen < FifoSize

VARIABLES
    count,    \* bytes in the FIFO
    skew,     \* bytes of the oldest packet that were overwritten
    dmp,      \* USER_CTRL: DMP and FIFO are enabled
    awake,    \* PWR_MGMT_1: not asleep
    made,     \* packets made since the last transfer
    lua,      \* the transfer that the call in progress does next
    cnt,      \* what mpu9250_get_fifo_count returned
    tmp,      \* USER_CTRL as mpu9250_reset_fifo read it: whether DMP and FIFO are enabled
    data,     \* dmp_raw: garbage, a whole packet or parts of two
    faults,   \* transfers that failed
    late      \* history: the FIFO overran after its count was read

mpuVars == <<count, skew, dmp, awake, made, lua, cnt, tmp, data, faults, late>>

LuaAt == {"idle", "count", "test", "resetRead", "resetWrite", "read", "ctrl",
          "lastRead", "lastWrite"}

MpuTypeOK ==
    /\ count \in 0..FifoSize
    /\ skew \in 0..(PacketLen - 1)
    /\ dmp \in BOOLEAN /\ awake \in BOOLEAN
    /\ made \in 0..Burst
    /\ lua \in LuaAt
    /\ cnt \in 0..FifoSize
    /\ tmp \in BOOLEAN
    /\ data \in {"garbage", "whole", "torn"}
    /\ faults \in 0..MaxFaults
    /\ late \in BOOLEAN

MpuInit ==
    /\ count = 0 /\ skew = 0 /\ made = 0 /\ cnt = 0 /\ faults = 0
    /\ dmp = FALSE /\ awake = FALSE /\ tmp = FALSE /\ late = FALSE
    /\ lua = "idle"
    /\ data = "garbage"

fifo == <<count, skew>>
power == <<dmp, awake>>
locals == <<cnt, tmp, data>>

-----------------------------------------------------------------------------
(***************************************************************************)
(* The sensor puts a packet into the FIFO, over the oldest bytes if it     *)
(* must.                                                                   *)
(***************************************************************************)
Sample ==
    /\ dmp /\ awake
    /\ made < Burst
    /\ made' = made + 1
    /\ LET total == count + PacketLen
       IN  IF total <= FifoSize
           THEN count' = total /\ UNCHANGED <<skew, late>>
           ELSE /\ count' = FifoSize
                /\ skew' = (skew + (total - FifoSize)) % PacketLen
                /\ late' = (late \/ lua \in {"test", "read"})
    /\ UNCHANGED <<power, lua, locals, faults>>

\* FIFO_RST
Emptied == count' = 0 /\ skew' = 0

\* A transfer is over, and the Lua task goes on to the next one
Goto(next) == lua' = next /\ made' = 0

\* It succeeds, or it fails
Works == UNCHANGED faults
Fails == faults < MaxFaults /\ faults' = faults + 1

-----------------------------------------------------------------------------
(***************************************************************************)
(* Calls of one transfer that matters.  mpu9250.init is a long sequence of *)
(* writes that starts with a reset of the chip: if one of them is lost,    *)
(* the sensor may be in any mode.                                          *)
(***************************************************************************)
InitWithDmp ==
    /\ lua = "idle"
    /\ \/ Works /\ Emptied /\ dmp' = TRUE /\ awake' = TRUE
       \/ /\ Fails
          /\ Emptied \/ UNCHANGED fifo
          /\ dmp' \in BOOLEAN /\ awake' \in BOOLEAN
    /\ made' = 0
    /\ UNCHANGED <<lua, locals, late>>

\* mpu9250.sleep and mpu9250.wakeup
SetSleep(on) ==
    /\ lua = "idle"
    /\ \/ Works /\ awake' = ~on
       \/ Fails /\ UNCHANGED awake
    /\ made' = 0
    /\ UNCHANGED <<fifo, dmp, lua, locals, late>>

-----------------------------------------------------------------------------
(***************************************************************************)
(* mpu9250.ypr: its loop, mpu9250_read_dmp and mpu9250_reset_fifo.         *)
(***************************************************************************)
Ypr ==
    /\ lua = "idle"
    /\ Goto("count")
    /\ data' = "garbage"
    /\ late' = FALSE
    /\ UNCHANGED <<fifo, power, cnt, tmp, faults>>

\* mpu9250_get_fifo_count, which is 0 if the transfer fails
GetCount ==
    /\ lua = "count"
    /\ \/ Works /\ cnt' = count
       \/ Fails /\ cnt' = 0
    /\ Goto("test")
    /\ late' = FALSE
    /\ UNCHANGED <<fifo, power, tmp, data>>

\* Mutant: a full FIFO is read as well
BranchFull ==
    IF cnt >= PacketLen THEN "read" ELSE "count"

\* Mutant: less than a packet is read as well
BranchShort ==
    IF cnt >= FifoSize THEN "resetRead" ELSE "read"

\* Where the count leads
Branch ==
    IF cnt >= FifoSize THEN "resetRead"
    ELSE IF cnt >= PacketLen THEN "read" ELSE "count"

TestCount ==
    /\ lua = "test"
    /\ lua' = Branch
    /\ cnt' = 0
    /\ UNCHANGED <<fifo, power, made, tmp, data, faults, late>>

\* mpu9250_read_dmp reads a packet
ReadDmp ==
    /\ lua = "read"
    /\ \/ /\ Works
          /\ count' = count - PacketLen
          /\ data' = IF skew = 0 THEN "whole" ELSE "torn"
          /\ UNCHANGED skew
       \/ Fails /\ UNCHANGED <<fifo, data>>
    /\ Goto("ctrl")
    /\ UNCHANGED <<power, cnt, tmp, late>>

\* ... and resets FIFO and DMP: USER_CTRL is 0xcc
ResetDmp ==
    /\ lua = "ctrl"
    /\ \/ Works /\ Emptied /\ dmp' = TRUE
       \/ Fails /\ UNCHANGED <<fifo, dmp>>
    /\ Goto("lastRead")
    /\ UNCHANGED <<awake, locals, late>>

\* mpu9250_reset_fifo reads USER_CTRL; a failure leaves tmp undefined
ReadCtrl ==
    /\ \/ lua = "resetRead" /\ Goto("resetWrite")
       \/ lua = "lastRead" /\ Goto("lastWrite")
    /\ \/ Works /\ tmp' = dmp
       \/ Fails /\ tmp' \in BOOLEAN
    /\ UNCHANGED <<fifo, power, cnt, data, late>>

\* Mutant: the reset bit is written without the bits that were read
KeepNothing == FALSE

\* tmp | FIFO_RESET
Keep == tmp

\* ... and writes it back with the reset bit; the call then returns or polls on
WriteCtrl ==
    /\ \/ lua = "resetWrite" /\ Goto("count")
       \/ lua = "lastWrite" /\ Goto("idle")
    /\ \/ Works /\ Emptied /\ dmp' = Keep
       \/ Fails /\ UNCHANGED <<fifo, dmp>>
    /\ tmp' = FALSE
    /\ UNCHANGED <<awake, cnt, data, late>>

YprSteps == GetCount \/ TestCount \/ ReadDmp \/ ResetDmp \/ ReadCtrl \/ WriteCtrl

MpuNext ==
    \/ Sample
    \/ InitWithDmp \/ Ypr
    \/ \E on \in BOOLEAN : SetSleep(on)
    \/ YprSteps

\* The Lua task goes on with a call, and a sensor that is on makes packets
MpuFairness == WF_mpuVars(YprSteps) /\ WF_mpuVars(Sample)

MpuSpec == MpuInit /\ [][MpuNext]_mpuVars /\ MpuFairness

-----------------------------------------------------------------------------
(***************************************************************************)
(* What mpu9250.ypr computes its angles from is one packet of the sensor.  *)
(* It is parts of two packets only if the FIFO overran between the count   *)
(* and the read, or if both resets of an earlier call were lost (the count *)
(* of an overrun FIFO is then below its size), and it is uninitialised     *)
(* memory only if the read failed.                                         *)
(***************************************************************************)
WholePacket ==
    lua \in {"ctrl", "lastRead", "lastWrite"} =>
       \/ data = "whole"
       \/ data = "torn" /\ (late \/ faults >= 2)
       \/ data = "garbage" /\ faults >= 1

(***************************************************************************)
(* The loop of mpu9250.ypr ends, however full the FIFO is when it starts   *)
(* and although transfers fail now and then, if the sensor is on and       *)
(* awake.  A failed read of USER_CTRL may switch the sensor off for good,  *)
(* and then the Lua task never returns.                                    *)
(***************************************************************************)
YprReturns ==
    (lua = "count" /\ dmp /\ awake) ~> (lua = "idle" \/ (~dmp /\ faults > 0))
=============================================================================
