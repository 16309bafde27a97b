-------------------------------- MODULE Osd --------------------------------
(***************************************************************************)
(* The driver of the AT7456E, the chip that writes text over the video.    *)
(* The driver moves three pins; the chip shifts in a bit when the clock    *)
(* rises and acts on the bits it has when it is deselected.  A frame, from *)
(* select to deselect, is one step here, computed pin by pin.              *)
(***************************************************************************)
EXTENDS Naturals, Sequences

CONSTANTS
    Rows, Cols,  \* of the screen (16 and 30)
    Page,        \* display addresses that DMAL counts (256)
    Alphabet,    \* character codes that a script puts
    MaxText      \* length of a text (bounds the model)

ASSUME ScreenAssumption ==
    /\ Rows \in Nat \ {0} /\ Cols \in Nat \ {0} /\ Page \in 1..256
    /\ Rows * Cols < 256 * Page
    /\ Alphabet \subseteq 0..255
    /\ MaxText \in Nat

VARIABLES
    chip,       \* the pins, the bits shifted in, the registers, the display memory
    resetting,  \* the chip executes a software reset
    frames,     \* what the Lua call in progress has still to send
    r1,         \* what it has read from VM0
    shown,      \* history: what the calls have put on the screen
    lit,        \* history: the display was switched on
    disturbed   \* history: a frame met a chip in reset

osdVars == <<chip, resetting, frames, r1, shown, lit, disturbed>>

VM0 == 0
DMM == 4
DMAH == 5
DMAL == 6
END == 255  \* ends the automatic increment

Cells == 0..(Rows * Cols - 1)
Blank == [a \in Cells |-> 0]
Byte == 0..255

OsdTypeOK ==
    /\ chip.ncs \in 0..1 /\ chip.sck \in 0..1 /\ chip.sdi \in 0..1
    /\ chip.auto \in BOOLEAN
    /\ chip.vm0 \in Byte /\ chip.dmah \in Byte /\ chip.dmal \in Byte
    /\ chip.ram \in [Cells -> Byte]
    /\ resetting \in BOOLEAN
    /\ r1 \in Byte
    /\ shown \in [Cells -> Byte]
    /\ lit \in BOOLEAN
    /\ disturbed \in BOOLEAN

OsdInit ==
    /\ chip = [ncs |-> 1, sck |-> 1, sdi |-> 1, bits |-> <<>>, auto |-> FALSE,
               vm0 |-> 0, dmah |-> 0, dmal |-> 0, ram |-> Blank]
    /\ resetting = FALSE
    /\ frames = <<>>
    /\ r1 = 0
    /\ shown = Blank
    /\ lit = FALSE
    /\ disturbed = FALSE

-----------------------------------------------------------------------------
(***************************************************************************)
(* The chip.  16 bits are a register and its value.  With the automatic    *)
(* increment on, 8 bits are the character for the next address; END or the *)
(* last address ends it.  Any other number of bits means nothing.          *)
(***************************************************************************)
Bit(v, i) == (v \div 2^i) % 2

\* Eight bits from the i-th on, the highest first
Value(bits, i) ==
    128 * bits[i] + 64 * bits[i + 1] + 32 * bits[i + 2] + 16 * bits[i + 3]
      + 8 * bits[i + 4] + 4 * bits[i + 5] + 2 * bits[i + 6] + bits[i + 7]

Character(c, v) ==
    LET a == c.dmah * Page + c.dmal
        next == a + 1
    IN  IF v = END \/ a \notin Cells THEN [c EXCEPT !.auto = FALSE]
        ELSE [c EXCEPT !.ram[a] = v, !.auto = next \in Cells,
                       !.dmah = next \div Page, !.dmal = next % Page]

Register(c, r, v) ==
    CASE r = VM0  -> [c EXCEPT !.vm0 = v]
      [] r = DMM  -> [c EXCEPT !.auto = Bit(v, 0) = 1]
      [] r = DMAH -> [c EXCEPT !.dmah = v]
      [] r = DMAL -> [c EXCEPT !.dmal = v]
      [] OTHER    -> c

Deselected(c) ==
    CASE Len(c.bits) = 8 /\ c.auto -> Character(c, Value(c.bits, 1))
      [] Len(c.bits) = 16 /\ ~c.auto -> Register(c, Value(c.bits, 1), Value(c.bits, 9))
      [] OTHER -> c

\* A pin takes a level
SetPin(c, op) ==
    LET pin == op[1]
        val == op[2]
        d == [c EXCEPT ![pin] = val]
    IN  CASE pin = "sck" /\ c.sck = 0 /\ val = 1 /\ c.ncs = 0 -> [d EXCEPT !.bits = Append(@, c.sdi)]
          [] pin = "ncs" /\ val = 0 -> [d EXCEPT !.bits = <<>>]
          [] pin = "ncs" /\ c.ncs = 0 /\ val = 1 -> [Deselected(d) EXCEPT !.bits = <<>>]
          [] OTHER -> d

-----------------------------------------------------------------------------
(***************************************************************************)
(* The pins that write_at7456_addr_data and write_at7456_data move.        *)
(***************************************************************************)
Start == << <<"sck", 0>>, <<"ncs", 0>> >>

BitOut(b) == << <<"sdi", b>>, <<"sck", 1>>, <<"sck", 0>> >>

ByteOut(v) ==
    BitOut(Bit(v, 7)) \o BitOut(Bit(v, 6)) \o BitOut(Bit(v, 5)) \o BitOut(Bit(v, 4))
      \o BitOut(Bit(v, 3)) \o BitOut(Bit(v, 2)) \o BitOut(Bit(v, 1)) \o BitOut(Bit(v, 0))

\* Mutant: the clock returns to rest while the chip is still selected
FinishClockFirst == << <<"sck", 1>>, <<"ncs", 1>>, <<"sdi", 1>> >>

Finish == << <<"ncs", 1>>, <<"sck", 1>>, <<"sdi", 1>> >>

write_at7456_addr_data(addr, dat) == Start \o ByteOut(addr) \o ByteOut(dat) \o Finish
write_at7456_data(dat) == Start \o ByteOut(dat) \o Finish

\* The chip after each of the pins
Driven(c, pins) ==
    LET after[i \in 0..Len(pins)] == IF i = 0 THEN c ELSE SetPin(after[i - 1], pins[i])
    IN  after

Drive(c, pins) == Driven(c, pins)[Len(pins)]

\* Frames that a call sends: a register or a character
Reg(r, v) == [kind |-> "reg", reg |-> r, value |-> v]
Data(v) == [kind |-> "data", value |-> v]

\* Frames that use VM0: read it into r1 or r2, write it back changed
ReadVM0(var) == [kind |-> "read", var |-> var]
VM0From(change) == [kind |-> "vm0", change |-> change]

\* r1 with bits set or cleared
Or(v, i) == IF Bit(v, i) = 1 THEN v ELSE v + 2^i
AndNot(v, i) == IF Bit(v, i) = 1 THEN v - 2^i ELSE v

Changed(change) ==
    CASE change = "on"      -> Or(r1, 3)
      [] change = "off"     -> AndNot(r1, 3)
      [] change = "probe"   -> Or(Or(AndNot(r1, 1), 3), 7)
      [] change = "restore" -> r1

PinsOf(f) ==
    CASE f.kind = "reg"  -> write_at7456_addr_data(f.reg, f.value)
      [] f.kind = "data" -> write_at7456_data(f.value)
      [] f.kind = "vm0"  -> write_at7456_addr_data(VM0, Changed(f.change))

\* What a frame does to a chip that is not in reset
Sent(f) ==
    /\ chip' = Drive(chip, PinsOf(f))
    /\ resetting' = (Bit(chip'.vm0, 1) = 1)

\* History: from now on, what the screen should show is not known
Disturb == disturbed' = TRUE /\ shown' = Blank /\ lit' = FALSE

SendFrame ==
    /\ frames # <<>>
    /\ Head(frames).kind # "read"
    /\ frames' = Tail(frames)
    /\ IF resetting
       THEN UNCHANGED <<chip, resetting>> /\ Disturb
       ELSE Sent(Head(frames)) /\ UNCHANGED <<shown, lit, disturbed>>
    /\ r1' = IF frames' = <<>> THEN 0 ELSE r1

(***************************************************************************)
(* read_at7456_addr_data(VM0).  A chip in reset answers anything.  r2 only *)
(* tells the version of the chip.                                          *)
(***************************************************************************)
ReadFrame ==
    /\ frames # <<>>
    /\ Head(frames).kind = "read"
    /\ frames' = Tail(frames)
    /\ r1' \in CASE Head(frames).var = "r2" -> {r1}
                 [] Head(frames).var # "r2" /\ resetting -> {0, 255}
                 [] OTHER -> {chip.vm0}
    /\ IF resetting THEN Disturb ELSE UNCHANGED <<shown, lit, disturbed>>
    /\ UNCHANGED <<chip, resetting>>

\* The reset ends: registers and display memory are cleared
ResetDone ==
    /\ resetting
    /\ resetting' = FALSE
    /\ chip' = [chip EXCEPT !.auto = FALSE, !.vm0 = 0, !.dmah = 0, !.dmal = 0, !.ram = Blank]
    /\ UNCHANGED <<frames, r1, shown, lit, disturbed>>

-----------------------------------------------------------------------------
(***************************************************************************)
(* The Lua calls: each one starts with the frames it will send.            *)
(***************************************************************************)
Calls(fs) == frames = <<>> /\ frames' = fs /\ UNCHANGED <<chip, resetting, r1>>

\* History: what the call is to show, once a reset has made it known
Expect(screen, on) ==
    /\ shown' = IF disturbed THEN shown ELSE screen
    /\ lit' = IF disturbed THEN lit ELSE on
    /\ UNCHANGED disturbed

\* at7456e.init: at7456e_check_chip_version
OsdSetup ==
    /\ Calls(<<ReadVM0("r1"), VM0From("probe"), ReadVM0("r2"), VM0From("restore")>>)
    /\ UNCHANGED <<shown, lit, disturbed>>

\* at7456e.reset: the wait of 50 ms is left to the script
OsdReset ==
    /\ Calls(<<Reg(VM0, 2)>>)
    /\ shown' = Blank
    /\ lit' = FALSE
    /\ disturbed' = FALSE

\* at7456e.osd
OsdEnable(enable) ==
    /\ Calls(<<ReadVM0("r1"), VM0From(IF enable THEN "on" ELSE "off")>>)
    /\ Expect(shown, enable)

\* Frames that send characters and end the automatic increment
Characters(chars) == Append([i \in 1..Len(chars) |-> Data(chars[i])], Data(END))

\* Frames that write characters from address kk on
Written(kk, chars) ==
    <<Reg(DMAH, kk \div Page), Reg(DMAL, kk % Page), Reg(DMM, 1)>> \o Characters(chars)

\* at7456e.clear
OsdClear ==
    /\ Calls(Written(0, [i \in 1..(Rows * Cols) |-> 0]))
    /\ Expect(Blank, lit)

\* ( ) . ? ; : , ' / " - < > @
Signs == <<40, 41, 46, 63, 59, 58, 44, 39, 47, 34, 45, 60, 62, 64>>

\* The chip's code of an ASCII character; 63 = 0x3f is its '('
Glyph(c) ==
    CASE c = 48        -> 10
      [] c \in 49..57  -> c - 48
      [] c \in 65..90  -> c - 65 + 11
      [] c \in 97..122 -> c - 97 + 37
      [] c = 32        -> 0
      [] \E i \in DOMAIN Signs : Signs[i] = c -> 62 + CHOOSE i \in DOMAIN Signs : Signs[i] = c
      [] OTHER         -> c

\* The text up to the first occurrence of a code
Before(text, code) ==
    LET n == CHOOSE n \in 0..Len(text) :
               /\ \A i \in 1..n : text[i] # code
               /\ n < Len(text) => text[n + 1] = code
    IN  SubSeq(text, 1, n)

Glyphs(text) == [i \in 1..Len(text) |-> Glyph(text[i])]

(***************************************************************************)
(* What a text of characters puts on the screen from address kk on: up to  *)
(* an END in it, as far as the screen goes.                                *)
(***************************************************************************)
Over(screen, kk, text) ==
    [a \in Cells |-> IF a >= kk /\ a < kk + Len(text) THEN text[a - kk + 1] ELSE screen[a]]

\* Mutant: rows are taken for columns
AddressTransposed(row, col) == col * Cols + row

\* kk of at7456e_display_string
Address(row, col) == row * Cols + col

\* at7456e.puttext: at7456e_display_string of a C string
OsdPut(row, col, text) ==
    LET string == Before(text, 0)
    IN  /\ Calls(Written(Address(row, col), Glyphs(string)))
        /\ Expect(Over(shown, row * Cols + col, Glyphs(Before(string, END))), lit)

Texts == UNION {[1..n -> Alphabet] : n \in 0..MaxText}

OsdNext ==
    \/ OsdSetup \/ OsdReset \/ OsdClear
    \/ \E enable \in BOOLEAN : OsdEnable(enable)
    \/ \E row \in 0..(Rows - 1), col \in 0..(Cols - 1), text \in Texts : OsdPut(row, col, text)
    \/ SendFrame \/ ReadFrame \/ ResetDone

OsdSpec == OsdInit /\ [][OsdNext]_osdVars

-----------------------------------------------------------------------------
(***************************************************************************)
(* Between two calls the screen shows what the calls have put on it and is *)
(* on or off as at7456e.osd said, at7456e.init having restored what it     *)
(* probed; only a call made while the chip was in reset may have been      *)
(* lost.  Whatever was lost, the chip is deselected and does not take the  *)
(* next call's registers for characters.                                   *)
(***************************************************************************)
ScreenShows ==
    frames = <<>> =>
       /\ ~disturbed /\ ~resetting => chip.ram = shown /\ lit = (Bit(chip.vm0, 3) = 1)
       /\ ~chip.auto /\ chip.ncs = 1
=============================================================================
