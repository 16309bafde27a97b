----------------------------- MODULE DebugPort -----------------------------
(***************************************************************************)
(* Output to the debug port: debugPortWrite gathers characters in          *)
(* debugStdoutBuffer and debugPortFlush hands them to the OS's print.      *)
(* print takes a format, so a '%' is stored twice.                         *)
(***************************************************************************)
EXTENDS Naturals, Sequences

CONSTANTS
    BufSize,   \* sizeof(debugStdoutBuffer)
    MaxChars   \* characters written to the port (bounds the model)

ASSUME BufAssumption == BufSize \in Nat /\ BufSize > 3

VARIABLES
    cache,    \* debugStdoutBuffer[0 .. debugStdoutCachedCount - 1]
    printed,  \* what print has put out
    given     \* history: what was written to the port, but for ends of line

debugVars == <<cache, printed, given>>

Percent == "%"
Chars == {"a", Percent}

DebugTypeOK ==
    /\ cache \in Seq(Chars)
    /\ printed \in Seq(Chars)
    /\ given \in Seq(Chars)

DebugInit == cache = <<>> /\ printed = <<>> /\ given = <<>>

(***************************************************************************)
(* The OS's print of a format without arguments, character by character:   *)
(* two '%' are one, and a single one swallows the character after it.      *)
(***************************************************************************)
Scan(p, c) ==
    IF p.percent THEN [out |-> IF c = Percent THEN Append(p.out, c) ELSE p.out, percent |-> FALSE]
    ELSE IF c = Percent THEN [out |-> p.out, percent |-> TRUE]
    ELSE [out |-> Append(p.out, c), percent |-> FALSE]

Scans(s) ==
    LET after[i \in 0..Len(s)] ==
          IF i = 0 THEN [out |-> <<>>, percent |-> FALSE] ELSE Scan(after[i - 1], s[i])
    IN  after

Formatted(s) == Scans(s)[Len(s)].out

\* Mutant: room for one more is enough for two
RoomForOne(n) == Len(cache) < BufSize - 1

\* A free place for n more characters and the final '\0'
Room(n) == Len(cache) < BufSize - n

\* The character is stored, after a flush if there is no room for it
Put(s) ==
    IF Room(Len(s))
    THEN cache' = cache \o s /\ printed' = printed
    ELSE cache' = s /\ printed' = printed \o Formatted(cache)

\* debugPortWrite of one character
WriteChar(c) ==
    /\ Len(given) < MaxChars
    /\ Put(IF c = Percent THEN <<c, c>> ELSE <<c>>)
    /\ given' = Append(given, c)

\* '\r' or '\n': debugPortFlush
WriteEnd ==
    /\ cache # <<>>
    /\ cache' = <<>>
    /\ printed' = printed \o Formatted(cache)
    /\ UNCHANGED given

\* uart.setup of the debug port drops what was not printed
SetupDebug ==
    /\ cache' = <<>>
    /\ given' = printed
    /\ UNCHANGED printed

DebugNext == WriteEnd \/ SetupDebug \/ \E c \in Chars : WriteChar(c)

DebugSpec == DebugInit /\ [][DebugNext]_debugVars

-----------------------------------------------------------------------------
(***************************************************************************)
(* debugPortWrite loses and doubles nothing: what was printed, followed by *)
(* what the buffer would print, is what was written, a pair of '%' is      *)
(* never divided between two prints, and the final '\0' has room.          *)
(***************************************************************************)
OutputComplete ==
    /\ printed \o Formatted(cache) = given
    /\ Len(cache) < BufSize
=============================================================================
