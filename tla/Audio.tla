------------------------------- MODULE Audio -------------------------------
(***************************************************************************)
(* Audio playback: platform_audio_play, platform_audio_stop and            *)
(* audio_play_callback around the two globals isPlaying and audplaybuffer. *)
(*                                                                         *)
(* The Lua task makes the calls; the OS's audio task runs the callback     *)
(* when a playback ends.  Nothing locks the globals, so each access to one *)
(* of them, and each OS call, is a step.                                   *)
(***************************************************************************)
EXTENDS Naturals, FiniteSets

CONSTANTS
    Blocks,    \* memory blocks that malloc can return
    NULL,      \* the null pointer
    MaxMsgs    \* audio messages that may wait for Lua (bounds the model)

ASSUME BlocksAssumption == NULL \notin Blocks

ASSUME MsgsAssumption == MaxMsgs \in Nat \ {0}

VARIABLES
    isPlaying,      \* the flag
    audplaybuffer,  \* the copy of the data being played
    heap,           \* blocks that are allocated
    temp,           \* playBuffer of l_audio_play_file
    lua,            \* where the Lua task is
    source,         \* what the call plays: a buffer or a file
    player,         \* the OS's player: idle, playing or ended
    sound,          \* the block it plays, NULL for a file
    cb,             \* where the callback is
    msgs,           \* RTOS_MSG_AUDIO messages that Lua has not received
    early,          \* history: the callback cleared isPlaying before play set it
    late            \* history: stop_music returned while a callback was under way

vars == <<isPlaying, audplaybuffer, heap, temp, lua, source, player, sound,
          cb, msgs, early, late>>

Pointers == Blocks \cup {NULL}

LuaSteps == {"idle", "play", "music", "failed", "failedFree", "failedNull", "store",
             "release", "stop", "stopTest", "stopFree", "stopNull", "stopFlag"}

CbSteps == {"idle", "test", "free", "null", "flag", "send"}

(***************************************************************************)
(* The shape of the state.                                                 *)
(***************************************************************************)
TypeOK ==
    /\ isPlaying \in BOOLEAN
    /\ audplaybuffer \in Pointers
    /\ heap \subseteq Blocks
    /\ temp \in Pointers
    /\ lua \in LuaSteps
    /\ source \in {"buffer", "file"}
    /\ player \in {"idle", "playing", "ended"}
    /\ sound \in Pointers
    /\ cb \in CbSteps
    /\ msgs \in 0..MaxMsgs
    /\ early \in BOOLEAN
    /\ late \in BOOLEAN

Init ==
    /\ isPlaying = FALSE
    /\ audplaybuffer = NULL
    /\ heap = {}
    /\ temp = NULL
    /\ lua = "idle"
    /\ source = "file"
    /\ player = "idle"
    /\ sound = NULL
    /\ cb = "idle"
    /\ msgs = 0
    /\ early = FALSE
    /\ late = FALSE

-----------------------------------------------------------------------------
flags == <<isPlaying, early>>
memory == <<audplaybuffer, heap, temp>>
playing == <<player, sound>>
callback == <<cb, msgs>>

LuaGoes(from, to) == lua = from /\ lua' = to

CbGoes(from, to) == cb = from /\ cb' = to

\* Lua makes a step that only moves on
LuaOnly == UNCHANGED <<flags, memory, source, playing, callback, late>>

\* The same for the callback
CbOnly == UNCHANGED <<flags, memory, lua, source, playing, msgs, late>>

(***************************************************************************)
(* audio.play(name).  An AMR or MP3 file is read into a block of its own   *)
(* first and played from memory; when it cannot be opened or read, or      *)
(* there is no memory, the call ends with nothing allocated.               *)
(***************************************************************************)
PlayFile ==
    /\ LuaGoes("idle", "play")
    /\ \E b \in Blocks \ heap : heap' = heap \cup {b} /\ temp' = b
    /\ source' = "buffer"
    /\ UNCHANGED <<flags, audplaybuffer, playing, callback, late>>

\* audio.play of another file, or audio.playdata with a Lua string
PlayNamed ==
    /\ LuaGoes("idle", "play")
    /\ source' \in {"buffer", "file"}
    /\ UNCHANGED <<flags, memory, playing, callback, late>>

\* platform_audio_play refuses a second playback
PlayBusy == isPlaying /\ LuaGoes("play", "release") /\ LuaOnly

\* It refuses an unknown format or a buffer that is still there, or has no memory
PlayRefused == ~isPlaying /\ LuaGoes("play", "release") /\ LuaOnly

\* It copies the data into audplaybuffer
PlayCopy ==
    /\ LuaGoes("play", "music")
    /\ ~isPlaying
    /\ source = "buffer"
    /\ audplaybuffer = NULL
    /\ \E b \in Blocks \ heap : heap' = heap \cup {b} /\ audplaybuffer' = b
    /\ UNCHANGED <<flags, temp, source, playing, callback, late>>

PlayFormat == ~isPlaying /\ source = "file" /\ LuaGoes("play", "music") /\ LuaOnly

\* play_music starts the player; the callback may come from now on
PlayMusic ==
    /\ LuaGoes("music", "store")
    /\ player = "idle"
    /\ player' = "playing"
    /\ sound' = IF source = "buffer" THEN audplaybuffer ELSE NULL
    /\ UNCHANGED <<flags, memory, source, callback, late>>

PlayMusicFails == LuaGoes("music", "failed") /\ LuaOnly

\* isPlaying = TRUE, whatever the callback has done meanwhile
PlayStore ==
    /\ LuaGoes("store", "release")
    /\ isPlaying' = TRUE
    /\ UNCHANGED <<early, memory, source, playing, callback, late>>

\* l_audio_play_file frees its own block
PlayRelease ==
    /\ LuaGoes("release", "idle")
    /\ heap' = heap \ {temp}
    /\ temp' = NULL
    /\ UNCHANGED <<flags, audplaybuffer, source, playing, callback, late>>

-----------------------------------------------------------------------------
(***************************************************************************)
(* "if(audplaybuffer) free it, forget it": three accesses to the global,   *)
(* in play's error path, in stop and in the callback.                      *)
(***************************************************************************)
TestBuffer(held, null) == IF audplaybuffer # NULL THEN held ELSE null

FreeBuffer == heap' = heap \ {audplaybuffer} /\ UNCHANGED <<audplaybuffer, temp>>

ForgetBuffer == audplaybuffer' = NULL /\ UNCHANGED <<heap, temp>>

LuaKeeps == UNCHANGED <<flags, source, playing, callback, late>>

CbKeeps == UNCHANGED <<flags, lua, source, playing, msgs, late>>

PlayFailed ==
    \/ LuaGoes("failed", TestBuffer("failedFree", "release")) /\ LuaOnly
    \/ LuaGoes("failedFree", "failedNull") /\ FreeBuffer /\ LuaKeeps
    \/ LuaGoes("failedNull", "release") /\ ForgetBuffer /\ LuaKeeps

\* audio.stop(): nothing to do unless isPlaying
Stop == isPlaying /\ LuaGoes("idle", "stop") /\ LuaOnly

\* stop_music.  The OS need not wait for a callback that has begun
StopMusic ==
    /\ LuaGoes("stop", "stopTest")
    /\ player' = "idle"
    /\ sound' = NULL
    /\ late' = (late \/ cb \in {"test", "free", "null", "flag"})
    /\ UNCHANGED <<flags, memory, source, callback>>

StopTest == LuaGoes("stopTest", TestBuffer("stopFree", "stopFlag")) /\ LuaOnly

\* Mutant: stop forgets the buffer without freeing it
StopFreeNot == LuaGoes("stopFree", "stopNull") /\ LuaOnly

StopFree == LuaGoes("stopFree", "stopNull") /\ FreeBuffer /\ LuaKeeps

\* Mutant: stop leaves the pointer to the freed buffer
StopNullNot == LuaGoes("stopNull", "stopFlag") /\ LuaOnly

StopNull == LuaGoes("stopNull", "stopFlag") /\ ForgetBuffer /\ LuaKeeps

StopFlag ==
    /\ LuaGoes("stopFlag", "idle")
    /\ isPlaying' = FALSE
    /\ early' = FALSE
    /\ UNCHANGED <<memory, source, playing, callback, late>>

\* rtos.receive takes an audio message
Receive ==
    /\ lua = "idle"
    /\ msgs > 0
    /\ msgs' = msgs - 1
    /\ UNCHANGED <<flags, memory, lua, source, playing, cb, late>>

-----------------------------------------------------------------------------
(***************************************************************************)
(* The OS's player.  A playback that ends, by itself or by an error, gets  *)
(* its callback; one that stop_music stops does not.                       *)
(***************************************************************************)
Ends ==
    /\ player = "playing"
    /\ msgs + (IF cb = "idle" THEN 0 ELSE 1) < MaxMsgs
    /\ player' = "ended"
    /\ UNCHANGED <<flags, memory, lua, source, sound, callback, late>>

\* audio_play_callback
CbCall ==
    /\ player = "ended"
    /\ CbGoes("idle", "test")
    /\ player' = "idle"
    /\ sound' = NULL
    /\ UNCHANGED <<flags, memory, lua, source, msgs, late>>

\* Mutant: the callback does not look at the buffer
CbTestNot == CbGoes("test", "flag") /\ CbOnly

CbTest == CbGoes("test", TestBuffer("free", "flag")) /\ CbOnly

CbFree == CbGoes("free", "null") /\ FreeBuffer /\ CbKeeps

CbNull == CbGoes("null", "flag") /\ ForgetBuffer /\ CbKeeps

\* Mutant: the callback does not reset isPlaying
CbFlagNot == CbGoes("flag", "send") /\ CbOnly

CbFlag ==
    /\ CbGoes("flag", "send")
    /\ isPlaying' = FALSE
    /\ early' = (lua = "store")
    /\ UNCHANGED <<memory, lua, source, playing, msgs, late>>

\* Mutant: the end is reported twice
CbSendTwice ==
    /\ CbGoes("send", "idle")
    /\ msgs' = msgs + 2
    /\ UNCHANGED <<flags, memory, lua, source, playing, late>>

CbSend ==
    /\ CbGoes("send", "idle")
    /\ msgs' = msgs + 1
    /\ UNCHANGED <<flags, memory, lua, source, playing, late>>

-----------------------------------------------------------------------------
LuaCall == PlayFile \/ PlayNamed \/ Stop \/ Receive

LuaStep ==
    \/ PlayBusy \/ PlayRefused \/ PlayCopy \/ PlayFormat \/ PlayMusic \/ PlayMusicFails
    \/ PlayStore \/ PlayRelease \/ PlayFailed
    \/ StopMusic \/ StopTest \/ StopFree \/ StopNull \/ StopFlag

Callback == CbCall \/ CbTest \/ CbFree \/ CbNull \/ CbFlag \/ CbSend

Next == LuaCall \/ LuaStep \/ Ends \/ Callback

(***************************************************************************)
(* The audio task makes and finishes its callbacks, and a Lua call that    *)
(* was begun goes on.  Nothing obliges a script to play, to stop or to     *)
(* receive, nor a playback to end.                                         *)
(***************************************************************************)
Fairness == WF_vars(Callback) /\ WF_vars(LuaStep)

Spec == Init /\ [][Next]_vars /\ Fairness

-----------------------------------------------------------------------------
Freeing == lua \in {"failedFree", "stopFree"} \/ cb = "free"

(***************************************************************************)
(* Memory: whoever is about to free audplaybuffer frees a block that is    *)
(* still allocated (no block is freed twice by play's error path, stop and *)
(* the callback), and the player never plays from a freed block.  The code *)
(* relies on stop_music not returning while a callback is under way.       *)
(***************************************************************************)
BufferSafe ==
    ~late => /\ Freeing /\ audplaybuffer # NULL => audplaybuffer \in heap
             /\ sound # NULL => sound \in heap

(***************************************************************************)
(* No leak: an allocated block is the one in audplaybuffer or the one that *)
(* l_audio_play_file will free, on every error path of play too.           *)
(***************************************************************************)
NoLeak == ~late => heap \subseteq {audplaybuffer, temp}

(***************************************************************************)
(* Between calls isPlaying says whether a playback is going on or its end  *)
(* is still to be reported.  The exception: the callback came before play  *)
(* stored TRUE (platform_audio.c:153); the flag then stays TRUE, and every *)
(* play is refused, until the script calls stop.                           *)
(***************************************************************************)
FlagTells ==
    lua = "idle" /\ cb = "idle" /\ ~late => isPlaying = (player # "idle" \/ early)

(***************************************************************************)
(* The memory of a playback that ended is given back, whatever the script  *)
(* does next.                                                              *)
(***************************************************************************)
Released ==
    \A b \in Blocks : (player = "ended" /\ sound = b) ~> (b \notin heap \/ late)
=============================================================================
