---------------------------- MODULE AudioProofs ----------------------------
(***************************************************************************)
(* Proofs about Audio, for every set of memory blocks and every number of  *)
(* waiting messages.                                                       *)
(***************************************************************************)
EXTENDS Audio, TLAPS

\* A callback that has not yet cleared isPlaying, or is still to come
CbBusy == {"test", "free", "null", "flag"}
Busy == player # "idle" \/ cb \in CbBusy

\* The place of a Lua task that has found isPlaying FALSE and not stored TRUE
Starting == {"music", "failed", "failedFree", "failedNull"}
\* ... that has called stop_music
Stopping == {"stopTest", "stopFree", "stopNull", "stopFlag"}
\* ... that is elsewhere
Resting == {"idle", "play", "release", "stop"}

\* Every message that will come has its place
MsgInv ==
    msgs + (IF player = "ended" THEN 1 ELSE 0) + (IF cb = "idle" THEN 0 ELSE 1) <= MaxMsgs

\* l_audio_play_file's block exists only inside its call, and until its end
TempInv ==
    /\ lua \in {"idle", "stop"} \cup Stopping => temp = NULL
    /\ temp # NULL => temp \in heap

\* What isPlaying and early say at each place of the Lua task
PlayInv ==
    /\ lua \in Starting => ~isPlaying /\ ~Busy /\ ~early
    /\ lua = "store" => (early <=> ~Busy)
    /\ lua \in Stopping => ~Busy
    /\ lua \in Resting => (isPlaying <=> Busy \/ early)
    /\ cb \in CbBusy => player = "idle"

\* The buffer: forgotten by whoever has freed it, allocated otherwise
HeapInv ==
    /\ heap \subseteq {audplaybuffer, temp}
    /\ lua \in {"failedNull", "stopNull"} \/ cb = "null" => heap \subseteq {temp}
    /\ audplaybuffer # NULL /\ lua \notin {"failedNull", "stopNull"} /\ cb # "null" =>
          audplaybuffer \in heap /\ audplaybuffer # temp
    /\ lua \in {"failedFree", "stopFree"} \/ cb = "free" => audplaybuffer # NULL
    /\ sound # NULL => player # "idle" /\ sound = audplaybuffer

IndInv == TypeOK /\ MsgInv /\ (~late => TempInv /\ PlayInv /\ HeapInv)

USE DEF Pointers, LuaGoes, CbGoes, LuaOnly, CbOnly, LuaKeeps, CbKeeps, TestBuffer, FreeBuffer,
        ForgetBuffer, flags, memory, playing, callback

\* The state after start-up satisfies the invariant
LEMMA InitInd == Init => IndInv
  <1> SUFFICES ASSUME Init PROVE IndInv
    OBVIOUS
  <1>1. TypeOK
    <2>1. isPlaying \in BOOLEAN /\ early \in BOOLEAN /\ late \in BOOLEAN
      BY Zenon DEF Init
    <2>2. msgs \in 0..MaxMsgs
      BY MsgsAssumption DEF Init
    <2>3. /\ audplaybuffer \in Pointers /\ temp \in Pointers /\ sound \in Pointers
          /\ heap \subseteq Blocks
      BY DEF Init
    <2>4. /\ lua \in LuaSteps /\ cb \in CbSteps
          /\ source \in {"buffer", "file"} /\ player \in {"idle", "playing", "ended"}
      BY DEF Init, LuaSteps, CbSteps
    <2> QED
      BY <2>1, <2>2, <2>3, <2>4 DEF TypeOK
  <1>2. MsgInv
    BY MsgsAssumption DEF Init, MsgInv
  <1>3. TempInv /\ PlayInv /\ HeapInv
    BY DEF Init, TempInv, PlayInv, HeapInv, Busy, CbBusy, Starting, Stopping, Resting
  <1> QED
    BY <1>1, <1>2, <1>3 DEF IndInv

\* Types: only the number of messages needs an argument
LEMMA TypeInd == TypeOK /\ MsgInv /\ Next => TypeOK'
  <1> SUFFICES ASSUME TypeOK, MsgInv, Next PROVE TypeOK'
    OBVIOUS
  <1> USE BlocksAssumption, MsgsAssumption DEF TypeOK, LuaSteps, CbSteps
  <1>1. CASE LuaCall
    BY <1>1 DEF LuaCall, PlayFile, PlayNamed, Stop, Receive
  <1>2. CASE PlayBusy \/ PlayRefused \/ PlayCopy \/ PlayFormat \/ PlayMusic \/ PlayMusicFails
    BY <1>2 DEF PlayBusy, PlayRefused, PlayCopy, PlayFormat, PlayMusic, PlayMusicFails
  <1>3. CASE PlayStore \/ PlayRelease \/ PlayFailed
    BY <1>3 DEF PlayStore, PlayRelease, PlayFailed
  <1>4. CASE StopMusic
    <2>1. late' \in BOOLEAN
      BY <1>4, Zenon DEF StopMusic
    <2> QED
      BY <1>4, <2>1 DEF StopMusic
  <1>5. CASE StopTest \/ StopFree \/ StopNull \/ StopFlag
    BY <1>5 DEF StopTest, StopFree, StopNull, StopFlag
  <1>6. CASE Ends \/ CbCall \/ CbTest \/ CbFree \/ CbNull
    BY <1>6 DEF Ends, CbCall, CbTest, CbFree, CbNull
  <1>7. CASE CbFlag
    <2>1. early' \in BOOLEAN
      BY <1>7, Zenon DEF CbFlag
    <2> QED
      BY <1>7, <2>1 DEF CbFlag
  <1>8. CASE CbSend
    BY <1>8 DEF CbSend, MsgInv
  <1> QED
    BY <1>1, <1>2, <1>3, <1>4, <1>5, <1>6, <1>7, <1>8 DEF Next, LuaStep, Callback

\* Messages: Ends leaves room for what the callback will send
LEMMA MsgInd == TypeOK /\ MsgInv /\ Next => MsgInv'
  <1> SUFFICES ASSUME TypeOK, MsgInv, Next PROVE MsgInv'
    OBVIOUS
  <1> USE MsgsAssumption DEF TypeOK, MsgInv
  <1>1. CASE LuaCall
    BY <1>1 DEF LuaCall, PlayFile, PlayNamed, Stop, Receive
  <1>2. CASE LuaStep
    BY <1>2 DEF LuaStep, PlayBusy, PlayRefused, PlayCopy, PlayFormat, PlayMusic, PlayMusicFails,
                PlayStore, PlayRelease, PlayFailed, StopMusic, StopTest, StopFree, StopNull, StopFlag
  <1>3. CASE Ends
    BY <1>3 DEF Ends
  <1>4. CASE Callback
    BY <1>4 DEF Callback, CbCall, CbTest, CbFree, CbNull, CbFlag, CbSend
  <1> QED
    BY <1>1, <1>2, <1>3, <1>4 DEF Next

\* The flag, the temporary block and the buffer through one step, as long as
\* no callback was overtaken by stop_music
LEMMA SafeInd ==
    ASSUME TypeOK, ~late', TempInv, PlayInv, HeapInv, Next
    PROVE  TempInv' /\ PlayInv' /\ HeapInv'
  <1> USE BlocksAssumption DEF TypeOK, LuaSteps, CbSteps, CbBusy, Busy, Starting, Stopping, Resting
  <1>1. CASE PlayFile
    BY <1>1 DEF PlayFile, TempInv, PlayInv, HeapInv
  <1>2. CASE PlayNamed
    BY <1>2 DEF PlayNamed, TempInv, PlayInv, HeapInv
  <1>3. CASE Stop
    BY <1>3 DEF Stop, TempInv, PlayInv, HeapInv
  <1>4. CASE Receive
    BY <1>4 DEF Receive, TempInv, PlayInv, HeapInv
  <1>5. CASE PlayBusy \/ PlayRefused
    BY <1>5 DEF PlayBusy, PlayRefused, TempInv, PlayInv, HeapInv
  <1>6. CASE PlayCopy
    <2>1. PICK b \in Blocks \ heap : heap' = heap \cup {b} /\ audplaybuffer' = b
      BY <1>6 DEF PlayCopy
    <2>2. TempInv' /\ PlayInv'
      BY <1>6 DEF PlayCopy, TempInv, PlayInv
    <2>3. /\ lua = "play" /\ lua' = "music" /\ player = "idle" /\ cb \notin CbBusy
          /\ audplaybuffer = NULL /\ UNCHANGED <<temp, sound, player, cb>>
      BY <1>6 DEF PlayCopy, PlayInv
    <2>4. sound = NULL /\ heap \subseteq {NULL, temp}
      BY <2>3 DEF HeapInv
    <2>5. heap' \subseteq {audplaybuffer', temp'}
      BY <2>1, <2>3, <2>4
    <2>6. audplaybuffer' # NULL /\ audplaybuffer' \in heap'
      BY <2>1
    <2>7. audplaybuffer' # temp'
      BY <2>1, <2>3 DEF TempInv
    <2>8. HeapInv'
      BY <2>3, <2>4, <2>5, <2>6, <2>7 DEF HeapInv
    <2> QED
      BY <2>2, <2>8
  <1>7. CASE PlayFormat
    BY <1>7 DEF PlayFormat, TempInv, PlayInv, HeapInv
  <1>8. CASE PlayMusic
    BY <1>8 DEF PlayMusic, TempInv, PlayInv, HeapInv
  <1>9. CASE PlayMusicFails
    BY <1>9 DEF PlayMusicFails, TempInv, PlayInv, HeapInv
  <1>10. CASE PlayStore
    BY <1>10 DEF PlayStore, TempInv, PlayInv, HeapInv
  <1>11. CASE PlayRelease
    BY <1>11 DEF PlayRelease, TempInv, PlayInv, HeapInv
  <1>12. CASE PlayFailed
    BY <1>12 DEF PlayFailed, TempInv, PlayInv, HeapInv
  <1>13. CASE StopMusic
    BY <1>13 DEF StopMusic, TempInv, PlayInv, HeapInv
  <1>14. CASE StopTest
    BY <1>14 DEF StopTest, TempInv, PlayInv, HeapInv
  <1>15. CASE StopFree
    BY <1>15 DEF StopFree, TempInv, PlayInv, HeapInv
  <1>16. CASE StopNull
    BY <1>16 DEF StopNull, TempInv, PlayInv, HeapInv
  <1>17. CASE StopFlag
    BY <1>17 DEF StopFlag, TempInv, PlayInv, HeapInv
  <1>18. CASE Ends
    BY <1>18 DEF Ends, TempInv, PlayInv, HeapInv
  <1>19. CASE CbCall
    BY <1>19 DEF CbCall, TempInv, PlayInv, HeapInv
  <1>20. CASE CbTest
    BY <1>20 DEF CbTest, TempInv, PlayInv, HeapInv
  <1>21. CASE CbFree
    BY <1>21 DEF CbFree, TempInv, PlayInv, HeapInv
  <1>22. CASE CbNull
    BY <1>22 DEF CbNull, TempInv, PlayInv, HeapInv
  <1>23. CASE CbFlag
    BY <1>23 DEF CbFlag, TempInv, PlayInv, HeapInv
  <1>24. CASE CbSend
    BY <1>24 DEF CbSend, TempInv, PlayInv, HeapInv
  <1> QED
    BY <1>1, <1>2, <1>3, <1>4, <1>5, <1>6, <1>7, <1>8, <1>9, <1>10, <1>11, <1>12, <1>13, <1>14,
       <1>15, <1>16, <1>17, <1>18, <1>19, <1>20, <1>21, <1>22, <1>23, <1>24
       DEF Next, LuaCall, LuaStep, Callback

\* Every step keeps the invariant
LEMMA NextInd == IndInv /\ [Next]_vars => IndInv'
  <1> SUFFICES ASSUME IndInv, [Next]_vars PROVE IndInv'
    OBVIOUS
  <1>1. CASE UNCHANGED vars
    BY <1>1 DEF vars, IndInv, TypeOK, MsgInv, TempInv, PlayInv, HeapInv, Busy
  <1>2. CASE Next
    <2>1. TypeOK' /\ MsgInv'
      BY <1>2, TypeInd, MsgInd DEF IndInv
    <2>2. late => late'
      BY <1>2 DEF Next, LuaCall, PlayFile, PlayNamed, Stop, Receive, LuaStep, PlayBusy, PlayRefused,
                  PlayCopy, PlayFormat, PlayMusic, PlayMusicFails, PlayStore, PlayRelease, PlayFailed,
                  StopMusic, StopTest, StopFree, StopNull, StopFlag, Ends, Callback, CbCall, CbTest,
                  CbFree, CbNull, CbFlag, CbSend
    <2>3. ~late' => TempInv' /\ PlayInv' /\ HeapInv'
      BY <1>2, <2>2, SafeInd DEF IndInv
    <2> QED
      BY <2>1, <2>3 DEF IndInv
  <1> QED
    BY <1>1, <1>2

\* The invariant holds for ever
THEOREM Inductive == Spec => []IndInv
  BY InitInd, NextInd, PTL DEF Spec

\* TypeOK: among the rest, the OS's queue never holds more messages than Ends
\* left room for, as each end of a playback is reported once
THEOREM TypeCorrect == Spec => []TypeOK
  <1>1. IndInv => TypeOK
    BY DEF IndInv
  <1> QED
    BY <1>1, Inductive, PTL

\* BufferSafe: platform_audio_play, platform_audio_stop and audio_play_callback
\* never free the buffer twice and never free it under the player
THEOREM NoDoubleFree == Spec => []BufferSafe
  <1>1. IndInv => BufferSafe
    BY BlocksAssumption DEF IndInv, HeapInv, PlayInv, BufferSafe, Freeing, Busy, CbBusy, Starting,
       Stopping, Resting, TypeOK, LuaSteps, CbSteps
  <1> QED
    BY <1>1, Inductive, PTL

\* NoLeak: whatever fails in platform_audio_play or l_audio_play_file, each
\* allocated block is still known to someone who frees it
THEOREM NothingLeaks == Spec => []NoLeak
  <1>1. IndInv => NoLeak
    BY DEF IndInv, HeapInv, NoLeak
  <1> QED
    BY <1>1, Inductive, PTL

\* FlagTells: between calls isPlaying is right, but for the callback that came
\* before platform_audio_play stored TRUE
THEOREM FlagCorrect == Spec => []FlagTells
  <1>1. IndInv => FlagTells
    BY DEF IndInv, PlayInv, FlagTells, Busy, CbBusy, Resting, TypeOK
  <1> QED
    BY <1>1, Inductive, PTL
=============================================================================
