--------------------------- MODULE RtosTimerProofs ---------------------------
(***************************************************************************)
(* Proofs about the Lua timers, for any table size, any ids, handles and   *)
(* callback tasks, with or without the reuse of handles in flight.         *)
(*                                                                         *)
(* IndInv of module RtosTimer is inductive: mutual exclusion alone does not*)
(* imply the table's soundness, because a start looks its id up before it  *)
(* takes the semaphore and holds an OS timer the table does not know.      *)
(***************************************************************************)
EXTENDS RtosTimer, TLAPS

\* Every step of a start or a stop under way keeps IndInv.
LEMMA LuaCallKeeps ==
    ASSUME IndInv, LuaCall
    PROVE  IndInv'
<1>1. CASE LuaLock
  <2>1. TypeOK'
    BY <1>1, NoneAssumption, LuaAssumption, TimersAssumption DEF IndInv, TypeOK,
       LuaLock, LuaCritical, CbCritical, Slot, table
  <2>2. MutualExclusion'
    BY <1>1, NoneAssumption, LuaAssumption DEF IndInv, MutualExclusion, LuaLock,
       LuaCritical, CbCritical, table
  <2>3. TableSound'
    BY <1>1, NoneAssumption, LuaAssumption, TimersAssumption DEF IndInv, TableSound,
       LuaLock, Holds, Slot, table
  <2>4. NoLeak'
    BY <1>1, NoneAssumption, LuaAssumption, TimersAssumption DEF IndInv, NoLeak,
       LuaLock, Slot, table
  <2>5. CallInv'
    BY <1>1, NoneAssumption, LuaAssumption, TimersAssumption DEF IndInv, CallInv,
       LuaLock, Holds, Created, Slot, table
  <2>6. CarriesInv'
    BY <1>1, NoneAssumption, LuaAssumption DEF IndInv, CarriesInv, LuaLock, table
  <2> QED BY <2>1, <2>2, <2>3, <2>4, <2>5, <2>6 DEF IndInv
<1>2. ASSUME NEW s \in Slot, StopFound(s) PROVE IndInv'
  <2>1. TypeOK'
    BY <1>2, NoneAssumption, LuaAssumption, TimersAssumption DEF IndInv, TypeOK,
       StopFound, LuaCritical, CbCritical, Slot, Holds, Deleted
  <2>2. MutualExclusion'
    BY <1>2, NoneAssumption, LuaAssumption DEF IndInv, MutualExclusion, StopFound,
       LuaCritical, CbCritical, Holds, Deleted
  <2>3. TableSound'
    BY <1>2, NoneAssumption, LuaAssumption, TimersAssumption DEF IndInv, TableSound,
       TypeOK, StopFound, Holds, Slot, LuaCritical, CbCritical, Deleted
  <2>4. NoLeak'
    BY <1>2, NoneAssumption, LuaAssumption, TimersAssumption DEF IndInv, NoLeak,
       TypeOK, StopFound, Slot, LuaCritical, CbCritical, Holds, Deleted
  <2>5. CallInv'
    BY <1>2, NoneAssumption, LuaAssumption, TimersAssumption DEF IndInv, CallInv,
       TypeOK, TableSound, StopFound, Holds, Created, Slot, LuaCritical, CbCritical,
       Deleted
  <2>6. CarriesInv'
    BY <1>2, NoneAssumption DEF IndInv, CarriesInv, StopFound, Holds, Deleted
  <2> QED BY <2>1, <2>2, <2>3, <2>4, <2>5, <2>6 DEF IndInv
<1>3. CASE StopNotFound
  <2>1. TypeOK'
    BY <1>3, NoneAssumption, LuaAssumption, TimersAssumption DEF IndInv, TypeOK,
       StopNotFound, LuaCritical, CbCritical, Slot, Holds, table
  <2>2. MutualExclusion'
    BY <1>3, NoneAssumption, LuaAssumption, TimersAssumption DEF IndInv,
       MutualExclusion, StopNotFound, LuaCritical, CbCritical, Holds, Slot, table
  <2>3. TableSound'
    BY <1>3, NoneAssumption, TimersAssumption DEF IndInv, TableSound, StopNotFound,
       Holds, Slot, table
  <2>4. NoLeak'
    BY <1>3, NoneAssumption, TimersAssumption DEF IndInv, NoLeak, StopNotFound, Slot,
       Holds, table
  <2>5. CallInv'
    BY <1>3, NoneAssumption, TimersAssumption DEF IndInv, CallInv, StopNotFound, Holds,
       Created, Slot, table
  <2>6. CarriesInv'
    BY <1>3, NoneAssumption, TimersAssumption DEF IndInv, CarriesInv, StopNotFound,
       Holds, Slot, table
  <2> QED BY <2>1, <2>2, <2>3, <2>4, <2>5, <2>6 DEF IndInv
<1>4. CASE StopRelease
  <2>1. TypeOK'
    BY <1>4, NoneAssumption, LuaAssumption, TimersAssumption DEF IndInv, TypeOK,
       StopRelease, LuaCritical, CbCritical, Slot, NoOp, table
  <2>2. MutualExclusion'
    BY <1>4, NoneAssumption, LuaAssumption DEF IndInv, MutualExclusion, StopRelease,
       LuaCritical, CbCritical, NoOp, table
  <2>3. TableSound'
    BY <1>4, NoneAssumption, TimersAssumption DEF IndInv, TableSound, StopRelease,
       Holds, Slot, NoOp, table
  <2>4. NoLeak'
    BY <1>4, NoneAssumption, TimersAssumption DEF IndInv, NoLeak, CallInv, StopRelease,
       Slot, Holds, Created, NoOp, table
  <2>5. CallInv'
    BY <1>4, NoneAssumption, TimersAssumption DEF IndInv, CallInv, StopRelease, Holds,
       Created, Slot, NoOp, table
  <2>6. CarriesInv'
    BY <1>4, NoneAssumption DEF IndInv, CarriesInv, StopRelease, NoOp, table
  <2> QED BY <2>1, <2>2, <2>3, <2>4, <2>5, <2>6 DEF IndInv
<1>5. CASE StartNoSlot
  <2>1. TypeOK'
    BY <1>5, NoneAssumption, LuaAssumption, TimersAssumption DEF IndInv, TypeOK,
       StartNoSlot, LuaCritical, CbCritical, Slot, table
  <2>2. MutualExclusion'
    BY <1>5, NoneAssumption, LuaAssumption, TimersAssumption DEF IndInv,
       MutualExclusion, StartNoSlot, LuaCritical, CbCritical, Slot, table
  <2>3. TableSound'
    BY <1>5, NoneAssumption, TimersAssumption DEF IndInv, TableSound, StartNoSlot,
       Holds, Slot, table
  <2>4. NoLeak'
    BY <1>5, NoneAssumption, TimersAssumption DEF IndInv, NoLeak, StartNoSlot, Slot,
       table
  <2>5. CallInv'
    BY <1>5, NoneAssumption, TimersAssumption DEF IndInv, CallInv, StartNoSlot, Holds,
       Created, Slot, table
  <2>6. CarriesInv'
    BY <1>5, NoneAssumption, TimersAssumption DEF IndInv, CarriesInv, StartNoSlot,
       Slot, table
  <2> QED BY <2>1, <2>2, <2>3, <2>4, <2>5, <2>6 DEF IndInv
<1>6. CASE StartCreateFails
  <2>1. TypeOK'
    BY <1>6, NoneAssumption, LuaAssumption, TimersAssumption DEF IndInv, TypeOK,
       StartCreateFails, LuaCritical, CbCritical, Slot, table
  <2>2. MutualExclusion'
    BY <1>6, NoneAssumption, LuaAssumption, TimersAssumption DEF IndInv,
       MutualExclusion, StartCreateFails, LuaCritical, CbCritical, Slot, table
  <2>3. TableSound'
    BY <1>6, NoneAssumption, TimersAssumption DEF IndInv, TableSound, StartCreateFails,
       Holds, Slot, table
  <2>4. NoLeak'
    BY <1>6, NoneAssumption, TimersAssumption DEF IndInv, NoLeak, StartCreateFails,
       Slot, table
  <2>5. CallInv'
    BY <1>6, NoneAssumption, TimersAssumption DEF IndInv, CallInv, StartCreateFails,
       Holds, Created, Slot, table
  <2>6. CarriesInv'
    BY <1>6, NoneAssumption, TimersAssumption DEF IndInv, CarriesInv, StartCreateFails,
       Slot, table
  <2> QED BY <2>1, <2>2, <2>3, <2>4, <2>5, <2>6 DEF IndInv
<1>7. ASSUME NEW s \in Slot, NEW h \in Handles, StartCreate(s, h) PROVE IndInv'
  <2>1. TypeOK'
    BY <1>7, NoneAssumption, LuaAssumption, TimersAssumption DEF IndInv, TypeOK,
       CallInv, CarriesInv, StartCreate, LuaCritical, CbCritical, Slot, Holds, Created,
       FirstFree, table
  <2>2. MutualExclusion'
    BY <1>7, NoneAssumption, LuaAssumption DEF IndInv, MutualExclusion, StartCreate,
       LuaCritical, CbCritical, FirstFree, table
  <2>3. TableSound'
    BY <1>7, NoneAssumption, TimersAssumption DEF IndInv, TableSound, StartCreate,
       Holds, Slot, FirstFree, table
  <2>4. NoLeak'
    BY <1>7, NoneAssumption, TimersAssumption DEF IndInv, NoLeak, CallInv, StartCreate,
       Slot, Holds, Created, FirstFree, table
  <2>5. CallInv'
    BY <1>7, NoneAssumption, LuaAssumption, TimersAssumption DEF IndInv, CallInv,
       TypeOK, TableSound, StartCreate, Holds, Created, Slot, LuaCritical, CbCritical,
       FirstFree, table
  <2>6. CarriesInv'
    BY <1>7, NoneAssumption, TimersAssumption DEF IndInv, CarriesInv, CallInv,
       StartCreate, Holds, Created, Slot, FirstFree, table
  <2> QED BY <2>1, <2>2, <2>3, <2>4, <2>5, <2>6 DEF IndInv
<1>8. CASE StartOsFails
  <2>1. TypeOK'
    BY <1>8, NoneAssumption, LuaAssumption, TimersAssumption DEF IndInv, TypeOK,
       StartOsFails, LuaCritical, CbCritical, Slot, table
  <2>2. MutualExclusion'
    BY <1>8, LuaAssumption DEF IndInv, MutualExclusion, StartOsFails, LuaCritical,
       CbCritical, table
  <2>3. TableSound'
    BY <1>8, NoneAssumption, TimersAssumption DEF IndInv, TableSound, StartOsFails,
       Holds, Slot, table
  <2>4. NoLeak'
    BY <1>8, TimersAssumption DEF IndInv, NoLeak, StartOsFails, Slot, table
  <2>5. CallInv'
    BY <1>8, NoneAssumption, TimersAssumption DEF IndInv, CallInv, StartOsFails, Holds,
       Created, Slot, table
  <2>6. CarriesInv'
    BY <1>8, NoneAssumption DEF IndInv, CarriesInv, StartOsFails, table
  <2> QED BY <2>1, <2>2, <2>3, <2>4, <2>5, <2>6 DEF IndInv
<1>9. CASE StartOs
  <2>1. TypeOK'
    BY <1>9, NoneAssumption, LuaAssumption, TimersAssumption DEF IndInv, TypeOK,
       CallInv, CarriesInv, StartOs, LuaCritical, CbCritical, Slot, Holds, Created,
       table
  <2>2. MutualExclusion'
    BY <1>9, LuaAssumption DEF IndInv, MutualExclusion, StartOs, LuaCritical,
       CbCritical, table
  <2>3. TableSound'
    BY <1>9, NoneAssumption, TimersAssumption DEF IndInv, TableSound, StartOs, Holds,
       Slot, table
  <2>4. NoLeak'
    BY <1>9, TimersAssumption DEF IndInv, NoLeak, StartOs, Slot, table
  <2>5. CallInv'
    BY <1>9, NoneAssumption, LuaAssumption, TimersAssumption DEF IndInv, CallInv,
       TypeOK, StartOs, Holds, Created, Slot, LuaCritical, CbCritical, table
  <2>6. CarriesInv'
    BY <1>9, NoneAssumption, TimersAssumption DEF IndInv, CarriesInv, CallInv, StartOs,
       Holds, Created, Slot, table
  <2> QED BY <2>1, <2>2, <2>3, <2>4, <2>5, <2>6 DEF IndInv
<1>10. CASE StartStore
  <2>1. TypeOK'
    BY <1>10, NoneAssumption, LuaAssumption, TimersAssumption DEF IndInv, TypeOK,
       CallInv, CarriesInv, StartStore, LuaCritical, CbCritical, Slot, Holds, Created
  <2>2. MutualExclusion'
    BY <1>10, NoneAssumption, LuaAssumption DEF IndInv, MutualExclusion, StartStore,
       LuaCritical, CbCritical
  <2>3. TableSound'
    BY <1>10, NoneAssumption, LuaAssumption, TimersAssumption DEF IndInv, TableSound,
       TypeOK, CallInv, StartStore, Holds, Slot, LuaCritical, CbCritical, Created
  <2>4. NoLeak'
    BY <1>10, NoneAssumption, LuaAssumption, TimersAssumption DEF IndInv, NoLeak,
       TypeOK, CallInv, StartStore, Slot, LuaCritical, CbCritical, Holds, Created
  <2>5. CallInv'
    BY <1>10, NoneAssumption, TimersAssumption DEF IndInv, CallInv, StartStore, Holds,
       Created, Slot
  <2>6. CarriesInv'
    BY <1>10, NoneAssumption DEF IndInv, CarriesInv, StartStore
  <2> QED BY <2>1, <2>2, <2>3, <2>4, <2>5, <2>6 DEF IndInv
<1>11. CASE StartRelease
  <2>1. TypeOK'
    BY <1>11, NoneAssumption, LuaAssumption, TimersAssumption DEF IndInv, TypeOK,
       StartRelease, LuaCritical, CbCritical, Slot, NoOp, table
  <2>2. MutualExclusion'
    BY <1>11, NoneAssumption, LuaAssumption DEF IndInv, MutualExclusion, StartRelease,
       LuaCritical, CbCritical, NoOp, table
  <2>3. TableSound'
    BY <1>11, NoneAssumption, TimersAssumption DEF IndInv, TableSound, StartRelease,
       Holds, Slot, NoOp, table
  <2>4. NoLeak'
    BY <1>11, NoneAssumption, TimersAssumption DEF IndInv, NoLeak, CallInv,
       StartRelease, Slot, Holds, Created, NoOp, table
  <2>5. CallInv'
    BY <1>11, NoneAssumption, TimersAssumption DEF IndInv, CallInv, StartRelease,
       Holds, Created, Slot, NoOp, table
  <2>6. CarriesInv'
    BY <1>11, NoneAssumption DEF IndInv, CarriesInv, StartRelease, NoOp, table
  <2> QED BY <2>1, <2>2, <2>3, <2>4, <2>5, <2>6 DEF IndInv
<1>12. CASE ErrorRelease
  <2>1. TypeOK'
    BY <1>12, NoneAssumption, LuaAssumption, TimersAssumption DEF IndInv, TypeOK,
       ErrorRelease, LuaCritical, CbCritical, Slot, table
  <2>2. MutualExclusion'
    BY <1>12, NoneAssumption, LuaAssumption DEF IndInv, MutualExclusion, ErrorRelease,
       LuaCritical, CbCritical, table
  <2>3. TableSound'
    BY <1>12, NoneAssumption, TimersAssumption DEF IndInv, TableSound, ErrorRelease,
       Holds, Slot, table
  <2>4. NoLeak'
    BY <1>12, NoneAssumption, TimersAssumption DEF IndInv, NoLeak, ErrorRelease, Slot,
       table
  <2>5. CallInv'
    BY <1>12, NoneAssumption, TimersAssumption DEF IndInv, CallInv, ErrorRelease,
       Holds, Created, Slot, table
  <2>6. CarriesInv'
    BY <1>12, NoneAssumption DEF IndInv, CarriesInv, ErrorRelease, table
  <2> QED BY <2>1, <2>2, <2>3, <2>4, <2>5, <2>6 DEF IndInv
<1>13. CASE ErrorDelete
  <2>1. TypeOK'
    BY <1>13, NoneAssumption, LuaAssumption, TimersAssumption DEF IndInv, TypeOK,
       ErrorDelete, LuaCritical, CbCritical, Slot, NoOp, Deleted, table
  <2>2. MutualExclusion'
    BY <1>13, NoneAssumption, LuaAssumption DEF IndInv, MutualExclusion, ErrorDelete,
       LuaCritical, CbCritical, NoOp, Deleted, table
  <2>3. TableSound'
    BY <1>13, NoneAssumption, TimersAssumption DEF IndInv, TableSound, CallInv,
       ErrorDelete, Holds, Slot, Created, NoOp, Deleted, table
  <2>4. NoLeak'
    BY <1>13, NoneAssumption, LuaAssumption, TimersAssumption DEF IndInv, NoLeak,
       TypeOK, ErrorDelete, Slot, LuaCritical, CbCritical, NoOp, Deleted, table
  <2>5. CallInv'
    BY <1>13, NoneAssumption, TimersAssumption DEF IndInv, CallInv, ErrorDelete, Holds,
       Created, Slot, NoOp, Deleted, table
  <2>6. CarriesInv'
    BY <1>13, NoneAssumption DEF IndInv, CarriesInv, ErrorDelete, NoOp, Deleted, table
  <2> QED BY <2>1, <2>2, <2>3, <2>4, <2>5, <2>6 DEF IndInv
<1> QED BY <1>1, <1>2, <1>3, <1>4, <1>5, <1>6, <1>7, <1>8, <1>9, <1>10, <1>11, <1>12, <1>13 DEF LuaCall

\* Every step of a callback keeps IndInv.
LEMMA CallbackKeeps ==
    ASSUME IndInv, NEW w \in Callbacks, Callback(w)
    PROVE  IndInv'
<1>1. CASE CbSend(w)
  <2>1. TypeOK'
    BY <1>1, NoneAssumption, LuaAssumption, TimersAssumption DEF IndInv, TypeOK,
       CarriesInv, CbSend, LuaCritical, CbCritical, Slot, table
  <2>2. MutualExclusion'
    BY <1>1, LuaAssumption DEF IndInv, MutualExclusion, CbSend, LuaCritical,
       CbCritical, table
  <2>3. TableSound'
    BY <1>1, NoneAssumption, TimersAssumption DEF IndInv, TableSound, CbSend, Holds,
       Slot, table
  <2>4. NoLeak'
    BY <1>1, TimersAssumption DEF IndInv, NoLeak, CbSend, Slot, table
  <2>5. CallInv'
    BY <1>1, NoneAssumption, TimersAssumption DEF IndInv, CallInv, CbSend, Holds,
       Created, Slot, table
  <2>6. CarriesInv'
    BY <1>1, NoneAssumption DEF IndInv, CarriesInv, CbSend, table
  <2> QED BY <2>1, <2>2, <2>3, <2>4, <2>5, <2>6 DEF IndInv
<1>2. CASE CbLock(w)
  <2>1. TypeOK'
    BY <1>2, NoneAssumption, LuaAssumption, TimersAssumption DEF IndInv, TypeOK,
       CarriesInv, CbLock, LuaCritical, CbCritical, Slot, table
  <2>2. MutualExclusion'
    BY <1>2, NoneAssumption, LuaAssumption, TimersAssumption DEF IndInv,
       MutualExclusion, TypeOK, CbLock, LuaCritical, CbCritical, Slot, table
  <2>3. TableSound'
    BY <1>2, NoneAssumption, TimersAssumption DEF IndInv, TableSound, CbLock, Holds,
       Slot, table
  <2>4. NoLeak'
    BY <1>2, NoneAssumption, TimersAssumption DEF IndInv, NoLeak, CbLock, Slot, table
  <2>5. CallInv'
    BY <1>2, NoneAssumption, TimersAssumption DEF IndInv, CallInv, CbLock, Holds,
       Created, Slot, table
  <2>6. CarriesInv'
    BY <1>2, NoneAssumption DEF IndInv, CarriesInv, CbLock, table
  <2> QED BY <2>1, <2>2, <2>3, <2>4, <2>5, <2>6 DEF IndInv
<1>3. ASSUME NEW s \in Slot, CbFound(w, s) PROVE IndInv'
  <2>1. TypeOK'
    BY <1>3, NoneAssumption, LuaAssumption, TimersAssumption DEF IndInv, TypeOK,
       CarriesInv, CbFound, LuaCritical, CbCritical, Slot, Deleted, IsTimerOf
  <2>2. MutualExclusion'
    BY <1>3, NoneAssumption, LuaAssumption DEF IndInv, MutualExclusion, CbFound,
       LuaCritical, CbCritical, Deleted, IsTimerOf
  <2>3. TableSound'
    BY <1>3, NoneAssumption, LuaAssumption, TimersAssumption DEF IndInv, TableSound,
       TypeOK, CbFound, Holds, Slot, LuaCritical, CbCritical, Deleted, IsTimerOf
  <2>4. NoLeak'
    BY <1>3, NoneAssumption, LuaAssumption, TimersAssumption DEF IndInv, NoLeak,
       TypeOK, CbFound, Slot, LuaCritical, CbCritical, Deleted, IsTimerOf
  <2>5. CallInv'
    BY <1>3, NoneAssumption, TimersAssumption DEF IndInv, CallInv, CbFound, Holds,
       Created, Slot, Deleted, IsTimerOf
  <2>6. CarriesInv'
    BY <1>3, NoneAssumption DEF IndInv, CarriesInv, CbFound, Deleted, IsTimerOf
  <2> QED BY <2>1, <2>2, <2>3, <2>4, <2>5, <2>6 DEF IndInv
<1>4. CASE CbNotFound(w)
  <2>1. TypeOK'
    BY <1>4, NoneAssumption, LuaAssumption, TimersAssumption DEF IndInv, TypeOK,
       CbNotFound, LuaCritical, CbCritical, Slot, IsTimerOf, table
  <2>2. MutualExclusion'
    BY <1>4, LuaAssumption, TimersAssumption DEF IndInv, MutualExclusion, CbNotFound,
       LuaCritical, CbCritical, Slot, IsTimerOf, table
  <2>3. TableSound'
    BY <1>4, NoneAssumption, TimersAssumption DEF IndInv, TableSound, CbNotFound,
       Holds, Slot, IsTimerOf, table
  <2>4. NoLeak'
    BY <1>4, TimersAssumption DEF IndInv, NoLeak, CbNotFound, Slot, IsTimerOf, table
  <2>5. CallInv'
    BY <1>4, NoneAssumption, TimersAssumption DEF IndInv, CallInv, CbNotFound, Holds,
       Created, Slot, IsTimerOf, table
  <2>6. CarriesInv'
    BY <1>4, NoneAssumption, TimersAssumption DEF IndInv, CarriesInv, CbNotFound, Slot,
       IsTimerOf, table
  <2> QED BY <2>1, <2>2, <2>3, <2>4, <2>5, <2>6 DEF IndInv
<1>5. CASE CbRelease(w)
  <2>1. TypeOK'
    BY <1>5, NoneAssumption, LuaAssumption, TimersAssumption DEF IndInv, TypeOK,
       CbRelease, LuaCritical, CbCritical, Slot, Idle, table
  <2>2. MutualExclusion'
    BY <1>5, NoneAssumption, LuaAssumption, TimersAssumption DEF IndInv,
       MutualExclusion, TypeOK, CbRelease, LuaCritical, CbCritical, Slot, Idle, table
  <2>3. TableSound'
    BY <1>5, NoneAssumption, TimersAssumption DEF IndInv, TableSound, CbRelease, Holds,
       Slot, Idle, table
  <2>4. NoLeak'
    BY <1>5, NoneAssumption, TimersAssumption DEF IndInv, NoLeak, CbRelease, Slot,
       Idle, table
  <2>5. CallInv'
    BY <1>5, NoneAssumption, TimersAssumption DEF IndInv, CallInv, CbRelease, Holds,
       Created, Slot, Idle, table
  <2>6. CarriesInv'
    BY <1>5, NoneAssumption DEF IndInv, CarriesInv, CbRelease, Idle, table
  <2> QED BY <2>1, <2>2, <2>3, <2>4, <2>5, <2>6 DEF IndInv
<1> QED BY <1>1, <1>2, <1>3, <1>4, <1>5 DEF Callback

\* A call, a receive and an expiry keep IndInv.
LEMMA OthersKeep ==
    ASSUME IndInv, Next, ~LuaCall, \A w \in Callbacks : ~Callback(w)
    PROVE  IndInv'
<1>1. ASSUME NEW id \in Ids, NEW high \in BOOLEAN, CallStart(id, high) PROVE IndInv'
  <2>1. TypeOK'
    BY <1>1, NoneAssumption, LuaAssumption, TimersAssumption DEF IndInv, TypeOK,
       CallInv, CarriesInv, CallStart, LuaCritical, CbCritical, Slot, Holds, Created,
       NoOp, table
  <2>2. MutualExclusion'
    BY <1>1, NoneAssumption, LuaAssumption, TimersAssumption DEF IndInv,
       MutualExclusion, CallStart, LuaCritical, CbCritical, Holds, Slot, NoOp, table
  <2>3. TableSound'
    BY <1>1, NoneAssumption, TimersAssumption DEF IndInv, TableSound, CallStart, Holds,
       Slot, NoOp, table
  <2>4. NoLeak'
    BY <1>1, NoneAssumption, TimersAssumption DEF IndInv, NoLeak, CallInv, CallStart,
       Slot, Holds, Created, NoOp, table
  <2>5. CallInv'
    BY <1>1, NoneAssumption, TimersAssumption DEF IndInv, CallInv, CallStart, Holds,
       Created, Slot, NoOp, table
  <2>6. CarriesInv'
    BY <1>1, NoneAssumption, TimersAssumption DEF IndInv, CarriesInv, CallStart, Holds,
       Slot, NoOp, table
  <2> QED BY <2>1, <2>2, <2>3, <2>4, <2>5, <2>6 DEF IndInv
<1>2. ASSUME NEW id \in Ids, CallStop(id) PROVE IndInv'
  <2>1. TypeOK'
    BY <1>2, NoneAssumption, LuaAssumption, TimersAssumption DEF IndInv, TypeOK,
       CallInv, CarriesInv, CallStop, LuaCritical, CbCritical, Slot, Holds, Created,
       NoOp, table
  <2>2. MutualExclusion'
    BY <1>2, NoneAssumption, LuaAssumption DEF IndInv, MutualExclusion, CallStop,
       LuaCritical, CbCritical, NoOp, table
  <2>3. TableSound'
    BY <1>2, NoneAssumption, TimersAssumption DEF IndInv, TableSound, CallStop, Holds,
       Slot, NoOp, table
  <2>4. NoLeak'
    BY <1>2, NoneAssumption, TimersAssumption DEF IndInv, NoLeak, CallInv, CallStop,
       Slot, Holds, Created, NoOp, table
  <2>5. CallInv'
    BY <1>2, NoneAssumption, TimersAssumption DEF IndInv, CallInv, CallStop, Holds,
       Created, Slot, NoOp, table
  <2>6. CarriesInv'
    BY <1>2, NoneAssumption DEF IndInv, CarriesInv, CallStop, NoOp, table
  <2> QED BY <2>1, <2>2, <2>3, <2>4, <2>5, <2>6 DEF IndInv
<1>3. CASE Receive
  <2>1. TypeOK'
    BY <1>3, NoneAssumption, LuaAssumption, TimersAssumption DEF IndInv, TypeOK,
       Receive, LuaCritical, CbCritical, Slot, table
  <2>2. MutualExclusion'
    BY <1>3, LuaAssumption DEF IndInv, MutualExclusion, Receive, LuaCritical,
       CbCritical, table
  <2>3. TableSound'
    BY <1>3, NoneAssumption, TimersAssumption DEF IndInv, TableSound, Receive, Holds,
       Slot, table
  <2>4. NoLeak'
    BY <1>3, TimersAssumption DEF IndInv, NoLeak, Receive, Slot, table
  <2>5. CallInv'
    BY <1>3, NoneAssumption, TimersAssumption DEF IndInv, CallInv, Receive, Holds,
       Created, Slot, table
  <2>6. CarriesInv'
    BY <1>3, NoneAssumption DEF IndInv, CarriesInv, Receive, table
  <2> QED BY <2>1, <2>2, <2>3, <2>4, <2>5, <2>6 DEF IndInv
<1>4. ASSUME NEW w \in Callbacks, NEW h \in Handles, Fire(w, h) PROVE IndInv'
  <2>1. TypeOK'
    BY <1>4, NoneAssumption, LuaAssumption, TimersAssumption DEF IndInv, TypeOK, Fire,
       LuaCritical, CbCritical, Slot, table
  <2>2. MutualExclusion'
    BY <1>4, LuaAssumption DEF IndInv, MutualExclusion, Fire, LuaCritical, CbCritical,
       table
  <2>3. TableSound'
    BY <1>4, NoneAssumption, TimersAssumption DEF IndInv, TableSound, Fire, Holds,
       Slot, table
  <2>4. NoLeak'
    BY <1>4, TimersAssumption DEF IndInv, NoLeak, Fire, Slot, table
  <2>5. CallInv'
    BY <1>4, NoneAssumption, TimersAssumption DEF IndInv, CallInv, Fire, Holds,
       Created, Slot, table
  <2>6. CarriesInv'
    BY <1>4, NoneAssumption DEF IndInv, CarriesInv, Fire, table
  <2> QED BY <2>1, <2>2, <2>3, <2>4, <2>5, <2>6 DEF IndInv
<1> QED BY <1>1, <1>2, <1>3, <1>4 DEF Next

\* Every step of the timers keeps IndInv.
LEMMA NextKeeps == IndInv /\ [Next]_vars => IndInv'
<1> SUFFICES ASSUME IndInv, [Next]_vars PROVE IndInv'
  OBVIOUS
<1>1. CASE LuaCall
  BY <1>1, LuaCallKeeps
<1>2. CASE \E w \in Callbacks : Callback(w)
  BY <1>2, CallbackKeeps
<1>3. CASE Next /\ ~LuaCall /\ ~\E w \in Callbacks : Callback(w)
  BY <1>3, OthersKeep
<1>4. CASE UNCHANGED vars
  BY <1>4 DEF IndInv, TypeOK, MutualExclusion, TableSound, NoLeak, CallInv,
     CarriesInv, Holds, vars
<1> QED BY <1>1, <1>2, <1>3, <1>4

\* The initial state satisfies IndInv.
LEMMA InitHolds == Init => IndInv
<1> SUFFICES ASSUME Init PROVE IndInv
  OBVIOUS
<1>1. TypeOK
  <2>1. slotH \in [Slot -> Handles \cup {None}] /\ slotId \in [Slot -> Ids \cup {None}]
    BY DEF Init
  <2>2. semMade \in BOOLEAN /\ holder \in Callbacks \cup {Lua, None}
    BY DEF Init
  <2>3. queue \in Seq(Ids)
    BY DEF Init
  <2>4. pc \in {"ready", "stopLock", "startLock", "errorDelete"} \cup LuaCritical
    BY DEF Init
  <2>5. op \in [start : BOOLEAN, id : Ids \cup {None}, high : BOOLEAN,
               index : Slot \cup {None}, h : Handles \cup {None}]
    BY DEF Init, NoOp
  <2>6. os \in [Handles -> [st : {"free", "created", "running", "expired"},
                            id : Ids \cup {None}, high : BOOLEAN]]
    BY DEF Init, Deleted
  <2>7. cb \in [Callbacks -> [pc : {"idle", "send", "lock"} \cup CbCritical,
                             h : Handles \cup {None}, id : Ids \cup {None},
                             high : BOOLEAN]]
    BY DEF Init, Idle
  <2> QED BY <2>1, <2>2, <2>3, <2>4, <2>5, <2>6, <2>7 DEF TypeOK
<1>2. MutualExclusion
  BY NoneAssumption DEF Init, MutualExclusion, Idle, LuaCritical, CbCritical
<1>3. TableSound /\ NoLeak /\ CallInv /\ CarriesInv
  BY NoneAssumption DEF Init, TableSound, NoLeak, CallInv, CarriesInv, Holds, NoOp,
     Idle, Deleted
<1> QED BY <1>1, <1>2, <1>3 DEF IndInv

\* The inductive invariant of platform_rtos_start_timer, _stop_timer and the
\* callbacks holds in every reachable state.
THEOREM Inductive == Spec => []IndInv
<1> QED BY InitHolds, NextKeeps, PTL DEF Spec

\* The timers' state keeps its types.
THEOREM TypeCorrect == Spec => []TypeOK
<1>1. IndInv => TypeOK
  BY DEF IndInv
<1> QED BY Inductive, <1>1, PTL

\* hLuaTimerSem gives mutual exclusion: the Lua task and the callbacks are
\* never in luaTimerParam together.
THEOREM SemaphoreProtects == Spec => []MutualExclusion
<1>1. IndInv => MutualExclusion
  BY DEF IndInv
<1> QED BY Inductive, <1>1, PTL

\* luaTimerParam never holds an id twice, an OS timer twice, or a deleted one.
THEOREM TableCorrect == Spec => []TableSound
<1>1. IndInv => TableSound
  BY DEF IndInv
<1> QED BY Inductive, <1>1, PTL

\* No interleaving and no error path leaks an OS timer.
THEOREM NoTimerLeaks == Spec => []NoLeak
<1>1. IndInv => NoLeak
  BY DEF IndInv
<1> QED BY Inductive, <1>1, PTL

\* Without reuse in flight, the timer in the hands of a callback stays spent:
\* create_timer does not give its handle out again until the callback is done.
LEMMA SpentKeeps == IndInv /\ SpentInv /\ [Next]_vars => SpentInv'
<1> SUFFICES ASSUME IndInv, SpentInv, [Next]_vars, ~ReuseInFlight,
                    NEW v \in Callbacks, cb'[v].h # None
             PROVE  os'[cb'[v].h].st \in {"free", "expired"}
  BY DEF SpentInv
<1> USE NoneAssumption DEF IndInv, TypeOK, SpentInv
<1>1. ASSUME NEW w \in Callbacks, NEW h \in Handles, Fire(w, h)
      PROVE  os'[cb'[v].h].st \in {"free", "expired"}
  BY <1>1 DEF Fire
<1>2. ASSUME NEW w \in Callbacks, Callback(w)
      PROVE  os'[cb'[v].h].st \in {"free", "expired"}
  BY <1>2 DEF Callback, CbSend, CbLock, CbFound, CbNotFound, CbRelease, IsTimerOf, Idle,
     Deleted, table
<1>3. ASSUME NEW s \in Slot, NEW h \in Handles, StartCreate(s, h)
      PROVE  os'[cb'[v].h].st \in {"free", "expired"}
  BY <1>3 DEF StartCreate
<1>4. CASE StartOs
  BY <1>4 DEF StartOs, CallInv
<1>5. ASSUME NEW s \in Slot, StopFound(s)
      PROVE  os'[cb'[v].h].st \in {"free", "expired"}
  BY <1>5 DEF StopFound, Holds, Deleted
<1>6. CASE ErrorDelete
  BY <1>6 DEF ErrorDelete, Deleted
<1>7. CASE UNCHANGED <<os, cb>>
  BY <1>7
<1>8. ASSUME NEW id \in Ids, NEW high \in BOOLEAN, CallStart(id, high) \/ CallStop(id)
      PROVE  UNCHANGED <<os, cb>>
  BY <1>8 DEF CallStart, CallStop
<1>9. LuaLock \/ StopNotFound \/ StopRelease \/ StartNoSlot \/ StartCreateFails
      \/ StartOsFails \/ StartStore \/ StartRelease \/ ErrorRelease \/ Receive
        => UNCHANGED <<os, cb>>
  BY DEF LuaLock, StopNotFound, StopRelease, StartNoSlot, StartCreateFails, StartOsFails,
     StartStore, StartRelease, ErrorRelease, Receive
<1> QED BY <1>1, <1>2, <1>3, <1>4, <1>5, <1>6, <1>7, <1>8, <1>9 DEF Next, LuaCall, vars

\* When handles are not reused in flight, a callback of platform_rtos.c never
\* deletes a timer that has yet to expire, whatever Lua starts and stops in
\* between.
THEOREM CallbacksSpareRunning ==
    ASSUME ~ReuseInFlight
    PROVE  Spec => RunningOnlyStoppedByLua
<1>1. Init => SpentInv
  BY DEF Init, SpentInv, Idle
<1>2. IndInv /\ SpentInv /\ [Next]_vars
        => [\A h \in Handles : os[h].st = "running" /\ os'[h].st = "free"
                             => pc \in {"stopFind", "errorDelete"}]_vars
  <2> SUFFICES ASSUME IndInv, SpentInv, Next, NEW h \in Handles,
                      os[h].st = "running", os'[h].st = "free"
               PROVE  pc \in {"stopFind", "errorDelete"}
    OBVIOUS
  <2> USE DEF IndInv, TypeOK
  <2>1. ASSUME NEW w \in Callbacks, Callback(w)
        PROVE  FALSE
    BY <2>1, NoneAssumption DEF Callback, CbSend, CbLock, CbFound, CbNotFound, CbRelease,
       IsTimerOf, SpentInv, CarriesInv, table
  <2>2. CASE LuaCall
    BY <2>2 DEF LuaCall, LuaLock, StopFound, StopNotFound, StopRelease, StartNoSlot,
       StartCreateFails, StartCreate, StartOsFails, StartOs, StartStore, StartRelease,
       ErrorRelease, ErrorDelete
  <2>3. ASSUME NEW w \in Callbacks, NEW g \in Handles, Fire(w, g)
        PROVE  FALSE
    BY <2>3 DEF Fire
  <2>4. ASSUME NEW id \in Ids, NEW high \in BOOLEAN, CallStart(id, high)
        PROVE  FALSE
    BY <2>4 DEF CallStart
  <2>5. ASSUME NEW id \in Ids, CallStop(id)
        PROVE  FALSE
    BY <2>5 DEF CallStop
  <2>6. CASE Receive
    BY <2>6 DEF Receive
  <2> QED BY <2>1, <2>2, <2>3, <2>4, <2>5, <2>6 DEF Next
<1> QED BY Inductive, SpentKeeps, <1>1, <1>2, PTL DEF Spec, RunningOnlyStoppedByLua
==============================================================================
