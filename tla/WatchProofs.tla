----------------------------- MODULE WatchProofs -----------------------------
(***************************************************************************)
(* How a port is watched while it is up and left alone when it is not, for  *)
(* every number of threads, kind of media and bound: the PML recovery and   *)
(* its cancelling, the flags that are registered for faults, the hardware   *)
(* and the checks behind a link that is up, and the SerDes of a port that   *)
(* is down.                                                                 *)
(***************************************************************************)
EXTENDS LifecycleProofs

(* An operation is at a step inside it only by a step of its own.           *)
LEMMA OwnStep ==
  ASSUME CallType, NEW t \in Threads,
         Call(t) \/ Interrupted(t) \/ Caller(t)
  PROVE  /\ op'[t] = "start" /\ pc'[t] # "enter"
              => Start(t) /\ op[t] = "start" /\ UNCHANGED op
         /\ op'[t] \in {"stop", "reset", "cleanup"} /\ pc'[t] # "enter"
              => Down(t) /\ op[t] = op'[t] /\ UNCHANGED op
         /\ op'[t] \in ConfigOps /\ pc'[t] = "write"
              => ConfigCheck(t) /\ op[t] = op'[t] /\ UNCHANGED op
<1> DEFINE Moves == /\ op[t] # "none"
                    /\ UNCHANGED op \/ op'[t] = "none"
<1>1. /\ \A o \in AllOps : \A from, to : Go(t, o, from, to) => Moves /\ op[t] = o
      /\ \A o \in AllOps : \A from, to, e :
           Fail(t, o, from, to, e) => Moves /\ op[t] = o
      /\ \A o \in AllOps : \A to : Take(t, o, to) => Moves /\ op[t] = o
      /\ \A o \in AllOps : Refuse(t, o) => Moves /\ op[t] = o
      /\ \A o \in AllOps : \A from : Finish(t, o, from) => Moves /\ op[t] = o
      /\ \A o \in AllOps : Unlock(t, o) => op'[t] = "none"
      /\ Return(t) => op'[t] = "none"
  BY DEF CallType, Go, Fail, Take, Refuse, Finish, Unlock, Return, At, AllOps
<1>2. Call(t) => pc'[t] = "enter"
  BY DEF CallType, Call
<1>3. Interrupted(t) => op'[t] = "none"
  BY <1>1 DEF Interrupted
<1>4. Configure(t) =>
        \/ op'[t] = "none"
        \/ op'[t] = "cancel"
        \/ ConfigCheck(t) /\ UNCHANGED op /\ op[t] \in ConfigOps
  <2>1. ConfigCheck(t) =>
          op'[t] = "none" \/ (UNCHANGED op /\ op[t] \in ConfigOps)
    BY <1>1 DEF ConfigCheck, At
  <2>2. EnableStart(t) \/ CancelTimer(t) => op'[t] = "none"
    BY <1>1 DEF EnableStart, CancelTimer
  <2>3. CancelStart(t) => op'[t] = "cancel"
    BY DEF CancelStart, Go, At
  <2>4. ConfigWrite(t) \/ MediaConfigWrite(t) \/ MediaUnconfigWrite(t)
          => op'[t] = "none"
    BY <1>1 DEF ConfigWrite, MediaConfigWrite, MediaUnconfigWrite, AllOps
  <2> QED
    BY <2>1, <2>2, <2>3, <2>4 DEF Configure
<1> HIDE DEF Moves
<1>5. Down(t) => Moves /\ op[t] \in {"stop", "reset", "cleanup"}
  <2> USE DEF AllOps
  <2>1. Stop(t) => Moves /\ op[t] \in {"stop", "reset", "cleanup"}
    BY <1>1 DEF Stop, StopRefused, StopBegins, StopFmDisable, StopFmRemove,
       StopSerdes, StopEnds
  <2>2. Reset(t) \/ Cleanup(t)
          => Moves /\ op[t] \in {"stop", "reset", "cleanup"}
    BY <1>1 DEF Reset, Cleanup, ResetBegins, ResetEnds, CleanupBegins,
       CleanupSerdes, CleanupClears, CleanupLeaves
  <2>3. Shared(t) => Moves /\ op[t] \in {"stop", "reset", "cleanup"}
    BY <1>1 DEF Shared, OwnFmDisable, OwnFmRemove, RecTest, RecDelete,
       RecCancelled, ResetSerdes, DownPcs, DownTimer
  <2> QED
    BY <2>1, <2>2, <2>3 DEF Down
<1>6. Start(t) => Moves /\ op[t] = "start"
  <2> USE DEF AllOps, S
  <2>1. StartRefused(t) \/ StartBegins(t) \/ StartSet(t) \/ StartFirmware(t)
          \/ StartMode(t) \/ AnInstall(t) \/ AnTry(t)
          => Moves /\ op[t] = "start"
    BY <1>1 DEF StartRefused, StartBegins, StartSet, StartFirmware, StartMode,
       AnInstall, AnTry
  <2>2. AnExchange(t) \/ AnDone(t) \/ StartAm(t) \/ StartLpDetect(t)
          \/ StartSerdes(t) \/ StartPml(t) \/ StartPmlClear(t)
          => Moves /\ op[t] = "start"
    BY <1>1 DEF AnExchange, AnDone, StartAm, StartLpDetect, StartSerdes,
       StartPml, StartPmlClear
  <2>3. StartFec(t) \/ FmTest(t) \/ FmInstall(t) \/ FmEnable(t) \/ FmRetest(t)
          \/ FmUndoDisable(t) \/ FmUndoRemove(t) => Moves /\ op[t] = "start"
    BY <1>1 DEF StartFec, FmTest, FmInstall, FmEnable, FmRetest,
       FmUndoDisable, FmUndoRemove
  <2>4. StartFinalCheck(t) \/ StartDone(t) \/ StartArm(t) \/ StartFmDisable(t)
          \/ StartFmRemove(t) \/ StartPcsDown(t) \/ StartSerdesDown(t)
          \/ StartFails(t) => Moves /\ op[t] = "start"
    BY <1>1 DEF StartFinalCheck, StartDone, StartArm, StartFmDisable,
       StartFmRemove, StartPcsDown, StartSerdesDown, StartFails
  <2> QED
    BY <2>1, <2>2, <2>3, <2>4 DEF Start
<1> QED
  BY <1>2, <1>3, <1>4, <1>5, <1>6 DEF Caller, Moves, ConfigOps

-----------------------------------------------------------------------------
(* The recovery.  Its timer and its callback are never active together, and *)
(* the flag is clear from the cancelling of a stop or a reset to its end.   *)
OneActive == rpc # "idle" => ~recTimer

CancelledAt(t) ==
  /\ op[t] \in {"stop", "reset"} /\ pc[t] = "recEnd"
       => ~recTimer /\ rpc = "idle"
  /\ op[t] = "stop" /\ (\/ pc[t] \in {"serdesDown", "pcsDown", "timer"}
                        \/ pc[t] = "out" /\ err = "OK")
       => ~recStarted

RecInv == RecoveryExclusive /\ OneActive /\ \A t \in Threads : CancelledAt(t)

LEMMA RecKept ==
  ASSUME RecInv, UNCHANGED <<hpc, recVars, op, pc, err>>
  PROVE  RecInv'
BY DEF RecInv, RecoveryExclusive, OneActive, CancelledAt, recVars

(* No handler runs once the removal has waited for it.                      *)
LEMMA UnwatchedIdle ==
  ASSUME InductiveQuiet, RemoveWaits, hpc # "idle", NEW t \in Threads
  PROVE  ~Unwatched(t)
BY DEF InductiveQuiet, UnwatchedQuiet, HandlerRegistered

LEMMA HandlerRec ==
  ASSUME TypeOK, InductiveQuiet, RecInv, RemoveWaits, Handler
  PROVE  RecInv'
<1> USE DEF RecInv, callVars, recVars
<1>0. UNCHANGED <<op, pc, err>>
  BY AsyncLeaves
<1>1. CASE HdlrEnter \/ HdlrOrigin \/ HdlrClear
  <2>1. RecoveryExclusive'
    BY <1>1 DEF HdlrEnter, HdlrOrigin, HdlrClear, HdlrStep, RecoveryExclusive
  <2>2. UNCHANGED recVars
    BY <1>1 DEF HdlrEnter, HdlrOrigin, HdlrClear
  <2> QED
    BY <1>0, <2>1, <2>2 DEF OneActive, CancelledAt
<1>2. CASE HdlrDisable \/ HdlrAlert \/ HdlrRate
  <2>1. RecoveryExclusive'
    BY <1>2 DEF HdlrDisable, HdlrAlert, HdlrRate, HdlrStep, RecoveryExclusive
  <2>2. UNCHANGED recVars
    BY <1>2 DEF HdlrDisable, HdlrAlert, HdlrRate
  <2> QED
    BY <1>0, <2>1, <2>2 DEF OneActive, CancelledAt
<1>3. \A t \in Threads : hpc # "idle" =>
        ~(op[t] \in {"stop", "reset"} /\ pc[t] = "recEnd")
  BY UnwatchedIdle DEF Unwatched, ResetSteps
<1>4. CASE HdlrRecover
  <2>1. \A t \in Threads : hpc # "idle" => ~(op[t] = "stop" /\
          (pc[t] \in {"serdesDown", "pcsDown", "timer"}
           \/ (pc[t] = "out" /\ err = "OK")))
    BY UnwatchedIdle DEF Unwatched
  <2>2. \A t \in Threads : CancelledAt(t)'
    BY <1>0, <1>3, <1>4, <2>1 DEF HdlrRecover, HdlrStep, CancelledAt
  <2>3. RecoveryExclusive' /\ OneActive'
    BY <1>4 DEF HdlrRecover, HdlrStep, RecoveryExclusive, OneActive
  <2> QED
    BY <2>2, <2>3
<1>5. CASE HdlrRateEnd
  BY <1>0, <1>5 DEF HdlrRateEnd, HdlrStep, RecoveryExclusive, OneActive,
     CancelledAt
<1>6. CASE HdlrAddTimer
  <2>1. RecoveryExclusive' /\ OneActive'
    BY <1>6 DEF HdlrAddTimer, HdlrStep, RecoveryExclusive, OneActive
  <2>2. \A t \in Threads : CancelledAt(t)'
    BY <1>0, <1>3, <1>6 DEF HdlrAddTimer, HdlrStep, CancelledAt
  <2> QED
    BY <2>1, <2>2
<1> QED
  BY <1>1, <1>2, <1>4, <1>5, <1>6 DEF Handler

LEMMA TimerRec ==
  ASSUME RecInv, RecoveryTimer
  PROVE  RecInv'
<1> USE DEF RecInv, hdlrVars
<1>0. UNCHANGED <<op, pc, err>>
  BY AsyncLeaves DEF callVars
<1>1. CASE RecFire
  BY <1>0, <1>1 DEF RecFire, RecUnchanged, RecoveryExclusive, OneActive,
     CancelledAt
<1>2. CASE RecPollClean \/ RecPollGiveUp \/ RecDisable \/ RecAlert
  BY <1>0, <1>2 DEF RecPollClean, RecPollGiveUp, RecDisable, RecAlert,
     RecUnchanged, RecoveryExclusive, OneActive, CancelledAt
<1>3. CASE RecPollAgain
  BY <1>0, <1>3 DEF RecPollAgain, RecUnchanged, RecoveryExclusive, OneActive,
     CancelledAt
<1>4. CASE RecEnd
  BY <1>0, <1>4 DEF RecEnd, RecUnchanged, RecoveryExclusive, OneActive,
     CancelledAt
<1> QED
  BY <1>1, <1>2, <1>3, <1>4 DEF RecoveryTimer

(* Only the cancelling of a stop or a reset touches a recovery from outside.*)
LEMMA RecFrame ==
  ASSUME NEW t \in Threads, Call(t) \/ Interrupted(t) \/ Caller(t),
         ~RecDelete(t), ~RecCancelled(t)
  PROVE  UNCHANGED <<recVars, hdlrVars>>
<1>1. CASE Call(t) \/ Interrupted(t)
  BY <1>1 DEF Call, Interrupted
<1>2. CASE Configure(t)
  BY <1>2 DEF Configure, ConfigCheck, ConfigWrite, MediaConfigWrite,
     MediaUnconfigWrite, EnableStart, CancelStart, CancelTimer,
     ConfigUnchanged, Unlock
<1>3. CASE Down(t)
  BY <1>3 DEF Down, Stop, StopRefused, StopBegins, StopFmDisable, StopFmRemove,
     StopSerdes, StopEnds, Reset, Cleanup, ResetBegins, ResetEnds,
     CleanupBegins, CleanupSerdes, CleanupClears, CleanupLeaves, Shared,
     OwnFmDisable, OwnFmRemove, RecTest, ResetSerdes, DownPcs, DownTimer,
     DownUnchanged
<1>4. CASE Start(t)
  BY <1>4 DEF Start, StartRefused, StartBegins, StartSet, StartFirmware,
     StartMode, AnInstall, AnTry, AnExchange, AnDone, StartAm, StartLpDetect,
     StartSerdes, StartPml, StartPmlClear, StartFec, FmTest, FmInstall,
     FmEnable, FmRetest, FmUndoDisable, FmUndoRemove, StartFinalCheck,
     StartDone, StartArm, StartFmDisable, StartFmRemove, StartPcsDown,
     StartSerdesDown, StartFails, StartUnchanged
<1> QED
  BY <1>1, <1>2, <1>3, <1>4 DEF Caller

LEMMA CallerRec ==
  ASSUME TypeOK, InductiveQuiet, RecInv, RemoveWaits, NEW t \in Threads,
         Call(t) \/ Interrupted(t) \/ Caller(t)
  PROVE  RecInv'
<1> USE DEF TypeOK
<1>0. \A u \in Threads \ {t} : op'[u] = op[u] /\ pc'[u] = pc[u]
  BY OthersStay
<1>1. RecoveryExclusive' /\ OneActive'
  <2>1. CASE RecDelete(t)
    BY <2>1 DEF RecDelete, DownUnchanged, hdlrVars, RecInv, RecoveryExclusive,
       OneActive
  <2>2. CASE RecCancelled(t)
    <3>1. hpc = "idle"
      BY <2>2, UnwatchedIdle DEF RecCancelled, Go, At, Unwatched, ResetSteps
    <3>2. ~recTimer /\ rpc = "idle"
      BY <2>2 DEF RecCancelled, Go, At, RecInv, CancelledAt
    <3> QED
      BY <2>2, <3>1, <3>2
      DEF RecCancelled, DownUnchanged, hdlrVars, RecoveryExclusive, OneActive
  <2>3. CASE ~RecDelete(t) /\ ~RecCancelled(t)
    BY <2>3, RecFrame DEF recVars, hdlrVars, RecInv, RecoveryExclusive, OneActive
  <2> QED
    BY <2>1, <2>2, <2>3
<1>2. ASSUME NEW u \in Threads \ {t} PROVE CancelledAt(u)'
  <2>1. CASE busy = u
    <3>1. UNCHANGED <<recVars, err>>
      BY <2>1, BystanderStep
    <3> QED
      BY <1>0, <3>1 DEF RecInv, CancelledAt, recVars
  <2>2. CASE busy # u
    <3>1. ~(op[u] \in {"stop", "reset"} /\ pc[u] # "enter")
      BY <2>2 DEF InductiveQuiet, BusyHolder, Holders
    <3> QED
      BY <1>0, <3>1 DEF CancelledAt
  <2> QED
    BY <2>1, <2>2
<1>3. CancelledAt(t)'
  <2>1. CASE ~(op'[t] \in {"stop", "reset"} /\ pc'[t] # "enter")
    BY <2>1 DEF CancelledAt
  <2>2. CASE op'[t] \in {"stop", "reset"} /\ pc'[t] # "enter"
    <3>0. Down(t) /\ UNCHANGED op /\ CancelledAt(t)
      BY <2>2, OwnStep DEF RecInv
    <3> USE DEF CallType, Go, Fail, Take, At
    <3>1. ~(StopRefused(t) \/ StopEnds(t) \/ ResetEnds(t) \/ Cleanup(t))
      BY <2>2, <3>0 DEF StopRefused, StopEnds, ResetEnds, Cleanup, Refuse,
         Finish, Return, CleanupBegins, CleanupSerdes, CleanupClears,
         CleanupLeaves
    <3>2. CASE StopBegins(t) \/ ResetBegins(t)
      BY <3>2 DEF StopBegins, ResetBegins, CancelledAt
    <3>3. CASE StopFmDisable(t) \/ StopFmRemove(t)
      BY <3>3 DEF StopFmDisable, StopFmRemove, CancelledAt
    <3>4. CASE OwnFmDisable(t) \/ OwnFmRemove(t)
      BY <3>4 DEF OwnFmDisable, OwnFmRemove, CancelledAt
    <3>5. CASE RecTest(t)
      BY <3>5 DEF RecTest, AfterRec, CancelledAt, recVars
    <3>6. CASE RecDelete(t)
      BY <3>6 DEF RecDelete, CancelledAt
    <3>7. CASE RecCancelled(t)
      BY <3>7 DEF RecCancelled, AfterRec, CancelledAt
    <3>8. CASE StopSerdes(t)
      BY <3>0, <3>8 DEF StopSerdes, CancelledAt, recVars
    <3>9. CASE ResetSerdes(t)
      BY <3>9 DEF ResetSerdes, CancelledAt
    <3>10. CASE DownPcs(t)
      BY <3>0, <3>10 DEF DownPcs, CancelledAt, recVars
    <3>11. CASE DownTimer(t)
      BY <3>0, <3>11 DEF DownTimer, CancelledAt, recVars
    <3> QED
      BY <3>0, <3>1, <3>2, <3>3, <3>4, <3>5, <3>6, <3>7, <3>8, <3>9, <3>10,
         <3>11 DEF Down, Stop, Reset, Shared
  <2> QED
    BY <2>1, <2>2
<1> QED
  BY <1>1, <1>2, <1>3 DEF RecInv

LEMMA RecStep ==
  ASSUME TypeOK, InductiveQuiet, RecInv, RemoveWaits, [Next]_vars
  PROVE  RecInv'
<1>1. CASE Hardware \/ FecTimerFires \/ FecWork
  <2>1. UNCHANGED <<hpc, recVars, op, pc, err>>
    BY <1>1, AsyncLeaves DEF callVars, Hardware, PcsLost, RemoteFault,
       PcsRestored, FlagRaised, HwUnchanged, FecTimerFires, FecWork,
       FecWorkBegins, FecRatesGood, FecRatesBad, FecDisable, FecAlert,
       FecRearm, FecUnchanged, hdlrVars
  <2> QED
    BY <2>1, RecKept
<1>2. CASE UNCHANGED vars
  BY <1>2, RecKept DEF vars, callVars, hdlrVars
<1> QED
  BY <1>1, <1>2, HandlerRec, TimerRec, CallerRec DEF Next

(* It holds together with the types and the invariant of QuietInv.          *)
THEOREM RecHolds ==
  SerialClient /\ RemoveWaits /\ Spec => [](TypeOK /\ InductiveQuiet /\ RecInv)
<1> SUFFICES ASSUME SerialClient, RemoveWaits
             PROVE  Spec => [](TypeOK /\ InductiveQuiet /\ RecInv)
  OBVIOUS
<1>1. Spec => []TypeOK /\ []InductiveQuiet
  BY TypeCorrect, QuietIsInductive
<1>2. Init => RecInv
  BY DEF Init, RecInv, RecoveryExclusive, OneActive, CancelledAt
<1>3. TypeOK /\ InductiveQuiet /\ RecInv /\ [Next]_vars => RecInv'
  BY RecStep
<1> QED
  BY <1>1, <1>2, <1>3, PTL DEF Spec

(* The handler and the callback of the recovery share the flag without a    *)
(* lock, and yet never set up or end the same recovery together, provided   *)
(* that the removal of the handler waits for it.                            *)
THEOREM RecoveryIsExclusive ==
  SerialClient /\ RemoveWaits /\ Spec => []RecoveryExclusive
<1>1. RecInv => RecoveryExclusive
  BY DEF RecInv
<1> QED
  BY <1>1, RecHolds, PTL

(* When a stop reports the port down nothing of a recovery is left: no      *)
(* timer, no callback, no handler that could set up another.                *)
THEOREM StopLeavesNoRecovery ==
  SerialClient /\ RemoveWaits /\ Spec => StopCancelsRecovery
<1> SUFFICES ASSUME SerialClient, RemoveWaits
             PROVE  Spec => StopCancelsRecovery
  OBVIOUS
<1> DEFINE Left == \A t \in Threads :
                     At(t, "stop", "out") /\ pc'[t] = "idle" /\ blstate' = "DOWN"
                       => ~recStarted /\ ~recTimer /\ rpc = "idle" /\ hpc = "idle"
<1>1. TypeOK /\ InductiveQuiet /\ RecInv /\ [Next]_vars => [Left]_vars
  <2> SUFFICES ASSUME TypeOK, InductiveQuiet, RecInv, [Next]_vars,
                      NEW t \in Threads, At(t, "stop", "out"), pc'[t] = "idle",
                      blstate' = "DOWN"
               PROVE  ~recStarted /\ ~recTimer /\ rpc = "idle" /\ hpc = "idle"
    OBVIOUS
  <2>1. pc[t] # pc'[t]
    BY DEF At
  <2>2. Call(t) \/ Interrupted(t) \/ Caller(t)
    <3>1. ~UNCHANGED vars
      BY <2>1 DEF vars, callVars
    <3>2. ~(Hardware \/ Handler \/ RecoveryTimer \/ FecTimerFires \/ FecWork)
      BY <2>1, AsyncLeaves DEF callVars
    <3>3. \A u \in Threads : Call(u) \/ Interrupted(u) \/ Caller(u) => u = t
      BY <2>1, OthersStay DEF TypeOK
    <3> QED
      BY <3>1, <3>2, <3>3 DEF Next
  <2>3. StopEnds(t)
    <3> USE DEF At, Go, Fail, Take, Finish
    <3>1. ~Call(t) /\ ~Interrupted(t)
      BY DEF Call, Interrupted
    <3>2. ~Configure(t)
      BY DEF Configure, ConfigCheck, ConfigWrite, MediaConfigWrite,
         MediaUnconfigWrite, EnableStart, CancelStart, CancelTimer, Unlock,
         ConfigOps
    <3>3. ~Start(t)
      <4>1. \A from, to, e : ~Go(t, S, from, to) /\ ~Fail(t, S, from, to, e)
                             /\ ~Take(t, S, to) /\ ~Finish(t, S, from)
                             /\ ~Refuse(t, S) /\ ~At(t, S, from)
        BY DEF S, Refuse
      <4> QED
        BY <4>1 DEF Start, StartRefused, StartBegins, StartSet, StartFirmware,
           StartMode, AnInstall, AnTry, AnExchange, AnDone, StartAm,
           StartLpDetect, StartSerdes, StartPml, StartPmlClear, StartFec,
           FmTest, FmInstall, FmEnable, FmRetest, FmUndoDisable, FmUndoRemove,
           StartFinalCheck, StartDone, StartArm, StartFmDisable,
           StartFmRemove, StartPcsDown, StartSerdesDown, StartFails
    <3>4. Down(t) => StopEnds(t)
      BY DEF Down, Stop, StopRefused, StopBegins, StopFmDisable, StopFmRemove,
         StopSerdes, Reset, Cleanup, ResetBegins, ResetEnds, CleanupBegins,
         CleanupSerdes, CleanupClears, CleanupLeaves, Shared, OwnFmDisable,
         OwnFmRemove, RecTest, RecDelete, RecCancelled, ResetSerdes, DownPcs,
         DownTimer, Refuse
    <3> QED
      BY <2>2, <3>1, <3>2, <3>3, <3>4 DEF Caller
  <2>4. err = "OK"
    BY <2>3 DEF StopEnds
  <2>5. ~recStarted
    BY <2>4 DEF RecInv, CancelledAt, At
  <2>6. hpc = "idle"
    BY <2>4, UnwatchedIdle DEF Unwatched, At
  <2> QED
    BY <2>5, <2>6 DEF RecInv, RecoveryExclusive
<1>2. StopCancelsRecovery <=> [][Left]_vars
  BY DEF StopCancelsRecovery
<1> QED
  BY <1>1, <1>2, RecHolds, PTL DEF Spec

-----------------------------------------------------------------------------
(* The flags.  Until the link's replay limit is settled a start has no      *)
(* fault flags registered.                                                  *)
Unsettled == {"set", "fw", "mode", "anInstall", "anTry", "anExchange",
              "anDone", "am", "lpDetect", "serdes", "pml"}

FlagsAt(t) == op[t] = "start" /\ pc[t] \in Unsettled => "LINK_DOWN" \notin intrFlgs

FlagsInv == MonitorFlagsMatchLlr /\ \A t \in Threads : FlagsAt(t)

LEMMA StartFlags ==
  ASSUME TypeOK, InductiveQuiet, FlagsInv, NEW t \in Threads, Start(t)
  PROVE  MonitorFlagsMatchLlr' /\ FlagsAt(t)'
<1>0. /\ "LINK_DOWN" \in intrFlgs => intrFlgs = FaultFlags
      /\ op[t] = "start" /\ pc[t] \in Unsettled => "LINK_DOWN" \notin intrFlgs
  BY DEF FlagsInv, MonitorFlagsMatchLlr, FlagsAt
<1> USE DEF TypeOK, CallType, MonitorFlagsMatchLlr, FlagsAt, Unsettled, chipVars,
            intrVars, FaultFlags, S, Go, Fail, At
<1>1. CASE StartRefused(t)
  BY <1>0, <1>1 DEF StartRefused, Refuse, Return
<1>2. CASE StartBegins(t)
  <2>1. intrFlgs = {} /\ UNCHANGED <<intrFlgs, llrLimited>>
    BY <1>2 DEF StartBegins, Take, InductiveQuiet, QuietWhenDown, Idle
  <2> QED
    BY <2>1
<1>3. CASE StartSet(t)
  BY <1>0, <1>3 DEF StartSet
<1>4. CASE StartFirmware(t) \/ StartMode(t)
  BY <1>0, <1>4 DEF StartFirmware, StartMode
<1>5. CASE AnInstall(t)
  BY <1>0, <1>5 DEF AnInstall
<1>6. CASE AnTry(t) \/ AnExchange(t)
  BY <1>0, <1>6 DEF AnTry, AnExchange
<1>7. CASE AnDone(t)
  BY <1>7 DEF AnDone, RemoveHandler
<1>8. CASE StartAm(t) \/ StartLpDetect(t) \/ StartSerdes(t)
  BY <1>0, <1>8 DEF StartAm, StartLpDetect, StartSerdes
<1>9. CASE StartPml(t)
  BY <1>0, <1>9 DEF StartPml
<1>10. CASE StartPmlClear(t) \/ StartFec(t) \/ FmTest(t)
  BY <1>0, <1>10 DEF StartPmlClear, StartFec, FmTest
<1>11. CASE FmInstall(t)
  BY <1>0, <1>11 DEF FmInstall
<1>12. CASE FmEnable(t) \/ FmRetest(t) \/ FmUndoDisable(t)
  BY <1>0, <1>12 DEF FmEnable, FmRetest, FmUndoDisable
<1>13. CASE FmUndoRemove(t) \/ StartFmRemove(t)
  BY <1>13 DEF FmUndoRemove, StartFmRemove, RemoveHandler
<1>14. CASE StartFinalCheck(t) \/ StartDone(t) \/ StartFmDisable(t)
  BY <1>0, <1>14 DEF StartFinalCheck, StartDone, StartFmDisable
<1>15. CASE StartArm(t) \/ StartFails(t)
  BY <1>0, <1>15 DEF StartArm, StartFails, Finish, Return
<1>16. CASE StartPcsDown(t) \/ StartSerdesDown(t)
  BY <1>0, <1>16 DEF StartPcsDown, StartSerdesDown, PmlLinkDown
<1> QED
  BY <1>1, <1>2, <1>3, <1>4, <1>5, <1>6, <1>7, <1>8, <1>9, <1>10, <1>11,
     <1>12, <1>13, <1>14, <1>15, <1>16 DEF Start

LEMMA DownFlags ==
  ASSUME TypeOK, InductiveQuiet, FlagsInv, NEW t \in Threads, Down(t)
  PROVE  MonitorFlagsMatchLlr'
<1>0. /\ MonitorFlagsMatchLlr
      /\ Unwatched(t) => intrFlgs = {}
  BY DEF FlagsInv, InductiveQuiet, UnwatchedQuiet
<1> USE DEF chipVars, intrVars, DownUnchanged, ChipUnchanged, At, Go, Finish
<1>1. ASSUME UNCHANGED <<llrLimited, intrFlgs>> \/ intrFlgs' = {}
      PROVE  MonitorFlagsMatchLlr'
  BY <1>0, <1>1 DEF MonitorFlagsMatchLlr, FaultFlags
<1>2. CASE Stop(t)
  BY <1>1, <1>2 DEF Stop, StopRefused, StopBegins, StopFmDisable, StopFmRemove,
     RemoveHandler, StopSerdes, StopEnds
<1>3. CASE ResetBegins(t) \/ CleanupBegins(t) \/ CleanupSerdes(t)
             \/ CleanupLeaves(t)
  BY <1>1, <1>3 DEF ResetBegins, CleanupBegins, CleanupSerdes, CleanupLeaves
<1>4. CASE ResetEnds(t) \/ CleanupClears(t)
  <2>1. Unwatched(t) /\ UNCHANGED intrFlgs
    BY <1>4 DEF ResetEnds, CleanupClears, Unwatched, ResetSteps
  <2> QED
    BY <1>0, <1>1, <2>1
<1>5. CASE Shared(t)
  BY <1>1, <1>5 DEF Shared, OwnFmDisable, OwnFmRemove, RemoveHandler, RecTest,
     RecDelete, RecCancelled, ResetSerdes, DownPcs, PmlLinkDown, DownTimer
<1> QED
  BY <1>2, <1>3, <1>4, <1>5 DEF Down, Reset, Cleanup

LEMMA FlagsStep ==
  ASSUME TypeOK, InductiveQuiet, FlagsInv, [Next]_vars
  PROVE  FlagsInv'
<1>1. ASSUME NEW t \in Threads, Call(t) \/ Interrupted(t) \/ Caller(t)
      PROVE  FlagsInv'
  <2>0. \A u \in Threads \ {t} : op'[u] = op[u] /\ pc'[u] = pc[u]
    BY <1>1, OthersStay DEF TypeOK
  <2>1. ASSUME NEW u \in Threads \ {t} PROVE FlagsAt(u)'
    <3>1. CASE busy = u
      <4>1. UNCHANGED intrFlgs
        BY <1>1, <3>1, BystanderStep DEF intrVars
      <4> QED
        BY <2>0, <4>1 DEF FlagsInv, FlagsAt
    <3>2. CASE busy # u
      <4>1. ~(op[u] = "start" /\ pc[u] # "enter")
        BY <3>2 DEF InductiveQuiet, BusyHolder, Holders
      <4> QED
        BY <2>0, <4>1 DEF FlagsAt, Unsettled
    <3> QED
      BY <3>1, <3>2
  <2>2. MonitorFlagsMatchLlr' /\ FlagsAt(t)'
    <3>1. CASE Start(t)
      BY <3>1, StartFlags
    <3>2. CASE ~Start(t)
      <4>1. FlagsAt(t)'
        BY <1>1, <3>2, OwnStep DEF TypeOK, FlagsAt, Unsettled
      <4>2. CASE Down(t)
        BY <4>1, <4>2, DownFlags
      <4>3. CASE Call(t) \/ Interrupted(t) \/ Configure(t)
        <5>1. UNCHANGED <<llrLimited, intrFlgs>>
          BY <4>3 DEF Call, Interrupted, Configure, ConfigCheck, ConfigWrite,
             MediaConfigWrite, MediaUnconfigWrite, EnableStart, CancelStart,
             CancelTimer, Unlock, ConfigUnchanged, chipVars, intrVars
        <5> QED
          BY <4>1, <5>1 DEF FlagsInv, MonitorFlagsMatchLlr, FaultFlags
      <4> QED
        BY <1>1, <3>2, <4>2, <4>3 DEF Caller
    <3> QED
      BY <3>1, <3>2
  <2> QED
    BY <2>1, <2>2 DEF FlagsInv
<1>2. ASSUME UNCHANGED <<op, pc, intrFlgs, llrLimited>> PROVE FlagsInv'
  BY <1>2 DEF FlagsInv, FlagsAt, MonitorFlagsMatchLlr, FaultFlags
<1>3. CASE Hardware \/ Handler \/ RecoveryTimer \/ FecTimerFires \/ FecWork
  BY <1>2, <1>3, AsyncLeaves DEF callVars
<1>4. CASE UNCHANGED vars
  BY <1>2, <1>4 DEF vars, callVars, intrVars, chipVars
<1> QED
  BY <1>1, <1>3, <1>4 DEF Next

(* The flags that stop and the alert compute again from the replay limit    *)
(* are those that were registered, whatever limit a later start, a reset or *)
(* a cleanup leaves in the register.                                        *)
THEOREM FlagsMatch == SerialClient /\ Spec => []MonitorFlagsMatchLlr
<1> SUFFICES ASSUME SerialClient PROVE Spec => []MonitorFlagsMatchLlr
  OBVIOUS
<1>1. Spec => []TypeOK /\ []InductiveQuiet
  BY TypeCorrect, QuietIsInductive
<1>2. Init => FlagsInv
  BY DEF Init, FlagsInv, FlagsAt, MonitorFlagsMatchLlr
<1>3. TypeOK /\ InductiveQuiet /\ FlagsInv /\ [Next]_vars => FlagsInv'
  BY FlagsStep
<1>4. FlagsInv => MonitorFlagsMatchLlr
  BY DEF FlagsInv
<1> QED
  BY <1>1, <1>2, <1>3, <1>4, PTL DEF Spec

-----------------------------------------------------------------------------
(* The link that is up.  A start collects, step by step, what the link it   *)
(* reports up rests on; interrupts that are off have been or will be an     *)
(* alert.                                                                   *)
Covered == FaultFlags \subseteq intrOn \/ alerted \/ AlertPending

UpAt(t) ==
  op[t] = "start" =>
    /\ pc[t] \in {"lpDetect", "serdes"} => pcsOn
    /\ pc[t] \in {"pml", "pmlClear", "fec", "fmTest", "fmInstall", "fmEnable",
                  "fmRetest", "up", "done", "arm"}
         => sstate = "RUNNING" /\ pcsOn
    /\ pc[t] \in {"fmEnable", "fmRetest", "up", "done", "arm"}
         => intrFlgs = FaultFlags
    /\ pc[t] \in {"fmRetest", "up", "done", "arm"} => Covered

UpInv == UpIsMonitored /\ \A t \in Threads : UpAt(t)

(* The interrupts, the timers and the work switch the interrupt off only    *)
(* with an alert to follow.                                                 *)
LEMMA AsyncCovered ==
  ASSUME Covered,
         Hardware \/ Handler \/ RecoveryTimer \/ FecTimerFires \/ FecWork
  PROVE  Covered'
<1>0. FaultFlags' = FaultFlags
  BY AsyncLeaves DEF FaultFlags
<1> USE DEF Covered, AlertPending, LinkDownAlert
<1>1. CASE Hardware
  BY <1>0, <1>1 DEF Hardware, PcsLost, RemoteFault, PcsRestored, FlagRaised,
     HwUnchanged, hdlrVars, recVars, fecVars
<1>2. CASE Handler
  <2>1. CASE HdlrEnter \/ HdlrOrigin \/ HdlrRate \/ HdlrClear
    BY <1>0, <2>1 DEF HdlrEnter, HdlrOrigin, HdlrRate, HdlrClear, HdlrStep,
       recVars, fecVars, intrVars
  <2>2. CASE HdlrRecover \/ HdlrRateEnd \/ HdlrAddTimer
    BY <1>0, <2>2 DEF HdlrRecover, HdlrRateEnd, HdlrAddTimer, HdlrStep,
       recVars, fecVars, intrVars
  <2>3. CASE HdlrDisable
    BY <2>3 DEF HdlrDisable, HdlrStep, LinkDownDisable
  <2>4. CASE HdlrAlert
    BY <2>4 DEF HdlrAlert
  <2> QED
    BY <1>2, <2>1, <2>2, <2>3, <2>4 DEF Handler
<1>3. CASE RecoveryTimer
  <2>1. CASE RecFire \/ RecPollClean \/ RecPollGiveUp \/ RecPollAgain \/ RecEnd
    BY <1>0, <2>1 DEF RecFire, RecPollClean, RecPollGiveUp, RecPollAgain,
       RecEnd, RecUnchanged, hdlrVars, fecVars, intrVars
  <2>2. CASE RecDisable
    BY <2>2 DEF RecDisable, LinkDownDisable
  <2>3. CASE RecAlert
    BY <2>3 DEF RecAlert
  <2> QED
    BY <1>3, <2>1, <2>2, <2>3 DEF RecoveryTimer
<1>4. CASE FecTimerFires \/ FecWork
  <2>1. CASE FecTimerFires \/ FecWorkBegins \/ FecRatesGood \/ FecRatesBad
               \/ FecRearm
    BY <1>0, <2>1 DEF FecTimerFires, FecWorkBegins, FecRatesGood, FecRatesBad,
       FecRearm, FecUnchanged, hdlrVars, recVars, intrVars
  <2>2. CASE FecDisable
    BY <2>2 DEF FecDisable, LinkDownDisable
  <2>3. CASE FecAlert
    BY <2>3 DEF FecAlert
  <2> QED
    BY <1>4, <2>1, <2>2, <2>3 DEF FecWork
<1> QED
  BY <1>1, <1>2, <1>3, <1>4

LEMMA StartUp ==
  ASSUME TypeOK, UpInv, NEW t \in Threads, Start(t)
  PROVE  UpAt(t)'
<1>0. UpAt(t)
  BY DEF UpInv
<1> USE DEF TypeOK, CallType, UpAt, chipVars, S, Go, Fail, At
<1>1. CASE StartRefused(t) \/ StartBegins(t) \/ StartSet(t)
  BY <1>1 DEF StartRefused, StartBegins, StartSet, Refuse, Return, Take
<1>2. CASE StartFirmware(t) \/ StartMode(t) \/ AnInstall(t)
  BY <1>2 DEF StartFirmware, StartMode, AnInstall
<1>3. CASE AnTry(t) \/ AnExchange(t) \/ AnDone(t)
  BY <1>3 DEF AnTry, AnExchange, AnDone
<1>4. CASE StartAm(t)
  BY <1>4 DEF StartAm
<1>5. CASE StartLpDetect(t)
  BY <1>0, <1>5 DEF StartLpDetect
<1>6. CASE StartSerdes(t)
  BY <1>0, <1>6 DEF StartSerdes
<1>7. CASE StartPml(t)
  BY <1>0, <1>7 DEF StartPml
<1>8. CASE StartPmlClear(t) \/ StartFec(t) \/ FmTest(t)
  BY <1>0, <1>8 DEF StartPmlClear, StartFec, FmTest
<1>9. CASE FmInstall(t)
  <2>1. UNCHANGED <<sstate, pcsOn>> /\ FaultFlags' = FaultFlags
    BY <1>9 DEF FmInstall, FaultFlags
  <2>2. pc'[t] = "fmEnable" => intrFlgs' = FaultFlags
    BY <1>9 DEF FmInstall
  <2>3. pc'[t] \in {"fmEnable", "pcsDown"} /\ op[t] = "start" /\ pc[t] = "fmInstall"
    BY <1>9 DEF FmInstall
  <2> QED
    BY <1>0, <2>1, <2>2, <2>3
<1>10. CASE FmEnable(t)
  <2>1. /\ UNCHANGED <<sstate, pcsOn, intrFlgs>> /\ FaultFlags' = FaultFlags
        /\ op[t] = "start" /\ pc[t] = "fmEnable"
        /\ pc'[t] \in {"fmRetest", "undoRemove"}
    BY <1>10 DEF FmEnable, FaultFlags
  <2>2. intrFlgs = FaultFlags /\ intrFlgs # {}
    BY <1>0, <2>1 DEF FaultFlags
  <2>3. pc'[t] = "fmRetest" => Covered'
    BY <1>10, <2>1, <2>2 DEF FmEnable, EnableHandler, Covered
  <2> QED
    BY <1>0, <2>1, <2>2, <2>3
<1>11. ASSUME op[t] = "start", pc[t] \in {"fmRetest", "up", "done", "arm"},
              UNCHANGED <<chipVars, intrVars, alerted, hdlrVars, recVars>>,
              UNCHANGED fpc \/ pc'[t] = "idle"
       PROVE  UpAt(t)'
  <2>1. FaultFlags' = FaultFlags
    BY <1>11 DEF FaultFlags
  <2>2. pc'[t] # "idle" => Covered'
    BY <1>0, <1>11, <2>1
    DEF Covered, AlertPending, intrVars, hdlrVars, recVars
  <2> QED
    BY <1>0, <1>11, <2>1, <2>2 DEF intrVars
<1>12. CASE FmRetest(t) \/ StartFinalCheck(t)
  BY <1>11, <1>12 DEF FmRetest, StartFinalCheck, NoLinkChange, StartUnchanged,
     fecVars
<1>13. CASE StartDone(t)
  BY <1>11, <1>13 DEF StartDone, StartUnchanged, fecVars
<1>14. CASE StartArm(t) \/ StartFails(t)
  BY <1>14 DEF StartArm, StartFails, Finish, Return
<1>15. CASE FmUndoDisable(t) \/ FmUndoRemove(t) \/ StartFmDisable(t)
             \/ StartFmRemove(t) \/ StartPcsDown(t) \/ StartSerdesDown(t)
  BY <1>15 DEF FmUndoDisable, FmUndoRemove, StartFmDisable, StartFmRemove,
     StartPcsDown, StartSerdesDown
<1> QED
  BY <1>1, <1>2, <1>3, <1>4, <1>5, <1>6, <1>7, <1>8, <1>9, <1>10, <1>12,
     <1>13, <1>14, <1>15 DEF Start

(* With no operation in progress only the write of a configuring call       *)
(* changes the state.                                                       *)
LEMMA RestChanges ==
  ASSUME InductiveQuiet, Production, NEW t \in Threads,
         Call(t) \/ Interrupted(t) \/ Caller(t),
         busy = None, busy' = None, blstate' # blstate
  PROVE  /\ op[t] \in ConfigOps /\ pc[t] = "write"
         /\ blstate' \in {"DOWN", "UNCONFIGURED"}
<1>1. ~Call(t) /\ ~Interrupted(t)
  BY DEF Call, Interrupted, linkVars
<1>2. CASE Configure(t)
  BY <1>2 DEF Configure, ConfigCheck, ConfigWrite, MediaConfigWrite, At,
     MediaUnconfigWrite, EnableStart, CancelStart, CancelTimer, linkVars,
     Unlock, ConfigOps
<1>3. CASE Start(t) \/ Down(t)
  <2>1. op[t] \notin Holders \/ pc[t] = "enter"
    BY ConstantsAssumption DEF InductiveQuiet, BusyHolder
  <2>2. ~StartSet(t) /\ ~StartDone(t) /\ ~StartFails(t)
    BY <2>1 DEF StartSet, StartDone, StartFails, Finish, Go, At, S, Holders
  <2>3. ~Start(t)
    BY <2>2 DEF Start, StartRefused, StartBegins, StartFirmware, StartMode,
       AnInstall, AnTry, AnExchange, AnDone, StartAm, StartLpDetect,
       StartSerdes, StartPml, StartPmlClear, StartFec, FmTest, FmInstall,
       FmEnable, FmRetest, FmUndoDisable, FmUndoRemove, StartFinalCheck,
       StartArm, StartFmDisable, StartFmRemove, StartPcsDown,
       StartSerdesDown, NoLinkChange
  <2>4. ~StopEnds(t) /\ ~ResetEnds(t) /\ ~CleanupClears(t)
    BY <2>1 DEF StopEnds, ResetEnds, CleanupClears, Finish, At, Holders
  <2>5. ~StopBegins(t) /\ ~ResetBegins(t)
    BY ConstantsAssumption DEF StopBegins, ResetBegins, Take
  <2>6. ~Down(t)
    BY <2>4, <2>5 DEF Down, Stop, StopRefused, StopFmDisable,
       StopFmRemove, StopSerdes, Reset, Cleanup, CleanupBegins,
       CleanupSerdes, CleanupLeaves, Shared, OwnFmDisable, OwnFmRemove,
       RecTest, RecDelete, RecCancelled, ResetSerdes, DownPcs, DownTimer,
       DownUnchanged, linkVars
  <2> QED
    BY <1>3, <2>3, <2>6
<1> QED
  BY <1>1, <1>2, <1>3 DEF Caller

(* The steps that give busy_mtx back.                                       *)
LEMMA Frees ==
  ASSUME NEW t \in Threads, Call(t) \/ Interrupted(t) \/ Caller(t),
         busy # None, busy' = None
  PROVE  \/ StartArm(t) \/ StartFails(t) \/ StopEnds(t) \/ ResetEnds(t)
         \/ CleanupClears(t) \/ CleanupLeaves(t)
<1> USE DEF Go, Fail, Take, Refuse
<1>1. ~Call(t) /\ ~Interrupted(t) /\ ~Configure(t)
  BY DEF Call, Interrupted, Configure, ConfigCheck, ConfigWrite,
     MediaConfigWrite, MediaUnconfigWrite, EnableStart, CancelStart,
     CancelTimer, Unlock, ConfigUnchanged
<1>2. Down(t) => \/ StopEnds(t) \/ ResetEnds(t) \/ CleanupClears(t)
                 \/ CleanupLeaves(t)
  BY ConstantsAssumption
  DEF Down, Stop, StopRefused, StopBegins, StopFmDisable, StopFmRemove,
      StopSerdes, Reset, Cleanup, ResetBegins, CleanupBegins, CleanupSerdes,
      Shared, OwnFmDisable, OwnFmRemove, RecTest, RecDelete, RecCancelled,
      ResetSerdes, DownPcs, DownTimer
<1>3. Start(t) => StartArm(t) \/ StartFails(t)
  <2>1. ~(StartRefused(t) \/ StartBegins(t) \/ StartSet(t) \/ StartFirmware(t)
          \/ StartMode(t) \/ AnInstall(t) \/ AnTry(t))
    BY ConstantsAssumption
    DEF StartRefused, StartBegins, StartSet, StartFirmware, StartMode,
        AnInstall, AnTry
  <2>2. ~(AnExchange(t) \/ AnDone(t) \/ StartAm(t) \/ StartLpDetect(t)
          \/ StartSerdes(t) \/ StartPml(t) \/ StartPmlClear(t))
    BY DEF AnExchange, AnDone, StartAm, StartLpDetect, StartSerdes, StartPml,
       StartPmlClear
  <2>3. ~(StartFec(t) \/ FmTest(t) \/ FmInstall(t) \/ FmEnable(t)
          \/ FmRetest(t) \/ FmUndoDisable(t) \/ FmUndoRemove(t))
    BY DEF StartFec, FmTest, FmInstall, FmEnable, FmRetest, FmUndoDisable,
       FmUndoRemove
  <2>4. ~(StartFinalCheck(t) \/ StartDone(t) \/ StartFmDisable(t)
          \/ StartFmRemove(t) \/ StartPcsDown(t) \/ StartSerdesDown(t))
    BY DEF StartFinalCheck, StartDone, StartFmDisable, StartFmRemove,
       StartPcsDown, StartSerdesDown
  <2> QED
    BY <2>1, <2>2, <2>3, <2>4 DEF Start
<1> QED
  BY <1>1, <1>2, <1>3 DEF Caller

(* Between two operations the link is up only when a start left it so.      *)
LEMMA ComesUp ==
  ASSUME InductiveQuiet, LifeInv, Production, NEW t \in Threads,
         Call(t) \/ Interrupted(t) \/ Caller(t),
         busy' = None, blstate' = "UP"
  PROVE  \/ StartArm(t)
         \/ busy = None /\ blstate = "UP"
<1>1. CASE busy = None
  BY <1>1, RestChanges
<1>2. CASE busy # None
  <2>1. ~StartFails(t) /\ ~StopEnds(t) /\ ~ResetEnds(t) /\ ~CleanupClears(t)
    BY DEF StartFails, StopEnds, ResetEnds, CleanupClears, Production
  <2>2. ~CleanupLeaves(t)
    BY DEF CleanupLeaves, Finish, At, LifeInv, StateHeld, StateAt, linkVars
  <2> QED
    BY <1>2, <2>1, <2>2, Frees
<1> QED
  BY <1>1, <1>2

LEMMA CoveredKept ==
  ASSUME Covered,
         UNCHANGED <<chipVars, intrVars, alerted, hdlrVars, recVars, fpc>>
  PROVE  Covered'
<1>1. FaultFlags' = FaultFlags
  BY DEF FaultFlags, chipVars
<1> QED
  BY <1>1 DEF Covered, AlertPending, intrVars, hdlrVars, recVars

LEMMA CallerUp ==
  ASSUME TypeOK, InductiveQuiet, LifeInv, UpInv, Production, NEW t \in Threads,
         Call(t) \/ Interrupted(t) \/ Caller(t)
  PROVE  UpInv'
<1>0. \A u \in Threads \ {t} : op'[u] = op[u] /\ pc'[u] = pc[u]
  BY OthersStay DEF TypeOK
<1>1. ASSUME NEW u \in Threads \ {t} PROVE UpAt(u)'
  <2>1. CASE busy = u
    <3>1. UNCHANGED <<chipVars, intrVars, alerted, hdlrVars, recVars, fpc>>
      BY <2>1, BystanderStep
    <3>2. FaultFlags' = FaultFlags /\ (Covered => Covered')
      BY <3>1, CoveredKept DEF FaultFlags, chipVars
    <3>3. UpAt(u)
      BY DEF UpInv
    <3> QED
      BY <1>0, <3>1, <3>2, <3>3 DEF UpAt, chipVars, intrVars
  <2>2. CASE busy # u
    <3>1. ~(op[u] = "start" /\ pc[u] # "enter")
      BY <2>2 DEF InductiveQuiet, BusyHolder, Holders
    <3> QED
      BY <1>0, <3>1 DEF UpAt
  <2> QED
    BY <2>1, <2>2
<1>2. UpAt(t)'
  <2>1. CASE Start(t)
    BY <2>1, StartUp
  <2>2. CASE ~Start(t)
    BY <2>2, OwnStep DEF TypeOK, UpAt
  <2> QED
    BY <2>1, <2>2
<1>3. UpIsMonitored'
  <2> SUFFICES ASSUME busy' = None, blstate' = "UP"
               PROVE  intrFlgs' = FaultFlags' /\ sstate' = "RUNNING" /\ pcsOn'
                      /\ Covered'
    BY DEF UpIsMonitored, Idle, Covered
  <2>1. CASE StartArm(t)
    <3>1. op[t] = "start" /\ pc[t] = "arm" /\ UpAt(t)
      BY <2>1 DEF StartArm, Finish, At, S, UpInv
    <3>2. UNCHANGED <<chipVars, intrVars, alerted, hdlrVars, recVars, fpc>>
      BY <2>1 DEF StartArm, StartUnchanged
    <3>3. Covered'
      BY <3>1, <3>2, CoveredKept DEF UpAt
    <3> QED
      BY <3>1, <3>2, <3>3 DEF UpAt, FaultFlags, chipVars, intrVars
  <2>2. CASE busy = None /\ blstate = "UP"
    <3>1. UNCHANGED <<chipVars, intrVars, alerted, hdlrVars, recVars, fpc>>
      BY <2>2, BystanderStep, ConstantsAssumption
    <3>2. Covered'
      BY <2>2, <3>1, CoveredKept DEF UpInv, UpIsMonitored, Idle, Covered
    <3> QED
      BY <2>2, <3>1, <3>2
      DEF UpInv, UpIsMonitored, Idle, FaultFlags, chipVars, intrVars
  <2> QED
    BY <2>1, <2>2, ComesUp
<1> QED
  BY <1>1, <1>2, <1>3 DEF UpInv

LEMMA UpStep ==
  ASSUME TypeOK, InductiveQuiet, LifeInv, UpInv, Production, [Next]_vars
  PROVE  UpInv'
<1>1. ASSUME UNCHANGED <<blstate, busy, op, pc, intrFlgs, sstate, pcsOn,
                         llrLimited>>,
             Covered => Covered'
      PROVE  UpInv'
  <2>1. FaultFlags' = FaultFlags
    BY <1>1 DEF FaultFlags
  <2>2. \A t \in Threads : UpAt(t)'
    BY <1>1, <2>1 DEF UpInv, UpAt
  <2>3. UpIsMonitored'
    BY <1>1, <2>1 DEF UpInv, UpIsMonitored, Idle, Covered
  <2> QED
    BY <2>2, <2>3 DEF UpInv
<1>2. CASE Hardware \/ Handler \/ RecoveryTimer \/ FecTimerFires \/ FecWork
  BY <1>1, <1>2, AsyncLeaves, AsyncCovered
  DEF Production, linkVars, callVars
<1>3. CASE UNCHANGED vars
  BY <1>1, <1>3, CoveredKept
  DEF vars, linkVars, callVars, chipVars, intrVars, fecVars
<1> QED
  BY <1>1, <1>2, <1>3, CallerUp DEF Next

(* A link that was reported up is watched: its SerDes and its PCS run, the  *)
(* fault flags are registered, and they raise interrupts unless the client  *)
(* has been or is being alerted; no fault between a start's two tests, and  *)
(* no alert that races with the start, is lost.                             *)
THEOREM UpIsWatched == Production /\ Spec => []UpIsMonitored
<1> SUFFICES ASSUME Production PROVE Spec => []UpIsMonitored
  OBVIOUS
<1>1. Spec => [](TypeOK /\ InductiveQuiet /\ LifeInv)
  BY LifeHolds
<1>2. Init => UpInv
  BY DEF Init, UpInv, UpAt, UpIsMonitored
<1>3. TypeOK /\ InductiveQuiet /\ LifeInv /\ UpInv /\ [Next]_vars => UpInv'
  BY UpStep
<1>4. UpInv => UpIsMonitored
  BY DEF UpInv
<1> QED
  BY <1>1, <1>2, <1>3, <1>4, PTL DEF Spec

-----------------------------------------------------------------------------
(* The FEC check.                                                           *)
FecPending == fecTimer \/ fecQueued \/ fpc # "idle" \/ alerted

LEMMA CallerFec ==
  ASSUME TypeOK, InductiveQuiet, LifeInv, Production, "cancel" \notin Ops,
         UpHasFecCheck, NEW t \in Threads,
         Call(t) \/ Interrupted(t) \/ Caller(t)
  PROVE  UpHasFecCheck'
<1> SUFFICES ASSUME busy' = None, blstate' = "UP" PROVE FecPending'
  BY DEF UpHasFecCheck, Idle, FecPending
<1>1. CASE StartArm(t)
  BY <1>1 DEF StartArm, FecPending
<1>2. CASE busy = None /\ blstate = "UP"
  <2>1. UNCHANGED <<alerted, fecQueued, fpc>>
    BY <1>2, BystanderStep, ConstantsAssumption
  <2>2. op[t] # "cancel" /\ (op[t] \notin Holders \/ pc[t] = "enter")
    BY <1>2, ConstantsAssumption
    DEF TypeOK, CallType, InductiveQuiet, BusyHolder
  <2>3. UNCHANGED fecTimer
    <3>1. CASE Call(t) \/ Interrupted(t)
      BY <3>1 DEF Call, Interrupted, fecVars
    <3>2. CASE Configure(t)
      BY <2>2, <3>2 DEF Configure, ConfigCheck, ConfigWrite, MediaConfigWrite,
         MediaUnconfigWrite, EnableStart, CancelStart, CancelTimer, At,
         ConfigUnchanged, Unlock, fecVars
    <3>3. CASE Down(t)
      <4>1. ~DownTimer(t)
        BY <2>2 DEF DownTimer, Go, At, Holders
      <4> QED
        BY <3>3, <4>1 DEF Down, Stop, StopRefused, StopBegins, StopFmDisable,
           StopFmRemove, StopSerdes, StopEnds, Reset, Cleanup, ResetBegins,
           ResetEnds, CleanupBegins, CleanupSerdes, CleanupClears,
           CleanupLeaves, Shared, OwnFmDisable, OwnFmRemove, RecTest,
           RecDelete, RecCancelled, ResetSerdes, DownPcs, fecVars
    <3>4. CASE Start(t)
      <4>1. ~StartArm(t)
        BY <2>2 DEF StartArm, Finish, At, S, Holders
      <4> QED
        BY <3>4, <4>1 DEF Start, StartRefused, StartBegins, StartSet,
           StartFirmware, StartMode, AnInstall, AnTry, AnExchange, AnDone,
           StartAm, StartLpDetect, StartSerdes, StartPml, StartPmlClear,
           StartFec, FmTest, FmInstall, FmEnable, FmRetest, FmUndoDisable,
           FmUndoRemove, StartFinalCheck, StartDone, StartFmDisable,
           StartFmRemove, StartPcsDown, StartSerdesDown, StartFails,
           NoLinkChange, fecVars
    <3> QED
      BY <3>1, <3>2, <3>3, <3>4 DEF Caller
  <2> QED
    BY <1>2, <2>1, <2>3 DEF UpHasFecCheck, Idle, FecPending
<1> QED
  BY <1>1, <1>2, ComesUp

LEMMA AsyncFec ==
  ASSUME FecPending,
         Hardware \/ Handler \/ RecoveryTimer \/ FecTimerFires \/ FecWork
  PROVE  FecPending'
<1> USE DEF FecPending, LinkDownAlert
<1>1. CASE Hardware
  BY <1>1 DEF Hardware, PcsLost, RemoteFault, PcsRestored, FlagRaised,
     HwUnchanged, fecVars
<1>2. CASE Handler
  BY <1>2 DEF Handler, HdlrEnter, HdlrOrigin, HdlrRate, HdlrClear, HdlrRecover,
     HdlrRateEnd, HdlrAddTimer, HdlrDisable, HdlrAlert, LinkDownDisable,
     fecVars
<1>3. CASE RecoveryTimer
  BY <1>3 DEF RecoveryTimer, RecFire, RecPollClean, RecPollGiveUp,
     RecPollAgain, RecDisable, RecAlert, RecEnd, RecUnchanged,
     LinkDownDisable, fecVars
<1>4. CASE FecTimerFires \/ FecWork
  BY <1>4 DEF FecTimerFires, FecWork, FecWorkBegins, FecRatesGood,
     FecRatesBad, FecDisable, FecAlert, FecRearm
<1> QED
  BY <1>1, <1>2, <1>3, <1>4

(* A link that is up has its FEC check pending, or the check has alerted    *)
(* the client, unless a client cancels starts: the cancelling deletes the   *)
(* timer of a link that is up.                                              *)
THEOREM UpIsChecked ==
  Production /\ "cancel" \notin Ops /\ Spec => []UpHasFecCheck
<1> SUFFICES ASSUME Production, "cancel" \notin Ops
             PROVE  Spec => []UpHasFecCheck
  OBVIOUS
<1>1. Spec => [](TypeOK /\ InductiveQuiet /\ LifeInv)
  BY LifeHolds
<1>2. Init => UpHasFecCheck
  BY DEF Init, UpHasFecCheck
<1>3. TypeOK /\ InductiveQuiet /\ LifeInv /\ UpHasFecCheck /\ [Next]_vars
        => UpHasFecCheck'
  <2> SUFFICES ASSUME TypeOK, InductiveQuiet, LifeInv, UpHasFecCheck, [Next]_vars
               PROVE  UpHasFecCheck'
    OBVIOUS
  <2>1. CASE Hardware \/ Handler \/ RecoveryTimer \/ FecTimerFires \/ FecWork
    <3>1. UNCHANGED <<blstate, busy>>
      BY <2>1, AsyncLeaves DEF Production, linkVars, callVars
    <3> QED
      BY <2>1, <3>1, AsyncFec DEF UpHasFecCheck, Idle, FecPending
  <2>2. CASE UNCHANGED vars
    BY <2>2 DEF vars, linkVars, callVars, fecVars, UpHasFecCheck, Idle
  <2> QED
    BY <2>1, <2>2, CallerFec DEF Next
<1> QED
  BY <1>1, <1>2, <1>3, PTL DEF Spec

-----------------------------------------------------------------------------
(* The SerDes of a port that is down.  Where it is off on the way to the    *)
(* end of an operation, and at the start of the next.                       *)
Off == sstate \in {"DOWN", "ERROR"}

OffAt(t) ==
  /\ op[t] = "stop" /\ (\/ pc[t] \in {"pcsDown", "timer"}
                        \/ pc[t] = "out" /\ err = "OK")
       => Off
  /\ op[t] = "reset" /\ pc[t] \in {"pcsDown", "timer", "out"} => Off
  /\ At(t, "cleanup", "out") => Off
  /\ op[t] \in ConfigOps /\ pc[t] = "write" /\ busy = None => Off
  /\ At(t, "start", "set") => Off

OffInv == SerdesOffWhenDown /\ \A t \in Threads : OffAt(t)

LEMMA DownOff ==
  ASSUME TypeOK, OffInv, Production, NEW t \in Threads, Down(t)
  PROVE  /\ op'[t] = "stop" /\ (\/ pc'[t] \in {"pcsDown", "timer"}
                                \/ pc'[t] = "out" /\ err' = "OK")
              => Off'
         /\ op'[t] = "reset" /\ pc'[t] \in {"pcsDown", "timer", "out"} => Off'
         /\ op'[t] = "cleanup" /\ pc'[t] = "out" => Off'
<1>0. OffAt(t)
  BY DEF OffInv
<1> USE DEF TypeOK, CallType, Off, OffAt, chipVars, ChipUnchanged, Go, Fail, At
<1>1. CASE StopRefused(t) \/ StopEnds(t) \/ ResetEnds(t) \/ CleanupClears(t)
             \/ CleanupLeaves(t)
  BY <1>1 DEF StopRefused, StopEnds, ResetEnds, CleanupClears, CleanupLeaves,
     Refuse, Finish, Return
<1>2. CASE StopBegins(t) \/ ResetBegins(t) \/ CleanupBegins(t)
  BY <1>2 DEF StopBegins, ResetBegins, CleanupBegins, Take
<1>3. CASE StopFmDisable(t) \/ StopFmRemove(t) \/ OwnFmDisable(t)
             \/ OwnFmRemove(t)
  BY <1>3 DEF StopFmDisable, StopFmRemove, OwnFmDisable, OwnFmRemove
<1>4. CASE RecTest(t) \/ RecDelete(t) \/ RecCancelled(t)
  BY <1>4 DEF RecTest, RecDelete, RecCancelled, AfterRec
<1>5. CASE StopSerdes(t)
  <2>1. PICK e \in Errors :
          /\ SerdesStop(e)
          /\ \/ e = "OK" /\ Go(t, "stop", "serdesDown", "pcsDown")
             \/ e # "OK" /\ Fail(t, "stop", "serdesDown", "out", e)
    BY <1>5 DEF StopSerdes
  <2>2. e = "OK" => Off'
    BY <2>1 DEF SerdesStop, SerdesStopInternal, Production
  <2> QED
    BY <2>1, <2>2
<1>6. CASE CleanupSerdes(t)
  BY <1>6 DEF CleanupSerdes
<1>7. CASE ResetSerdes(t)
  BY <1>7 DEF ResetSerdes, SerdesReset
<1>8. CASE DownPcs(t)
  BY <1>0, <1>8 DEF DownPcs
<1>9. CASE DownTimer(t)
  BY <1>0, <1>9 DEF DownTimer
<1> QED
  BY <1>1, <1>2, <1>3, <1>4, <1>5, <1>6, <1>7, <1>8, <1>9
  DEF Down, Stop, Reset, Cleanup, Shared

LEMMA CallerOff ==
  ASSUME TypeOK, InductiveQuiet, LifeInv, OffInv, Production,
         NEW t \in Threads, Call(t) \/ Interrupted(t) \/ Caller(t)
  PROVE  OffInv'
<1>0. /\ \A u \in Threads \ {t} : op'[u] = op[u] /\ pc'[u] = pc[u]
      /\ OffAt(t) /\ StateAt(t)
      /\ t # None
  BY OthersStay, ConstantsAssumption DEF TypeOK, OffInv, LifeInv, StateHeld
<1>1. busy = None => UNCHANGED sstate
  BY <1>0, BystanderStep DEF chipVars
<1>2. ASSUME NEW u \in Threads \ {t} PROVE OffAt(u)'
  <2>0. OffAt(u)
    BY DEF OffInv
  <2>1. CASE busy = u
    <3>1. UNCHANGED <<sstate, err>>
      BY <2>1, BystanderStep DEF chipVars
    <3>2. op[u] \notin ConfigOps
      BY <2>1 DEF InductiveQuiet, BusyHolder, Holders, ConfigOps
    <3> QED
      BY <1>0, <2>0, <3>1, <3>2 DEF OffAt, Off, At
  <2>2. CASE busy # u /\ ~(op[u] \in ConfigOps /\ pc[u] = "write")
    <3>1. op[u] \notin Holders \/ pc[u] = "enter"
      BY <2>2 DEF InductiveQuiet, BusyHolder
    <3> QED
      BY <1>0, <2>2, <3>1 DEF OffAt, Holders, At
  <2>3. CASE op[u] \in ConfigOps /\ pc[u] = "write"
    <3> SUFFICES ASSUME busy' = None PROVE Off'
      BY <1>0, <2>3 DEF OffAt, At, ConfigOps
    <3>1. CASE busy = None
      BY <1>1, <2>0, <2>3, <3>1 DEF OffAt, Off
    <3>2. CASE busy # None
      <4>1. lock = u /\ u # None
        BY <2>3, ConstantsAssumption DEF InductiveQuiet, LockHolder
      <4>2. ~StopEnds(t)
        BY <4>1 DEF StopEnds
      <4>3. op[t] \notin Exclusive
        BY <2>3 DEF InductiveQuiet, OneExclusive, Exclusive, ConfigOps
      <4> QED
        BY <3>2, <4>2, <4>3, Frees DEF StartArm, StartFails, ResetEnds,
           CleanupClears, CleanupLeaves, Finish, At, S, Exclusive
    <3> QED
      BY <3>1, <3>2
  <2> QED
    BY <2>1, <2>2, <2>3
<1>3. OffAt(t)'
  <2>1. CASE op'[t] \in {"stop", "reset", "cleanup"}
    <3>1. CASE pc'[t] = "enter"
      BY <2>1, <3>1 DEF OffAt, At, ConfigOps
    <3>2. CASE pc'[t] # "enter"
      <4>1. Down(t)
        BY <2>1, <3>2, OwnStep DEF TypeOK
      <4> QED
        BY <2>1, <4>1, DownOff DEF OffAt, At, ConfigOps
    <3> QED
      BY <3>1, <3>2
  <2>2. CASE At(t, "start", "set")'
    <3>1. Start(t)
      BY <2>2, OwnStep DEF TypeOK, At
    <3>2. StartBegins(t)
      <4> USE <2>2 DEF At, TypeOK, CallType, S, Go, Fail
      <4>1. ~(StartRefused(t) \/ StartSet(t) \/ StartFirmware(t)
              \/ StartMode(t) \/ AnInstall(t) \/ AnTry(t))
        BY DEF StartRefused, StartSet, StartFirmware, StartMode, AnInstall,
           AnTry, Refuse, Return
      <4>2. ~(AnExchange(t) \/ AnDone(t) \/ StartAm(t) \/ StartLpDetect(t)
              \/ StartSerdes(t) \/ StartPml(t) \/ StartPmlClear(t))
        BY DEF AnExchange, AnDone, StartAm, StartLpDetect, StartSerdes,
           StartPml, StartPmlClear
      <4>3. ~(StartFec(t) \/ FmTest(t) \/ FmInstall(t) \/ FmEnable(t)
              \/ FmRetest(t) \/ FmUndoDisable(t) \/ FmUndoRemove(t))
        BY DEF StartFec, FmTest, FmInstall, FmEnable, FmRetest, FmUndoDisable,
           FmUndoRemove
      <4>4. ~(StartFinalCheck(t) \/ StartDone(t) \/ StartFmDisable(t)
              \/ StartFmRemove(t) \/ StartPcsDown(t) \/ StartSerdesDown(t)
              \/ StartArm(t) \/ StartFails(t))
        BY DEF StartFinalCheck, StartDone, StartFmDisable, StartFmRemove,
           StartPcsDown, StartSerdesDown, StartArm, StartFails, Finish, Return
      <4> QED
        BY <3>1, <4>1, <4>2, <4>3, <4>4 DEF Start
    <3>3. busy = None /\ blstate = "DOWN"
      BY <3>2 DEF StartBegins, Take
    <3>4. Off'
      BY <1>1, <3>3 DEF OffInv, SerdesOffWhenDown, Idle, Off
    <3> QED
      BY <3>4 DEF OffAt
  <2>3. CASE op'[t] \in ConfigOps /\ pc'[t] = "write"
    <3> SUFFICES ASSUME busy' = None PROVE Off'
      BY <2>3 DEF OffAt, At, ConfigOps
    <3>1. ConfigCheck(t) /\ op'[t] = op[t]
      BY <2>3, OwnStep DEF TypeOK
    <3>2. busy = None
      BY <3>1 DEF ConfigCheck, ConfigUnchanged
    <3>3. blstate \in {"DOWN", "UNCONFIGURED", "STOPPING"}
      <4>1. op'[t] # "none"
        BY <2>3 DEF ConfigOps
      <4> QED
        BY <3>1, <4>1 DEF ConfigCheck, ConfigStates, Return, TypeOK, CallType
    <3>4. blstate # "STOPPING"
      BY <3>2, ConstantsAssumption DEF InductiveQuiet, StopShows
    <3> QED
      BY <1>1, <3>2, <3>3, <3>4 DEF OffInv, SerdesOffWhenDown, Idle, Off
  <2> QED
    BY <2>1, <2>2, <2>3 DEF OffAt, At
<1>4. SerdesOffWhenDown'
  <2> SUFFICES ASSUME busy' = None, blstate' \in {"DOWN", "UNCONFIGURED"}
               PROVE  Off'
    BY DEF SerdesOffWhenDown, Idle, Off
  <2>1. CASE busy = None /\ blstate' = blstate
    BY <1>1, <2>1 DEF OffInv, SerdesOffWhenDown, Idle, Off
  <2>2. CASE busy = None /\ blstate' # blstate
    BY <1>0, <1>1, <2>2, RestChanges DEF OffAt, Off
  <2>3. CASE busy # None
    <3>1. ~StartFails(t)
      BY DEF StartFails
    <3>2. ~StartArm(t) /\ ~CleanupLeaves(t)
      BY <1>0 DEF StartArm, CleanupLeaves, Finish, At, S, StateAt, linkVars
    <3>3. CASE StopEnds(t)
      BY <1>0, <3>3 DEF StopEnds, Finish, At, OffAt, Off, chipVars
    <3>4. CASE ResetEnds(t) \/ CleanupClears(t)
      BY <1>0, <3>4 DEF ResetEnds, CleanupClears, Finish, At, OffAt, Off
    <3> QED
      BY <2>3, <3>1, <3>2, <3>3, <3>4, Frees
  <2> QED
    BY <2>1, <2>2, <2>3
<1> QED
  BY <1>2, <1>3, <1>4 DEF OffInv

LEMMA OffStep ==
  ASSUME TypeOK, InductiveQuiet, LifeInv, OffInv, Production, [Next]_vars
  PROVE  OffInv'
<1>1. ASSUME UNCHANGED <<blstate, busy, op, pc, err, sstate>> PROVE OffInv'
  BY <1>1 DEF OffInv, OffAt, SerdesOffWhenDown, Idle, Off, At
<1>2. CASE Hardware \/ Handler \/ RecoveryTimer \/ FecTimerFires \/ FecWork
  BY <1>1, <1>2, AsyncLeaves DEF Production, linkVars, callVars
<1>3. CASE UNCHANGED vars
  BY <1>1, <1>3 DEF vars, linkVars, callVars, chipVars
<1> QED
  BY <1>1, <1>2, <1>3, CallerOff DEF Next

(* It holds together with the invariants it rests on.                       *)
THEOREM OffHolds ==
  Production /\ Spec => [](TypeOK /\ InductiveQuiet /\ LifeInv /\ OffInv)
<1> SUFFICES ASSUME Production
             PROVE  Spec => [](TypeOK /\ InductiveQuiet /\ LifeInv /\ OffInv)
  OBVIOUS
<1>1. Spec => [](TypeOK /\ InductiveQuiet /\ LifeInv)
  BY LifeHolds
<1>2. Init => OffInv
  BY DEF Init, OffInv, OffAt, SerdesOffWhenDown, At, ConfigOps
<1>3. TypeOK /\ InductiveQuiet /\ LifeInv /\ OffInv /\ [Next]_vars => OffInv'
  BY OffStep
<1> QED
  BY <1>1, <1>2, <1>3, PTL DEF Spec

(* The SerDes of a port that is down or unconfigured does not run, however  *)
(* the port came to rest.                                                   *)
THEOREM SerdesIsOff == Production /\ Spec => []SerdesOffWhenDown
<1>1. OffInv => SerdesOffWhenDown
  BY DEF OffInv
<1> QED
  BY <1>1, OffHolds, PTL

(* The steps that set the registers of the PML block to their defaults find *)
(* the SerDes off; every other step that stops the PCS looks at it first.   *)
LEMMA PcsHeld ==
  ASSUME TypeOK, OffInv, NEW t \in Threads,
         Call(t) \/ Interrupted(t) \/ Caller(t),
         mattr = "OPTICAL", sstate = "RUNNING", pcsOn
  PROVE  pcsOn'
<1>0. OffAt(t)
  BY DEF OffInv
<1>1. pcsOn /\ ~PcsStops
  BY DEF PcsStops
<1>2. CASE Call(t) \/ Interrupted(t) \/ Configure(t)
  BY <1>2 DEF Call, Interrupted, Configure, ConfigCheck, ConfigWrite,
     MediaConfigWrite, MediaUnconfigWrite, EnableStart, CancelStart,
     CancelTimer, Unlock, ConfigUnchanged, chipVars
<1>3. CASE Down(t)
  <2>1. ~ResetEnds(t) /\ ~CleanupClears(t)
    BY <1>0 DEF ResetEnds, CleanupClears, Finish, At, OffAt, Off
  <2>2. PmlLinkDown => pcsOn'
    BY <1>1 DEF PmlLinkDown
  <2> QED
    BY <1>3, <2>1, <2>2 DEF Down, Stop, StopRefused, StopBegins, StopFmDisable,
       StopFmRemove, StopSerdes, StopEnds, Reset, Cleanup, ResetBegins,
       CleanupBegins, CleanupSerdes, CleanupLeaves, Shared, OwnFmDisable,
       OwnFmRemove, RecTest, RecDelete, RecCancelled, ResetSerdes, DownPcs,
       DownTimer, ChipUnchanged, chipVars
<1>4. CASE Start(t)
  <2>1. ~StartSet(t)
    BY <1>0 DEF StartSet, Go, S, OffAt, Off, At
  <2>2. CASE StartPcsDown(t)
    BY <1>1, <2>2 DEF StartPcsDown, PmlLinkDown
  <2>3. CASE StartRefused(t) \/ StartBegins(t) \/ StartFirmware(t)
             \/ StartMode(t) \/ AnInstall(t) \/ AnTry(t) \/ AnExchange(t)
    BY <2>3 DEF StartRefused, StartBegins, StartFirmware, StartMode, AnInstall,
       AnTry, AnExchange, chipVars
  <2>4. CASE AnDone(t) \/ StartAm(t) \/ StartLpDetect(t) \/ StartSerdes(t)
             \/ StartPml(t) \/ StartPmlClear(t) \/ StartFec(t)
    BY <2>4 DEF AnDone, StartAm, StartLpDetect, StartSerdes, StartPml,
       StartPmlClear, StartFec, chipVars
  <2>5. CASE FmTest(t) \/ FmInstall(t) \/ FmEnable(t) \/ FmRetest(t)
             \/ FmUndoDisable(t) \/ FmUndoRemove(t) \/ StartFinalCheck(t)
    BY <2>5 DEF FmTest, FmInstall, FmEnable, FmRetest, FmUndoDisable,
       FmUndoRemove, StartFinalCheck, chipVars
  <2>6. CASE StartDone(t) \/ StartArm(t) \/ StartFmDisable(t)
             \/ StartFmRemove(t) \/ StartSerdesDown(t) \/ StartFails(t)
    BY <2>6 DEF StartDone, StartArm, StartFmDisable, StartFmRemove,
       StartSerdesDown, StartFails, chipVars
  <2> QED
    BY <1>4, <2>1, <2>2, <2>3, <2>4, <2>5, <2>6 DEF Start
<1> QED
  BY <1>2, <1>3, <1>4 DEF Caller

(* The PCS of an optical port is never switched off while its SerDes runs,  *)
(* by whatever operation, start, stop, reset or cleanup, it is taken down.  *)
THEOREM OpticsAreSpared == Production /\ Spec => PcsHeldWhileSerdesRuns
<1> SUFFICES ASSUME Production PROVE Spec => PcsHeldWhileSerdesRuns
  OBVIOUS
<1> DEFINE Held == mattr = "OPTICAL" /\ sstate = "RUNNING" /\ pcsOn => pcsOn'
<1>1. TypeOK /\ OffInv /\ [Next]_vars => [Held]_vars
  <2>1. ASSUME Hardware \/ Handler \/ RecoveryTimer \/ FecTimerFires \/ FecWork,
               pcsOn
        PROVE  pcsOn'
    BY <2>1, AsyncLeaves
  <2> QED
    BY <2>1, PcsHeld DEF Next
<1>2. PcsHeldWhileSerdesRuns <=> [][Held]_vars
  BY DEF PcsHeldWhileSerdesRuns
<1> QED
  BY <1>1, <1>2, OffHolds, PTL DEF Spec
=============================================================================
