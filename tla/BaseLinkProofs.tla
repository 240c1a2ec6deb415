---------------------------- MODULE BaseLinkProofs ----------------------------
(***************************************************************************)
(* Proofs about a port, for every number of threads, kind of media, debug   *)
(* option and bound.  First its types: TypeOK is inductive as it stands,    *)
(* its parts are kept apart because most steps disturb only one or two of   *)
(* them.  Then that a port at rest is quiet, when the clients keep the      *)
(* contract of SerialClient.                                                *)
(***************************************************************************)
EXTENDS QuietInv, TLAPS

USE DEF Flags, BlStates, SStates, Errors

-----------------------------------------------------------------------------
(* Every initial state has the types.                                       *)
LEMMA InitTypeOK == Init => TypeOK
<1> SUFFICES ASSUME Init PROVE TypeOK
  OBVIOUS
<1>1. LinkType
  BY DEF Init, LinkType
<1>2. ChipType
  BY ConstantsAssumption, Zenon DEF Init, ChipType
<1>3. IntrType
  BY DEF Init, IntrType
<1>4. TimerType
  BY DEF Init, TimerType, HdlrPcs, RecPcs, FecPcs
<1>5. CallType
  BY DEF Init, CallType, Steps, StepOf
<1>6. CountType
  BY AnTriesAssumption, ConstantsAssumption DEF Init, CountType
<1> QED
  BY <1>1, <1>2, <1>3, <1>4, <1>5, <1>6 DEF TypeOK

(* The five ways a caller moves on keep the type of the callers' state when *)
(* the step it moves to is one of its operation.                            *)
LEMMA CallerTypes ==
  ASSUME CallType, NEW t \in Threads, NEW o
  PROVE  /\ \A from, to : StepOf(o, to) /\ Go(t, o, from, to) => CallType'
         /\ \A from, to : \A e \in Errors :
              StepOf(o, to) /\ Fail(t, o, from, to, e) => CallType'
         /\ \A to : StepOf(o, to) /\ Take(t, o, to) => CallType'
         /\ Refuse(t, o) => CallType'
         /\ \A from : Finish(t, o, from) => CallType'
<1> USE DEF CallType, Steps, StepOf, At
<1>1. ASSUME NEW from, NEW to, StepOf(o, to), Go(t, o, from, to)
      PROVE  CallType'
  BY <1>1 DEF Go
<1>2. ASSUME NEW from, NEW to, NEW e \in Errors, StepOf(o, to),
             Fail(t, o, from, to, e)
      PROVE  CallType'
  BY <1>2 DEF Fail
<1>3. ASSUME NEW to, StepOf(o, to), Take(t, o, to)
      PROVE  CallType'
  BY <1>3 DEF Take
<1>4. ASSUME Refuse(t, o)
      PROVE  CallType'
  BY <1>4 DEF Refuse, Return
<1>5. ASSUME NEW from, Finish(t, o, from)
      PROVE  CallType'
  BY <1>5 DEF Finish, Return
<1> HIDE DEF CallType, StepOf
<1> QED
  BY <1>1, <1>2, <1>3, <1>4, <1>5

-----------------------------------------------------------------------------
(* Every step of a start.                                                   *)
LEMMA StartTypeOK ==
  ASSUME TypeOK, NEW t \in Threads, Start(t)
  PROVE  TypeOK'
<1> USE DEF TypeOK, StartUnchanged, NoLinkChange, linkVars, chipVars,
     intrVars, hdlrVars, recVars, fecVars, Inhibit, S
<1>0. \A step \in StartSteps : StepOf("start", step)
  BY DEF StepOf
<1>1. CASE StartRefused(t)
  <2>1. CallType'
    BY <1>0, <1>1, CallerTypes DEF StartRefused, StartSteps
  <2>2. CountType'
    BY <1>1, AnTriesAssumption DEF StartRefused, CountType, Refuse
  <2> QED
    BY <1>1, <2>1, <2>2 DEF StartRefused, LinkType, ChipType, IntrType,
         TimerType
<1>2. CASE StartBegins(t)
  <2>1. CallType'
    BY <1>0, <1>2, CallerTypes DEF StartBegins, StartSteps
  <2>2. CountType'
    BY <1>2, AnTriesAssumption DEF StartBegins, CountType, Take
  <2> QED
    BY <1>2, <2>1, <2>2 DEF StartBegins, LinkType, ChipType, IntrType,
         TimerType
<1>3. CASE StartSet(t)
  <2>1. CallType'
    BY <1>0, <1>3, CallerTypes DEF StartSet, StartSteps
  <2>2. LinkType'
    BY <1>3 DEF StartSet, LinkType
  <2>3. ChipType'
    BY <1>3, ConstantsAssumption DEF StartSet, ChipType, PmlSetDefaults
  <2> QED
    BY <1>3, <2>1, <2>2, <2>3 DEF StartSet, IntrType, TimerType, CountType
<1>4. CASE StartFirmware(t)
  <2>1. CallType'
    BY <1>0, <1>4, CallerTypes DEF StartFirmware, StartSteps
  <2>2. ChipType'
    BY <1>4, ConstantsAssumption DEF StartFirmware, ChipType
  <2> QED
    BY <1>4, <2>1, <2>2 DEF StartFirmware, LinkType, IntrType, TimerType,
         CountType
<1>5. CASE StartMode(t)
  <2>1. CallType'
    BY <1>0, <1>5, CallerTypes DEF StartMode, StartSteps
  <2> QED
    BY <1>5, <2>1 DEF StartMode, LinkType, ChipType, IntrType, TimerType,
         CountType
<1>6. CASE AnInstall(t)
  <2>1. CallType'
    BY <1>0, <1>6, CallerTypes DEF AnInstall, StartSteps
  <2>2. IntrType'
    BY <1>6 DEF AnInstall, IntrType
  <2> QED
    BY <1>6, <2>1, <2>2 DEF AnInstall, LinkType, ChipType, TimerType,
         CountType
<1>7. CASE AnTry(t)
  <2>1. CallType'
    BY <1>0, <1>7, CallerTypes DEF AnTry, StartSteps
  <2>2. ChipType'
    BY <1>7, ConstantsAssumption DEF AnTry, ChipType
  <2>3. CountType'
    <3>1. \/ UNCHANGED anTries
          \/ anTries < AnTries /\ anTries' = anTries + 1
      <4>1. CASE anTries < AnTries
        BY <1>7, <4>1, Zenon DEF AnTry, Attempt
      <4>2. CASE ~(anTries < AnTries)
        BY <1>7, <4>2, Zenon DEF AnTry, Attempt
      <4> QED
        BY <4>1, <4>2
    <3>2. recPolls' = recPolls
      BY <1>7 DEF AnTry
    <3> QED
      BY <3>1, <3>2, AnTriesAssumption DEF CountType
  <2>4. IntrType'
    BY <1>7 DEF AnTry, IntrType
  <2> QED
    BY <1>7, <2>1, <2>2, <2>3, <2>4 DEF AnTry, LinkType, TimerType
<1>8. CASE AnExchange(t)
  <2>1. CallType'
    BY <1>0, <1>8, CallerTypes DEF AnExchange, StartSteps
  <2>2. ChipType'
    BY <1>8, ConstantsAssumption DEF AnExchange, ChipType, AnSerdesStop,
         SerdesStopInternal, SignalLost
  <2>3. IntrType'
    BY <1>8 DEF AnExchange, IntrType, AnSerdesStop, SerdesStopInternal,
         SignalLost
  <2> QED
    BY <1>8, <2>1, <2>2, <2>3 DEF AnExchange, LinkType, TimerType, CountType
<1>9. CASE AnDone(t)
  <2>1. CallType'
    BY <1>0, <1>9, CallerTypes DEF AnDone, StartSteps
  <2>2. ChipType'
    BY <1>9, ConstantsAssumption DEF AnDone, ChipType
  <2>3. IntrType'
    BY <1>9 DEF AnDone, IntrType, RemoveHandler
  <2> QED
    BY <1>9, <2>1, <2>2, <2>3 DEF AnDone, LinkType, TimerType, CountType
<1>10. CASE StartAm(t)
  <2>1. CallType'
    BY <1>0, <1>10, CallerTypes DEF StartAm, StartSteps
  <2>2. ChipType'
    BY <1>10, ConstantsAssumption DEF StartAm, ChipType
  <2> QED
    BY <1>10, <2>1, <2>2 DEF StartAm, LinkType, IntrType, TimerType, CountType
<1>11. CASE StartLpDetect(t)
  <2>1. CallType'
    BY <1>0, <1>11, CallerTypes DEF StartLpDetect, StartSteps
  <2>2. ChipType'
    BY <1>11, ConstantsAssumption DEF StartLpDetect, ChipType
  <2> QED
    BY <1>11, <2>1, <2>2 DEF StartLpDetect, LinkType, IntrType, TimerType,
         CountType
<1>12. CASE StartSerdes(t)
  <2>1. CallType'
    BY <1>0, <1>12, CallerTypes DEF StartSerdes, StartSteps
  <2>2. ChipType'
    BY <1>12, ConstantsAssumption DEF StartSerdes, ChipType
  <2> QED
    BY <1>12, <2>1, <2>2 DEF StartSerdes, LinkType, IntrType, TimerType,
         CountType
<1>13. CASE StartPml(t)
  <2>1. CallType'
    BY <1>0, <1>13, CallerTypes DEF StartPml, StartSteps
  <2>2. ChipType'
    BY <1>13, ConstantsAssumption DEF StartPml, ChipType
  <2> QED
    BY <1>13, <2>1, <2>2 DEF StartPml, LinkType, IntrType, TimerType,
         CountType
<1>14. CASE StartPmlClear(t)
  <2>1. CallType'
    BY <1>0, <1>14, CallerTypes DEF StartPmlClear, StartSteps
  <2>2. IntrType'
    BY <1>14 DEF StartPmlClear, IntrType
  <2> QED
    BY <1>14, <2>1, <2>2 DEF StartPmlClear, LinkType, ChipType, TimerType,
         CountType
<1>15. CASE StartFec(t)
  <2>1. CallType'
    BY <1>0, <1>15, CallerTypes DEF StartFec, StartSteps
  <2> QED
    BY <1>15, <2>1 DEF StartFec, LinkType, ChipType, IntrType, TimerType,
         CountType
<1>16. CASE FmTest(t)
  <2>1. CallType'
    BY <1>0, <1>16, CallerTypes DEF FmTest, StartSteps
  <2> QED
    BY <1>16, <2>1 DEF FmTest, LinkType, ChipType, IntrType, TimerType,
         CountType
<1>17. CASE FmInstall(t)
  <2>1. CallType'
    BY <1>0, <1>17, CallerTypes DEF FmInstall, StartSteps
  <2>2. IntrType'
    BY <1>17 DEF FmInstall, IntrType, FaultFlags
  <2> QED
    BY <1>17, <2>1, <2>2 DEF FmInstall, LinkType, ChipType, TimerType,
         CountType
<1>18. CASE FmEnable(t)
  <2>1. CallType'
    BY <1>0, <1>18, CallerTypes DEF FmEnable, StartSteps
  <2>2. IntrType'
    BY <1>18 DEF FmEnable, EnableHandler, IntrType, FaultFlags
  <2> QED
    BY <1>18, <2>1, <2>2 DEF FmEnable, LinkType, ChipType, TimerType,
         CountType
<1>19. CASE FmRetest(t)
  <2>1. CallType'
    BY <1>0, <1>19, CallerTypes DEF FmRetest, StartSteps
  <2> QED
    BY <1>19, <2>1 DEF FmRetest, LinkType, ChipType, IntrType, TimerType,
         CountType
<1>20. CASE FmUndoDisable(t)
  <2>1. CallType'
    BY <1>0, <1>20, CallerTypes DEF FmUndoDisable, StartSteps
  <2>2. IntrType'
    BY <1>20 DEF FmUndoDisable, IntrType, DisableHandler
  <2> QED
    BY <1>20, <2>1, <2>2 DEF FmUndoDisable, LinkType, ChipType, TimerType,
         CountType
<1>21. CASE FmUndoRemove(t)
  <2>1. CallType'
    BY <1>0, <1>21, CallerTypes DEF FmUndoRemove, StartSteps
  <2>2. IntrType'
    BY <1>21 DEF FmUndoRemove, IntrType, RemoveHandler
  <2> QED
    BY <1>21, <2>1, <2>2 DEF FmUndoRemove, LinkType, ChipType, TimerType,
         CountType
<1>22. CASE StartFinalCheck(t)
  <2>1. CallType'
    BY <1>0, <1>22, CallerTypes DEF StartFinalCheck, StartSteps
  <2> QED
    BY <1>22, <2>1 DEF StartFinalCheck, LinkType, ChipType, IntrType,
         TimerType, CountType
<1>23. CASE StartDone(t)
  <2>1. CallType'
    BY <1>0, <1>23, CallerTypes DEF StartDone, StartSteps
  <2>2. LinkType'
    BY <1>23 DEF StartDone, LinkType
  <2> QED
    BY <1>23, <2>1, <2>2 DEF StartDone, ChipType, IntrType, TimerType,
         CountType
<1>24. CASE StartArm(t)
  <2>1. CallType'
    BY <1>0, <1>24, CallerTypes DEF StartArm, StartSteps
  <2>2. TimerType'
    BY <1>24 DEF StartArm, TimerType, HdlrPcs, RecPcs, FecPcs
  <2>3. CountType'
    BY <1>24, AnTriesAssumption DEF StartArm, CountType, Finish
  <2> QED
    BY <1>24, <2>1, <2>2, <2>3 DEF StartArm, LinkType, ChipType, IntrType
<1>25. CASE StartFmDisable(t)
  <2>1. CallType'
    BY <1>0, <1>25, CallerTypes DEF StartFmDisable, StartSteps
  <2>2. IntrType'
    BY <1>25 DEF StartFmDisable, IntrType, DisableHandler
  <2> QED
    BY <1>25, <2>1, <2>2 DEF StartFmDisable, LinkType, ChipType, TimerType,
         CountType
<1>26. CASE StartFmRemove(t)
  <2>1. CallType'
    BY <1>0, <1>26, CallerTypes DEF StartFmRemove, StartSteps
  <2>2. IntrType'
    BY <1>26 DEF StartFmRemove, IntrType, RemoveHandler
  <2> QED
    BY <1>26, <2>1, <2>2 DEF StartFmRemove, LinkType, ChipType, TimerType,
         CountType
<1>27. CASE StartPcsDown(t)
  <2>1. CallType'
    BY <1>0, <1>27, CallerTypes DEF StartPcsDown, StartSteps
  <2>2. ChipType'
    BY <1>27, ConstantsAssumption DEF StartPcsDown, ChipType, PmlLinkDown
  <2>3. IntrType'
    BY <1>27 DEF StartPcsDown, IntrType, PmlLinkDown
  <2> QED
    BY <1>27, <2>1, <2>2, <2>3 DEF StartPcsDown, LinkType, TimerType,
         CountType
<1>28. CASE StartSerdesDown(t)
  <2>1. CallType'
    BY <1>0, <1>28, CallerTypes DEF StartSerdesDown, StartSteps
  <2>2. ChipType'
    BY <1>28, ConstantsAssumption DEF StartSerdesDown, ChipType, SerdesStop,
         SerdesStopInternal, SignalLost
  <2>3. IntrType'
    BY <1>28 DEF StartSerdesDown, IntrType, SerdesStop, SerdesStopInternal,
         SignalLost
  <2> QED
    BY <1>28, <2>1, <2>2, <2>3 DEF StartSerdesDown, LinkType, TimerType,
         CountType
<1>29. CASE StartFails(t)
  <2>1. CallType'
    BY <1>0, <1>29, CallerTypes DEF StartFails, StartSteps
  <2>2. LinkType'
    BY <1>29 DEF StartFails, LinkType, CallType
  <2>3. ChipType'
    BY <1>29, ConstantsAssumption DEF StartFails, ChipType
  <2>4. CountType'
    BY <1>29, AnTriesAssumption DEF StartFails, CountType, Finish
  <2> QED
    BY <1>29, <2>1, <2>2, <2>3, <2>4 DEF StartFails, IntrType, TimerType
<1> QED
  BY <1>1, <1>2, <1>3, <1>4, <1>5, <1>6, <1>7, <1>8, <1>9, <1>10, <1>11,
       <1>12, <1>13, <1>14, <1>15, <1>16, <1>17, <1>18, <1>19, <1>20, <1>21,
       <1>22, <1>23, <1>24, <1>25, <1>26, <1>27, <1>28, <1>29 DEF Start

(* Every step of a stop, a reset or a cleanup.                              *)
LEMMA DownTypeOK ==
  ASSUME TypeOK, NEW t \in Threads, Down(t)
  PROVE  TypeOK'
<1> USE DEF TypeOK, DownUnchanged, ChipUnchanged, linkVars, chipVars,
     intrVars, hdlrVars, recVars, fecVars
<1>0. /\ \A step \in StopSteps : StepOf("stop", step)
      /\ \A step \in ResetSteps : StepOf("reset", step)
      /\ \A step \in CleanupSteps : StepOf("cleanup", step)
  BY DEF StepOf
<1>1. CASE StopRefused(t)
  <2>1. CallType'
    BY <1>0, <1>1, CallerTypes DEF StopRefused, StopSteps, ResetSteps,
         CleanupSteps, AfterRec
  <2>2. CountType'
    BY <1>1, AnTriesAssumption DEF StopRefused, CountType, Refuse
  <2> QED
    BY <1>1, <2>1, <2>2 DEF StopRefused, LinkType, ChipType, IntrType,
         TimerType
<1>2. CASE StopBegins(t)
  <2>1. CallType'
    BY <1>0, <1>2, CallerTypes DEF StopBegins, StopSteps, ResetSteps,
         CleanupSteps, AfterRec
  <2>2. LinkType'
    BY <1>2 DEF StopBegins, LinkType
  <2>3. CountType'
    BY <1>2, AnTriesAssumption DEF StopBegins, CountType, Take
  <2> QED
    BY <1>2, <2>1, <2>2, <2>3 DEF StopBegins, ChipType, IntrType, TimerType
<1>3. CASE StopFmDisable(t)
  <2>1. CallType'
    BY <1>0, <1>3, CallerTypes DEF StopFmDisable, StopSteps, ResetSteps,
         CleanupSteps, AfterRec
  <2>2. IntrType'
    BY <1>3 DEF StopFmDisable, IntrType, DisableHandler
  <2> QED
    BY <1>3, <2>1, <2>2 DEF StopFmDisable, LinkType, ChipType, TimerType,
         CountType
<1>4. CASE StopFmRemove(t)
  <2>1. CallType'
    BY <1>0, <1>4, CallerTypes DEF StopFmRemove, StopSteps, ResetSteps,
         CleanupSteps, AfterRec
  <2>2. IntrType'
    BY <1>4 DEF StopFmRemove, IntrType, RemoveHandler
  <2> QED
    BY <1>4, <2>1, <2>2 DEF StopFmRemove, LinkType, ChipType, TimerType,
         CountType
<1>5. CASE StopSerdes(t)
  <2>1. CallType'
    BY <1>0, <1>5, CallerTypes DEF StopSerdes, StopSteps, ResetSteps,
         CleanupSteps, AfterRec
  <2>2. ChipType'
    BY <1>5, ConstantsAssumption DEF StopSerdes, ChipType, SerdesStop,
         SerdesStopInternal, SignalLost
  <2>3. IntrType'
    BY <1>5 DEF StopSerdes, IntrType, SerdesStop, SerdesStopInternal,
         SignalLost
  <2> QED
    BY <1>5, <2>1, <2>2, <2>3 DEF StopSerdes, LinkType, TimerType, CountType
<1>6. CASE StopEnds(t)
  <2>1. CallType'
    BY <1>0, <1>6, CallerTypes DEF StopEnds, StopSteps, ResetSteps,
         CleanupSteps, AfterRec
  <2>2. LinkType'
    BY <1>6 DEF StopEnds, LinkType, CallType
  <2>3. CountType'
    BY <1>6, AnTriesAssumption DEF StopEnds, CountType, Finish
  <2> QED
    BY <1>6, <2>1, <2>2, <2>3 DEF StopEnds, ChipType, IntrType, TimerType
<1>7. CASE ResetBegins(t)
  <2>1. CallType'
    BY <1>0, <1>7, CallerTypes DEF ResetBegins, StopSteps, ResetSteps,
         CleanupSteps, AfterRec
  <2>2. LinkType'
    BY <1>7 DEF ResetBegins, LinkType
  <2>3. CountType'
    BY <1>7, AnTriesAssumption DEF ResetBegins, CountType, Take
  <2> QED
    BY <1>7, <2>1, <2>2, <2>3 DEF ResetBegins, ChipType, IntrType, TimerType
<1>8. CASE ResetEnds(t)
  <2>1. CallType'
    BY <1>0, <1>8, CallerTypes DEF ResetEnds, StopSteps, ResetSteps,
         CleanupSteps, AfterRec
  <2>2. LinkType'
    BY <1>8 DEF ResetEnds, LinkType
  <2>3. ChipType'
    BY <1>8, ConstantsAssumption DEF ResetEnds, ChipType, PmlSetDefaults
  <2>4. IntrType'
    BY <1>8 DEF ResetEnds, IntrType
  <2>5. CountType'
    BY <1>8, AnTriesAssumption DEF ResetEnds, CountType, Finish
  <2> QED
    BY <1>8, <2>1, <2>2, <2>3, <2>4, <2>5 DEF ResetEnds, TimerType
<1>9. CASE CleanupBegins(t)
  <2>1. CallType'
    BY <1>0, <1>9, CallerTypes DEF CleanupBegins, StopSteps, ResetSteps,
         CleanupSteps, AfterRec
  <2>2. CountType'
    BY <1>9, AnTriesAssumption DEF CleanupBegins, CountType, Take
  <2> QED
    BY <1>9, <2>1, <2>2 DEF CleanupBegins, LinkType, ChipType, IntrType,
         TimerType
<1>10. CASE CleanupSerdes(t)
  <2>1. CallType'
    BY <1>0, <1>10, CallerTypes DEF CleanupSerdes, StopSteps, ResetSteps,
         CleanupSteps, AfterRec
  <2>2. ChipType'
    BY <1>10, ConstantsAssumption DEF CleanupSerdes, ChipType, SerdesStop,
         SerdesStopInternal, SignalLost, AnSerdesStop
  <2>3. IntrType'
    BY <1>10 DEF CleanupSerdes, IntrType, SerdesStop, SerdesStopInternal,
         SignalLost, AnSerdesStop
  <2> QED
    BY <1>10, <2>1, <2>2, <2>3 DEF CleanupSerdes, LinkType, TimerType,
         CountType
<1>11. CASE CleanupClears(t)
  <2>1. CallType'
    BY <1>0, <1>11, CallerTypes DEF CleanupClears, StopSteps, ResetSteps,
         CleanupSteps, AfterRec
  <2>2. LinkType'
    BY <1>11 DEF CleanupClears, LinkType
  <2>3. ChipType'
    BY <1>11, ConstantsAssumption DEF CleanupClears, ChipType, PmlSetDefaults
  <2>4. IntrType'
    BY <1>11 DEF CleanupClears, IntrType
  <2>5. CountType'
    BY <1>11, AnTriesAssumption DEF CleanupClears, CountType, Finish
  <2> QED
    BY <1>11, <2>1, <2>2, <2>3, <2>4, <2>5 DEF CleanupClears, TimerType
<1>12. CASE CleanupLeaves(t)
  <2>1. CallType'
    BY <1>0, <1>12, CallerTypes DEF CleanupLeaves, StopSteps, ResetSteps,
         CleanupSteps, AfterRec
  <2>2. CountType'
    BY <1>12, AnTriesAssumption DEF CleanupLeaves, CountType, Finish
  <2> QED
    BY <1>12, <2>1, <2>2 DEF CleanupLeaves, LinkType, ChipType, IntrType,
         TimerType
<1>13. CASE OwnFmDisable(t)
  <2>1. CallType'
    BY <1>0, <1>13, CallerTypes DEF OwnFmDisable, StopSteps, ResetSteps,
         CleanupSteps, AfterRec
  <2>2. IntrType'
    BY <1>13 DEF OwnFmDisable, IntrType, DisableHandler
  <2> QED
    BY <1>13, <2>1, <2>2 DEF OwnFmDisable, LinkType, ChipType, TimerType,
         CountType
<1>14. CASE OwnFmRemove(t)
  <2>1. CallType'
    BY <1>0, <1>14, CallerTypes DEF OwnFmRemove, StopSteps, ResetSteps,
         CleanupSteps, AfterRec
  <2>2. IntrType'
    BY <1>14 DEF OwnFmRemove, IntrType, RemoveHandler
  <2> QED
    BY <1>14, <2>1, <2>2 DEF OwnFmRemove, LinkType, ChipType, TimerType,
         CountType
<1>15. CASE RecTest(t)
  <2>1. CallType'
    BY <1>0, <1>15, CallerTypes DEF RecTest, StopSteps, ResetSteps,
         CleanupSteps, AfterRec
  <2> QED
    BY <1>15, <2>1 DEF RecTest, LinkType, ChipType, IntrType, TimerType,
         CountType
<1>16. CASE RecDelete(t)
  <2>1. CallType'
    BY <1>0, <1>16, CallerTypes DEF RecDelete, StopSteps, ResetSteps,
         CleanupSteps, AfterRec
  <2>2. TimerType'
    BY <1>16 DEF RecDelete, TimerType, HdlrPcs, RecPcs, FecPcs
  <2> QED
    BY <1>16, <2>1, <2>2 DEF RecDelete, LinkType, ChipType, IntrType,
         CountType
<1>17. CASE RecCancelled(t)
  <2>1. CallType'
    BY <1>0, <1>17, CallerTypes DEF RecCancelled, StopSteps, ResetSteps,
         CleanupSteps, AfterRec
  <2>2. TimerType'
    BY <1>17 DEF RecCancelled, TimerType, HdlrPcs, RecPcs, FecPcs
  <2> QED
    BY <1>17, <2>1, <2>2 DEF RecCancelled, LinkType, ChipType, IntrType,
         CountType
<1>18. CASE ResetSerdes(t)
  <2>1. CallType'
    BY <1>0, <1>18, CallerTypes DEF ResetSerdes, StopSteps, ResetSteps,
         CleanupSteps, AfterRec
  <2>2. ChipType'
    BY <1>18, ConstantsAssumption DEF ResetSerdes, ChipType, SerdesReset,
         SignalLost
  <2>3. IntrType'
    BY <1>18 DEF ResetSerdes, IntrType, SerdesReset, SignalLost
  <2> QED
    BY <1>18, <2>1, <2>2, <2>3 DEF ResetSerdes, LinkType, TimerType, CountType
<1>19. CASE DownPcs(t)
  <2>1. CallType'
    BY <1>0, <1>19, CallerTypes DEF DownPcs, StopSteps, ResetSteps,
         CleanupSteps, AfterRec
  <2>2. ChipType'
    BY <1>19, ConstantsAssumption DEF DownPcs, ChipType, PmlLinkDown
  <2>3. IntrType'
    BY <1>19 DEF DownPcs, IntrType, PmlLinkDown
  <2> QED
    BY <1>19, <2>1, <2>2, <2>3 DEF DownPcs, LinkType, TimerType, CountType
<1>20. CASE DownTimer(t)
  <2>1. CallType'
    BY <1>0, <1>20, CallerTypes DEF DownTimer, StopSteps, ResetSteps,
         CleanupSteps, AfterRec
  <2>2. TimerType'
    BY <1>20 DEF DownTimer, TimerType, HdlrPcs, RecPcs, FecPcs
  <2> QED
    BY <1>20, <2>1, <2>2 DEF DownTimer, LinkType, ChipType, IntrType,
         CountType
<1> QED
  BY <1>1, <1>2, <1>3, <1>4, <1>5, <1>6, <1>7, <1>8, <1>9, <1>10, <1>11,
       <1>12, <1>13, <1>14, <1>15, <1>16, <1>17, <1>18, <1>19, <1>20 DEF Down,
       Stop, Reset, Cleanup, Shared

(* Every step of the calls that take only the data lock.                    *)
LEMMA ConfigureTypeOK ==
  ASSUME TypeOK, NEW t \in Threads, Configure(t)
  PROVE  TypeOK'
<1> USE DEF TypeOK, ConfigUnchanged, linkVars, chipVars, intrVars, hdlrVars,
     recVars, fecVars
<1>0. StepOf("cancel", "timer")
  BY DEF StepOf, CancelSteps
<1>1. CASE ConfigCheck(t)
  <2>1. CallType'
    BY <1>1 DEF ConfigCheck, CallType, Steps, StepOf, ConfigOps, ConfigSteps,
         CancelSteps, Return, At
  <2> QED
    BY <1>1, <2>1 DEF ConfigCheck, LinkType, ChipType, IntrType, TimerType,
         CountType
<1>2. CASE ConfigWrite(t)
  <2>1. CallType'
    BY <1>2 DEF ConfigWrite, CallType, Steps, StepOf, ConfigOps, ConfigSteps,
         CancelSteps, Unlock, Return, At
  <2>2. LinkType'
    BY <1>2 DEF ConfigWrite, LinkType, Unlock
  <2> QED
    BY <1>2, <2>1, <2>2 DEF ConfigWrite, ChipType, IntrType, TimerType,
         CountType, Unlock
<1>3. CASE MediaConfigWrite(t)
  <2>1. CallType'
    BY <1>3 DEF MediaConfigWrite, CallType, Steps, StepOf, ConfigOps,
         ConfigSteps, CancelSteps, Unlock, Return, At
  <2>2. LinkType'
    BY <1>3 DEF MediaConfigWrite, LinkType, Unlock
  <2> QED
    BY <1>3, <2>1, <2>2 DEF MediaConfigWrite, ChipType, IntrType, TimerType,
         CountType, Unlock
<1>4. CASE MediaUnconfigWrite(t)
  <2>1. CallType'
    BY <1>4 DEF MediaUnconfigWrite, CallType, Steps, StepOf, ConfigOps,
         ConfigSteps, CancelSteps, Unlock, Return, At
  <2>2. LinkType'
    BY <1>4 DEF MediaUnconfigWrite, LinkType, Unlock
  <2> QED
    BY <1>4, <2>1, <2>2 DEF MediaUnconfigWrite, ChipType, IntrType, TimerType,
         CountType, Unlock
<1>5. CASE EnableStart(t)
  <2>1. CallType'
    BY <1>5 DEF EnableStart, CallType, Steps, StepOf, ConfigOps, ConfigSteps,
         CancelSteps, Return, At
  <2>2. LinkType'
    BY <1>5 DEF EnableStart, LinkType
  <2> QED
    BY <1>5, <2>1, <2>2 DEF EnableStart, ChipType, IntrType, TimerType,
         CountType
<1>6. CASE CancelStart(t)
  <2>1. CallType'
    BY <1>0, <1>6, CallerTypes DEF CancelStart, ConfigOps, ConfigSteps,
         CancelSteps
  <2>2. LinkType'
    BY <1>6 DEF CancelStart, LinkType
  <2> QED
    BY <1>6, <2>1, <2>2 DEF CancelStart, ChipType, IntrType, TimerType,
         CountType
<1>7. CASE CancelTimer(t)
  <2>1. CallType'
    BY <1>7 DEF CancelTimer, CallType, Steps, StepOf, ConfigOps, ConfigSteps,
         CancelSteps, Return, At
  <2>2. TimerType'
    BY <1>7 DEF CancelTimer, TimerType, HdlrPcs, RecPcs, FecPcs
  <2> QED
    BY <1>7, <2>1, <2>2 DEF CancelTimer, LinkType, ChipType, IntrType,
         CountType
<1> QED
  BY <1>1, <1>2, <1>3, <1>4, <1>5, <1>6, <1>7 DEF Configure

(* Every step of the hardware.                                              *)
LEMMA HardwareTypeOK ==
  ASSUME TypeOK, Hardware
  PROVE  TypeOK'
<1> USE DEF TypeOK, HwUnchanged, linkVars, chipVars, intrVars, hdlrVars,
     recVars, fecVars, callVars
<1>1. CASE PcsLost
  <2>1. ChipType'
    BY <1>1, ConstantsAssumption DEF PcsLost, ChipType
  <2>2. IntrType'
    BY <1>1 DEF PcsLost, IntrType
  <2> QED
    BY <1>1, <2>1, <2>2 DEF PcsLost, LinkType, TimerType, CountType, CallType
<1>2. CASE RemoteFault
  <2>1. ChipType'
    BY <1>2, ConstantsAssumption DEF RemoteFault, ChipType
  <2>2. IntrType'
    BY <1>2 DEF RemoteFault, IntrType
  <2> QED
    BY <1>2, <2>1, <2>2 DEF RemoteFault, LinkType, TimerType, CountType,
         CallType
<1>3. CASE PcsRestored
  <2>1. ChipType'
    BY <1>3, ConstantsAssumption DEF PcsRestored, ChipType
  <2> QED
    BY <1>3, <2>1 DEF PcsRestored, LinkType, IntrType, TimerType, CountType,
         CallType
<1>4. CASE FlagRaised
  <2>1. IntrType'
    BY <1>4, ConstantsAssumption DEF FlagRaised, IntrType
  <2> QED
    BY <1>4, <2>1 DEF FlagRaised, LinkType, ChipType, TimerType, CountType,
         CallType
<1> QED
  BY <1>1, <1>2, <1>3, <1>4 DEF Hardware

(* Every step of the interrupt handler.                                     *)
LEMMA HandlerTypeOK ==
  ASSUME TypeOK, Handler
  PROVE  TypeOK'
<1> USE DEF TypeOK, linkVars, chipVars, intrVars, hdlrVars, recVars, fecVars,
     callVars
<1>1. CASE HdlrEnter
  <2>1. TimerType'
    BY <1>1 DEF HdlrEnter, TimerType, HdlrStep, IntrType, HdlrPcs, RecPcs,
         FecPcs
  <2> QED
    BY <1>1, <2>1 DEF HdlrEnter, LinkType, ChipType, IntrType, CountType,
         CallType
<1>2. CASE HdlrOrigin
  <2>1. TimerType'
    BY <1>2 DEF HdlrOrigin, TimerType, HdlrStep, HdlrPcs, RecPcs, FecPcs
  <2> QED
    BY <1>2, <2>1 DEF HdlrOrigin, LinkType, ChipType, IntrType, CountType,
         CallType
<1>3. CASE HdlrDisable
  <2>1. LinkType'
    BY <1>3 DEF HdlrDisable, LinkType, LinkDownDisable, DisableHandler
  <2>2. IntrType'
    BY <1>3 DEF HdlrDisable, IntrType, LinkDownDisable, DisableHandler
  <2>3. TimerType'
    BY <1>3 DEF HdlrDisable, TimerType, HdlrStep, HdlrPcs, RecPcs, FecPcs
  <2> QED
    BY <1>3, <2>1, <2>2, <2>3 DEF HdlrDisable, ChipType, CountType, CallType
<1>4. CASE HdlrAlert
  <2>1. LinkType'
    BY <1>4 DEF HdlrAlert, LinkType, LinkDownAlert
  <2>2. TimerType'
    BY <1>4 DEF HdlrAlert, TimerType, HdlrStep, HdlrPcs, RecPcs, FecPcs
  <2> QED
    BY <1>4, <2>1, <2>2 DEF HdlrAlert, ChipType, IntrType, CountType,
         CallType, LinkDownAlert
<1>5. CASE HdlrRecover
  <2>1. TimerType'
    BY <1>5 DEF HdlrRecover, TimerType, HdlrStep, HdlrPcs, RecPcs, FecPcs
  <2>2. CountType'
    BY <1>5, AnTriesAssumption, ConstantsAssumption DEF HdlrRecover, CountType
  <2> QED
    BY <1>5, <2>1, <2>2 DEF HdlrRecover, LinkType, ChipType, IntrType,
         CallType
<1>6. CASE HdlrRate
  <2>1. TimerType'
    BY <1>6 DEF HdlrRate, TimerType, HdlrStep, HdlrPcs, RecPcs, FecPcs
  <2> QED
    BY <1>6, <2>1 DEF HdlrRate, LinkType, ChipType, IntrType, CountType,
         CallType
<1>7. CASE HdlrRateEnd
  <2>1. TimerType'
    BY <1>7 DEF HdlrRateEnd, TimerType, HdlrStep, HdlrPcs, RecPcs, FecPcs
  <2> QED
    BY <1>7, <2>1 DEF HdlrRateEnd, LinkType, ChipType, IntrType, CountType,
         CallType
<1>8. CASE HdlrAddTimer
  <2>1. ChipType'
    BY <1>8, ConstantsAssumption DEF HdlrAddTimer, ChipType, SignalLost
  <2>2. IntrType'
    BY <1>8 DEF HdlrAddTimer, IntrType, SignalLost
  <2>3. TimerType'
    BY <1>8 DEF HdlrAddTimer, TimerType, HdlrStep, HdlrPcs, RecPcs, FecPcs
  <2> QED
    BY <1>8, <2>1, <2>2, <2>3 DEF HdlrAddTimer, LinkType, CountType, CallType
<1>9. CASE HdlrClear
  <2>1. IntrType'
    BY <1>9 DEF HdlrClear, IntrType
  <2>2. TimerType'
    BY <1>9 DEF HdlrClear, TimerType, HdlrStep, HdlrPcs, RecPcs, FecPcs
  <2> QED
    BY <1>9, <2>1, <2>2 DEF HdlrClear, LinkType, ChipType, CountType, CallType
<1> QED
  BY <1>1, <1>2, <1>3, <1>4, <1>5, <1>6, <1>7, <1>8, <1>9 DEF Handler

(* Every step of the recovery timer's callback.                             *)
LEMMA RecoveryTypeOK ==
  ASSUME TypeOK, RecoveryTimer
  PROVE  TypeOK'
<1> USE DEF TypeOK, RecUnchanged, linkVars, chipVars, intrVars, hdlrVars,
     recVars, fecVars, callVars
<1>1. CASE RecFire
  <2>1. TimerType'
    BY <1>1 DEF RecFire, TimerType, HdlrPcs, RecPcs, FecPcs
  <2> QED
    BY <1>1, <2>1 DEF RecFire, LinkType, ChipType, IntrType, CountType,
         CallType
<1>2. CASE RecPollClean
  <2>1. TimerType'
    BY <1>2 DEF RecPollClean, TimerType, HdlrPcs, RecPcs, FecPcs
  <2> QED
    BY <1>2, <2>1 DEF RecPollClean, LinkType, ChipType, IntrType, CountType,
         CallType
<1>3. CASE RecPollGiveUp
  <2>1. TimerType'
    BY <1>3 DEF RecPollGiveUp, TimerType, HdlrPcs, RecPcs, FecPcs
  <2> QED
    BY <1>3, <2>1 DEF RecPollGiveUp, LinkType, ChipType, IntrType, CountType,
         CallType
<1>4. CASE RecPollAgain
  <2>1. TimerType'
    BY <1>4 DEF RecPollAgain, TimerType, HdlrPcs, RecPcs, FecPcs
  <2>2. CountType'
    BY <1>4, AnTriesAssumption, ConstantsAssumption DEF RecPollAgain,
         CountType
  <2> QED
    BY <1>4, <2>1, <2>2 DEF RecPollAgain, LinkType, ChipType, IntrType,
         CallType
<1>5. CASE RecDisable
  <2>1. LinkType'
    BY <1>5 DEF RecDisable, LinkType, LinkDownDisable, DisableHandler
  <2>2. IntrType'
    BY <1>5 DEF RecDisable, IntrType, LinkDownDisable, DisableHandler
  <2>3. TimerType'
    BY <1>5 DEF RecDisable, TimerType, HdlrPcs, RecPcs, FecPcs
  <2> QED
    BY <1>5, <2>1, <2>2, <2>3 DEF RecDisable, ChipType, CountType, CallType
<1>6. CASE RecAlert
  <2>1. LinkType'
    BY <1>6 DEF RecAlert, LinkType, LinkDownAlert
  <2>2. TimerType'
    BY <1>6 DEF RecAlert, TimerType, HdlrPcs, RecPcs, FecPcs
  <2> QED
    BY <1>6, <2>1, <2>2 DEF RecAlert, ChipType, IntrType, CountType, CallType,
         LinkDownAlert
<1>7. CASE RecEnd
  <2>1. TimerType'
    BY <1>7 DEF RecEnd, TimerType, HdlrPcs, RecPcs, FecPcs
  <2> QED
    BY <1>7, <2>1 DEF RecEnd, LinkType, ChipType, IntrType, CountType,
         CallType
<1> QED
  BY <1>1, <1>2, <1>3, <1>4, <1>5, <1>6, <1>7 DEF RecoveryTimer

(* Every step of the FEC work.                                              *)
LEMMA FecTypeOK ==
  ASSUME TypeOK, FecWork
  PROVE  TypeOK'
<1> USE DEF TypeOK, FecUnchanged, linkVars, chipVars, intrVars, hdlrVars,
     recVars, fecVars, callVars
<1>1. CASE FecWorkBegins
  <2>1. TimerType'
    BY <1>1 DEF FecWorkBegins, TimerType, HdlrPcs, RecPcs, FecPcs
  <2> QED
    BY <1>1, <2>1 DEF FecWorkBegins, LinkType, ChipType, IntrType, CountType,
         CallType
<1>2. CASE FecRatesGood
  <2>1. TimerType'
    BY <1>2 DEF FecRatesGood, TimerType, HdlrPcs, RecPcs, FecPcs
  <2> QED
    BY <1>2, <2>1 DEF FecRatesGood, LinkType, ChipType, IntrType, CountType,
         CallType
<1>3. CASE FecRatesBad
  <2>1. TimerType'
    BY <1>3 DEF FecRatesBad, TimerType, HdlrPcs, RecPcs, FecPcs
  <2> QED
    BY <1>3, <2>1 DEF FecRatesBad, LinkType, ChipType, IntrType, CountType,
         CallType
<1>4. CASE FecDisable
  <2>1. LinkType'
    BY <1>4 DEF FecDisable, LinkType, LinkDownDisable, DisableHandler
  <2>2. IntrType'
    BY <1>4 DEF FecDisable, IntrType, LinkDownDisable, DisableHandler
  <2>3. TimerType'
    BY <1>4 DEF FecDisable, TimerType, HdlrPcs, RecPcs, FecPcs
  <2> QED
    BY <1>4, <2>1, <2>2, <2>3 DEF FecDisable, ChipType, CountType, CallType
<1>5. CASE FecAlert
  <2>1. LinkType'
    BY <1>5 DEF FecAlert, LinkType, LinkDownAlert
  <2>2. TimerType'
    BY <1>5 DEF FecAlert, TimerType, HdlrPcs, RecPcs, FecPcs
  <2> QED
    BY <1>5, <2>1, <2>2 DEF FecAlert, ChipType, IntrType, CountType, CallType,
         LinkDownAlert
<1>6. CASE FecRearm
  <2>1. TimerType'
    BY <1>6 DEF FecRearm, TimerType, HdlrPcs, RecPcs, FecPcs
  <2> QED
    BY <1>6, <2>1 DEF FecRearm, LinkType, ChipType, IntrType, CountType,
         CallType
<1> QED
  BY <1>1, <1>2, <1>3, <1>4, <1>5, <1>6 DEF FecWork

-----------------------------------------------------------------------------
(* A client's call and its interruption.                                    *)
LEMMA CallTypeOK ==
  ASSUME TypeOK, NEW t \in Threads, Call(t) \/ Interrupted(t)
  PROVE  TypeOK'
<1> USE DEF TypeOK, linkVars, chipVars, intrVars, hdlrVars, recVars, fecVars
<1>1. CASE Call(t)
  <2>1. CallType'
    BY <1>1, ClientAssumption
    DEF Call, CallType, Steps, StepOf, AllOps, StartSteps, StopSteps, ResetSteps,
        CleanupSteps, ConfigOps, ConfigSteps, CancelSteps
  <2> QED
    BY <1>1, <2>1 DEF Call, LinkType, ChipType, IntrType, TimerType, CountType
<1>2. CASE Interrupted(t)
  <2>1. CallType'
    BY <1>2 DEF Interrupted, Return, CallType, Steps, StepOf
  <2> QED
    BY <1>2, <2>1
    DEF Interrupted, LinkType, ChipType, IntrType, TimerType, CountType
<1> QED
  BY <1>1, <1>2

(* A step that changes nothing.                                             *)
LEMMA StutterTypeOK == ASSUME TypeOK, UNCHANGED vars PROVE TypeOK'
BY DEF TypeOK, LinkType, ChipType, IntrType, TimerType, CallType, CountType,
       vars, linkVars, chipVars, intrVars, hdlrVars, recVars, fecVars, callVars

(* Every variable always has a value of its type, and every thread is at a  *)
(* step of the operation it runs.                                           *)
THEOREM TypeCorrect == Spec => []TypeOK
<1>1. Init => TypeOK
  BY InitTypeOK
<1>2. TypeOK /\ [Next]_vars => TypeOK'
  <2> SUFFICES ASSUME TypeOK, [Next]_vars PROVE TypeOK'
    OBVIOUS
  <2>1. ASSUME NEW t \in Threads, Call(t) \/ Interrupted(t) \/ Caller(t)
        PROVE  TypeOK'
    BY <2>1, CallTypeOK, StartTypeOK, DownTypeOK, ConfigureTypeOK DEF Caller
  <2>2. CASE FecTimerFires
    <3> USE DEF TypeOK, FecTimerFires, FecUnchanged, linkVars, chipVars,
                intrVars, hdlrVars, recVars, callVars
    <3>1. TimerType'
      BY <2>2 DEF TimerType
    <3> QED
      BY <2>2, <3>1 DEF LinkType, ChipType, IntrType, CallType, CountType
  <2> QED
    BY <2>1, <2>2, HardwareTypeOK, HandlerTypeOK, RecoveryTypeOK, FecTypeOK,
       StutterTypeOK DEF Next
<1> QED
  BY <1>1, <1>2, PTL DEF Spec

-----------------------------------------------------------------------------
(* A port at rest is quiet.  The initial states.                            *)
LEMMA InitQuiet == Init => InductiveQuiet
<1> SUFFICES ASSUME Init PROVE InductiveQuiet
  OBVIOUS
<1>1. BusyHolder /\ LockHolder /\ OneExclusive
  BY ConstantsAssumption
  DEF Init, BusyHolder, LockHolder, OneExclusive, Holders, ConfigOps, Exclusive
<1>2. HandlerRegistered /\ StopShows /\ UnwatchedQuiet /\ ArmedUp /\ QuietWhenDown
  BY DEF Init, HandlerRegistered, StopShows, UnwatchedQuiet, ArmedUp, At,
         QuietWhenDown
<1> QED
  BY <1>1, <1>2 DEF InductiveQuiet

-----------------------------------------------------------------------------
(* The interrupts, timers and work never touch the callers or the           *)
(* registration; the most they do to the state is to report an error.       *)
LEMMA AsyncQuiet ==
  ASSUME InductiveQuiet, UNCHANGED <<callVars, intrFlgs>>,
         blstate' \in {blstate, "ERROR"},
         hpc' = hpc \/ hpc # "idle" \/ intrFlgs # {}
  PROVE  InductiveQuiet'
<1> USE DEF InductiveQuiet, callVars
<1>1. BusyHolder' /\ LockHolder' /\ OneExclusive'
  BY DEF BusyHolder, LockHolder, OneExclusive
<1>2. HandlerRegistered'
  BY DEF HandlerRegistered
<1>3. StopShows'
  BY DEF StopShows
<1>4. UnwatchedQuiet'
  BY DEF UnwatchedQuiet, Unwatched
<1>5. ArmedUp'
  BY DEF ArmedUp, At
<1>6. QuietWhenDown'
  BY DEF QuietWhenDown, Idle, HandlerRegistered
<1> QED
  BY <1>1, <1>2, <1>3, <1>4, <1>5, <1>6

(* A step of the operation that holds busy_mtx.                             *)
LEMMA HolderStep ==
  ASSUME InductiveQuiet, CallType, NEW t \in Threads, NEW to,
         op[t] \in Holders, pc[t] # "enter", to # "enter",
         UNCHANGED <<busy, lock, op, hpc>>, pc' = [pc EXCEPT ![t] = to],
         intrFlgs' = {} => intrFlgs = {} \/ (RemoveWaits => hpc = "idle"),
         blstate' = "STOPPING" => blstate = "STOPPING",
         Unwatched(t)' => intrFlgs' = {},
         At(t, "start", "arm")' => blstate' \notin {"DOWN", "UNCONFIGURED"}
  PROVE  InductiveQuiet'
<1> USE DEF InductiveQuiet
<1>0. busy = t /\ t # None /\ pc'[t] = to /\ \A u \in Threads \ {t} : pc'[u] = pc[u]
  BY ConstantsAssumption DEF BusyHolder, CallType
<1>1. BusyHolder' /\ LockHolder' /\ OneExclusive'
  <2>1. BusyHolder'
    BY <1>0, ConstantsAssumption DEF BusyHolder
  <2>2. LockHolder'
    BY <1>0 DEF LockHolder, Holders, ConfigOps
  <2>3. OneExclusive'
    BY <1>0 DEF OneExclusive
  <2> QED
    BY <2>1, <2>2, <2>3
<1>2. HandlerRegistered'
  BY DEF HandlerRegistered
<1>3. StopShows'
  BY DEF StopShows
<1>4. \A u \in Threads \ {t} : ~Unwatched(u)' /\ ~At(u, "start", "arm")'
  BY <1>0, <1>1 DEF BusyHolder, Unwatched, At, Holders, ResetSteps
<1>5. UnwatchedQuiet' /\ ArmedUp'
  BY <1>4 DEF UnwatchedQuiet, ArmedUp
<1>6. QuietWhenDown'
  BY <1>0 DEF QuietWhenDown, Idle
<1> QED
  BY <1>1, <1>2, <1>3, <1>5, <1>6

(* The first step of such an operation.                                     *)
LEMMA TakeStep ==
  ASSUME InductiveQuiet, CallType, NEW t \in Threads, NEW o \in Holders, NEW to,
         Take(t, o, to), to \notin {"enter", "arm"}, UNCHANGED <<hpc, intrFlgs>>,
         blstate' = "STOPPING" =>
           \/ o = "stop" /\ "KEEP_SERDES_UP" \notin Debug
           \/ blstate = "STOPPING",
         Unwatched(t)' => intrFlgs' = {}
  PROVE  InductiveQuiet'
<1> USE DEF InductiveQuiet, Take, At
<1>0. /\ busy = None /\ busy' = t /\ t # None /\ op[t] = o /\ pc'[t] = to
      /\ UNCHANGED <<lock, op>> /\ \A u \in Threads \ {t} : pc'[u] = pc[u]
  BY ConstantsAssumption DEF CallType
<1>1. BusyHolder' /\ LockHolder' /\ OneExclusive'
  <2>1. BusyHolder'
    BY <1>0, ConstantsAssumption DEF BusyHolder
  <2>2. LockHolder'
    BY <1>0 DEF LockHolder, Holders, ConfigOps
  <2>3. OneExclusive'
    BY <1>0 DEF OneExclusive
  <2> QED
    BY <2>1, <2>2, <2>3
<1>2. HandlerRegistered'
  BY DEF HandlerRegistered
<1>3. StopShows'
  BY <1>0, ConstantsAssumption DEF StopShows
<1>4. \A u \in Threads \ {t} : ~Unwatched(u)' /\ ~At(u, "start", "arm")'
  BY <1>0, <1>1 DEF BusyHolder, Unwatched, Holders, ResetSteps
<1>5. UnwatchedQuiet' /\ ArmedUp'
  BY <1>0, <1>4 DEF UnwatchedQuiet, ArmedUp
<1>6. QuietWhenDown'
  BY <1>0 DEF QuietWhenDown, Idle
<1> QED
  BY <1>1, <1>2, <1>3, <1>5, <1>6

(* Its last step.                                                           *)
LEMMA FinishStep ==
  ASSUME InductiveQuiet, CallType, NEW t \in Threads, NEW o \in Holders, NEW from,
         Finish(t, o, from), from # "enter", UNCHANGED <<hpc, intrFlgs>>,
         blstate' # "STOPPING",
         blstate' \in {"DOWN", "UNCONFIGURED"} => intrFlgs = {},
         lock = None \/ o # "stop"
  PROVE  InductiveQuiet'
<1> USE DEF InductiveQuiet, Finish, Return, At
<1>0. /\ busy = t /\ busy' = None /\ t # None /\ op[t] = o /\ UNCHANGED lock
      /\ op'[t] = "none" /\ pc'[t] = "idle"
      /\ \A u \in Threads \ {t} : pc'[u] = pc[u] /\ op'[u] = op[u]
  BY ConstantsAssumption DEF CallType, BusyHolder
<1>1. BusyHolder' /\ LockHolder' /\ OneExclusive'
  <2>1. BusyHolder'
    BY <1>0, ConstantsAssumption DEF BusyHolder, Holders
  <2>2. LockHolder'
    BY <1>0 DEF LockHolder, Holders, ConfigOps
  <2>3. OneExclusive'
    BY <1>0 DEF OneExclusive, Exclusive
  <2> QED
    BY <2>1, <2>2, <2>3
<1>2. HandlerRegistered'
  BY DEF HandlerRegistered
<1>3. StopShows'
  BY DEF StopShows
<1>4. \A u \in Threads : ~(op[u] \in ConfigOps /\ pc[u] = "write")
  BY <1>0, ConstantsAssumption DEF LockHolder, OneExclusive, Exclusive, ConfigOps, Holders
<1>5. \A u \in Threads : ~Unwatched(u)' /\ ~At(u, "start", "arm")'
  BY <1>0, <1>1, <1>4 DEF BusyHolder, Unwatched, Holders, ResetSteps, ConfigOps
<1>6. UnwatchedQuiet' /\ ArmedUp'
  BY <1>5 DEF UnwatchedQuiet, ArmedUp
<1>7. QuietWhenDown'
  BY <1>0 DEF QuietWhenDown, Idle, HandlerRegistered
<1> QED
  BY <1>1, <1>2, <1>3, <1>6, <1>7

(* A step of a thread that holds neither lock, before and after.            *)
LEMMA OutsideStep ==
  ASSUME InductiveQuiet, CallType, NEW t \in Threads, NEW o, NEW step,
         UNCHANGED <<blstate, intrFlgs, hpc, busy, lock, err>>,
         op' = [op EXCEPT ![t] = o], pc' = [pc EXCEPT ![t] = step],
         op[t] \notin Holders \cup ConfigOps \/ pc[t] = "enter",
         o \notin Holders \cup ConfigOps \/ step = "enter",
         o \in Exclusive => \A u \in Threads \ {t} : op[u] \notin Exclusive
  PROVE  InductiveQuiet'
<1> USE DEF InductiveQuiet
<1>0. /\ op'[t] = o /\ pc'[t] = step
      /\ \A u \in Threads \ {t} : pc'[u] = pc[u] /\ op'[u] = op[u]
  BY DEF CallType
<1>1. BusyHolder' /\ LockHolder' /\ OneExclusive'
  <2>1. BusyHolder'
    BY <1>0 DEF BusyHolder
  <2>2. LockHolder'
    BY <1>0 DEF LockHolder
  <2>3. OneExclusive'
    BY <1>0 DEF OneExclusive
  <2> QED
    BY <2>1, <2>2, <2>3
<1>2. HandlerRegistered' /\ QuietWhenDown'
  BY DEF HandlerRegistered, QuietWhenDown, Idle
<1>3. StopShows'
  BY <1>0 DEF StopShows, BusyHolder, Holders
<1>4. ~Unwatched(t)' /\ ~At(t, "start", "arm")'
  BY <1>0 DEF Unwatched, At, Holders, ConfigOps
<1>5. UnwatchedQuiet'
  BY <1>0, <1>4 DEF UnwatchedQuiet, Unwatched
<1>6. ArmedUp'
  BY <1>0, <1>4 DEF ArmedUp, At
<1> QED
  BY <1>1, <1>2, <1>3, <1>5, <1>6

-----------------------------------------------------------------------------
(* Every step of the hardware, the handler, the timers and the FEC work.    *)
LEMMA AsyncNextQuiet ==
  ASSUME InductiveQuiet,
         Hardware \/ Handler \/ RecoveryTimer \/ FecTimerFires \/ FecWork
  PROVE  InductiveQuiet'
<1> USE DEF linkVars, intrVars, hdlrVars, LinkDownDisable, LinkDownAlert
<1>1. CASE Hardware
  BY <1>1, AsyncQuiet
  DEF Hardware, PcsLost, RemoteFault, PcsRestored, FlagRaised, HwUnchanged
<1>2. CASE Handler
  <2>1. UNCHANGED <<callVars, intrFlgs>> /\ blstate' \in {blstate, "ERROR"}
    BY <1>2 DEF Handler, HdlrEnter, HdlrOrigin, HdlrDisable, HdlrAlert,
      HdlrRecover, HdlrRate, HdlrRateEnd, HdlrAddTimer, HdlrClear
  <2>2. hpc # "idle" \/ intrFlgs # {}
    BY <1>2 DEF Handler, HdlrEnter, HdlrOrigin, HdlrDisable, HdlrAlert, HdlrRecover,
      HdlrRate, HdlrRateEnd, HdlrAddTimer, HdlrClear, HdlrStep
  <2> QED
    BY <2>1, <2>2, AsyncQuiet
<1>3. CASE RecoveryTimer
  BY <1>3, AsyncQuiet
  DEF RecoveryTimer, RecFire, RecPollClean, RecPollGiveUp, RecPollAgain, RecDisable,
      RecAlert, RecEnd, RecUnchanged
<1>4. CASE FecTimerFires
  BY <1>4, AsyncQuiet DEF FecTimerFires, FecUnchanged
<1>5. CASE FecWork
  BY <1>5, AsyncQuiet
  DEF FecWork, FecWorkBegins, FecRatesGood, FecRatesBad, FecDisable, FecAlert,
      FecRearm, FecUnchanged
<1> QED
  BY <1>1, <1>2, <1>3, <1>4, <1>5

-----------------------------------------------------------------------------
(* A step within a start other than its success.                            *)
LEMMA StartStep ==
  ASSUME InductiveQuiet, CallType, NEW t \in Threads, NEW to,
         op[t] = "start", pc[t] # "enter", to \notin {"enter", "arm"},
         UNCHANGED <<busy, lock, op, hpc>>, pc' = [pc EXCEPT ![t] = to],
         intrFlgs' = {} => intrFlgs = {} \/ (RemoveWaits => hpc = "idle"),
         blstate' \in {blstate, "STARTING"}
  PROVE  InductiveQuiet'
<1>1. pc'[t] = to /\ op'[t] = "start"
  BY DEF CallType
<1>2. ~Unwatched(t)' /\ ~At(t, "start", "arm")'
  BY <1>1 DEF Unwatched, At, ConfigOps
<1>3. op[t] \in Holders /\ to # "enter" /\ (blstate' = "STOPPING" => blstate = "STOPPING")
  BY DEF Holders
<1> QED
  BY <1>2, <1>3, HolderStep

(* Every step of a start.                                                   *)
LEMMA StartQuiet ==
  ASSUME TypeOK, InductiveQuiet, SerialClient, NEW t \in Threads, Start(t)
  PROVE  InductiveQuiet'
<1> USE DEF TypeOK, StartUnchanged, NoLinkChange, intrVars, hdlrVars, S, Go, Fail, At
<1>1. CASE StartRefused(t)
  BY <1>1, OutsideStep
  DEF StartRefused, Refuse, Return, Exclusive, Holders, ConfigOps
<1>2. CASE StartBegins(t)
  <2>1. Take(t, S, "set") /\ UNCHANGED <<hpc, intrFlgs, blstate, op>>
    BY <1>2 DEF StartBegins, Take
  <2>2. pc'[t] = "set" /\ op'[t] = "start"
    BY <2>1 DEF CallType, Take
  <2>3. ~Unwatched(t)'
    BY <2>2 DEF Unwatched, ConfigOps
  <2> QED
    BY <2>1, <2>3, TakeStep DEF Holders
<1>3. CASE StartSet(t)
  BY <1>3, StartStep DEF StartSet
<1>4. CASE StartFirmware(t)
  BY <1>4, StartStep DEF StartFirmware
<1>5. CASE StartMode(t)
  BY <1>5, StartStep DEF StartMode
<1>6. CASE AnInstall(t)
  BY <1>6, StartStep DEF AnInstall
<1>7. CASE AnTry(t)
  BY <1>7, StartStep DEF AnTry
<1>8. CASE AnExchange(t)
  BY <1>8, StartStep DEF AnExchange
<1>9. CASE AnDone(t)
  BY <1>9, StartStep DEF AnDone, RemoveHandler
<1>10. CASE StartAm(t)
  BY <1>10, StartStep DEF StartAm
<1>11. CASE StartLpDetect(t)
  BY <1>11, StartStep DEF StartLpDetect
<1>12. CASE StartSerdes(t)
  BY <1>12, StartStep DEF StartSerdes
<1>13. CASE StartPml(t)
  BY <1>13, StartStep DEF StartPml
<1>14. CASE StartPmlClear(t)
  BY <1>14, StartStep DEF StartPmlClear
<1>15. CASE StartFec(t)
  BY <1>15, StartStep DEF StartFec
<1>16. CASE FmTest(t)
  BY <1>16, StartStep DEF FmTest
<1>17. CASE FmInstall(t)
  BY <1>17, StartStep DEF FmInstall
<1>18. CASE FmEnable(t)
  BY <1>18, StartStep DEF FmEnable
<1>19. CASE FmRetest(t)
  BY <1>19, StartStep DEF FmRetest
<1>20. CASE FmUndoDisable(t)
  BY <1>20, StartStep DEF FmUndoDisable
<1>21. CASE FmUndoRemove(t)
  BY <1>21, StartStep DEF FmUndoRemove, RemoveHandler
<1>22. CASE StartFinalCheck(t)
  BY <1>22, StartStep DEF StartFinalCheck
<1>23. CASE StartFmDisable(t)
  BY <1>23, StartStep DEF StartFmDisable
<1>24. CASE StartFmRemove(t)
  BY <1>24, StartStep DEF StartFmRemove, RemoveHandler
<1>25. CASE StartPcsDown(t)
  BY <1>25, StartStep DEF StartPcsDown, PmlLinkDown
<1>26. CASE StartSerdesDown(t)
  BY <1>26, StartStep DEF StartSerdesDown
<1>27. CASE StartDone(t)
  <2>1. pc' = [pc EXCEPT ![t] = "arm"] /\ op'[t] = "start" /\ blstate' = "UP"
    BY <1>27 DEF StartDone
  <2>2. ~Unwatched(t)'
    BY <2>1 DEF Unwatched, ConfigOps
  <2>3. UNCHANGED <<busy, lock, op, hpc, intrFlgs>>
    BY <1>27 DEF StartDone
  <2>4. op[t] \in Holders /\ pc[t] # "enter"
    BY <1>27 DEF StartDone, Holders
  <2> QED
    BY <2>1, <2>2, <2>3, <2>4, HolderStep
<1>28. CASE StartArm(t)
  <2>1. blstate \notin {"STOPPING", "DOWN", "UNCONFIGURED"}
    BY <1>28 DEF StartArm, Finish, InductiveQuiet, ArmedUp, StopShows, BusyHolder,
                 Holders
  <2> QED
    BY <1>28, <2>1, FinishStep DEF StartArm, Holders
<1>29. CASE StartFails(t)
  BY <1>29, FinishStep DEF StartFails, Holders
<1> QED
  BY <1>1, <1>2, <1>3, <1>4, <1>5, <1>6, <1>7, <1>8, <1>9, <1>10, <1>11,
     <1>12, <1>13, <1>14, <1>15, <1>16, <1>17, <1>18, <1>19, <1>20, <1>21,
     <1>22, <1>23, <1>24, <1>25, <1>26, <1>27, <1>28, <1>29
  DEF Start

-----------------------------------------------------------------------------
(* A step within a stop, a reset or a cleanup: it removes the handler, or   *)
(* has not done so yet, or failed to, or follows the removal.               *)
LEMMA DownStep ==
  ASSUME InductiveQuiet, CallType, NEW t \in Threads, NEW to,
         op[t] \in Holders \ {"start"}, pc[t] # "enter", to # "enter",
         UNCHANGED <<busy, lock, op, hpc, blstate>>, pc' = [pc EXCEPT ![t] = to],
         intrFlgs' = {} => intrFlgs = {} \/ (RemoveWaits => hpc = "idle"),
         \/ intrFlgs' = {}
         \/ to = "fmRemove"
         \/ op[t] = "stop" /\ to = "out" /\ err' # "OK"
         \/ Unwatched(t) /\ UNCHANGED intrFlgs
  PROVE  InductiveQuiet'
<1>1. pc'[t] = to /\ op'[t] = op[t]
  BY DEF CallType
<1>2. ~At(t, "start", "arm")'
  BY <1>1 DEF At, Holders
<1>3. Unwatched(t)' => intrFlgs' = {}
  <2>1. Unwatched(t) => intrFlgs = {}
    BY DEF InductiveQuiet, UnwatchedQuiet
  <2>2. to = "fmRemove" => ~Unwatched(t)'
    BY <1>1 DEF Unwatched, ConfigOps, ResetSteps
  <2>3. op[t] = "stop" /\ to = "out" /\ err' # "OK" => ~Unwatched(t)'
    BY <1>1 DEF Unwatched, ConfigOps
  <2> QED
    BY <2>1, <2>2, <2>3
<1>4. op[t] \in Holders
  BY DEF Holders
<1> QED
  BY <1>2, <1>3, <1>4, HolderStep

(* Every step of a stop, a reset or a cleanup.                              *)
LEMMA DownQuiet ==
  ASSUME TypeOK, InductiveQuiet, SerialClient, NEW t \in Threads, Down(t)
  PROVE  InductiveQuiet'
<1> USE DEF TypeOK, DownUnchanged, ChipUnchanged, linkVars, intrVars, hdlrVars,
            Go, Fail, At
<1>1. CASE StopRefused(t)
  BY <1>1, OutsideStep
  DEF StopRefused, Refuse, Return, Exclusive, Holders, ConfigOps
<1>2. CASE StopBegins(t)
  <2>1. Take(t, "stop", "fmDisable") /\ UNCHANGED <<hpc, intrFlgs, op>>
    BY <1>2 DEF StopBegins, Take
  <2>2. pc'[t] = "fmDisable" /\ op'[t] = "stop"
    BY <2>1 DEF CallType, Take
  <2>3. ~Unwatched(t)'
    BY <2>2 DEF Unwatched, ConfigOps
  <2>4. blstate' = "STOPPING" => "KEEP_SERDES_UP" \notin Debug
    BY <1>2 DEF StopBegins
  <2> QED
    BY <2>1, <2>3, <2>4, TakeStep DEF Holders
<1>3. CASE ResetBegins(t)
  <2>1. PICK to \in {"fmDisable", "rec"} :
          /\ Take(t, "reset", to) /\ UNCHANGED <<hpc, intrFlgs, op>>
          /\ to = "rec" => intrFlgs = {}
    BY <1>3 DEF ResetBegins, Take
  <2>2. pc'[t] = to /\ op'[t] = "reset"
    BY <2>1 DEF CallType, Take
  <2>3. Unwatched(t)' => intrFlgs' = {}
    BY <2>1, <2>2 DEF Unwatched, ConfigOps, ResetSteps
  <2>4. blstate' # "STOPPING"
    BY <1>3 DEF ResetBegins
  <2> QED
    BY <2>1, <2>3, <2>4, TakeStep DEF Holders
<1>4. CASE CleanupBegins(t)
  <2>1. PICK to \in {"fmDisable", "unlock", "serdesDown"} :
          /\ Take(t, "cleanup", to) /\ UNCHANGED <<hpc, intrFlgs, op, blstate>>
          /\ to # "fmDisable" => intrFlgs = {}
    BY <1>4 DEF CleanupBegins, Take
  <2>2. pc'[t] = to /\ op'[t] = "cleanup"
    BY <2>1 DEF CallType, Take
  <2>3. Unwatched(t)' => intrFlgs' = {}
    BY <2>1, <2>2 DEF Unwatched, ConfigOps
  <2> QED
    BY <2>1, <2>3, TakeStep DEF Holders
<1>5. CASE StopFmDisable(t)
  BY <1>5, DownStep DEF StopFmDisable, Holders
<1>6. CASE StopFmRemove(t)
  BY <1>6, DownStep DEF StopFmRemove, Holders, RemoveHandler
<1>7. CASE OwnFmDisable(t)
  <2>1. /\ op[t] \in Holders \ {"start"} /\ pc[t] # "enter"
        /\ UNCHANGED <<busy, lock, op, hpc, blstate>> /\ UNCHANGED intrFlgs
        /\ pc' = [pc EXCEPT ![t] = "fmRemove"]
    BY <1>7 DEF OwnFmDisable, Holders
  <2>2. intrFlgs' = {} => intrFlgs = {} \/ (RemoveWaits => hpc = "idle")
    BY <2>1
  <2> QED
    BY <2>1, <2>2, DownStep
<1>8. CASE OwnFmRemove(t)
  BY <1>8, DownStep DEF OwnFmRemove, Holders, RemoveHandler
<1>9. CASE StopSerdes(t)
  <2>1. Unwatched(t)
    BY <1>9 DEF StopSerdes, Unwatched, ResetSteps
  <2> QED
    BY <1>9, <2>1, DownStep DEF StopSerdes, Holders
<1>10. CASE CleanupSerdes(t)
  <2>1. Unwatched(t)
    BY <1>10 DEF CleanupSerdes, Unwatched, ResetSteps
  <2>2. /\ op[t] \in Holders \ {"start"} /\ pc[t] # "enter"
        /\ UNCHANGED <<busy, lock, op, hpc, blstate>> /\ UNCHANGED intrFlgs
    BY <1>10 DEF CleanupSerdes, Holders
  <2>3. PICK to : to # "enter" /\ pc' = [pc EXCEPT ![t] = to]
    BY <1>10 DEF CleanupSerdes
  <2> QED
    BY <2>1, <2>2, <2>3, DownStep
<1>11. CASE RecTest(t)
  <2>1. Unwatched(t)
    BY <1>11 DEF RecTest, Unwatched, ResetSteps
  <2>2. /\ op[t] \in Holders \ {"start"} /\ pc[t] # "enter"
        /\ UNCHANGED <<busy, lock, op, hpc, blstate>> /\ UNCHANGED intrFlgs
    BY <1>11 DEF RecTest, Holders
  <2>3. PICK to : to # "enter" /\ pc' = [pc EXCEPT ![t] = to]
    BY <1>11 DEF RecTest, AfterRec
  <2> QED
    BY <2>1, <2>2, <2>3, DownStep
<1>12. CASE RecDelete(t)
  <2>1. Unwatched(t)
    BY <1>12 DEF RecDelete, Unwatched, ResetSteps
  <2>2. /\ op[t] \in Holders \ {"start"} /\ pc[t] # "enter"
        /\ UNCHANGED <<busy, lock, op, hpc, blstate>> /\ UNCHANGED intrFlgs
    BY <1>12 DEF RecDelete, Holders
  <2>3. PICK to : to # "enter" /\ pc' = [pc EXCEPT ![t] = to]
    BY <1>12 DEF RecDelete
  <2> QED
    BY <2>1, <2>2, <2>3, DownStep
<1>13. CASE RecCancelled(t)
  <2>1. Unwatched(t)
    BY <1>13 DEF RecCancelled, Unwatched, ResetSteps
  <2>2. /\ op[t] \in Holders \ {"start"} /\ pc[t] # "enter"
        /\ UNCHANGED <<busy, lock, op, hpc, blstate>> /\ UNCHANGED intrFlgs
    BY <1>13 DEF RecCancelled, Holders
  <2>3. PICK to : to # "enter" /\ pc' = [pc EXCEPT ![t] = to]
    BY <1>13 DEF RecCancelled, AfterRec
  <2> QED
    BY <2>1, <2>2, <2>3, DownStep
<1>14. CASE ResetSerdes(t)
  <2>1. Unwatched(t)
    BY <1>14 DEF ResetSerdes, Unwatched, ResetSteps
  <2> QED
    BY <1>14, <2>1, DownStep DEF ResetSerdes, Holders
<1>15. CASE DownPcs(t)
  <2>1. Unwatched(t)
    BY <1>15 DEF DownPcs, Unwatched, ResetSteps
  <2>2. /\ op[t] \in Holders \ {"start"} /\ pc[t] # "enter"
        /\ UNCHANGED <<busy, lock, op, hpc, blstate>> /\ UNCHANGED intrFlgs
    BY <1>15 DEF DownPcs, Holders, PmlLinkDown
  <2>3. PICK to : to # "enter" /\ pc' = [pc EXCEPT ![t] = to]
    BY <1>15 DEF DownPcs
  <2> QED
    BY <2>1, <2>2, <2>3, DownStep
<1>16. CASE DownTimer(t)
  <2>1. Unwatched(t)
    BY <1>16 DEF DownTimer, Unwatched, ResetSteps
  <2>2. /\ op[t] \in Holders \ {"start"} /\ pc[t] # "enter"
        /\ UNCHANGED <<busy, lock, op, hpc, blstate>> /\ UNCHANGED intrFlgs
    BY <1>16 DEF DownTimer, Holders
  <2>3. PICK to : to # "enter" /\ pc' = [pc EXCEPT ![t] = to]
    BY <1>16 DEF DownTimer
  <2> QED
    BY <2>1, <2>2, <2>3, DownStep
<1>17. CASE StopEnds(t)
  <2>1. err = "OK" => intrFlgs = {}
    BY <1>17 DEF StopEnds, Finish, InductiveQuiet, UnwatchedQuiet, Unwatched
  <2>2. blstate' # "STOPPING"
    BY <1>17 DEF StopEnds, InductiveQuiet, StopShows
  <2>3. blstate' \in {"DOWN", "UNCONFIGURED"} => intrFlgs = {}
    BY <1>17, <2>1 DEF StopEnds
  <2> QED
    BY <1>17, <2>2, <2>3, FinishStep DEF StopEnds, Holders
<1>18. CASE ResetEnds(t)
  <2>1. intrFlgs = {}
    BY <1>18 DEF ResetEnds, Finish, InductiveQuiet, UnwatchedQuiet, Unwatched,
                 ResetSteps
  <2> QED
    BY <1>18, <2>1, FinishStep DEF ResetEnds, Holders
<1>19. CASE CleanupClears(t)
  <2>1. intrFlgs = {}
    BY <1>19 DEF CleanupClears, Finish, InductiveQuiet, UnwatchedQuiet, Unwatched
  <2> QED
    BY <1>19, <2>1, FinishStep DEF CleanupClears, Holders
<1>20. CASE CleanupLeaves(t)
  <2>1. intrFlgs = {} /\ blstate # "STOPPING"
    BY <1>20 DEF CleanupLeaves, Finish, InductiveQuiet, UnwatchedQuiet, Unwatched,
                 StopShows, BusyHolder, Holders
  <2> QED
    BY <1>20, <2>1, FinishStep DEF CleanupLeaves, Holders
<1> QED
  BY <1>1, <1>2, <1>3, <1>4, <1>5, <1>6, <1>7, <1>8, <1>9, <1>10,
     <1>11, <1>12, <1>13, <1>14, <1>15, <1>16, <1>17, <1>18, <1>19, <1>20
  DEF Down, Stop, Reset, Cleanup, Shared

-----------------------------------------------------------------------------
(* The write of a configuring call.                                         *)
LEMMA WriteStep ==
  ASSUME InductiveQuiet, CallType, SerialClient, NEW t \in Threads,
         NEW o \in ConfigOps, Unlock(t, o),
         blstate' \in {blstate, "DOWN", "UNCONFIGURED"}
  PROVE  InductiveQuiet'
<1> USE DEF InductiveQuiet
<1>0. /\ op[t] = o /\ pc[t] = "write" /\ op'[t] = "none" /\ pc'[t] = "idle"
      /\ lock = t /\ lock' = None /\ t # None
      /\ UNCHANGED <<busy, err, intrFlgs, hpc>>
      /\ \A u \in Threads \ {t} : pc'[u] = pc[u] /\ op'[u] = op[u]
  BY ConstantsAssumption
  DEF CallType, Unlock, Return, At, LockHolder, ConfigUnchanged, intrVars, hdlrVars
<1>1. BusyHolder'
  BY <1>0 DEF BusyHolder, Holders, ConfigOps
<1>2. LockHolder'
  BY <1>0, ConstantsAssumption DEF LockHolder, ConfigOps
<1>3. OneExclusive'
  BY <1>0 DEF OneExclusive, Exclusive
<1>4. HandlerRegistered'
  BY <1>0 DEF HandlerRegistered
<1>5. StopShows'
  BY <1>0 DEF StopShows, BusyHolder, Holders, ConfigOps
<1>6. UnwatchedQuiet'
  <2>1. ~Unwatched(t)'
    BY <1>0 DEF Unwatched, ConfigOps
  <2> QED
    BY <1>0, <2>1 DEF UnwatchedQuiet, Unwatched
<1>7. ArmedUp'
  <2>1. \A u \in Threads : op'[u] # "start"
    BY <1>0 DEF OneExclusive, Exclusive, ConfigOps
  <2> QED
    BY <2>1 DEF ArmedUp, At
<1>8. QuietWhenDown'
  <2>1. busy = None => intrFlgs = {}
    BY <1>0 DEF UnwatchedQuiet, Unwatched
  <2> QED
    BY <1>0, <2>1 DEF QuietWhenDown, Idle, HandlerRegistered
<1> QED
  BY <1>1, <1>2, <1>3, <1>4, <1>5, <1>6, <1>7, <1>8

(* Every step of the calls that take only the data lock.                    *)
LEMMA ConfigureQuiet ==
  ASSUME TypeOK, InductiveQuiet, SerialClient, NEW t \in Threads, Configure(t)
  PROVE  InductiveQuiet'
<1> USE DEF TypeOK, linkVars, intrVars, hdlrVars
<1>1. CASE ConfigCheck(t)
  <2>1. PICK o \in ConfigOps :
          /\ op[t] = o /\ pc[t] = "enter" /\ lock = None
          /\ UNCHANGED <<blstate, intrFlgs, hpc, busy, err>>
          /\ \/ /\ blstate \in ConfigStates(o) /\ lock' = t
                /\ pc' = [pc EXCEPT ![t] = "write"] /\ UNCHANGED op
             \/ Return(t) /\ UNCHANGED lock
    BY <1>1 DEF ConfigCheck, ConfigUnchanged, At
  <2>2. CASE Return(t) /\ UNCHANGED lock
    BY <2>1, <2>2, OutsideStep DEF Return, Exclusive, Holders, ConfigOps
  <2>3. CASE /\ blstate \in ConfigStates(o) /\ lock' = t
             /\ pc' = [pc EXCEPT ![t] = "write"] /\ UNCHANGED op
    <3> USE DEF InductiveQuiet
    <3>0. /\ pc'[t] = "write" /\ t # None
          /\ \A u \in Threads \ {t} : pc'[u] = pc[u]
      BY <2>3, ConstantsAssumption DEF CallType
    <3>1. BusyHolder'
      BY <2>1, <2>3, <3>0 DEF BusyHolder, Holders, ConfigOps
    <3>2. LockHolder'
      BY <2>1, <2>3, <3>0, ConstantsAssumption DEF LockHolder
    <3>3. OneExclusive' /\ HandlerRegistered' /\ StopShows' /\ QuietWhenDown'
      BY <2>1, <2>3 DEF OneExclusive, HandlerRegistered, StopShows, QuietWhenDown, Idle
    <3>4. busy = None => intrFlgs = {}
      <4>1. busy = None => blstate # "STOPPING"
        BY ConstantsAssumption DEF StopShows
      <4> QED
        BY <2>3, <4>1 DEF ConfigStates, QuietWhenDown, Idle
    <3>5. UnwatchedQuiet'
      BY <2>1, <2>3, <3>0, <3>4 DEF UnwatchedQuiet, Unwatched, ConfigOps
    <3>6. ArmedUp'
      BY <2>1, <2>3, <3>0 DEF ArmedUp, At
    <3> QED
      BY <3>1, <3>2, <3>3, <3>5, <3>6
  <2> QED
    BY <2>1, <2>2, <2>3
<1>2. CASE ConfigWrite(t)
  BY <1>2, WriteStep DEF ConfigWrite, ConfigOps
<1>3. CASE MediaConfigWrite(t)
  BY <1>3, WriteStep DEF MediaConfigWrite, ConfigOps
<1>4. CASE MediaUnconfigWrite(t)
  BY <1>4, WriteStep DEF MediaUnconfigWrite, ConfigOps
<1>5. CASE EnableStart(t)
  BY <1>5, OutsideStep
  DEF EnableStart, Return, At, Exclusive, Holders, ConfigOps
<1>6. CASE CancelStart(t)
  <2>1. op[t] = "cancel" /\ op = [op EXCEPT ![t] = op[t]]
    BY <1>6 DEF CancelStart, Go, At, CallType
  <2> QED
    BY <1>6, <2>1, OutsideStep DEF CancelStart, Go, Exclusive, Holders, ConfigOps
<1>7. CASE CancelTimer(t)
  BY <1>7, OutsideStep
  DEF CancelTimer, Return, At, Exclusive, Holders, ConfigOps
<1> QED
  BY <1>1, <1>2, <1>3, <1>4, <1>5, <1>6, <1>7 DEF Configure

(* A client's call and its interruption.                                    *)
LEMMA CallQuiet ==
  ASSUME TypeOK, InductiveQuiet, SerialClient, NEW t \in Threads,
         Call(t) \/ Interrupted(t)
  PROVE  InductiveQuiet'
<1> USE DEF TypeOK, linkVars, intrVars, hdlrVars
<1>1. CASE Call(t)
  <2>1. PICK o \in Ops :
          /\ op[t] = "none" /\ MayCall(t, o) /\ op' = [op EXCEPT ![t] = o]
          /\ pc' = [pc EXCEPT ![t] = "enter"]
          /\ UNCHANGED <<blstate, intrFlgs, hpc, busy, lock, err>>
    BY <1>1 DEF Call
  <2> QED
    BY <2>1, OutsideStep DEF MayCall, Holders, ConfigOps
<1>2. CASE Interrupted(t)
  BY <1>2, OutsideStep DEF Interrupted, Return, Exclusive, Holders, ConfigOps
<1> QED
  BY <1>1, <1>2

-----------------------------------------------------------------------------
(* The invariant behind it: busy_mtx and the data lock are with the threads *)
(* at the steps that hold them, the handler of a port that is going down is *)
(* gone from its removal on, and whoever could register it again is kept    *)
(* out, for every number of threads and every debug option.                 *)
THEOREM QuietIsInductive == SerialClient /\ Spec => []InductiveQuiet
<1> SUFFICES ASSUME SerialClient PROVE Spec => []InductiveQuiet
  OBVIOUS
<1>1. Init => InductiveQuiet
  BY InitQuiet
<1>2. TypeOK /\ InductiveQuiet /\ [Next]_vars => InductiveQuiet'
  <2> SUFFICES ASSUME TypeOK, InductiveQuiet, [Next]_vars
               PROVE  InductiveQuiet'
    OBVIOUS
  <2>1. ASSUME NEW t \in Threads, Call(t) \/ Interrupted(t) \/ Caller(t)
        PROVE  InductiveQuiet'
    BY <2>1, CallQuiet, StartQuiet, DownQuiet, ConfigureQuiet DEF Caller
  <2>2. CASE UNCHANGED vars
    BY <2>2, AsyncQuiet DEF vars, linkVars, intrVars, hdlrVars
  <2> QED
    BY <2>1, <2>2, AsyncNextQuiet DEF Next
<1> QED
  BY <1>1, <1>2, TypeCorrect, PTL DEF Spec

(* A port at rest has no fault monitoring left behind, QuietWhenDown, if    *)
(* its clients keep the contract.                                           *)
THEOREM QuietAtRest == SerialClient /\ Spec => []QuietWhenDown
<1>1. InductiveQuiet => QuietWhenDown
  BY DEF InductiveQuiet
<1> QED
  BY <1>1, QuietIsInductive, PTL
=============================================================================
