----------------------------- MODULE SerdesStart -----------------------------
(***************************************************************************)
(* The SerDes of one port: configuration, detection of the link partner,    *)
(* tuning, saved tuning parameters, stop and reset.  The caller holds       *)
(* busy_mtx of the port, so one call runs at a time; a client may cancel    *)
(* it, let the start time out, or change the saved parameters meanwhile.    *)
(*                                                                          *)
(* A loop over lanes is one step: it ends, or breaks off at the first lane  *)
(* whose operation fails, whether that operation took effect or not.  How   *)
(* an operation reaches a lane is in SerdesOp, soft reset, SPICO reset and  *)
(* firmware reload step by step in Firmware.  tuning_params_mtx is held     *)
(* within steps only.                                                       *)
(***************************************************************************)
EXTENDS Naturals, FiniteSets

CONSTANTS
  Lanes,            \* the SerDes of the port, 0 .. num_serdes - 1
  LinkModes,
  TxLanes, RxLanes, \* lanes that carry a mode, by tx_ and rx_lane_source
  SdOptions,        \* sets of options a port may be given, see OptionNames
  SdConfigs,        \* a link mode, and whether in local loopback
  MaxOob            \* SBL_MAX_TUNE_PARAM_OOB_FAILS

OptionNames == {"FABRIC_LINK", "USE_SAVED_PARAMS", "DFE_SAVE_PARAMS",
                "RESET_CLEAR_PARAMS", "ENABLE_PCAL", "RELOAD_FW_ON_TIMEOUT",
                "PRBS", "OPTICAL", "FORCE_RELOAD"}

ASSUME LanesAssumption ==
  /\ Lanes \subseteq Nat /\ 0 \in Lanes
  /\ TxLanes \in [LinkModes -> SUBSET Lanes]
  /\ RxLanes \in [LinkModes -> SUBSET Lanes]
  /\ SdOptions \subseteq SUBSET OptionNames
  /\ SdConfigs \subseteq LinkModes \X BOOLEAN /\ MaxOob \in Nat \ {0}

VARIABLES
  sd,                \* link->sstate
  sdOp, sdPc, sdErr, \* the call that runs, its step and its error
  reloadSerdes,      \* reload_serdes_fw
  linkMode, looped,  \* link_mode, loopback_mode = LOCAL
  sdOpt,             \* options, kind of media and tuning pattern
  sdCancelled, sdExpired,    \* start_cancelled, the start timeout has passed
  txOn, rxOn, txOut, \* lanes whose transmitter, receiver, output is enabled
  pcalOn,            \* lanes that tune continuously
  ready,             \* lanes that were tuned or given saved parameters since
                     \* they were configured
  pcalRunning, oob,  \* pcal_running, tune_param_oob_count
  signal,            \* sig_ok_mask = serdes_mask in the minitune
  saved,             \* tuning_params: their hash, lanes that have some
  atCall             \* history: sstate and reload_serdes_fw at the call

laneVars == <<txOn, rxOn, txOut, pcalOn, ready>>
setVars  == <<linkMode, looped, sdOpt>>
flagVars == <<sdCancelled, sdExpired>>
tpVars   == <<pcalRunning, oob, saved>>
sdVars   == <<sd, sdOp, sdPc, sdErr, reloadSerdes, setVars, flagVars,
              laneVars, tpVars, signal, atCall>>

SdOps == {"detect", "start", "stop", "reset", "anStart", "anStop", "flash"}
SdPcs == {"idle", "offPcal", "offLanes", "offSpico", "cfgPcal", "cfgInit",
          "cfgSet", "cfgOff", "cfgClock", "cfgLanes", "cfgData", "optics",
          "saved", "preDelay", "tune", "tuneWait", "eyes", "params", "pcal",
          "pcalSaved", "save", "prbs", "mtSetup", "mtSignal", "mtFilter",
          "mtWait", "rsPcal", "rsSoft", "flash", "end", "broken"}
LaneErrs == {"EBADE", "ETIMEDOUT", "EIO"}
SdErrs   == LaneErrs \cup {"ok", "ENOMSG", "ECHRNG", "ELNRNG", "ETIME",
                           "ECANCELED"}

-----------------------------------------------------------------------------
(* get_serdes_tx_mask() and get_serdes_rx_mask(); lane 0 has the clock and  *)
(* is always configured to transmit.                                        *)
TxMask   == TxLanes[linkMode]
RxMask   == IF looped THEN TxMask ELSE RxLanes[linkMode]
TxNeeded == TxMask \cup {0}
RxNeeded == RxMask
Needed   == TxNeeded \cup RxNeeded

(* sbl_get_tp_hash0() and sbl_get_tp_hash1(): media and lengths of a port   *)
(* do not change here.                                                      *)
Hash == <<linkMode, looped>>

NoHash   == << >>
Whole(h) == [hash |-> h, lanes |-> Lanes]
Blank    == [hash |-> NoHash, lanes |-> {}]

SdInit ==
  /\ sd = "DOWN" /\ sdOp = "none" /\ sdPc = "idle" /\ sdErr = "ok"
  /\ reloadSerdes = FALSE
  /\ \E c \in SdConfigs : linkMode = c[1] /\ looped = c[2]
  /\ sdOpt \in SdOptions
  /\ sdCancelled = FALSE /\ sdExpired = FALSE
  /\ txOn = {} /\ rxOn = {} /\ txOut = {} /\ pcalOn = {} /\ ready = {}
  /\ pcalRunning = FALSE /\ oob = 0 /\ signal = FALSE
  /\ saved = Blank
  /\ atCall = <<"DOWN", FALSE>>

(* A loop over the lanes S ends, or breaks off at a lane.                   *)
Ends(S, done)     == done = S
BreaksAt(S, k)    == {l \in S : l < k}
Breaks(S, done)   == \E k \in S : done \in {BreaksAt(S, k),
                                            BreaksAt(S, k) \cup {k}}

SdGo(from, to)    == sdPc = from /\ sdPc' = to /\ UNCHANGED sdErr
SdFail(from, e)   == sdPc = from /\ sdPc' = "end" /\ sdErr' = e
SdBreak(from, e)  == sdPc = from /\ sdPc' = "broken" /\ sdErr' = e

CallOnly  == UNCHANGED <<sdOp, atCall, setVars, flagVars>>
StepOnly  == CallOnly /\ UNCHANGED <<sd, reloadSerdes>>

(* What is read only while a call runs is forgotten at its end.             *)
CallEnds(to) ==
  /\ sd' = to /\ sdOp' = "none" /\ sdPc' = "idle" /\ sdErr' = "ok"
  /\ sdCancelled' = FALSE /\ sdExpired' = FALSE /\ signal' = FALSE
  /\ atCall' = <<"DOWN", FALSE>>
  /\ UNCHANGED setVars

-----------------------------------------------------------------------------
(* The calls, each from the states in which it does not return EUCLEAN.     *)
(* sbl_serdes_lp_detect() finds the partner at once in local loopback.      *)
(* sbl_serdes_reset() clears the saved parameters if that is an option.     *)
SdCall(o, to) ==
  /\ sdOp = "none" /\ sdOp' = o
  /\ sdPc' = to
  /\ atCall' = <<sd, reloadSerdes>>
  /\ UNCHANGED <<sdErr, reloadSerdes, setVars, laneVars, signal, pcalRunning,
                 oob>>

CallDetect ==
  /\ sd = "DOWN" /\ ~looped
  /\ SdCall("detect", "cfgPcal")
  /\ sd' = "LPD_MT"
  /\ UNCHANGED <<flagVars, saved>>

CallStart ==
  /\ sd = "DOWN"
  /\ SdCall("start", "cfgPcal")
  /\ UNCHANGED <<sd, flagVars, saved>>

CallAnStart ==
  /\ sd = "DOWN" /\ "OPTICAL" \notin sdOpt
  /\ SdCall("anStart", "offPcal")
  /\ UNCHANGED <<sd, flagVars, saved>>

CallStop ==
  /\ \/ sd \in {"RUNNING", "AUTONEG"} /\ SdCall("stop", "offPcal")
     \/ sd = "AUTONEG" /\ SdCall("anStop", "offPcal")
  /\ UNCHANGED <<sd, flagVars, saved>>

CallReset ==
  /\ SdCall("reset", "rsPcal")
  /\ sd' = "RESETTING"
  /\ saved' = IF "RESET_CLEAR_PARAMS" \in sdOpt
              THEN Blank
              ELSE saved
  /\ UNCHANGED flagVars

(* The end of a failed sbl_base_link_start().                               *)
CallFlash ==
  /\ reloadSerdes
  /\ SdCall("flash", "flash")
  /\ UNCHANGED <<sd, flagVars, saved>>

-----------------------------------------------------------------------------
(* sbl_port_stop_pcal(): done are the lanes it stopped.                     *)
StopPcal(done, all) ==
  /\ \/ ~pcalRunning /\ done = {} /\ all
     \/ pcalRunning /\ (IF all THEN Ends(RxNeeded, done)
                               ELSE Breaks(RxNeeded, done))
  /\ pcalOn' = pcalOn \ done
  /\ pcalRunning' = (pcalRunning /\ ~all)

(* sbl_serdes_stop_internal(): continuous tuning, all lanes off, SPICO      *)
(* reset of the lanes of the mode.  sbl_an_serdes_start() begins with it.   *)
(* A failure asks for a firmware reload.                                    *)
OffGo(from, to)   == SdGo(from, to) /\ UNCHANGED reloadSerdes

(* Mutant: as in a start, only a wrong answer of the SerDes asks for it.    *)
OffBreakLikeStart(from, e) ==
  /\ SdBreak(from, e)
  /\ reloadSerdes' = (reloadSerdes \/ e = "EBADE")

OffBreak(from, e) ==
  /\ SdBreak(from, e)
  /\ reloadSerdes' = TRUE

OffUnchanged == CallOnly /\ UNCHANGED sd

OffPcal ==
  /\ \E done \in SUBSET Lanes :
       \/ OffGo("offPcal", "offLanes") /\ StopPcal(done, TRUE)
       \/ \E e \in LaneErrs :
            OffBreak("offPcal", e) /\ StopPcal(done, FALSE)
  /\ OffUnchanged
  /\ UNCHANGED <<txOn, rxOn, txOut, ready, oob, saved,
                 signal>>

OffLanes ==
  /\ \E done \in SUBSET Lanes :
       /\ \/ OffGo("offLanes", "offSpico") /\ Ends(Lanes, done)
          \/ \E e \in LaneErrs \cup {"ETIME"} :
               OffBreak("offLanes", e) /\ Breaks(Lanes, done)
       /\ txOn' = txOn \ done /\ rxOn' = rxOn \ done /\ txOut' = txOut \ done
  /\ OffUnchanged
  /\ UNCHANGED <<pcalOn, ready, tpVars, signal>>

OffSpico ==
  /\ \E done \in SUBSET Lanes :
       /\ \/ /\ OffGo("offSpico", IF sdOp = "anStart" THEN "cfgPcal" ELSE "end")
             /\ Ends(Needed, done) /\ pcalRunning' = FALSE
          \/ \E e \in LaneErrs \cup {"ETIME"} :
               /\ OffBreak("offSpico", e)
               /\ Breaks(Needed, done) \/ Ends(Needed, done)
               /\ UNCHANGED pcalRunning
       /\ pcalOn' = pcalOn \ done /\ ready' = ready \ done
  /\ OffUnchanged
  /\ UNCHANGED <<txOn, rxOn, txOut, oob, saved, signal>>

-----------------------------------------------------------------------------
(* sbl_serdes_config().  A step that fails ends the call, and a start asks  *)
(* for a firmware reload if the SerDes answered with the wrong code.        *)
CfgGo(from, to) ==
  /\ SdGo(from, to)
  /\ UNCHANGED reloadSerdes

CfgBreak(from, e) ==
  /\ SdBreak(from, e)
  /\ reloadSerdes' = (reloadSerdes \/ (sdOp = "start" /\ e = "EBADE"))

CfgUnchanged == CallOnly /\ UNCHANGED <<sd, oob, saved, signal>>

CfgPcal ==
  /\ \E done \in SUBSET Lanes :
       \/ CfgGo("cfgPcal", "cfgInit") /\ StopPcal(done, TRUE)
       \/ \E e \in LaneErrs :
            CfgBreak("cfgPcal", e) /\ StopPcal(done, FALSE)
  /\ CfgUnchanged
  /\ UNCHANGED <<txOn, rxOn, txOut, ready>>

(* sbl_serdes_init() of the lanes of the mode: width and divider change, so *)
(* that a lane is no longer tuned; its output is off.                       *)
CfgInit ==
  /\ \E done \in SUBSET Lanes :
       /\ \/ CfgGo("cfgInit", "cfgSet") /\ Ends(Needed, done)
          \/ \E e \in LaneErrs \cup {"ETIME"} :
               CfgBreak("cfgInit", e) /\ Breaks(Needed, done)
       /\ txOn' = (txOn \ done) \cup (done \cap TxNeeded)
       /\ rxOn' = (rxOn \ done) \cup (done \cap RxNeeded)
       /\ txOut' = txOut \ done
       /\ ready' = ready \ done
  /\ CfgUnchanged
  /\ UNCHANGED <<pcalOn, pcalRunning>>

(* Polarity, receiver termination, loopback, equalisation, phase            *)
(* calibration and slip: values that SerdesConfig selects.                  *)
CfgSet ==
  /\ \/ CfgGo("cfgSet", "cfgOff")
     \/ \E e \in LaneErrs : CfgBreak("cfgSet", e)
  /\ CfgUnchanged
  /\ UNCHANGED <<laneVars, pcalRunning>>

CfgOff ==
  /\ \E done \in SUBSET Lanes :
       /\ \/ CfgGo("cfgOff", "cfgClock") /\ Ends(Lanes, done)
          \/ \E e \in LaneErrs \cup {"ETIME"} :
               CfgBreak("cfgOff", e) /\ Breaks(Lanes, done)
       /\ txOn' = txOn \ done /\ txOut' = txOut \ done
       /\ rxOn' = (rxOn \ done) \cup
                  (IF looped THEN {} ELSE done \cap RxNeeded)
  /\ CfgUnchanged
  /\ UNCHANGED <<pcalOn, ready, pcalRunning>>

(* Lane 0 first: it has the clock of all.                                   *)
EnableLanes(done) ==
  /\ txOn'  = (txOn \ done) \cup (done \cap TxNeeded)
  /\ rxOn'  = (rxOn \ done) \cup (done \cap RxNeeded)
  /\ txOut' = (txOut \ done) \cup (done \cap TxMask)

CfgClock ==
  /\ \E done \in SUBSET {0} :
       /\ \/ CfgGo("cfgClock", "cfgLanes") /\ Ends({0}, done)
          \/ \E e \in LaneErrs \cup {"ETIME"} :
               CfgBreak("cfgClock", e) /\ Breaks({0}, done)
       /\ EnableLanes(done)
  /\ CfgUnchanged
  /\ UNCHANGED <<pcalOn, ready, pcalRunning>>

CfgLanes ==
  /\ \E done \in SUBSET (Lanes \ {0}) :
       /\ \/ CfgGo("cfgLanes", "cfgData") /\ Ends(Lanes \ {0}, done)
          \/ \E e \in LaneErrs \cup {"ETIME"} :
               CfgBreak("cfgLanes", e) /\ Breaks(Lanes \ {0}, done)
       /\ EnableLanes(done)
  /\ CfgUnchanged
  /\ UNCHANGED <<pcalOn, ready, pcalRunning>>

(* sbl_set_tx_data_sel() on each lane, with its retries.                    *)
CfgData ==
  /\ \/ CfgGo("cfgData", CASE sdOp = "start"  -> "optics"
                           [] sdOp = "detect" -> "mtSetup"
                           [] OTHER           -> "end")
     \/ \E e \in LaneErrs : CfgBreak("cfgData", e)
  /\ CfgUnchanged
  /\ UNCHANGED <<laneVars, pcalRunning>>

-----------------------------------------------------------------------------
(* sbl_serdes_start(): wait for the optics to lock.                         *)
TuneUnchanged == CallOnly /\ UNCHANGED <<reloadSerdes, signal>>

WaitOptics ==
  /\ \/ SdGo("optics", "saved") /\ sd' = "TUNING"
     \/ /\ "OPTICAL" \in sdOpt /\ ~looped
        /\ \/ sdCancelled /\ SdFail("optics", "ECANCELED")
           \/ sdExpired /\ SdFail("optics", "ETIMEDOUT")
        /\ UNCHANGED sd
  /\ TuneUnchanged
  /\ UNCHANGED <<laneVars, tpVars>>

(* sbl_serdes_tuning(): saved parameters are for fabric links outside local *)
(* loopback, unless they were out of bounds too often.                      *)
HaveParams == saved.hash = Hash /\ saved.lanes \cap Needed # {}
OobTooOften == "FABRIC_LINK" \in sdOpt /\ oob >= MaxOob
IsRetune == /\ {"FABRIC_LINK", "USE_SAVED_PARAMS"} \subseteq sdOpt
            /\ ~OobTooOften /\ ~looped /\ "OPTICAL" \notin sdOpt
            /\ HaveParams

TuneAnew ==
  /\ ~IsRetune /\ SdGo("saved", "preDelay")
  /\ oob' = IF OobTooOften THEN 0 ELSE oob
  /\ TuneUnchanged
  /\ UNCHANGED <<sd, laneVars, pcalRunning, saved>>

(* Mutant: a lane whose parameters cannot be applied is skipped.            *)
SkipFailedLane ==
  /\ IsRetune
  /\ \E done \in SUBSET Lanes :
       /\ SdGo("saved", "pcalSaved")
       /\ Ends(RxNeeded, done) \/ Breaks(RxNeeded, done)
       /\ ready' = ready \cup done
  /\ TuneUnchanged
  /\ UNCHANGED <<sd, txOn, rxOn, txOut, pcalOn, pcalRunning, oob, saved>>

UseSaved ==
  /\ IsRetune
  /\ \E done \in SUBSET Lanes :
       /\ \/ SdGo("saved", "pcalSaved") /\ Ends(RxNeeded, done)
          \/ /\ \E e \in LaneErrs : SdFail("saved", e)
             /\ Breaks(RxNeeded, done)
       /\ ready' = ready \cup done
  /\ TuneUnchanged
  /\ UNCHANGED <<sd, txOn, rxOn, txOut, pcalOn, pcalRunning, oob, saved>>

(* The delay for the partner to start.                                      *)
PreDelay ==
  /\ \/ SdGo("preDelay", "tune")
     \/ sdCancelled /\ SdFail("preDelay", "ECANCELED")
     \/ sdExpired /\ SdFail("preDelay", "ETIMEDOUT")
  /\ TuneUnchanged
  /\ UNCHANGED <<sd, laneVars, tpVars>>

-----------------------------------------------------------------------------
(* The tuning loop: sbl_port_dfe_tune_start() starts every lane of the      *)
(* mode, receiving or not.                                                  *)
TuneStart ==
  /\ \E done \in SUBSET Lanes :
       /\ \/ SdGo("tune", "tuneWait") /\ Ends(Needed, done)
          \/ \E e \in LaneErrs \cup {"ENOMSG"} :
               SdFail("tune", e) /\ Breaks(Needed, done)
       /\ ready' = ready \ done
  /\ TuneUnchanged
  /\ UNCHANGED <<sd, txOn, rxOn, txOut, pcalOn, tpVars>>

(* sbl_serdes_dfe_tune_wait() for the receiving lanes: it returns at the    *)
(* first look that finds all of them done, and looks at the start timeout   *)
(* and at a cancel only between looks.  A tune that is not done within      *)
(* dfe_timeout is started again.                                            *)
TuneDone ==
  /\ SdGo("tuneWait", IF looped THEN "save" ELSE "eyes")
  /\ ready' = ready \cup RxNeeded
  /\ TuneUnchanged
  /\ UNCHANGED <<sd, txOn, rxOn, txOut, pcalOn, tpVars>>

TuneStopped ==
  /\ \/ sdCancelled /\ SdFail("tuneWait", "ECANCELED")
     \/ ~sdCancelled /\ sdExpired /\ SdFail("tuneWait", "ETIMEDOUT")
  /\ TuneUnchanged
  /\ UNCHANGED <<sd, laneVars, tpVars>>

TuneFails ==
  /\ \/ \E e \in {"EIO", "ENOMSG"} : SdFail("tuneWait", e)
     \/ ~sdCancelled /\ ~sdExpired /\ SdGo("tuneWait", "tune")
  /\ TuneUnchanged
  /\ UNCHANGED <<sd, laneVars, tpVars>>

(* sbl_port_check_eyes(): bad eyes are tuned again.                         *)
CheckEyes ==
  /\ \/ SdGo("eyes", "params")
     \/ SdGo("eyes", "tune")
     \/ SdFail("eyes", "EIO")
  /\ TuneUnchanged
  /\ UNCHANGED <<sd, laneVars, tpVars>>

(* sbl_check_serdes_tuning_params(): parameters out of bounds, or that      *)
(* cannot be read, are tuned again unless that has happened too often.  The *)
(* count of an edge link is not cleared by the next start.                  *)
AfterTune == IF "ENABLE_PCAL" \in sdOpt THEN "pcal" ELSE "save"

CheckParams ==
  /\ \/ SdGo("params", AfterTune) /\ oob' = 0
     \/ /\ oob' = IF oob > MaxOob THEN oob ELSE oob + 1
        /\ \/ oob' < MaxOob /\ SdGo("params", "tune")
           \/ oob' >= MaxOob /\ SdFail("params", "ELNRNG")
  /\ TuneUnchanged
  /\ UNCHANGED <<sd, laneVars, pcalRunning, saved>>

(* sbl_port_start_pcal(), after a tune or after saved parameters.           *)
PcalWanted == "ENABLE_PCAL" \in sdOpt /\ ~pcalRunning

PcalStarts(from, to) ==
  /\ SdGo(from, to)
  /\ pcalOn' = IF PcalWanted THEN pcalOn \cup RxNeeded ELSE pcalOn
  /\ pcalRunning' = (pcalRunning \/ PcalWanted)

PcalBreaks ==
  /\ PcalWanted
  /\ \E done \in SUBSET Lanes :
       Breaks(RxNeeded, done) /\ pcalOn' = pcalOn \cup done
  /\ UNCHANGED pcalRunning

(* Mutant: a lane that does not start is tried again with a new tune.       *)
RetryPcal ==
  /\ \/ PcalStarts("pcal", "save")
     \/ PcalStarts("pcalSaved", "end")
     \/ SdGo("pcal", "tune") /\ PcalBreaks
  /\ TuneUnchanged
  /\ UNCHANGED <<sd, txOn, rxOn, txOut, ready, oob, saved>>

StartPcal ==
  /\ \/ PcalStarts("pcal", "save")
     \/ PcalStarts("pcalSaved", "end")
     \/ \E from \in {"pcal", "pcalSaved"}, e \in LaneErrs :
          SdFail(from, e) /\ PcalBreaks
  /\ TuneUnchanged
  /\ UNCHANGED <<sd, txOn, rxOn, txOut, ready, oob, saved>>

(* sbl_save_serdes_tuning_params() writes the hash first and then what it   *)
(* reads from each lane.  A lane that cannot be read ends it, with no error *)
(* for the caller.                                                          *)
SaveParams ==
  /\ SdGo("save", "prbs")
  /\ IF "DFE_SAVE_PARAMS" \notin sdOpt THEN UNCHANGED saved
     ELSE \E done \in SUBSET Lanes :
            /\ Ends(RxNeeded, done)
               \/ \E k \in RxNeeded : done = BreaksAt(RxNeeded, k)
            /\ saved' = [hash |-> Hash, lanes |-> saved.lanes \cup done]
  /\ TuneUnchanged
  /\ UNCHANGED <<sd, laneVars, pcalRunning, oob>>

(* sbl_set_prbs_rx_mode() waits for the tune of the lanes once more.        *)
SetPrbs ==
  /\ \/ SdGo("prbs", "end")
     \/ /\ "PRBS" \in sdOpt
        /\ \E e \in LaneErrs \cup {"ENOMSG", "ETIME"} : SdFail("prbs", e)
  /\ TuneUnchanged
  /\ UNCHANGED <<sd, laneVars, tpVars>>

-----------------------------------------------------------------------------
(* sbl_serdes_minitune_setup() after its configuration.                     *)
MtSetup ==
  /\ \/ SdGo("mtSetup", "mtSignal")
     \/ \E e \in LaneErrs : SdBreak("mtSetup", e)
  /\ StepOnly
  /\ UNCHANGED <<laneVars, tpVars, signal>>

(* sbl_serdes_minitune_block(): look for a signal on every receiving lane   *)
(* until a cancel, the start timeout or lpd_timeout.                        *)
MtSignal ==
  /\ SdGo("mtSignal", "mtFilter")
  /\ signal' \in BOOLEAN
  /\ StepOnly
  /\ UNCHANGED <<laneVars, tpVars>>

(* Its operations return their own errors, of which ETIMEDOUT means the     *)
(* start timeout to sbl_serdes_lp_detect().                                 *)
MtFilter ==
  /\ \/ SdGo("mtFilter", "mtWait")
     \/ \E e \in LaneErrs : SdFail("mtFilter", e)
  /\ StepOnly
  /\ UNCHANGED <<laneVars, tpVars, signal>>

(* What the wait for the tunes returned counts only if there was a signal   *)
(* and neither a cancel nor the timeout.  ETIME starts the minitune again.  *)
(* Mutant: the start timeout is left to the caller.                         *)
MtWaitForever ==
  /\ \E e \in {"ok", "EIO", "ENOMSG", "ETIME"} :
       LET result == IF sdCancelled THEN "ECANCELED"
                     ELSE IF ~signal THEN "ETIME" ELSE e
       IN \/ result = "ETIME" /\ SdGo("mtWait", "cfgPcal")
          \/ result # "ETIME" /\ SdFail("mtWait", result)
  /\ StepOnly
  /\ UNCHANGED <<laneVars, tpVars, signal>>

MtWait ==
  /\ \E e \in {"ok", "EIO", "ENOMSG", "ETIME"} :
       LET result == IF sdCancelled THEN "ECANCELED"
                     ELSE IF sdExpired THEN "ETIMEDOUT"
                     ELSE IF ~signal THEN "ETIME" ELSE e
       IN \/ result = "ETIME" /\ SdGo("mtWait", "cfgPcal")
          \/ result # "ETIME" /\ SdFail("mtWait", result)
  /\ StepOnly
  /\ UNCHANGED <<laneVars, tpVars, signal>>

-----------------------------------------------------------------------------
(* How calls end.  A time out also resets the receiver PLLs, which changes  *)
(* nothing recorded here.                                                   *)
MayReload == reloadSerdes \/ "RELOAD_FW_ON_TIMEOUT" \in sdOpt

DetectEnd ==
  /\ sdOp = "detect" /\ sdPc = "end"
  /\ CallEnds(IF sdErr \in {"ok", "ETIMEDOUT", "ECANCELED"}
              THEN "DOWN" ELSE "ERROR")
  /\ reloadSerdes' = IF sdErr = "ETIMEDOUT" THEN MayReload ELSE reloadSerdes
  /\ UNCHANGED <<laneVars, tpVars>>

StartEnd ==
  /\ sdOp = "start" /\ sdPc = "end"
  /\ CallEnds(IF sdErr = "ok" THEN "RUNNING" ELSE "ERROR")
  /\ reloadSerdes' = IF sd = "TUNING" /\ sdErr = "ETIMEDOUT"
                     THEN MayReload ELSE reloadSerdes
  /\ UNCHANGED <<laneVars, tpVars>>

StopEnd ==
  /\ sdOp \in {"stop", "anStop", "anStart"} /\ sdPc = "end"
  /\ CallEnds(IF sdOp = "anStart" THEN "AUTONEG" ELSE "DOWN")
  /\ UNCHANGED <<reloadSerdes, laneVars, tpVars>>

BrokenEnd ==
  /\ sdPc = "broken"
  /\ CallEnds("ERROR")
  /\ UNCHANGED <<reloadSerdes, laneVars, tpVars>>

-----------------------------------------------------------------------------
(* sbl_serdes_reset().  Continuous tuning that cannot be stopped does not   *)
(* matter.                                                                  *)
ResetPcal ==
  /\ SdGo("rsPcal", "rsSoft")
  /\ \E done \in SUBSET Lanes : StopPcal(done, TRUE) \/ StopPcal(done, FALSE)
  /\ StepOnly
  /\ UNCHANGED <<txOn, rxOn, txOut, ready, oob, saved,
                 signal>>

(* sbl_serdes_soft_reset() of each lane resets the lane and clears          *)
(* pcal_running.  The lane that fails may have been reset.                  *)
ResetLanes(done) ==
  /\ txOn' = txOn \ done /\ rxOn' = rxOn \ done /\ txOut' = txOut \ done
  /\ pcalOn' = pcalOn \ done /\ ready' = ready \ done

(* Mutant: a reset that fails returns at once.                              *)
ResetReturns ==
  /\ sdPc = "rsSoft"
  /\ \E done \in SUBSET Lanes :
       /\ \/ /\ Ends(Lanes, done) /\ sdPc' = "end" /\ UNCHANGED sdOp
             /\ pcalRunning' = FALSE
          \/ /\ Breaks(Lanes, done) /\ sdPc' = "idle" /\ UNCHANGED sdOp
             /\ UNCHANGED pcalRunning
       /\ ResetLanes(done)
  /\ UNCHANGED <<sd, sdErr, reloadSerdes, atCall, setVars, flagVars, oob,
                 saved, signal>>

ResetSoft ==
  /\ sdPc = "rsSoft"
  /\ \E done \in SUBSET Lanes :
       /\ \/ /\ Ends(Lanes, done)
             /\ sdPc' = IF "FORCE_RELOAD" \in sdOpt THEN "flash" ELSE "end"
             /\ pcalRunning' = FALSE
          \/ \E k \in Lanes :
               /\ done \in {BreaksAt(Lanes, k), BreaksAt(Lanes, k) \cup {k}}
               /\ sdPc' = "flash"
               /\ pcalRunning' = (pcalRunning /\ BreaksAt(Lanes, k) = {})
       /\ ResetLanes(done)
  /\ UNCHANGED <<sd, sdOp, sdErr, reloadSerdes, atCall, setVars, flagVars, oob,
                 saved, signal>>

ResetEnd ==
  /\ sdOp = "reset" /\ sdPc = "end"
  /\ CallEnds("DOWN")
  /\ UNCHANGED <<reloadSerdes, laneVars, tpVars>>

(* sbl_serdes_firmware_flash_safe() restarts every lane, or fails with some *)
(* of them stopped.  A failed start that called it clears its request.      *)
ReloadFirmware ==
  /\ sdPc = "flash"
  /\ \E done \in SUBSET Lanes :
       /\ \/ Ends(Lanes, done) /\ CallEnds("DOWN")
          \/ Breaks(Lanes, done) /\ CallEnds("ERROR")
       /\ ResetLanes(done)
  /\ reloadSerdes' = (reloadSerdes /\ sdOp # "flash")
  /\ UNCHANGED tpVars

-----------------------------------------------------------------------------
(* What goes on around a call.  A cancel needs only the link's mutex; the   *)
(* start timeout passes by itself.                                          *)
Waits == sdOp \in {"detect", "start"}
FlagOnly == UNCHANGED <<sd, sdOp, sdPc, sdErr, reloadSerdes, setVars, laneVars,
                        tpVars, signal, atCall>>

SdCancel ==
  /\ Waits /\ ~sdCancelled /\ sdCancelled' = TRUE
  /\ FlagOnly /\ UNCHANGED sdExpired

Expire ==
  /\ Waits /\ ~sdExpired /\ sdExpired' = TRUE
  /\ FlagOnly /\ UNCHANGED sdCancelled

(* The link mode may change whenever no mode is in use, in autonegotiation  *)
(* too, the loopback with a new start.                                      *)
SdConfigure ==
  /\ sdOp = "none" /\ sd \in {"DOWN", "AUTONEG"}
  /\ \E c \in SdConfigs : linkMode' = c[1] /\ looped' = c[2]
  /\ sd = "AUTONEG" => looped' = looped
  /\ UNCHANGED <<sd, sdOp, sdPc, sdErr, reloadSerdes, sdOpt, flagVars, laneVars,
                 tpVars, signal, atCall>>

(* sbl_serdes_set_tuning_params() with what a get of the same or another    *)
(* port returned, and sbl_serdes_invalidate_tuning_params(), also by the    *)
(* cleanup of any port, at any time.                                        *)
ParamsOnly ==
  UNCHANGED <<sd, sdOp, sdPc, sdErr, reloadSerdes, setVars, flagVars, laneVars,
              pcalRunning, oob, signal, atCall>>

SetParams  == ParamsOnly /\ \E h \in SdConfigs : saved' = Whole(h)

Invalidate == ParamsOnly /\ saved' = [saved EXCEPT !.hash = NoHash]

SdStep ==
  \/ OffPcal \/ OffLanes \/ OffSpico
  \/ CfgPcal \/ CfgInit \/ CfgSet \/ CfgOff \/ CfgClock \/ CfgLanes \/ CfgData
  \/ WaitOptics \/ TuneAnew \/ UseSaved \/ PreDelay
  \/ TuneStart \/ TuneDone \/ TuneStopped \/ TuneFails
  \/ CheckEyes \/ CheckParams \/ StartPcal \/ SaveParams \/ SetPrbs
  \/ MtSetup \/ MtSignal \/ MtFilter \/ MtWait
  \/ DetectEnd \/ StartEnd \/ StopEnd \/ BrokenEnd
  \/ ResetPcal \/ ResetSoft \/ ResetEnd \/ ReloadFirmware

SdCalls ==
  \/ CallDetect \/ CallStart \/ CallAnStart \/ CallStop \/ CallReset
  \/ CallFlash

SdNext == SdStep \/ SdCalls \/ SdCancel \/ Expire \/ SdConfigure \/ SetParams
          \/ Invalidate

SdSpec == SdInit /\ [][SdNext]_sdVars

(* The start timeout passes.  Tunes take their time: unless each is done at *)
(* the first look, the tuning loop sees the timeout between two looks.      *)
SdFairness == WF_sdVars(SdStep) /\ WF_sdVars(Expire) /\ SF_sdVars(TuneStopped)

-----------------------------------------------------------------------------
SdTypeOK ==
  /\ sd \in {"DOWN", "LPD_MT", "TUNING", "RUNNING", "AUTONEG", "RESETTING",
             "ERROR"}
  /\ sdOp \in SdOps \cup {"none"} /\ sdPc \in SdPcs /\ sdErr \in SdErrs
  /\ Hash \in SdConfigs /\ sdOpt \in SdOptions
  /\ {reloadSerdes, sdCancelled, sdExpired, pcalRunning, signal}
       \subseteq BOOLEAN
  /\ \A S \in {txOn, rxOn, txOut, pcalOn, ready} : S \subseteq Lanes
  /\ oob \in 0 .. MaxOob + 1
  /\ saved.hash \in SdConfigs \cup {NoHash}
  /\ saved.lanes \subseteq Lanes
  /\ (sdOp = "none") = (sdPc = "idle")

SdIdle == sdOp = "none"

(* A SerDes that is RUNNING is whole: every receiving lane of its mode has  *)
(* been tuned, or given parameters, since it was configured, lane 0 sends   *)
(* the clock, and exactly the lanes of the mode send and receive.           *)
(* sbl_serdes_start() must not end well with a lane that some earlier call  *)
(* configured or that a failed loop left out.                               *)
RunningIsReady ==
  SdIdle /\ sd = "RUNNING" =>
    /\ RxNeeded \subseteq ready /\ rxOn = RxNeeded
    /\ 0 \in txOn /\ txOut = TxMask

(* A tune never starts with continuous tuning running on a lane of the      *)
(* port.  Where it runs without the driver knowing it, after a stop or a    *)
(* start of it that failed halfway, the SerDes is in error: it has to be    *)
(* reset before the next start, which would not stop it.                    *)
TuneWithoutPcal ==
  /\ sdPc = "tune" => pcalOn = {}
  /\ SdIdle /\ pcalOn # {} /\ ~pcalRunning => sd = "ERROR"

(* The calls end in the states, and with the requests for a firmware        *)
(* reload, that the model of the base link gives them.                      *)
Service == INSTANCE SerdesService WITH
             sstate   <- IF SdIdle THEN sd ELSE atCall[1],
             reloadFw <- IF SdIdle THEN reloadSerdes ELSE atCall[2],
             serving  <- sdOp
ImplementsService == Service!ServiceSpec
=============================================================================
