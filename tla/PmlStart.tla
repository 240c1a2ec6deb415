------------------------------- MODULE PmlStart -------------------------------
(***************************************************************************)
(* sbl_pml_start() and what it is called between: the PCS, the MAC and the  *)
(* link level retry (LLR) of a port, their registers (hw), the link_info    *)
(* flags that report them (info), and the loop time, modes and options a    *)
(* start leaves for the next one.  The steps before it (firmware, autoneg,  *)
(* SerDes) and after it (FEC and fault monitoring) are one step each here.  *)
(***************************************************************************)
EXTENDS Naturals

CONSTANTS
  PmlAttrs,            \* base link attributes: [llr, opts, ifg, loopback]
  PmlMedias,           \* media attributes: [optical, len]; a length is not
                       \* given, known, or foreign: none the port supports
  PmlModes,            \* the modes a start may come to
  AnOptions,           \* sets of options the partner's pages may give
  TxSource, RxSource,  \* the lane source maps of the port
  NoFaults             \* SBL_PML_REQUIRED_NO_FAULT_COUNT

(* Both maps are of the lanes of the port.                                  *)
ASSUME PmlAssumption ==
  /\ NoFaults \in Nat \ {0} /\ DOMAIN RxSource = DOMAIN TxSource
  /\ \A a \in PmlAttrs : a.llr \in {"off", "monitor", "on", "auto"}
  /\ \A m \in PmlMedias : m.len \in {"none", "known", "foreign"}
  /\ PmlModes \subseteq {"BS_200G", "BJ_100G", "CD_100G", "CD_50G"}

VARIABLES
  psPc, psErr, psState,     \* step, error (blerr when idle), blstate
  psAttr, psMedia,          \* blattr, mattr
  psLoop, psMode, psAn,     \* loopback_mode, link_mode, an_options
  psSerdes, psParams,       \* sstate; the saved tuning parameters
  psExpired, psCancelled,   \* the start timeout, start_cancelled
  psGood,                   \* no_fault_count
  hw, info,                 \* PML registers, link_info
  llrMode, llrHpc,          \* llr_mode; HPC in llr_options, which stays set
  hpcAsked,                 \* history: this start has resolved LLR with HPC
  loopTime, loopFor         \* llr_loop_time, and what it was measured for

psCallVars == <<psPc, psErr, psState>>
confVars == <<psAttr, psMedia, psLoop, psMode, psAn>>
stopVars == <<psExpired, psCancelled>>
hpcVars  == <<llrHpc, hpcAsked>>
llrVars  == <<llrMode, hpcVars>>
timeVars == <<loopTime, loopFor>>
serdesVars == <<psSerdes, psParams>>
psVars == <<psCallVars, confVars, stopVars, llrVars, timeVars, serdesVars,
            psGood, hw, info>>

(* The registers sbl_pml_set_defaults() leaves.                             *)
Defaults == [pcs |-> FALSE, lock |-> FALSE, lanes |-> {}, rf |-> FALSE,
             os |-> FALSE, degrade |-> FALSE, allow |-> FALSE, mac |-> FALSE,
             ifg |-> "default", llr |-> "off", timing |-> FALSE]

(* sbl_pml_pcs_determine_active_lanes()                                     *)
ActiveLanes(mode, loop) ==
  LET source == IF loop = "local" THEN TxSource ELSE RxSource
  IN CASE mode = "CD_100G" -> {l \in DOMAIN source : source[l] < 2}
       [] mode = "CD_50G"  -> {l \in DOMAIN source : source[l] = 0}
       [] OTHER            -> DOMAIN source

PsInit ==
  /\ psPc = "idle" /\ psErr = "ok" /\ psState = "DOWN"
  /\ psAttr \in PmlAttrs /\ psMedia \in PmlMedias
  /\ psLoop = "invalid" /\ psMode \in PmlModes /\ psAn = {}
  /\ psSerdes = "DOWN" /\ psParams = "none"
  /\ psExpired = FALSE /\ psCancelled = FALSE /\ psGood = 0
  /\ hw = Defaults /\ info = {}
  /\ llrMode = "off" /\ llrHpc = FALSE /\ hpcAsked = FALSE
  /\ loopTime = "unset" /\ loopFor = <<>>

PsGo(from, to)   == /\ psPc = from /\ psPc' = to
                    /\ UNCHANGED <<psErr, psState>>
PsQuit(from, to, e) == /\ psPc = from /\ psPc' = to /\ psErr' = e
                       /\ UNCHANGED psState

(* sbl_start_timeout() is asked before sbl_base_link_start_cancelled().     *)
Stopped(from, to) ==
  \/ psExpired /\ PsQuit(from, to, "ETIMEDOUT")
  \/ ~psExpired /\ psCancelled /\ PsQuit(from, to, "ECANCELED")
PsRuns == ~psExpired /\ ~psCancelled

PmlOnly  == UNCHANGED <<confVars, stopVars, serdesVars>>
InfoOnly == PmlOnly /\ UNCHANGED <<llrVars, timeVars, hw, psGood>>

-----------------------------------------------------------------------------
(* sbl_base_link_start() up to the alignment markers.  A change of the      *)
(* loopback mode makes the loop time void.                                  *)
PsBegin ==
  /\ psState = "DOWN" /\ psPc = "idle" /\ psPc' = "am"
  /\ psErr' = "ok" /\ psState' = "STARTING"
  /\ psLoop' = psAttr.loopback
  /\ IF psAttr.loopback # psLoop THEN loopTime' = "unset" /\ loopFor' = <<>>
     ELSE UNCHANGED timeVars
  /\ psExpired' = FALSE
  /\ hw' = Defaults
  /\ UNCHANGED <<psAttr, psMedia, psMode, psAn, psCancelled, llrVars, serdesVars,
                 psGood, info>>

(* sbl_pml_pcs_stop(): the PCS behind a running optical SerDes is left on.  *)
PcsStopped(r, serdes) ==
  IF serdes # "DOWN" /\ psMedia.optical THEN r ELSE [r EXCEPT !.pcs = FALSE]
PcsStopClears(serdes) ==
  IF serdes # "DOWN" /\ psMedia.optical THEN {}
  ELSE {"TX_AM", "ALIGN_EN", "A_WAIT", "F_WAIT", "PCS_UP"}

(* sbl_base_link_get_mode() finds the mode and, with autoneg, the options   *)
(* of the partner.  Then sbl_pml_pcs_am_start(): sbl_pml_pcs_config(),      *)
(* which stops the PCS first, remote fault on, and sbl_pml_pcs_start().     *)
AmStarted ==
  [PcsStopped(hw, psSerdes) EXCEPT
     !.pcs = TRUE, !.rf = TRUE, !.os = FALSE, !.lock = FALSE,
     !.lanes = ActiveLanes(psMode', psLoop),
     !.degrade = "LANE_DEGRADE" \in psAttr.opts /\ psMode' = "BS_200G"]

PsAmStart ==
  /\ UNCHANGED <<psAttr, psMedia, psLoop, stopVars, llrVars, timeVars,
                 serdesVars, psGood>>
  /\ \/ /\ PsGo("am", "serdes")
        /\ psMode' \in PmlModes /\ psAn' \in AnOptions \cup {psAn}
        /\ hw' = AmStarted
        /\ info' = (info \ {"ALIGN_EN", "A_WAIT", "F_WAIT", "PCS_UP"})
                     \cup {"TX_RF", "TX_AM"}
     \/ /\ Stopped("am", "out") \/ PsQuit("am", "out", "EIO")
        /\ UNCHANGED <<psMode, psAn, hw, info>>

(* sbl_base_link_lp_detect() and sbl_serdes_start(), which uses the saved   *)
(* parameters or tunes anew.                                                *)
PsSerdesStart ==
  /\ UNCHANGED <<confVars, stopVars, llrVars, timeVars, psGood, hw, info>>
  /\ \/ /\ psSerdes = "DOWN" /\ PsGo("serdes", "config")
        /\ psSerdes' = "RUNNING"
        /\ psParams' \in {"saved"} \cup IF psParams = "none" THEN {} ELSE {"used"}
     \/ /\ Stopped("serdes", "out")
        /\ UNCHANGED serdesVars
     \/ /\ PsQuit("serdes", "out", "EIO")
        /\ psSerdes' = "ERROR" /\ UNCHANGED psParams

(* sbl_pml_start() up to its loop: the time that is left may be extended,   *)
(* sbl_pml_pcs_enable_alignment(), sbl_pml_mac_config(),                    *)
(* sbl_pml_llr_config().                                                    *)
MacMode ==
  IF "IFG_CONFIG" \in psAttr.opts THEN psAttr.ifg
  ELSE IF "FABRIC_LINK" \in psAttr.opts THEN "hpc" ELSE "ieee"

PsConfigure ==
  /\ PsGo("config", "lock")
  /\ psExpired' \in {psExpired, FALSE}
  /\ llrMode' = psAttr.llr /\ hpcAsked' = FALSE
  /\ hw' = [hw EXCEPT !.lock = TRUE, !.lanes = ActiveLanes(psMode, psLoop),
                      !.rf = FALSE, !.mac = FALSE, !.ifg = MacMode,
                      !.llr = "off", !.timing = FALSE]
  /\ info' = (info \cup {"ALIGN_EN", "A_WAIT"}) \ {"TX_RF"}
  /\ UNCHANGED <<confVars, psCancelled, llrHpc, timeVars, serdesVars, psGood>>

-----------------------------------------------------------------------------
(* Mutant: the wait for the faults to clear knows no timeout.               *)
FaultsUntimed(from) ==
  \/ ~(from = "faults" /\ psExpired) /\ Stopped(from, "pcsFailed")
  \/ /\ from = "lock" /\ PsRuns
     /\ \E e \in {"EADV", "ECHRNG"} : PsQuit(from, "pcsFailed", e)

(* sbl_pml_pcs_wait().  sbl_pml_pcs_alignment_wait() polls for the lock of  *)
(* every active lane and then for their alignment; a lock that takes long   *)
(* is started again unless the SerDes has gone bad.                         *)
PcsWaitFails(from) ==
  \/ Stopped(from, "pcsFailed")
  \/ /\ from = "lock" /\ PsRuns
     /\ \E e \in {"EADV", "ECHRNG"} : PsQuit(from, "pcsFailed", e)

PsLock ==
  /\ PcsWaitFails("lock") \/ PsGo("lock", "align")
  /\ InfoOnly /\ UNCHANGED info

PsAlign ==
  /\ \/ PcsWaitFails("align") /\ UNCHANGED <<info, psGood>>
     \/ PsRuns /\ PsGo("align", "lock") /\ UNCHANGED <<info, psGood>>
     \/ /\ PsGo("align", "faults")
        /\ info' = (info \ {"A_WAIT"}) \cup {"F_WAIT"} /\ psGood' = 0
  /\ PmlOnly /\ UNCHANGED <<llrVars, timeVars, hw>>

(* sbl_pml_pcs_fault_clear_wait() wants NoFaults polls without a fault in a *)
(* row.  The end of sbl_pml_pcs_wait() drops all stage info.                *)
PsFaults ==
  /\ PmlOnly /\ UNCHANGED <<llrVars, timeVars, hw>>
  /\ \/ PcsWaitFails("faults") /\ UNCHANGED <<info, psGood>>
     \/ /\ PsRuns /\ PsGo("faults", "lock")
        /\ info' = (info \ {"F_WAIT"}) \cup {"A_WAIT"} /\ UNCHANGED psGood
     \/ /\ PsRuns /\ PsGo("faults", "faults")
        /\ psGood' \in {0} \cup ({psGood + 1} \ {NoFaults}) /\ UNCHANGED info
     \/ /\ PsRuns /\ psGood + 1 = NoFaults /\ PsGo("faults", "degrade")
        /\ info' = (info \ {"ALIGN_EN", "F_WAIT", "TX_AM"}) \cup {"PCS_UP"}
        /\ UNCHANGED psGood

(* The parameters a start used are doubted if the PCS does not come up.     *)
PsPcsFailed ==
  /\ psPc = "pcsFailed" /\ psPc' = "pmlFailed"
  /\ UNCHANGED <<psErr, psState, psSerdes, confVars, stopVars, llrVars,
                 timeVars, psGood, hw>>
  /\ info' = info \ {"ALIGN_EN", "A_WAIT", "F_WAIT"}
  /\ psParams' = IF psParams = "used" /\ psErr # "ECANCELED" THEN "none"
                 ELSE psParams

(* out_err of sbl_pml_start(): MAC off, alignment off.                      *)
PsPmlFailed ==
  /\ PsGo("pmlFailed", "serdesDown")
  /\ hw' = [hw EXCEPT !.mac = FALSE, !.lock = FALSE]
  /\ info' = info \ {"MAC_OP", "ALIGN_EN"}
  /\ PmlOnly /\ UNCHANGED <<llrVars, timeVars, psGood>>

-----------------------------------------------------------------------------
(* sbl_pml_pcs_enable_auto_lane_degrade(): allowed when both sides have     *)
(* told their lanes in time, else switched off again; sbl_pml_mac_start();  *)
(* the head of sbl_pml_llr_start().                                         *)
(* Mutant: a timeout leaves lane degrade switched on.                       *)
DegradeHalf ==
  /\ PsGo("degrade", "llr")
  /\ \E told \in BOOLEAN :
       hw' = [hw EXCEPT !.allow = hw.allow \/ (hw.degrade /\ told),
                        !.mac = TRUE, !.timing = TRUE]
  /\ info' = (info \ {"LLR_DISABLED"}) \cup {"MAC_OP", "LLR_LOOP"}
  /\ PmlOnly /\ UNCHANGED <<llrVars, timeVars, psGood>>

PsDegrade ==
  /\ PsGo("degrade", "llr")
  /\ \E told \in BOOLEAN :
       hw' = [hw EXCEPT !.degrade = hw.degrade /\ told,
                        !.allow = hw.allow \/ (hw.degrade /\ told),
                        !.mac = TRUE, !.timing = TRUE]
  /\ info' = (info \ {"LLR_DISABLED"}) \cup {"MAC_OP", "LLR_LOOP"}
  /\ PmlOnly /\ UNCHANGED <<llrVars, timeVars, psGood>>

(* sbl_pml_llr_mode_get(): in AUTO the fabric, the options, what the        *)
(* partner told in autoneg, and last the detection of a loop decide.        *)
LlrAuto == psAttr.llr = "auto"
EtherLlr == "ETHER_LLR" \in psAttr.opts
Fabric == "FABRIC_LINK" \in psAttr.opts
LlrOn == \/ psAttr.llr = "on"
         \/ LlrAuto /\ Fabric
         \/ LlrAuto /\ EtherLlr /\ {"LLR", "ETHER_LLR"} \subseteq psAn
LlrDetects == LlrAuto /\ ~Fabric /\ EtherLlr /\ "LLR" \notin psAn
AnHpc == LlrAuto /\ ~Fabric /\ {"LLR", "ETHER_LLR", "HPC"} \subseteq psAn

(* llr_options only ever gains the bit, here and in PsDetect.               *)
HpcWithLlr(yes) == llrHpc' = (llrHpc \/ yes) /\ hpcAsked' = yes

PsLlrMode ==
  /\ \/ /\ LlrOn /\ PsGo("llr", "llrOn") /\ llrMode' = "on"
        /\ HpcWithLlr(AnHpc) /\ UNCHANGED info
     \/ /\ psAttr.llr = "monitor" /\ PsGo("llr", "llrOn")
        /\ llrMode' = "monitor" /\ UNCHANGED <<hpcVars, info>>
     \/ /\ LlrDetects /\ PsGo("llr", "detect")
        /\ info' = info \cup {"LLR_DETECT"} /\ UNCHANGED llrVars
     \/ /\ ~LlrOn /\ ~LlrDetects /\ psAttr.llr # "monitor"
        /\ PsGo("llr", "llrDone")
        /\ llrMode' = "off" /\ UNCHANGED <<hpcVars, info>>
  /\ PmlOnly /\ UNCHANGED <<timeVars, hw, psGood>>

(* sbl_pml_llr_detect()                                                     *)
PsDetect ==
  /\ \/ /\ Stopped("detect", "llrFailed") /\ llrMode' = "off"
        /\ UNCHANGED hpcVars
     \/ /\ PsGo("detect", "llrOn") /\ llrMode' = "on"
        /\ HpcWithLlr("HPC_WITH_LLR" \in psAttr.opts)
     \/ /\ PsGo("detect", "llrDone") /\ llrMode' = "off"
        /\ UNCHANGED hpcVars
  /\ info' = info \ {"LLR_DETECT"}
  /\ PmlOnly /\ UNCHANGED <<timeVars, hw, psGood>>

(* HPC in the MAC if llr_options has it, ordered sets on, and the loop time *)
(* measured unless it is known.                                             *)
PsLlrOn ==
  /\ hw' = [hw EXCEPT !.ifg = IF llrHpc THEN "hpc" ELSE @, !.os = TRUE]
  /\ \/ /\ loopTime # "unset" /\ PsGo("llrOn", "llrSet")
        /\ info' = info \cup {"OS"} /\ UNCHANGED timeVars
     \/ /\ loopTime = "unset" /\ PsGo("llrOn", "measure")
        /\ info' = info \cup {"OS", "LLR_MEASURE"}
        /\ loopTime' = "begun" /\ loopFor' = <<psLoop, psMedia>>
  /\ PmlOnly /\ UNCHANGED <<llrVars, psGood>>

(* sbl_media_calc_loop_time() knows no bound for the loop time.             *)
LengthUnusable == psMedia.len = "foreign" /\ psAttr.loopback = "off"

(* sbl_pml_llr_measure_loop_time_ns() keeps its greatest time until it has  *)
(* measured one; when it never does, it takes the bound of the cable.       *)
MeasureLoops ==
  \/ Stopped("measure", "llrFailed") /\ UNCHANGED loopTime
  \/ PsGo("measure", "llrSet") /\ loopTime' = "measured"
  \/ /\ "LOOP_TIME_FAIL" \notin psAttr.opts
     /\ PsGo("measure", "llrSet") /\ loopTime' = "bound"
  \/ /\ "LOOP_TIME_FAIL" \in psAttr.opts
     /\ PsQuit("measure", "llrFailed", "ENODATA") /\ UNCHANGED loopTime

(* Without a bound it returns at once, its stage and greatest time left on. *)
PsMeasure ==
  /\ \/ /\ LengthUnusable /\ PsQuit("measure", "llrFailed", "EBADRQC")
        /\ UNCHANGED <<info, loopTime>>
     \/ ~LengthUnusable /\ MeasureLoops /\ info' = info \ {"LLR_MEASURE"}
  /\ PmlOnly /\ UNCHANGED <<llrVars, loopFor, hw, psGood>>

(* Replay timer and capacity from the loop time, then the mode and the wait *)
(* for LLR to advance.                                                      *)
PsLlrSet ==
  /\ PsGo("llrSet", "llrReady")
  /\ hw' = [hw EXCEPT !.llr = llrMode]
  /\ info' = info \cup {"LLR_WAIT"}
  /\ PmlOnly /\ UNCHANGED <<llrVars, timeVars, psGood>>

PsLlrReady ==
  /\ \/ /\ Stopped("llrReady", "llrFailed")
        /\ info' = info \ {"LLR_WAIT"}
     \/ /\ PsGo("llrReady", "llrDone")
        /\ info' = (info \ {"LLR_WAIT"}) \cup {"LLR_RUN"}
  /\ InfoOnly

PsLlrDone ==
  /\ PsGo("llrDone", "fec")
  /\ hw' = [hw EXCEPT !.timing = FALSE] /\ info' = info \ {"LLR_LOOP"}
  /\ PmlOnly /\ UNCHANGED <<llrVars, timeVars, psGood>>

(* sbl_pml_llr_stop()                                                       *)
LlrStopped(r) == [r EXCEPT !.llr = "off", !.os = FALSE, !.timing = FALSE]
LlrStopClears == {"OS", "LLR_RUN", "LLR_DISABLED"}

PsLlrFailed ==
  /\ PsGo("llrFailed", "pmlFailed")
  /\ llrMode' = "off"
  /\ hw' = LlrStopped(hw) /\ info' = info \ (LlrStopClears \cup {"LLR_LOOP"})
  /\ PmlOnly /\ UNCHANGED <<hpcVars, timeVars, psGood>>

-----------------------------------------------------------------------------
(* sbl_pml_link_down()                                                      *)
PmlDownClears(serdes) == LlrStopClears \cup {"MAC_OP"} \cup PcsStopClears(serdes)

PsLinkDown(serdes) ==
  /\ llrMode' = "off"
  /\ hw' = PcsStopped([LlrStopped(hw) EXCEPT !.mac = FALSE], serdes)
  /\ info' = info \ PmlDownClears(serdes)

SerdesStops ==
  /\ psSerdes' \in IF psSerdes = "RUNNING" THEN {"DOWN", "ERROR"} ELSE {psSerdes}
  /\ UNCHANGED psParams

(* The rest of the start: FEC check, fault monitor, last check of the PCS.  *)
PsUp ==
  /\ psPc = "fec" /\ psPc' = "idle" /\ psErr' = "ok" /\ psState' = "UP"
  /\ PmlOnly /\ UNCHANGED <<llrVars, timeVars, psGood, hw, info>>

PsFecFails ==
  /\ \E e \in {"EOVERFLOW", "ENETDOWN", "EALREADY"} :
       PsQuit("fec", "serdesDown", e)
  /\ PsLinkDown(psSerdes)
  /\ PmlOnly /\ UNCHANGED <<hpcVars, timeVars, psGood>>

PsSerdesDown ==
  /\ PsGo("serdesDown", "out") /\ SerdesStops
  /\ UNCHANGED <<confVars, stopVars, llrVars, timeVars, psGood, hw, info>>

PsOut ==
  /\ psPc = "out" /\ psPc' = "idle" /\ psState' = "ERROR" /\ UNCHANGED psErr
  /\ PmlOnly /\ UNCHANGED <<llrVars, timeVars, psGood, hw, info>>

(* sbl_base_link_try_start_fail_cleanup(): errors it knows lead to DOWN.    *)
InvalidatesAll == {"EADV", "EBADE", "ENETDOWN", "ECHRNG", "ELNRNG"}
ClearedErrors == InvalidatesAll \cup
                   {"ETIME", "ETIMEDOUT", "EOVERFLOW", "ECANCELED", "ENOSR"}

(* Mutant: the loop time survives the cleanup.                              *)
KeepsLoopTime(serdes) ==
  /\ PsLinkDown(serdes)
  /\ UNCHANGED timeVars

CleanupPml(serdes) ==
  /\ llrMode' = "off" /\ hw' = Defaults
  /\ info' = info \ PmlDownClears(serdes)
  /\ loopTime' = "unset" /\ loopFor' = <<>>

PsCleanup ==
  /\ psPc = "idle" /\ psState = "ERROR"
  /\ IF psSerdes = "DOWN" THEN UNCHANGED psSerdes
     ELSE psSerdes' \in {"DOWN", "ERROR"}
  /\ \/ /\ psErr \in ClearedErrors
        /\ psState' = "DOWN" /\ psErr' = "ok" /\ psCancelled' = FALSE
        /\ psParams' = IF psErr \in InvalidatesAll THEN "none" ELSE psParams
        /\ CleanupPml(psSerdes')
     \/ /\ psErr \notin ClearedErrors
        /\ UNCHANGED <<psState, psErr, psCancelled, psParams, timeVars,
                       llrMode, hw, info>>
  /\ UNCHANGED <<psPc, confVars, psExpired, hpcVars, psGood>>

(* sbl_base_link_stop() of a link that is up.                               *)
PsStop ==
  /\ psPc = "idle" /\ psState = "UP" /\ UNCHANGED psPc
  /\ SerdesStops
  /\ \/ /\ psSerdes' = "DOWN" /\ psState' = "DOWN" /\ psErr' = "ok"
        /\ PsLinkDown("DOWN")
     \/ /\ psSerdes' = "ERROR" /\ psState' = "ERROR" /\ psErr' = "EIO"
        /\ UNCHANGED <<llrMode, hw, info>>
  /\ UNCHANGED <<confVars, stopVars, hpcVars, timeVars, psGood>>

(* sbl_base_link_reset(), and a new configuration.                          *)
PsReset ==
  /\ psPc = "idle" /\ psState' = "DOWN" /\ psErr' = "ok" /\ UNCHANGED psPc
  /\ psSerdes' \in {"DOWN", "ERROR"}
  /\ psCancelled' = FALSE /\ loopTime' = "unset" /\ loopFor' = <<>>
  /\ llrMode' = "off" /\ hw' = Defaults /\ info' = {}
  /\ psAttr' \in PmlAttrs
  /\ UNCHANGED <<psMedia, psLoop, psMode, psAn, psExpired, hpcVars, psParams,
                 psGood>>

(* sbl_base_link_config() and sbl_media_config() of a link that is down.    *)
PsConfig ==
  /\ psPc = "idle" /\ psState = "DOWN" /\ psAttr' \in PmlAttrs
  /\ UNCHANGED <<psCallVars, psMedia, psLoop, psMode, psAn, stopVars, llrVars,
                 timeVars, serdesVars, psGood, hw, info>>

PsMedia ==
  /\ psPc = "idle" /\ psState = "DOWN" /\ psMedia' \in PmlMedias
  /\ loopTime' = "unset" /\ loopFor' = <<>>
  /\ UNCHANGED <<psCallVars, psAttr, psLoop, psMode, psAn, stopVars, llrVars,
                 serdesVars, psGood, hw, info>>

-----------------------------------------------------------------------------
(* The functions the clients call on a link that is up, a cancel, and the   *)
(* start timeout.                                                           *)
PsClient ==
  /\ psPc = "idle" /\ psState = "UP"
  /\ \/ /\ hw' = [hw EXCEPT !.llr = "off"]                \* llr_disable
        /\ info' = (info \cup {"LLR_DISABLED"}) \ {"LLR_RUN"}
     \/ /\ hw' = [hw EXCEPT !.llr = llrMode]              \* llr_enable
        /\ UNCHANGED info
     \/ /\ hw' = [hw EXCEPT !.mac = TRUE]                 \* mac_start
        /\ info' = info \cup {"MAC_OP"}
     \/ /\ hw' = [hw EXCEPT !.mac = FALSE]                \* mac_stop
        /\ info' = info \ {"MAC_OP"}
  /\ UNCHANGED psCallVars /\ PmlOnly /\ UNCHANGED <<llrVars, timeVars, psGood>>

PsCancel ==
  /\ psCancelled' \in BOOLEAN
  /\ UNCHANGED <<psCallVars, confVars, psExpired, llrVars, timeVars, serdesVars,
                 psGood, hw, info>>

PsExpire ==
  /\ psPc # "idle" /\ psExpired' = TRUE
  /\ UNCHANGED <<psCallVars, confVars, psCancelled, llrVars, timeVars,
                 serdesVars, psGood, hw, info>>

PsThread ==
  \/ PsAmStart \/ PsSerdesStart \/ PsConfigure \/ PsLock \/ PsAlign \/ PsFaults
  \/ PsPcsFailed \/ PsPmlFailed \/ PsDegrade \/ PsLlrMode \/ PsDetect
  \/ PsLlrOn \/ PsMeasure \/ PsLlrSet \/ PsLlrReady \/ PsLlrDone \/ PsLlrFailed
  \/ PsUp \/ PsFecFails \/ PsSerdesDown \/ PsOut

PsNext ==
  \/ PsThread \/ PsBegin \/ PsCleanup \/ PsStop \/ PsReset \/ PsConfig
  \/ PsMedia \/ PsClient \/ PsCancel \/ PsExpire

PsSpec == PsInit /\ [][PsNext]_psVars

(* The thread runs, and the start timeout passes.                           *)
PsFairness == WF_psVars(PsThread) /\ WF_psVars(PsExpire)

-----------------------------------------------------------------------------
PsFlags == {"TX_AM", "TX_RF", "ALIGN_EN", "A_WAIT", "F_WAIT", "PCS_UP", "MAC_OP",
          "OS", "LLR_LOOP", "LLR_DETECT", "LLR_MEASURE", "LLR_WAIT", "LLR_RUN",
          "LLR_DISABLED"}
LlrModes == {"off", "monitor", "on", "auto"}

PsTypeOK ==
  /\ psState \in {"DOWN", "STARTING", "UP", "ERROR"}
  /\ psSerdes \in {"DOWN", "RUNNING", "ERROR"}
  /\ psParams \in {"none", "saved", "used"}
  /\ info \subseteq PsFlags
  /\ hw.llr \in LlrModes \ {"auto"} /\ llrMode \in LlrModes
  /\ hw.lanes \subseteq DOMAIN TxSource
  /\ psGood \in 0 .. NoFaults - 1
  /\ loopTime \in {"unset", "begun", "measured", "bound"}
  /\ {psExpired, psCancelled, llrHpc, hpcAsked} \subseteq BOOLEAN

(* The gap that the mode, the options and the LLR which this start has      *)
(* resolved ask for, and the one that an earlier start has left: HPC in     *)
(* llr_options, which the next start finds there.                           *)
GapAsked == IF hpcAsked THEN "hpc" ELSE MacMode
GapLeft == hw.os /\ llrHpc /\ hw.ifg = "hpc"

(* Whatever a start went through, cancelled or late starts and retries      *)
(* before it included, a link that comes up has the PCS up on the lanes of  *)
(* its mode, sends no remote fault, is done with every stage, has lane      *)
(* degrade allowed where it is switched on and only there, and runs LLR     *)
(* with ordered sets exactly if that was resolved.  Of what earlier starts  *)
(* left only one thing shows: the gap is the one that was asked for, unless *)
(* LLR runs and one of them had resolved LLR with HPC.                      *)
UpIsWhole ==
  [][psState # "UP" /\ psState' = "UP" =>
       /\ hw.pcs /\ hw.mac /\ ~hw.rf /\ ~hw.timing
       /\ hw.lanes = ActiveLanes(psMode, psLoop)
       /\ hw.degrade = hw.allow
       /\ hw.llr = llrMode /\ hw.os = (llrMode # "off")
       /\ hw.ifg = GapAsked \/ GapLeft
       /\ info = {"PCS_UP", "MAC_OP"} \cup
                   IF hw.os THEN {"OS", "LLR_RUN"} ELSE {}]_psVars

(* llr_options is the "actual llr options used", for sbl_pml_llr_start() to *)
(* "set HPC if needed"; sbl_pml_llr_mode_get() announces "LLR mode on       *)
(* without HPC from AN" as another outcome.  So a link that comes up has    *)
(* the gap its own start asked for.  But the bit an earlier start has set   *)
(* in llr_options is never cleared, and makes the gap HPC.                  *)
GapAsAsked ==
  [][psState # "UP" /\ psState' = "UP" => hw.ifg = GapAsked]_psVars

(* LLR never runs on a loop time that a start which failed had begun to     *)
(* measure, nor on that of another loopback mode or cable.                  *)
LoopTimeFits ==
  psState = "UP" /\ llrMode # "off" =>
    /\ loopTime \in {"measured", "bound"}
    /\ loopFor = <<psLoop, psMedia>>
=============================================================================
