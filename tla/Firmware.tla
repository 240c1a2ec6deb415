------------------------------ MODULE Firmware ------------------------------
(***************************************************************************)
(* Loading the firmware of the SerDes and of the SBus master (SBM) that    *)
(* the ports of an SBus ring share.  A thread works for one port, or for    *)
(* all of them while the instance is initialised.  Three kinds of mutex     *)
(* keep threads apart: sbm_fw_mtx and sbus_ring_mtx of the ring, and        *)
(* serdes_mtx of the port.                                                  *)
(*                                                                          *)
(* A sequence of register accesses made under a ring's mutex is one step    *)
(* with the outcomes it can have; the lanes of a port are written and       *)
(* checked together.  A file name of an image that cannot be parsed is left *)
(* out.  pcal_running, which the resets clear, belongs to                   *)
(* SerdesStart, and sstate, which their callers set, to LinkState.          *)
(***************************************************************************)
EXTENDS FiniteSets

CONSTANTS
  Ports, Rings,
  Ring,          \* the ring of each port: switch_info->ports[p].sbus_ring
  FwThreads,     \* threads that operate on ports
  FwNone,        \* no thread
  FwOps,         \* operations the threads call in this instance
  InhibitReload, \* values that SBL_DEBUG_INHIBIT_RELOAD_SBM_FW takes
  ForceSbm       \* SBL_DEBUG_FORCE_RELOAD_SBM_FW

AllFwOps == {"init", "check", "fix", "reset", "stop", "test", "view", "sbm"}

ASSUME FirmwareAssumption ==
  /\ Ring \in [Ports -> Rings]
  /\ FwNone \notin FwThreads
  /\ FwOps \subseteq AllFwOps
  /\ InhibitReload \subseteq BOOLEAN /\ ForceSbm \in BOOLEAN

VARIABLES
  loaded,                  \* sbl_initialise_instance() has loaded firmware
  sbm, fw,                 \* firmware of each ring's SBM, of each port: sane?
  verified,                \* history: a port's CRC passed since the last write
  reload,                  \* reload_sbm_fw of each ring
  busyMtx, fwMtx, ringMtx, portMtx,  \* holders of each mutex
  fwOp, fwPc, on,           \* operation, step and ports of each thread
  force, phase, rc         \* sbl_serdes_firmware_flash(): force, who called
                           \* it, and its result

fwData  == <<loaded, sbm, fw, verified>>
fwLocks == <<busyMtx, fwMtx, ringMtx, portMtx>>
fwCall  == <<fwOp, on>>
fwVars  == <<fwData, reload, fwLocks, fwCall, fwPc, force, phase, rc>>

FwPcs == {"idle", "fwLock", "verify", "request", "softPort", "softRing",
          "softOps", "upPort", "upRing", "upWrite", "ready", "crc",
          "fwUnlock", "valSerdes", "valSbm", "inhibit", "demand", "rLock",
          "rTest", "rDump", "rRing", "rWrite", "rClear", "rUnlock", "finish",
          "iSbm", "check", "spRing", "spPort", "spOp", "spWait", "vPort",
          "vOp", "vRing"}
Phases == {"init", "soft", "first", "final"}

RingsOf(t) == {Ring[p] : p \in on[t]}
Free(m, S) == \A k \in S : m[k] = FwNone
Grab(m, S, t) == [k \in DOMAIN m |-> IF k \in S THEN t ELSE m[k]]
Drop(m, S)    == Grab(m, S, FwNone)
Sane(m, S) == \A k \in S : m[k]

FwInit ==
  /\ loaded = FALSE
  /\ sbm \in [Rings -> BOOLEAN] /\ fw \in [Ports -> BOOLEAN]
  /\ verified = [p \in Ports |-> FALSE]
  /\ reload = [r \in Rings |-> FALSE]
  /\ busyMtx = [p \in Ports |-> FwNone] /\ portMtx = busyMtx
  /\ fwMtx = [r \in Rings |-> FwNone] /\ ringMtx = fwMtx
  /\ fwOp = [t \in FwThreads |-> "view"]
  /\ fwPc = [t \in FwThreads |-> "idle"]
  /\ on = [t \in FwThreads |-> {}]
  /\ force = [t \in FwThreads |-> FALSE]
  /\ phase = [t \in FwThreads |-> "final"]
  /\ rc = [t \in FwThreads |-> "ok"]

FwAt(t, s) == fwPc[t] = s
FwGo(t, s) == fwPc' = [fwPc EXCEPT ![t] = s]
Result(t, r) == rc' = [rc EXCEPT ![t] = r]

-----------------------------------------------------------------------------
(* Calls.  The base link calls check, fix, reset and stop with busy_mtx of  *)
(* the port; sbl_test_serdes_stop() and the status files take no such lock. *)
Serialised == {"check", "fix", "reset", "stop"}

Enter(t, o, S, s, ph, f) ==
  /\ FwAt(t, "idle") /\ o \in FwOps
  /\ fwOp' = [fwOp EXCEPT ![t] = o]
  /\ on' = [on EXCEPT ![t] = S]
  /\ FwGo(t, s)
  /\ phase' = [phase EXCEPT ![t] = ph]
  /\ force' = [force EXCEPT ![t] = f]
  /\ rc' = [rc EXCEPT ![t] = "ok"]
  /\ UNCHANGED <<fwData, reload, fwMtx, ringMtx, portMtx>>

FirstStep(o) ==
  CASE o = "check" -> "check"
    [] o = "fix"   -> "fwLock"
    [] o = "reset" -> "softPort"
    [] o \in {"stop", "test"} -> "spRing"
    [] o = "view"  -> "vPort"
    [] o = "sbm"   -> "vRing"

(* Mutant: an operation is called without busy_mtx of its port.             *)
CallUnserialised(t, p, o) ==
  /\ o # "init" /\ loaded /\ UNCHANGED busyMtx
  /\ Enter(t, o, {p}, FirstStep(o), IF o = "reset" THEN "soft" ELSE "first",
           o # "check")

(* sbl_base_link_check_fix_fw() flashes without force; a failed start and   *)
(* sbl_serdes_reset() flash with force.                                     *)
CallPort(t, p, o) ==
  /\ o # "init" /\ loaded
  /\ o \in Serialised => busyMtx[p] = FwNone
  /\ busyMtx' = IF o \in Serialised THEN [busyMtx EXCEPT ![p] = t]
                                    ELSE busyMtx
  /\ Enter(t, o, {p}, FirstStep(o), IF o = "reset" THEN "soft" ELSE "first",
           o # "check")

(* sbl_initialise_instance(): nothing else runs before it has succeeded.    *)
CallInit(t) ==
  /\ ~loaded /\ \A u \in FwThreads : FwAt(u, "idle")
  /\ Enter(t, "init", Ports, "iSbm", "init", FALSE)
  /\ UNCHANGED busyMtx

(* sbl_serdes_load(): the SBus divider, then sbl_sbm_firmware_flash().      *)
(* Rings with the expected version are left alone.                          *)
InitSbm(t) ==
  /\ FwAt(t, "iSbm") /\ Free(ringMtx, RingsOf(t))
  /\ \/ /\ sbm' = [r \in Rings |-> TRUE] /\ FwGo(t, "fwLock")
        /\ UNCHANGED rc
     \/ /\ \E S \in SUBSET Rings : sbm' = [r \in Rings |-> sbm[r] /\ r \in S]
        /\ Result(t, "err") /\ FwGo(t, "finish")
  /\ UNCHANGED <<loaded, fw, verified, reload, fwLocks, fwCall, force, phase>>

-----------------------------------------------------------------------------
(* sbl_serdes_firmware_flash()                                              *)
(* Mutant: the SerDes firmware is loaded without sbm_fw_mtx.                *)
FwLockForgotten(t) ==
  /\ FwAt(t, "fwLock")
  /\ FwGo(t, IF force[t] THEN "request" ELSE "verify")
  /\ UNCHANGED <<fwData, reload, fwLocks, fwCall, force, phase, rc>>

FwLock(t) ==
  /\ FwAt(t, "fwLock") /\ Free(fwMtx, RingsOf(t))
  /\ fwMtx' = Grab(fwMtx, RingsOf(t), t)
  /\ FwGo(t, IF force[t] THEN "request" ELSE "verify")
  /\ UNCHANGED <<fwData, reload, busyMtx, ringMtx, portMtx, fwCall, force,
                 phase, rc>>

(* sbl_validate_serdes_fw_crc(), sbl_validate_serdes_fw_vers() of every     *)
(* lane, which checks revision, build and CRC, and sbl_validate_sbm_fw_vers()*)
(* ask a SPICO by interrupts, any of which may fail: none passes unless the *)
(* firmware is sane, and each may always fail.                              *)
SerdesCrcPasses(t) == Sane(fw, on[t])
SerdesVersRight(t) == SerdesCrcPasses(t)
SbmVersRight(t) == Sane(sbm, RingsOf(t))

Verify(t) ==
  /\ FwAt(t, "verify") /\ Free(portMtx, on[t])
  /\ \/ /\ SerdesVersRight(t)
        /\ verified' = [p \in Ports |-> verified[p] \/ p \in on[t]]
        /\ Result(t, "ok") /\ FwGo(t, "fwUnlock")
     \/ FwGo(t, "request") /\ UNCHANGED <<verified, rc>>
  /\ UNCHANGED <<loaded, sbm, fw, reload, fwLocks, fwCall, force, phase>>

RequestFirmware(t) ==
  /\ FwAt(t, "request")
  /\ \/ FwGo(t, "softPort") /\ UNCHANGED rc
     \/ FwGo(t, "fwUnlock") /\ Result(t, "err")
  /\ UNCHANGED <<fwData, reload, fwLocks, fwCall, force, phase>>

(* sbl_serdes_soft_reset() of each lane: "Don't allow SPICO interrupts      *)
(* while we are resetting the SerDes", then the ring's critical section.    *)
SoftPort(t) ==
  /\ FwAt(t, "softPort") /\ Free(portMtx, on[t])
  /\ portMtx' = Grab(portMtx, on[t], t) /\ FwGo(t, "softRing")
  /\ UNCHANGED <<fwData, reload, busyMtx, fwMtx, ringMtx, fwCall, force,
                 phase, rc>>

SoftRing(t) ==
  /\ FwAt(t, "softRing") /\ Free(ringMtx, RingsOf(t))
  /\ ringMtx' = Grab(ringMtx, RingsOf(t), t) /\ FwGo(t, "softOps")
  /\ UNCHANGED <<fwData, reload, busyMtx, fwMtx, portMtx, fwCall, force,
                 phase, rc>>

(* Called by sbl_serdes_firm_upload(), and by sbl_serdes_reset(), which     *)
(* turns to sbl_serdes_firmware_flash_safe() if the reset failed or if      *)
(* SBL_DEBUG_FORCE_RELOAD_SERDES_FW is set.                                 *)
SoftOps(t) ==
  /\ FwAt(t, "softOps")
  /\ ringMtx' = Drop(ringMtx, RingsOf(t)) /\ portMtx' = Drop(portMtx, on[t])
  /\ \/ /\ phase[t] = "soft"
        /\ FwGo(t, "finish") /\ Result(t, "ok") /\ UNCHANGED phase
     \/ /\ phase[t] = "soft"
        /\ FwGo(t, "fwLock") /\ phase' = [phase EXCEPT ![t] = "first"]
        /\ UNCHANGED rc
     \/ /\ phase[t] # "soft"
        /\ FwGo(t, "upPort") /\ UNCHANGED <<rc, phase>>
     \/ /\ phase[t] # "soft"
        /\ FwGo(t, "fwUnlock") /\ Result(t, "err") /\ UNCHANGED phase
  /\ UNCHANGED <<fwData, reload, busyMtx, fwMtx, fwCall, force>>

(* sbl_serdes_firm_upload(): "Don't allow SPICO interrupts while we are     *)
(* reloading firmware", then the ring.                                      *)
(* Mutant: the port's mutex is not taken for the upload.                    *)
UploadPortUnlocked(t) ==
  /\ FwAt(t, "upPort") /\ FwGo(t, "upRing")
  /\ UNCHANGED <<fwData, reload, fwLocks, fwCall, force, phase, rc>>

UploadPort(t) ==
  /\ FwAt(t, "upPort") /\ Free(portMtx, on[t])
  /\ portMtx' = Grab(portMtx, on[t], t) /\ FwGo(t, "upRing")
  /\ UNCHANGED <<fwData, reload, busyMtx, fwMtx, ringMtx, fwCall, force,
                 phase, rc>>

UploadRing(t) ==
  /\ FwAt(t, "upRing") /\ Free(ringMtx, RingsOf(t))
  /\ ringMtx' = Grab(ringMtx, RingsOf(t), t) /\ FwGo(t, "upWrite")
  /\ UNCHANGED <<fwData, reload, busyMtx, fwMtx, portMtx, fwCall, force,
                 phase, rc>>

(* The image is written: completely, damaged, or up to a failed access.     *)
UploadWrite(t) ==
  /\ FwAt(t, "upWrite")
  /\ \E good, all \in BOOLEAN :
       /\ good => all
       /\ fw' = [p \in Ports |-> IF p \in on[t] THEN good ELSE fw[p]]
       /\ IF all THEN FwGo(t, "ready") /\ UNCHANGED rc
                 ELSE FwGo(t, "fwUnlock") /\ Result(t, "err")
  /\ verified' = [p \in Ports |-> verified[p] /\ p \notin on[t]]
  /\ ringMtx' = Drop(ringMtx, RingsOf(t)) /\ portMtx' = Drop(portMtx, on[t])
  /\ UNCHANGED <<loaded, sbm, reload, busyMtx, fwMtx, fwCall, force, phase>>

(* Poll each lane's CORE_STATUS for SPICO_READY, for at most                 *)
(* core_status_rd_timeout.                                                  *)
Ready(t) ==
  /\ FwAt(t, "ready")
  /\ \/ FwGo(t, "crc") /\ UNCHANGED rc
     \/ FwGo(t, "fwUnlock") /\ Result(t, "err")
  /\ UNCHANGED <<fwData, reload, fwLocks, fwCall, force, phase>>

(* sbl_validate_serdes_fw_crc()                                             *)
(* Mutant: a CRC that does not match is not an error.                       *)
CrcNotCompared(t) ==
  /\ FwAt(t, "crc") /\ Free(portMtx, on[t])
  /\ \/ /\ verified' = [p \in Ports |-> verified[p] \/ (p \in on[t] /\ fw[p])]
        /\ Result(t, "ok")
     \/ Result(t, "err") /\ UNCHANGED verified
  /\ FwGo(t, "fwUnlock")
  /\ UNCHANGED <<loaded, sbm, fw, reload, fwLocks, fwCall, force, phase>>

Crc(t) ==
  /\ FwAt(t, "crc") /\ Free(portMtx, on[t])
  /\ \/ /\ SerdesCrcPasses(t)
        /\ verified' = [p \in Ports |-> verified[p] \/ p \in on[t]]
        /\ Result(t, "ok")
     \/ Result(t, "err") /\ UNCHANGED verified
  /\ FwGo(t, "fwUnlock")
  /\ UNCHANGED <<loaded, sbm, fw, reload, fwLocks, fwCall, force, phase>>

(* The exit of sbl_serdes_firmware_flash(), and where its caller goes on.   *)
FwUnlock(t) ==
  /\ FwAt(t, "fwUnlock")
  /\ fwMtx' = Drop(fwMtx, RingsOf(t))
  /\ IF phase[t] = "first"
       THEN /\ FwGo(t, IF rc[t] = "ok" THEN "valSerdes" ELSE "inhibit")
            /\ Result(t, IF rc[t] = "ok" THEN "ok" ELSE "undefined")
       ELSE FwGo(t, "finish") /\ UNCHANGED rc
  /\ UNCHANGED <<fwData, reload, busyMtx, ringMtx, portMtx, fwCall, force,
                 phase>>

-----------------------------------------------------------------------------
(* sbl_serdes_firmware_flash_safe(), after its first flash: validate the    *)
(* SerDes firmware and then that of the SBM.                                *)
ValidateSerdes(t) ==
  /\ FwAt(t, "valSerdes") /\ Free(portMtx, on[t])
  /\ \/ SerdesVersRight(t) /\ FwGo(t, "valSbm")
     \/ FwGo(t, "inhibit")
  /\ UNCHANGED <<fwData, reload, fwLocks, fwCall, force, phase, rc>>

ValidateSbm(t) ==
  /\ FwAt(t, "valSbm") /\ Free(ringMtx, RingsOf(t))
  /\ \/ /\ SbmVersRight(t)
        /\ FwGo(t, IF ForceSbm THEN "inhibit" ELSE "finish")
     \/ FwGo(t, "inhibit")
  /\ UNCHANGED <<fwData, reload, fwLocks, fwCall, force, phase, rc>>

(* The label sbm_fw_reload.  With the reload inhibited the function returns *)
(* rc, which is not set when the first flash failed.                        *)
ReloadInhibited(t) ==
  /\ FwAt(t, "inhibit") /\ TRUE \in InhibitReload
  /\ \E r \in {"ok", "err"} :
       /\ rc[t] # "undefined" => r = rc[t]
       /\ Result(t, r)
  /\ FwGo(t, "finish")
  /\ UNCHANGED <<fwData, reload, fwLocks, fwCall, force, phase>>

ReloadWanted(t) ==
  /\ FwAt(t, "inhibit") /\ FALSE \in InhibitReload
  /\ FwGo(t, "demand")
  /\ UNCHANGED <<fwData, reload, fwLocks, fwCall, force, phase, rc>>

Demand(t) ==
  /\ FwAt(t, "demand")
  /\ reload' = [r \in Rings |-> reload[r] \/ r \in RingsOf(t)]
  /\ FwGo(t, "rLock")
  /\ UNCHANGED <<fwData, fwLocks, fwCall, force, phase, rc>>

ReloadLock(t) ==
  /\ FwAt(t, "rLock") /\ Free(fwMtx, RingsOf(t))
  /\ fwMtx' = Grab(fwMtx, RingsOf(t), t) /\ FwGo(t, "rTest")
  /\ UNCHANGED <<fwData, reload, busyMtx, ringMtx, portMtx, fwCall, force,
                 phase, rc>>

ReloadTest(t) ==
  /\ FwAt(t, "rTest")
  /\ FwGo(t, IF Sane(reload, RingsOf(t)) THEN "rDump" ELSE "rUnlock")
  /\ UNCHANGED <<fwData, reload, fwLocks, fwCall, force, phase, rc>>

(* Version, CRC, status and corruption of the SBM are only reported; then   *)
(* sbl_sbm_firmware_flash_ring() with force checks the version again and    *)
(* requests the image.                                                      *)
ReloadDump(t) ==
  /\ FwAt(t, "rDump") /\ Free(ringMtx, RingsOf(t))
  /\ \E requested \in BOOLEAN : FwGo(t, IF requested THEN "rRing" ELSE "rClear")
  /\ UNCHANGED <<fwData, reload, fwLocks, fwCall, force, phase, rc>>

(* sbl_sbm_firm_upload()                                                    *)
ReloadRing(t) ==
  /\ FwAt(t, "rRing") /\ Free(ringMtx, RingsOf(t))
  /\ ringMtx' = Grab(ringMtx, RingsOf(t), t) /\ FwGo(t, "rWrite")
  /\ UNCHANGED <<fwData, reload, busyMtx, fwMtx, portMtx, fwCall, force,
                 phase, rc>>

ReloadWrite(t) ==
  /\ FwAt(t, "rWrite")
  /\ \E good \in BOOLEAN :
       sbm' = [r \in Rings |-> IF r \in RingsOf(t) THEN good ELSE sbm[r]]
  /\ ringMtx' = Drop(ringMtx, RingsOf(t)) /\ FwGo(t, "rClear")
  /\ UNCHANGED <<loaded, fw, verified, reload, busyMtx, fwMtx, portMtx,
                 fwCall, force, phase, rc>>

(* Mutant: the request is kept when the flash of the SBM failed.            *)
ReloadClearOnSuccess(t) ==
  /\ FwAt(t, "rClear")
  /\ reload' = [r \in Rings |->
                  reload[r] /\ (r \notin RingsOf(t) \/ ~sbm[r])]
  /\ FwGo(t, "rUnlock")
  /\ UNCHANGED <<fwData, fwLocks, fwCall, force, phase, rc>>

ReloadClear(t) ==
  /\ FwAt(t, "rClear")
  /\ reload' = [r \in Rings |-> reload[r] /\ r \notin RingsOf(t)]
  /\ FwGo(t, "rUnlock")
  /\ UNCHANGED <<fwData, fwLocks, fwCall, force, phase, rc>>

(* "Finally, retry the SerDes FW reload"                                    *)
(* Mutant: sbm_fw_mtx is still held when the flash takes it.                *)
ReloadUnlockLate(t) ==
  /\ FwAt(t, "rUnlock") /\ FwGo(t, "fwLock")
  /\ phase' = [phase EXCEPT ![t] = "final"]
  /\ force' = [force EXCEPT ![t] = TRUE]
  /\ UNCHANGED <<fwData, reload, fwLocks, fwCall, rc>>

ReloadUnlock(t) ==
  /\ FwAt(t, "rUnlock")
  /\ fwMtx' = Drop(fwMtx, RingsOf(t)) /\ FwGo(t, "fwLock")
  /\ phase' = [phase EXCEPT ![t] = "final"]
  /\ force' = [force EXCEPT ![t] = TRUE]
  /\ UNCHANGED <<fwData, reload, busyMtx, ringMtx, portMtx, fwCall, rc>>

-----------------------------------------------------------------------------
(* sbl_base_link_check_fix_fw(): the CRC of every lane; a lane that fails   *)
(* is enough for a flash of the port.                                       *)
CheckFirmware(t) ==
  /\ FwAt(t, "check") /\ Free(portMtx, on[t])
  /\ \/ /\ SerdesCrcPasses(t)
        /\ verified' = [p \in Ports |-> verified[p] \/ p \in on[t]]
        /\ FwGo(t, "finish")
     \/ FwGo(t, "fwLock") /\ UNCHANGED verified
  /\ UNCHANGED <<loaded, sbm, fw, reload, fwLocks, fwCall, force, phase, rc>>

(* sbl_spico_reset(): the ring's mutex around SPICO interrupts, each of     *)
(* which takes the port's mutex unless a signal arrives first, and then     *)
(* polling of the processor state over the SBus.                            *)
SpicoRing(t) ==
  /\ FwAt(t, "spRing") /\ Free(ringMtx, RingsOf(t))
  /\ ringMtx' = Grab(ringMtx, RingsOf(t), t) /\ FwGo(t, "spPort")
  /\ UNCHANGED <<fwData, reload, busyMtx, fwMtx, portMtx, fwCall, force,
                 phase, rc>>

SpicoPort(t) ==
  /\ FwAt(t, "spPort") /\ Free(portMtx, on[t])
  /\ portMtx' = Grab(portMtx, on[t], t) /\ FwGo(t, "spOp")
  /\ UNCHANGED <<fwData, reload, busyMtx, fwMtx, ringMtx, fwCall, force,
                 phase, rc>>

SpicoOp(t) ==
  /\ FwAt(t, "spOp")
  /\ portMtx' = Drop(portMtx, on[t])
  /\ \/ FwGo(t, "spWait") /\ UNCHANGED <<rc, ringMtx>>
     \/ /\ FwGo(t, "finish") /\ Result(t, "err")
        /\ ringMtx' = Drop(ringMtx, RingsOf(t))
  /\ UNCHANGED <<fwData, reload, busyMtx, fwMtx, fwCall, force, phase>>

SpicoWait(t) ==
  /\ FwAt(t, "spWait")
  /\ ringMtx' = Drop(ringMtx, RingsOf(t)) /\ FwGo(t, "finish")
  /\ \E r \in {"ok", "err"} : Result(t, r)
  /\ UNCHANGED <<fwData, reload, busyMtx, fwMtx, portMtx, fwCall, force,
                 phase>>

(* The status files: sbl_serdes_get_fw_vers() interrupts the SPICO of a     *)
(* lane, sbl_sbm_get_fw_vers() that of the SBM.                             *)
ViewPort(t) ==
  /\ FwAt(t, "vPort") /\ Free(portMtx, on[t])
  /\ portMtx' = Grab(portMtx, on[t], t) /\ FwGo(t, "vOp")
  /\ UNCHANGED <<fwData, reload, busyMtx, fwMtx, ringMtx, fwCall, force,
                 phase, rc>>

ViewOp(t) ==
  /\ FwAt(t, "vOp")
  /\ portMtx' = Drop(portMtx, on[t]) /\ FwGo(t, "finish")
  /\ UNCHANGED <<fwData, reload, busyMtx, fwMtx, ringMtx, fwCall, force,
                 phase, rc>>

ViewSbm(t) ==
  /\ FwAt(t, "vRing") /\ Free(ringMtx, RingsOf(t)) /\ FwGo(t, "finish")
  /\ UNCHANGED <<fwData, reload, fwLocks, fwCall, force, phase, rc>>

-----------------------------------------------------------------------------
(* The call returns and its frame is gone.                                  *)
FwReturn(t) ==
  /\ FwAt(t, "finish") /\ FwGo(t, "idle")
  /\ busyMtx' = [p \in Ports |-> IF busyMtx[p] = t THEN FwNone
                                                   ELSE busyMtx[p]]
  /\ loaded' = (loaded \/ (fwOp[t] = "init" /\ rc[t] = "ok"))
  /\ fwOp' = [fwOp EXCEPT ![t] = "view"] /\ on' = [on EXCEPT ![t] = {}]
  /\ force' = [force EXCEPT ![t] = FALSE]
  /\ phase' = [phase EXCEPT ![t] = "final"]
  /\ Result(t, "ok")
  /\ UNCHANGED <<sbm, fw, verified, reload, fwMtx, ringMtx, portMtx>>

(* The memory of a SPICO is corrupted; "Any lane with corrputed FW will     *)
(* cause all lanes for the port to be reloaded".                            *)
CorruptSerdes(p) ==
  /\ fw[p] /\ fw' = [fw EXCEPT ![p] = FALSE]
  /\ UNCHANGED <<loaded, sbm, verified, reload, fwLocks, fwCall, fwPc, force,
                 phase, rc>>

CorruptSbm(r) ==
  /\ sbm[r] /\ sbm' = [sbm EXCEPT ![r] = FALSE]
  /\ UNCHANGED <<loaded, fw, verified, reload, fwLocks, fwCall, fwPc, force,
                 phase, rc>>

Flash(t) == \/ FwLock(t) \/ Verify(t) \/ RequestFirmware(t) \/ SoftPort(t)
            \/ SoftRing(t) \/ SoftOps(t) \/ UploadPort(t) \/ UploadRing(t)
            \/ UploadWrite(t) \/ Ready(t) \/ Crc(t) \/ FwUnlock(t)
FlashSafe(t) == \/ ValidateSerdes(t) \/ ValidateSbm(t) \/ ReloadInhibited(t)
                \/ ReloadWanted(t) \/ Demand(t) \/ ReloadLock(t)
                \/ ReloadTest(t) \/ ReloadDump(t) \/ ReloadRing(t)
                \/ ReloadWrite(t) \/ ReloadClear(t) \/ ReloadUnlock(t)
SpicoReset(t) == SpicoRing(t) \/ SpicoPort(t) \/ SpicoOp(t) \/ SpicoWait(t)
FwStep(t) == \/ InitSbm(t) \/ Flash(t) \/ FlashSafe(t) \/ CheckFirmware(t)
             \/ SpicoReset(t) \/ ViewPort(t) \/ ViewOp(t) \/ ViewSbm(t)
             \/ FwReturn(t)

FwCall == \E t \in FwThreads :
             \/ CallInit(t)
             \/ \E p \in Ports, o \in FwOps : CallPort(t, p, o)
FwFaults == \/ \E p \in Ports : CorruptSerdes(p)
            \/ \E r \in Rings : CorruptSbm(r)

FwNext == FwCall \/ FwFaults \/ \E t \in FwThreads : FwStep(t)

FwSpec == FwInit /\ [][FwNext]_fwVars

(* A mutex of the kernel is handed over in turn, so a thread that waits for *)
(* one gets it; a polling loop ends by its timeout.                         *)
FwFairness == \A t \in FwThreads : SF_fwVars(FwStep(t))

-----------------------------------------------------------------------------
FwTypeOK ==
  /\ loaded \in BOOLEAN
  /\ sbm \in [Rings -> BOOLEAN] /\ fw \in [Ports -> BOOLEAN]
  /\ verified \in [Ports -> BOOLEAN] /\ reload \in [Rings -> BOOLEAN]
  /\ busyMtx \in [Ports -> FwThreads \cup {FwNone}]
  /\ portMtx \in [Ports -> FwThreads \cup {FwNone}]
  /\ fwMtx \in [Rings -> FwThreads \cup {FwNone}]
  /\ ringMtx \in [Rings -> FwThreads \cup {FwNone}]
  /\ fwOp \in [FwThreads -> AllFwOps] /\ fwPc \in [FwThreads -> FwPcs]
  /\ on \in [FwThreads -> SUBSET Ports]
  /\ force \in [FwThreads -> BOOLEAN] /\ phase \in [FwThreads -> Phases]
  /\ rc \in [FwThreads -> {"ok", "err", "undefined"}]

HoldsFw(t) == \/ fwPc[t] \in {"verify", "request", "upPort", "upRing",
                             "upWrite", "ready", "crc", "fwUnlock", "rTest",
                             "rDump", "rRing", "rWrite", "rClear", "rUnlock"}
              \/ fwPc[t] \in {"softPort", "softRing", "softOps"}
                 /\ phase[t] # "soft"
SbmLoading(t) == fwPc[t] \in {"rDump", "rRing", "rWrite"}
Meet(t, u) == t # u /\ RingsOf(t) \cap RingsOf(u) # {}

(* "Lock sbm_fw_mtx to ensure we don't reload the sbus master FW while      *)
(* reloading the SerDes FW": from the first check of a port's firmware to   *)
(* the last, over all the shorter critical sections in between, nobody      *)
(* writes the SBM that the port depends on.                                 *)
UploadExclusive ==
  \A t, u \in FwThreads : Meet(t, u) /\ SbmLoading(u) => ~HoldsFw(t)

(* "Don't allow SPICO interrupts while we are reloading firmware" or        *)
(* resetting: no operation of another thread, a reader of a status file     *)
(* included, is in progress on a port whose SPICO is stopped.               *)
NoInterruptInLoad ==
  \A t, u \in FwThreads :
    /\ t # u /\ on[t] \cap on[u] # {}
    /\ fwPc[t] \in {"softOps", "upWrite"}
    => fwPc[u] \notin {"spOp", "vOp"}

(* A flash that reports success has seen the firmware of the port pass its  *)
(* CRC after the last write to it: "we return the status of the final       *)
(* serdes firmware flash, which is the true metric of if this function was  *)
(* successful".                                                             *)
SuccessIsVerified ==
  \A t \in FwThreads :
    /\ FwAt(t, "finish") /\ rc[t] = "ok"
    /\ fwOp[t] \in {"init", "check", "fix", "reset"} /\ phase[t] # "soft"
    => Sane(verified, on[t])

(* A request to reload the SBM is never left behind: some thread of the     *)
(* ring has still to look at it, whatever failed in the reloads before.     *)
RequestServed ==
  \A r \in Rings : reload[r] =>
    \E t \in FwThreads :
      /\ r \in RingsOf(t)
      /\ fwPc[t] \in {"rLock", "rTest", "rDump", "rRing", "rWrite", "rClear"}

(* Whom a thread waits for: the holders of the mutexes its next step needs. *)
NeedsFw(t) == fwPc[t] \in {"fwLock", "rLock"}
NeedsPort(t) == fwPc[t] \in {"verify", "softPort", "upPort", "crc",
                             "valSerdes", "check", "spPort", "vPort"}
NeedsRing(t) == fwPc[t] \in {"iSbm", "softRing", "upRing", "valSbm", "rDump",
                             "rRing", "spRing", "vRing"}
WaitsFor(t, u) == \/ NeedsFw(t) /\ \E r \in RingsOf(t) : fwMtx[r] = u
                  \/ NeedsPort(t) /\ \E p \in on[t] : portMtx[p] = u
                  \/ NeedsRing(t) /\ \E r \in RingsOf(t) : ringMtx[r] = u

(* No set of threads waits for its own members only, or for threads that    *)
(* have returned with a mutex.  sbl_serdes_soft_reset() takes the ring      *)
(* inside the port and sbl_spico_reset() the port inside the ring: only     *)
(* busy_mtx, which their callers hold, keeps the two orders of one port     *)
(* apart.                                                                   *)
NoDeadlock ==
  \A S \in SUBSET FwThreads : S # {} =>
    \E t \in S : \A u \in FwThreads :
      WaitsFor(t, u) => u \notin S /\ ~FwAt(u, "idle")

(* Every operation ends: no wait for a mutex of the three kinds, and no     *)
(* error path that keeps one, stops a thread for ever.                      *)
FwOpsEnd == \A t \in FwThreads : ~FwAt(t, "idle") ~> FwAt(t, "idle")
=============================================================================
