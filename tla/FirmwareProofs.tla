--------------------------- MODULE FirmwareProofs ---------------------------
(***************************************************************************)
(* The mutexes of the firmware load, for every number of ports, rings and   *)
(* threads and every operation: nobody writes the SBM of a ring while the   *)
(* SerDes firmware of one of its ports is being loaded, and no operation is *)
(* in progress on a port whose SPICO is stopped.  On top of them, that a    *)
(* request to reload the SBM always has a thread that will look at it, that *)
(* a flash which reports success has seen the CRC pass, and that the waits  *)
(* for the mutexes form no cycle.                                           *)
(***************************************************************************)
EXTENDS Firmware, TLAPS

(* Steps at which a thread holds serdes_mtx of its ports.                   *)
HoldsPort(t) ==
  fwPc[t] \in {"softRing", "softOps", "upRing", "upWrite", "spOp", "vOp"}

PortOwned == \A t \in FwThreads : HoldsPort(t) => \A p \in on[t] : portMtx[p] = t
FwOwned == \A t \in FwThreads : HoldsFw(t) => \A r \in RingsOf(t) : fwMtx[r] = t

LockInv == FwTypeOK /\ PortOwned /\ FwOwned

-----------------------------------------------------------------------------
(* What taking and dropping mutexes does to the map of their holders.       *)
LEMMA GrabDrop ==
  ASSUME NEW D, NEW m \in [D -> FwThreads \cup {FwNone}], NEW S,
         NEW t \in FwThreads
  PROVE  /\ Grab(m, S, t) \in [D -> FwThreads \cup {FwNone}]
         /\ Drop(m, S) \in [D -> FwThreads \cup {FwNone}]
         /\ \A k \in D : /\ Grab(m, S, t)[k] = IF k \in S THEN t ELSE m[k]
                         /\ Drop(m, S)[k] = IF k \in S THEN FwNone ELSE m[k]
  BY DEF Grab, Drop

(* The rings of a thread are rings of the switch.                           *)
LEMMA RingsInRings ==
  ASSUME FwTypeOK, NEW t \in FwThreads
  PROVE  RingsOf(t) \subseteq Rings
  BY FirmwareAssumption DEF FwTypeOK, RingsOf

-----------------------------------------------------------------------------
(* The initial states satisfy the invariant.                                *)
LEMMA LockInit == FwInit => LockInv
<1> SUFFICES ASSUME FwInit PROVE LockInv
  OBVIOUS
<1>1. FwTypeOK
  BY DEF FwInit, FwTypeOK, AllFwOps, FwPcs, Phases
<1>2. PortOwned /\ FwOwned
  BY DEF FwInit, PortOwned, FwOwned, HoldsPort, HoldsFw
<1> QED
  BY <1>1, <1>2 DEF LockInv

(* Every step keeps the types.                                              *)
LEMMA FwStepType ==
  ASSUME FwTypeOK, NEW t \in FwThreads, FwStep(t)
  PROVE  FwTypeOK'
<1> USE DEF FwTypeOK, FwAt, FwGo, Result, FwPcs, Phases, fwData, fwLocks, fwCall
<1>0. /\ Drop(portMtx, on[t]) \in [Ports -> FwThreads \cup {FwNone}]
      /\ Drop(ringMtx, RingsOf(t)) \in [Rings -> FwThreads \cup {FwNone}]
      /\ Drop(fwMtx, RingsOf(t)) \in [Rings -> FwThreads \cup {FwNone}]
  BY DEF Drop, Grab
<1>1. CASE InitSbm(t)
  <2>1. sbm' \in [Rings -> BOOLEAN]
    <3> HIDE DEF FwTypeOK, FwAt, FwGo, Result, FwPcs, Phases
    <3>1. \/ sbm' = [r \in Rings |-> TRUE]
          \/ \E S \in SUBSET Rings : sbm' = [r \in Rings |-> sbm[r] /\ r \in S]
      BY <1>1 DEF InitSbm
    <3>2. [r \in Rings |-> TRUE] \in [Rings -> BOOLEAN]
      OBVIOUS
    <3>3. ASSUME NEW S
          PROVE  [r \in Rings |-> sbm[r] /\ r \in S] \in [Rings -> BOOLEAN]
      BY Zenon
    <3> QED
      BY <3>1, <3>2, <3>3
  <2>2. UNCHANGED <<loaded, fw, verified, reload, fwLocks, fwCall, force, phase>>
    BY <1>1 DEF InitSbm
  <2>3. /\ fwPc' \in [FwThreads -> FwPcs]
        /\ rc' \in [FwThreads -> {"ok", "err", "undefined"}]
    BY <1>1 DEF InitSbm
  <2> QED
    BY <2>1, <2>2, <2>3
<1>2. CASE FwLock(t)
  BY <1>2, GrabDrop DEF FwLock
<1>3. CASE Verify(t)
  <2>1. verified' \in [Ports -> BOOLEAN]
    BY <1>3, Zenon DEF Verify
  <2>2. UNCHANGED <<loaded, sbm, fw, reload, fwLocks, fwCall, force, phase>>
    BY <1>3 DEF Verify
  <2>3. /\ fwPc' \in [FwThreads -> FwPcs]
        /\ rc' \in [FwThreads -> {"ok", "err", "undefined"}]
    BY <1>3 DEF Verify
  <2> QED
    BY <2>1, <2>2, <2>3
<1>4. CASE RequestFirmware(t)
  BY <1>4 DEF RequestFirmware
<1>5. CASE SoftPort(t)
  BY <1>5, GrabDrop DEF SoftPort
<1>6. CASE SoftRing(t)
  BY <1>6, GrabDrop DEF SoftRing
<1>7. CASE SoftOps(t)
  <2>1. UNCHANGED <<fwData, reload, busyMtx, fwMtx, fwCall, force>>
    BY <1>7 DEF SoftOps
  <2>2. /\ fwPc' \in [FwThreads -> FwPcs]
        /\ rc' \in [FwThreads -> {"ok", "err", "undefined"}]
        /\ phase' \in [FwThreads -> Phases]
    BY <1>7 DEF SoftOps
  <2>3. ringMtx' = Drop(ringMtx, RingsOf(t)) /\ portMtx' = Drop(portMtx, on[t])
    BY <1>7 DEF SoftOps
  <2> QED
    BY <1>0, <2>1, <2>2, <2>3
<1>8. CASE UploadPort(t)
  BY <1>8, GrabDrop DEF UploadPort
<1>9. CASE UploadRing(t)
  BY <1>9, GrabDrop DEF UploadRing
<1>10. CASE UploadWrite(t)
  BY <1>10, <1>0 DEF UploadWrite
<1>11. CASE Ready(t)
  BY <1>11 DEF Ready
<1>12. CASE Crc(t)
  BY <1>12 DEF Crc
<1>13. CASE FwUnlock(t)
  <2>1. UNCHANGED <<fwData, reload, busyMtx, ringMtx, portMtx, fwCall, force,
                    phase>>
    BY <1>13 DEF FwUnlock
  <2>2. /\ fwPc' \in [FwThreads -> FwPcs]
        /\ rc' \in [FwThreads -> {"ok", "err", "undefined"}]
    BY <1>13 DEF FwUnlock
  <2>3. fwMtx' = Drop(fwMtx, RingsOf(t))
    BY <1>13 DEF FwUnlock
  <2> QED
    BY <1>0, <2>1, <2>2, <2>3
<1>14. CASE ValidateSerdes(t)
  BY <1>14 DEF ValidateSerdes
<1>15. CASE ValidateSbm(t)
  BY <1>15 DEF ValidateSbm
<1>16. CASE ReloadInhibited(t)
  BY <1>16 DEF ReloadInhibited
<1>17. CASE ReloadWanted(t)
  BY <1>17 DEF ReloadWanted
<1>18. CASE Demand(t)
  BY <1>18 DEF Demand
<1>19. CASE ReloadLock(t)
  BY <1>19, GrabDrop DEF ReloadLock
<1>20. CASE ReloadTest(t)
  BY <1>20 DEF ReloadTest
<1>21. CASE ReloadDump(t)
  BY <1>21 DEF ReloadDump
<1>22. CASE ReloadRing(t)
  BY <1>22, GrabDrop DEF ReloadRing
<1>23. CASE ReloadWrite(t)
  BY <1>23, <1>0 DEF ReloadWrite
<1>24. CASE ReloadClear(t)
  BY <1>24 DEF ReloadClear
<1>25. CASE ReloadUnlock(t)
  BY <1>25, <1>0 DEF ReloadUnlock
<1>26. CASE CheckFirmware(t)
  BY <1>26 DEF CheckFirmware
<1>27. CASE SpicoRing(t)
  BY <1>27, GrabDrop DEF SpicoRing
<1>28. CASE SpicoPort(t)
  BY <1>28, GrabDrop DEF SpicoPort
<1>29. CASE SpicoOp(t)
  BY <1>29, <1>0 DEF SpicoOp
<1>30. CASE SpicoWait(t)
  BY <1>30, <1>0 DEF SpicoWait
<1>31. CASE ViewPort(t)
  BY <1>31, GrabDrop DEF ViewPort
<1>32. CASE ViewOp(t)
  BY <1>32, <1>0 DEF ViewOp
<1>33. CASE ViewSbm(t)
  BY <1>33 DEF ViewSbm
<1>34. CASE FwReturn(t)
  BY <1>34 DEF FwReturn, AllFwOps
<1> HIDE DEF FwTypeOK
<1> QED
  BY <1>1, <1>2, <1>3, <1>4, <1>5, <1>6, <1>7, <1>8, <1>9, <1>10, <1>11,
     <1>12, <1>13, <1>14, <1>15, <1>16, <1>17, <1>18, <1>19, <1>20,
     <1>21, <1>22, <1>23, <1>24, <1>25, <1>26, <1>27, <1>28, <1>29,
     <1>30, <1>31, <1>32, <1>33, <1>34
     DEF FwStep, Flash, FlashSafe, SpicoReset

(* Every call keeps the types, and so does every corruption of a memory.    *)
LEMMA FwOtherType ==
  ASSUME FwTypeOK, FwCall \/ FwFaults \/ UNCHANGED fwVars
  PROVE  FwTypeOK'
<1> USE FirmwareAssumption
    DEF FwTypeOK, FwAt, FwGo, FwPcs, Phases, fwData, fwLocks, fwCall, fwVars
<1>1. ASSUME NEW t \in FwThreads, CallInit(t) PROVE FwTypeOK'
  BY <1>1 DEF CallInit, Enter
<1>2. ASSUME NEW t \in FwThreads, NEW p \in Ports, NEW o \in FwOps,
             CallPort(t, p, o)
      PROVE  FwTypeOK'
  <2>1. o \in AllFwOps \ {"init"} /\ FirstStep(o) \in FwPcs
    BY <1>2 DEF CallPort, AllFwOps, FirstStep
  <2> QED
    BY <1>2, <2>1 DEF CallPort, Enter
<1>3. ASSUME NEW p \in Ports, CorruptSerdes(p) PROVE FwTypeOK'
  BY <1>3 DEF CorruptSerdes
<1>4. ASSUME NEW r \in Rings, CorruptSbm(r) PROVE FwTypeOK'
  BY <1>4 DEF CorruptSbm
<1>5. CASE UNCHANGED fwVars
  BY <1>5
<1> HIDE DEF FwTypeOK
<1> QED
  BY <1>1, <1>2, <1>3, <1>4, <1>5 DEF FwCall, FwFaults

-----------------------------------------------------------------------------
(* A thread moves itself only, and keeps its ports until it returns.        *)
LEMMA OwnStepOnly ==
  ASSUME FwTypeOK, NEW t \in FwThreads, FwStep(t)
  PROVE  /\ \A u \in FwThreads \ {t} : /\ fwPc'[u] = fwPc[u] /\ on'[u] = on[u]
                                      /\ phase'[u] = phase[u]
                                      /\ fwOp'[u] = fwOp[u] /\ rc'[u] = rc[u]
         /\ FwReturn(t) \/ (on' = on /\ fwOp' = fwOp)
<1> USE DEF FwTypeOK, FwGo, Result, fwCall
<1>1. CASE FwReturn(t)
  BY <1>1 DEF FwReturn
<1> DEFINE Results == {"ok", "err", "undefined"}
           Own == /\ on' = on /\ fwOp' = fwOp
                  /\ rc' = rc \/ \E x \in Results : rc' = [rc EXCEPT ![t] = x]
                  /\ \/ phase' = phase
                     \/ \E f \in Phases : phase' = [phase EXCEPT ![t] = f]
                  /\ \E s \in FwPcs : fwPc' = [fwPc EXCEPT ![t] = s]
<1>2. ASSUME InitSbm(t) \/ FwLock(t) \/ Verify(t) \/ RequestFirmware(t) \/
             FwUnlock(t) \/ CheckFirmware(t)
      PROVE  Own
  BY <1>2 DEF InitSbm, FwLock, Verify, RequestFirmware, FwUnlock,
     CheckFirmware, FwPcs, Phases
<1>3. ASSUME SoftPort(t) \/ SoftRing(t) \/ SoftOps(t)
      PROVE  Own
  BY <1>3 DEF SoftPort, SoftRing, SoftOps, FwPcs, Phases
<1>4. ASSUME UploadPort(t) \/ UploadRing(t) \/ UploadWrite(t) \/ Ready(t) \/
             Crc(t)
      PROVE  Own
  BY <1>4 DEF UploadPort, UploadRing, UploadWrite, Ready, Crc, FwPcs, Phases
<1>5. ASSUME ValidateSerdes(t) \/ ValidateSbm(t) \/ ReloadInhibited(t) \/
             ReloadWanted(t) \/ Demand(t)
      PROVE  Own
  BY <1>5 DEF ValidateSerdes, ValidateSbm, ReloadInhibited, ReloadWanted,
     Demand, FwPcs, Phases
<1>6. ASSUME ReloadLock(t) \/ ReloadTest(t) \/ ReloadDump(t) \/
             ReloadRing(t) \/ ReloadWrite(t) \/ ReloadClear(t) \/
             ReloadUnlock(t)
      PROVE  Own
  BY <1>6 DEF ReloadLock, ReloadTest, ReloadDump, ReloadRing, ReloadWrite,
     ReloadClear, ReloadUnlock, FwPcs, Phases
<1>7. ASSUME SpicoRing(t) \/ SpicoPort(t) \/ SpicoOp(t) \/ SpicoWait(t) \/
             ViewPort(t) \/ ViewOp(t) \/ ViewSbm(t)
      PROVE  Own
  BY <1>7 DEF SpicoRing, SpicoPort, SpicoOp, SpicoWait, ViewPort, ViewOp,
     ViewSbm, FwPcs, Phases
<1>8. CASE ~FwReturn(t)
  <2>1. Own
    BY <1>2, <1>3, <1>4, <1>5, <1>6, <1>7, <1>8
       DEF FwStep, Flash, FlashSafe, SpicoReset
  <2> QED
    BY <2>1
<1> QED
  BY <1>1, <1>8

(* serdes_mtx is taken when it is free and dropped by its holder, and held  *)
(* at the steps that need it.                                               *)
LEMMA PortRespected ==
  ASSUME FwTypeOK, PortOwned, NEW t \in FwThreads, FwStep(t)
  PROVE  /\ \A p \in Ports : \/ portMtx'[p] = portMtx[p]
                            \/ portMtx[p] \in {FwNone, t}
         /\ HoldsPort(t)' => \A p \in on'[t] : portMtx'[p] = t
<1> USE DEF FwTypeOK, PortOwned, HoldsPort, FwAt, FwGo, fwCall, fwLocks
<1>0. \A p \in Ports : Drop(portMtx, on[t])[p] =
                        IF p \in on[t] THEN FwNone ELSE portMtx[p]
  BY DEF Drop, Grab
<1>1. CASE SoftPort(t)
  BY <1>1, GrabDrop DEF SoftPort, Free
<1>2. CASE SoftRing(t)
  BY <1>2, GrabDrop DEF SoftRing
<1>3. CASE SoftOps(t)
  BY <1>3, <1>0 DEF SoftOps
<1>4. CASE UploadPort(t)
  BY <1>4, GrabDrop DEF UploadPort, Free
<1>5. CASE UploadRing(t)
  BY <1>5, GrabDrop DEF UploadRing
<1>6. CASE UploadWrite(t)
  BY <1>6, <1>0 DEF UploadWrite
<1>7. CASE SpicoPort(t)
  BY <1>7, GrabDrop DEF SpicoPort, Free
<1>8. CASE SpicoOp(t)
  BY <1>8, <1>0 DEF SpicoOp
<1>9. CASE ViewPort(t)
  BY <1>9, GrabDrop DEF ViewPort, Free
<1>10. CASE ViewOp(t)
  BY <1>10, <1>0 DEF ViewOp
<1>11. CASE ~( SoftPort(t) \/ SoftRing(t) \/ SoftOps(t) \/ UploadPort(t) \/
             UploadRing(t) \/ UploadWrite(t) \/ SpicoPort(t) \/ SpicoOp(t)
             \/ ViewPort(t) \/ ViewOp(t))
  <2>1. portMtx' = portMtx /\ ~HoldsPort(t)'
    <3>1. CASE InitSbm(t) \/ FwLock(t) \/ Verify(t) \/ RequestFirmware(t) \/
              Ready(t) \/ Crc(t) \/ FwUnlock(t)
      BY <3>1 DEF InitSbm, FwLock, Verify, RequestFirmware, Ready, Crc,
         FwUnlock
    <3>2. CASE ValidateSerdes(t) \/ ValidateSbm(t) \/ CheckFirmware(t)
      BY <3>2 DEF ValidateSerdes, ValidateSbm, CheckFirmware
    <3>5. CASE ReloadInhibited(t) \/ ReloadWanted(t) \/ Demand(t)
      BY <3>5 DEF ReloadInhibited, ReloadWanted, Demand
    <3>3. CASE ReloadLock(t) \/ ReloadTest(t) \/ ReloadDump(t) \/
              ReloadRing(t) \/ ReloadWrite(t) \/ ReloadClear(t) \/
              ReloadUnlock(t)
      BY <3>3 DEF ReloadLock, ReloadTest, ReloadDump, ReloadRing, ReloadWrite,
         ReloadClear, ReloadUnlock
    <3>4. CASE SpicoRing(t) \/ SpicoWait(t) \/ ViewSbm(t) \/ FwReturn(t)
      BY <3>4 DEF SpicoRing, SpicoWait, ViewSbm, FwReturn
    <3> QED
      BY <1>11, <3>1, <3>2, <3>3, <3>4, <3>5 DEF FwStep, Flash, FlashSafe,
         SpicoReset
  <2> QED
    BY <2>1
<1> QED
  BY <1>1, <1>2, <1>3, <1>4, <1>5, <1>6, <1>7, <1>8, <1>9, <1>10, <1>11

(* sbm_fw_mtx is taken when it is free and dropped by its holder, and held  *)
(* from the first check of a flash or the test of a reload to its end.      *)
LEMMA FwRespected ==
  ASSUME FwTypeOK, FwOwned, NEW t \in FwThreads, FwStep(t)
  PROVE  /\ \A r \in Rings : \/ fwMtx'[r] = fwMtx[r]
                            \/ fwMtx[r] \in {FwNone, t}
         /\ HoldsFw(t)' => \A r \in RingsOf(t)' : fwMtx'[r] = t
<1> USE DEF FwTypeOK, FwOwned, HoldsFw, FwAt, FwGo, fwCall, fwLocks
<1>0. /\ RingsOf(t) \subseteq Rings
      /\ \A r \in Rings : Drop(fwMtx, RingsOf(t))[r] =
                            IF r \in RingsOf(t) THEN FwNone ELSE fwMtx[r]
  BY RingsInRings DEF Drop, Grab
<1>1. CASE FwLock(t)
  <2>1. RingsOf(t)' = RingsOf(t)
    BY <1>1 DEF FwLock, RingsOf
  <2> QED
    BY <1>0, <1>1, <2>1, GrabDrop DEF FwLock, Free
<1>2. CASE FwUnlock(t)
  BY <1>0, <1>2 DEF FwUnlock
<1>3. CASE ReloadLock(t)
  <2>1. RingsOf(t)' = RingsOf(t)
    BY <1>3 DEF ReloadLock, RingsOf
  <2> QED
    BY <1>0, <1>3, <2>1, GrabDrop DEF ReloadLock, Free
<1>4. CASE ReloadUnlock(t)
  BY <1>0, <1>4 DEF ReloadUnlock
<1>5. CASE ~( FwLock(t) \/ FwUnlock(t) \/ ReloadLock(t) \/ ReloadUnlock(t) )
  <2>1. fwMtx' = fwMtx
    <3>1. CASE InitSbm(t) \/ Verify(t) \/ RequestFirmware(t) \/ SoftPort(t) \/
              SoftRing(t) \/ SoftOps(t) \/ CheckFirmware(t)
      BY <3>1 DEF InitSbm, Verify, RequestFirmware, SoftPort, SoftRing,
         SoftOps, CheckFirmware
    <3>2. CASE UploadPort(t) \/ UploadRing(t) \/ UploadWrite(t) \/ Ready(t) \/
              Crc(t)
      BY <3>2 DEF UploadPort, UploadRing, UploadWrite, Ready, Crc
    <3>3. CASE ValidateSerdes(t) \/ ValidateSbm(t) \/ ReloadInhibited(t) \/
              ReloadWanted(t) \/ Demand(t)
      BY <3>3 DEF ValidateSerdes, ValidateSbm, ReloadInhibited, ReloadWanted,
         Demand
    <3>4. CASE ReloadTest(t) \/ ReloadDump(t) \/ ReloadRing(t) \/
              ReloadWrite(t) \/ ReloadClear(t)
      BY <3>4 DEF ReloadTest, ReloadDump, ReloadRing, ReloadWrite, ReloadClear
    <3>5. CASE SpicoRing(t) \/ SpicoPort(t) \/ SpicoOp(t) \/ SpicoWait(t) \/
              ViewPort(t) \/ ViewOp(t) \/ ViewSbm(t) \/ FwReturn(t)
      BY <3>5 DEF SpicoRing, SpicoPort, SpicoOp, SpicoWait, ViewPort, ViewOp,
         ViewSbm, FwReturn
    <3> QED
      BY <1>5, <3>1, <3>2, <3>3, <3>4, <3>5 DEF FwStep, Flash, FlashSafe,
         SpicoReset
  <2>2. HoldsFw(t)' => HoldsFw(t) /\ on' = on
    <3>1. CASE SoftOps(t)
      BY <3>1 DEF SoftOps
    <3>2. CASE SoftPort(t)
      BY <3>2 DEF SoftPort
    <3>3. CASE SoftRing(t)
      BY <3>3 DEF SoftRing
    <3>4. CASE FwReturn(t)
      BY <3>4 DEF FwReturn
    <3>5. CASE Verify(t) \/ RequestFirmware(t) \/ UploadPort(t) \/
           UploadRing(t) \/ UploadWrite(t) \/ Ready(t) \/ Crc(t)
      BY <3>5 DEF Verify, RequestFirmware, UploadPort, UploadRing,
         UploadWrite, Ready, Crc
    <3>6. CASE ReloadTest(t) \/ ReloadDump(t) \/ ReloadRing(t) \/
           ReloadWrite(t) \/ ReloadClear(t)
      BY <3>6 DEF ReloadTest, ReloadDump, ReloadRing, ReloadWrite,
         ReloadClear
    <3>7. CASE InitSbm(t) \/ ValidateSerdes(t) \/ ValidateSbm(t) \/
           CheckFirmware(t)
      BY <3>7 DEF InitSbm, ValidateSerdes, ValidateSbm, CheckFirmware
    <3>8. CASE ReloadInhibited(t)
      BY <3>8 DEF ReloadInhibited
    <3>11. CASE ReloadWanted(t) \/ Demand(t)
      BY <3>11 DEF ReloadWanted, Demand
    <3>9. CASE SpicoRing(t) \/ SpicoPort(t) \/ SpicoOp(t) \/ SpicoWait(t)
      BY <3>9 DEF SpicoRing, SpicoPort, SpicoOp, SpicoWait
    <3>10. CASE ViewPort(t) \/ ViewOp(t) \/ ViewSbm(t)
      BY <3>10 DEF ViewPort, ViewOp, ViewSbm
    <3> QED
      BY <1>5, <3>1, <3>2, <3>3, <3>4, <3>5, <3>6, <3>7, <3>8, <3>9, <3>10,
         <3>11
         DEF FwStep, Flash,
         FlashSafe, SpicoReset
  <2> QED
    BY <2>1, <2>2 DEF RingsOf
<1> QED
  BY <1>1, <1>2, <1>3, <1>4, <1>5

-----------------------------------------------------------------------------
(* Every step keeps the mutexes with those who hold them.                   *)
LEMMA LockStep ==
  ASSUME LockInv, [FwNext]_fwVars
  PROVE  LockInv'
<1> USE DEF LockInv
<1>1. ASSUME NEW t \in FwThreads, FwStep(t) PROVE LockInv'
  <2>1. FwTypeOK'
    BY <1>1, FwStepType
  <2>2. \A u \in FwThreads \ {t} : /\ fwPc'[u] = fwPc[u] /\ on'[u] = on[u]
                                 /\ phase'[u] = phase[u]
    BY <1>1, OwnStepOnly
  <2>3. PortOwned'
    <3>1. /\ \A p \in Ports : portMtx'[p] = portMtx[p] \/ portMtx[p] \in {FwNone, t}
          /\ HoldsPort(t)' => \A p \in on'[t] : portMtx'[p] = t
      BY <1>1, PortRespected
    <3>2. \A u \in FwThreads \ {t} : HoldsPort(u)' => HoldsPort(u)
      BY <2>2 DEF HoldsPort
    <3> QED
      BY <2>2, <3>1, <3>2, FirmwareAssumption DEF PortOwned, FwTypeOK
  <2>4. FwOwned'
    <3>1. /\ \A r \in Rings : fwMtx'[r] = fwMtx[r] \/ fwMtx[r] \in {FwNone, t}
          /\ HoldsFw(t)' => \A r \in RingsOf(t)' : fwMtx'[r] = t
      BY <1>1, FwRespected
    <3>2. \A u \in FwThreads \ {t} : /\ HoldsFw(u)' => HoldsFw(u)
                                   /\ RingsOf(u)' = RingsOf(u)
      BY <2>2 DEF HoldsFw, RingsOf
    <3> QED
      BY <3>1, <3>2, FirmwareAssumption, RingsInRings DEF FwOwned
  <2> QED
    BY <2>1, <2>3, <2>4
<1>2. CASE FwCall
  <2>1. FwTypeOK'
    BY <1>2, FwOtherType
  <2>2. PICK t \in FwThreads :
          /\ UNCHANGED <<fwMtx, portMtx>>
          /\ \A u \in FwThreads \ {t} : /\ fwPc'[u] = fwPc[u] /\ on'[u] = on[u]
                                      /\ phase'[u] = phase[u]
          /\ ~HoldsPort(t)' /\ ~HoldsFw(t)'
    <3>1. ASSUME NEW t \in FwThreads, NEW o \in FwOps, NEW S, NEW s, NEW f,
                 NEW ph, Enter(t, o, S, s, ph, f),
                 s \in {"iSbm", "check", "fwLock", "softPort", "spRing",
                        "vPort", "vRing"},
                 s = "softPort" => ph = "soft"
          PROVE  /\ UNCHANGED <<fwMtx, portMtx>>
                 /\ \A u \in FwThreads \ {t} :
                      /\ fwPc'[u] = fwPc[u] /\ on'[u] = on[u]
                      /\ phase'[u] = phase[u]
                 /\ ~HoldsPort(t)' /\ ~HoldsFw(t)'
      BY <3>1 DEF Enter, FwGo, FwTypeOK, HoldsPort, HoldsFw
    <3>2. ASSUME NEW t \in FwThreads, CallInit(t)
          PROVE  Enter(t, "init", Ports, "iSbm", "init", FALSE) /\ "init" \in FwOps
      BY <3>2 DEF CallInit, Enter
    <3>3. ASSUME NEW t \in FwThreads, NEW p \in Ports, NEW o \in FwOps,
                 CallPort(t, p, o)
          PROVE  /\ Enter(t, o, {p}, FirstStep(o),
                          IF o = "reset" THEN "soft" ELSE "first", o # "check")
                 /\ FirstStep(o) \in {"check", "fwLock", "softPort", "spRing",
                                      "vPort", "vRing"}
                 /\ FirstStep(o) = "softPort" => o = "reset"
      <4>1. o \in AllFwOps \ {"init"}
        BY <3>3, FirmwareAssumption DEF CallPort
      <4> QED
        BY <3>3, <4>1 DEF CallPort, FirstStep, AllFwOps
    <3>4. ASSUME NEW t \in FwThreads, CallInit(t)
          PROVE  /\ UNCHANGED <<fwMtx, portMtx>>
                 /\ \A u \in FwThreads \ {t} :
                      /\ fwPc'[u] = fwPc[u] /\ on'[u] = on[u]
                      /\ phase'[u] = phase[u]
                 /\ ~HoldsPort(t)' /\ ~HoldsFw(t)'
      BY <3>1, <3>2, <3>4
    <3>5. ASSUME NEW t \in FwThreads, NEW p \in Ports, NEW o \in FwOps,
                 CallPort(t, p, o)
          PROVE  /\ UNCHANGED <<fwMtx, portMtx>>
                 /\ \A u \in FwThreads \ {t} :
                      /\ fwPc'[u] = fwPc[u] /\ on'[u] = on[u]
                      /\ phase'[u] = phase[u]
                 /\ ~HoldsPort(t)' /\ ~HoldsFw(t)'
      <4> DEFINE ph == IF o = "reset" THEN "soft" ELSE "first"
                 s == FirstStep(o)
      <4>1. /\ Enter(t, o, {p}, s, ph, o # "check")
            /\ s \in {"iSbm", "check", "fwLock", "softPort", "spRing",
                      "vPort", "vRing"}
            /\ s = "softPort" => ph = "soft"
        BY <3>3, <3>5
      <4> HIDE DEF ph, s
      <4> QED
        BY <3>1, <4>1
    <3> QED
      BY <1>2, <3>4, <3>5 DEF FwCall
  <2>4. PortOwned'
    BY <2>2 DEF PortOwned, HoldsPort
  <2>5. FwOwned'
    BY <2>2 DEF FwOwned, HoldsFw, RingsOf
  <2> QED
    BY <2>1, <2>4, <2>5
<1>3. CASE FwFaults \/ UNCHANGED fwVars
  <2>1. FwTypeOK'
    BY <1>3, FwOtherType
  <2>2. UNCHANGED <<fwPc, on, phase, fwMtx, portMtx>>
    BY <1>3 DEF FwFaults, CorruptSerdes, CorruptSbm, fwVars, fwCall, fwLocks
  <2>3. PortOwned' /\ FwOwned'
    BY <2>2 DEF PortOwned, HoldsPort, FwOwned, HoldsFw, RingsOf
  <2> QED
    BY <2>1, <2>3
<1> QED
  BY <1>1, <1>2, <1>3 DEF FwNext

(* The invariant holds in every reachable state.                            *)
LEMMA LockInvariant == FwSpec => []LockInv
<1>1. LockInv /\ [FwNext]_fwVars => LockInv'
  BY LockStep
<1> QED
  BY <1>1, LockInit, PTL DEF FwSpec

(* Every variable of the firmware load keeps its type: a mutex is held by a *)
(* thread or nobody, and a call in progress is on ports of the switch.      *)
THEOREM FwTypes == FwSpec => []FwTypeOK
<1>1. LockInv => FwTypeOK
  BY DEF LockInv
<1> QED
  BY <1>1, LockInvariant, PTL

-----------------------------------------------------------------------------
(* From the first check of the SerDes firmware of a port to the last,       *)
(* nobody writes the SBM of its ring: sbl_serdes_firmware_flash() and the   *)
(* reload in sbl_serdes_firmware_flash_safe() exclude each other by         *)
(* sbm_fw_mtx, for every number of ports, rings and threads.                *)
THEOREM UploadIsExclusive == FwSpec => []UploadExclusive
<1>1. LockInv => UploadExclusive
  <2> SUFFICES ASSUME FwOwned, NEW t \in FwThreads, NEW u \in FwThreads,
                      Meet(t, u), SbmLoading(u), HoldsFw(t)
               PROVE  FALSE
    BY DEF UploadExclusive, LockInv
  <2>1. HoldsFw(u)
    BY DEF SbmLoading, HoldsFw
  <2>2. PICK r : r \in RingsOf(t) /\ r \in RingsOf(u)
    BY DEF Meet
  <2>3. fwMtx[r] = t /\ fwMtx[r] = u
    BY <2>1, <2>2 DEF FwOwned
  <2> QED
    BY <2>3 DEF Meet
<1> QED
  BY <1>1, LockInvariant, PTL

(* While the SPICO of a port is stopped, for a reset or an upload, no       *)
(* operation of another thread is in progress on it, for every number of    *)
(* ports, rings and threads.                                                *)
THEOREM NoOperationInLoad == FwSpec => []NoInterruptInLoad
<1>1. LockInv => NoInterruptInLoad
  <2> SUFFICES ASSUME PortOwned, NEW t \in FwThreads, NEW u \in FwThreads,
                      t # u, on[t] \cap on[u] # {}, HoldsPort(t), HoldsPort(u)
               PROVE  FALSE
    BY DEF NoInterruptInLoad, LockInv, HoldsPort
  <2>1. PICK p : p \in on[t] /\ p \in on[u]
    OBVIOUS
  <2>2. portMtx[p] = t /\ portMtx[p] = u
    BY <2>1 DEF PortOwned
  <2> QED
    BY <2>2
<1> QED
  BY <1>1, LockInvariant, PTL
-----------------------------------------------------------------------------
(* The port of a thread, and the request for its ring: a thread that may    *)
(* ask for a reload of the SBM, or serves one, works for one port; and a    *)
(* request never outlives the thread that has still to look at it.          *)
ReloadSteps == {"valSerdes", "valSbm", "inhibit", "demand", "rLock", "rTest",
                "rDump", "rRing", "rWrite", "rClear", "rUnlock"}
Serving == {"rLock", "rTest", "rDump", "rRing", "rWrite", "rClear"}

OnePort == \A t \in FwThreads :
             phase[t] \in {"first", "soft"} \/ fwPc[t] \in ReloadSteps
               => \E p \in Ports : on[t] = {p}

RequestInv == FwTypeOK /\ OnePort /\ RequestServed

(* Which steps belong to an operation that loads the firmware of a port, to *)
(* the reset of a SPICO and to the status files.                            *)
Loading == {"init", "check", "fix", "reset"}
SpicoSteps == {"spRing", "spPort", "spOp", "spWait", "vPort", "vOp", "vRing"}

OpSteps == \A t \in FwThreads :
             IF fwOp[t] \in Loading
               THEN fwPc[t] \notin SpicoSteps \cup {"idle"}
               ELSE fwPc[t] \in SpicoSteps \cup {"idle", "finish"}

(* Operations of the base link hold busy_mtx of their port, and nothing     *)
(* runs beside the initialisation of the instance.                          *)
BusyOwned == \A t \in FwThreads :
               fwOp[t] \in Serialised => \A p \in on[t] : busyMtx[p] = t
InitAlone == ~loaded =>
               /\ \A t \in FwThreads : FwAt(t, "idle") \/ fwOp[t] = "init"
               /\ \A t, u \in FwThreads : t = u \/ FwAt(t, "idle") \/ FwAt(u, "idle")
InitFirst == loaded => \A t \in FwThreads : fwOp[t] # "init"

(* Steps from the end of a flash to its return, at which its result stands  *)
(* for the CRC of the port.                                                 *)
Judged(t) ==
  /\ fwOp[t] \in Loading /\ rc[t] = "ok"
  /\ \/ fwPc[t] \in {"fwUnlock", "valSerdes", "valSbm", "inhibit"}
     \/ fwPc[t] = "finish" /\ phase[t] # "soft"
JudgedVerified == \A t \in FwThreads : Judged(t) => Sane(verified, on[t])

CallInv == FwTypeOK /\ OpSteps /\ BusyOwned /\ InitAlone /\ InitFirst
SuccessInv == CallInv /\ JudgedVerified
-----------------------------------------------------------------------------
(* A step raises a request for its own ring only, and stays to look at it;  *)
(* a step that stops looking leaves no request behind.                      *)
LEMMA ServeStep ==
  ASSUME FwTypeOK, OnePort, NEW t \in FwThreads, FwStep(t)
  PROVE  /\ \A r \in Rings : reload'[r] =>
              reload[r] \/ (r \in RingsOf(t)' /\ fwPc'[t] \in Serving)
         /\ fwPc[t] \in Serving =>
              \A r \in RingsOf(t) :
                reload'[r] => (r \in RingsOf(t)' /\ fwPc'[t] \in Serving)
<1> USE DEF FwTypeOK, FwAt, FwGo, fwData, fwCall, Serving
<1>0. RingsOf(t) \subseteq Rings
  BY RingsInRings
<1>1. CASE Demand(t)
  <2>1. RingsOf(t)' = RingsOf(t)
    BY <1>1 DEF Demand, RingsOf
  <2> QED
    BY <1>0, <1>1, <2>1 DEF Demand
<1>2. CASE ReloadLock(t) \/ ReloadDump(t) \/ ReloadRing(t) \/ ReloadWrite(t)
  <2>1. RingsOf(t)' = RingsOf(t) /\ reload' = reload
    BY <1>2 DEF ReloadLock, ReloadDump, ReloadRing, ReloadWrite, RingsOf
  <2>2. fwPc'[t] \in Serving
    BY <1>2 DEF ReloadLock, ReloadDump, ReloadRing, ReloadWrite
  <2> QED
    BY <2>1, <2>2
<1>3. CASE ReloadTest(t)
  <2>1. /\ RingsOf(t)' = RingsOf(t) /\ reload' = reload
        /\ fwPc[t] = "rTest"
    BY <1>3 DEF ReloadTest, RingsOf
  <2>2. PICK p \in Ports : on[t] = {p}
    BY <2>1 DEF OnePort, ReloadSteps
  <2>3. RingsOf(t) = {Ring[p]}
    BY <2>2 DEF RingsOf
  <2>4. fwPc'[t] = "rDump" \/ (fwPc'[t] = "rUnlock" /\ ~reload[Ring[p]])
    BY <1>3, <2>3 DEF ReloadTest, Sane
  <2> QED
    BY <2>1, <2>3, <2>4
<1>4. CASE ReloadClear(t)
  BY <1>0, <1>4 DEF ReloadClear
<1>5. CASE ~( Demand(t) \/ ReloadLock(t) \/ ReloadTest(t) \/ ReloadDump(t)
             \/ ReloadRing(t) \/ ReloadWrite(t) \/ ReloadClear(t) )
  <2>1. reload' = reload /\ fwPc[t] \notin Serving
    <3>1. CASE InitSbm(t) \/ FwLock(t) \/ Verify(t) \/ RequestFirmware(t) \/
              FwUnlock(t) \/ CheckFirmware(t)
      BY <3>1 DEF InitSbm, FwLock, Verify, RequestFirmware, FwUnlock,
         CheckFirmware
    <3>2. CASE SoftPort(t) \/ SoftRing(t) \/ SoftOps(t)
      BY <3>2 DEF SoftPort, SoftRing, SoftOps
    <3>3. CASE UploadPort(t) \/ UploadRing(t) \/ UploadWrite(t) \/ Ready(t)
              \/ Crc(t)
      BY <3>3 DEF UploadPort, UploadRing, UploadWrite, Ready, Crc
    <3>4. CASE ValidateSerdes(t) \/ ValidateSbm(t) \/ ReloadInhibited(t) \/
              ReloadWanted(t) \/ ReloadUnlock(t)
      BY <3>4 DEF ValidateSerdes, ValidateSbm, ReloadInhibited, ReloadWanted,
         ReloadUnlock
    <3>5. CASE SpicoRing(t) \/ SpicoPort(t) \/ SpicoOp(t) \/ SpicoWait(t)
      BY <3>5 DEF SpicoRing, SpicoPort, SpicoOp, SpicoWait
    <3>6. CASE ViewPort(t) \/ ViewOp(t) \/ ViewSbm(t) \/ FwReturn(t)
      BY <3>6 DEF ViewPort, ViewOp, ViewSbm, FwReturn
    <3> QED
      BY <1>5, <3>1, <3>2, <3>3, <3>4, <3>5, <3>6 DEF FwStep, Flash,
         FlashSafe, SpicoReset
  <2> QED
    BY <2>1
<1> QED
  BY <1>1, <1>2, <1>3, <1>4, <1>5

(* Only a thread of one port goes on to the steps of a reload, and it keeps *)
(* its port.                                                                *)
LEMMA OnePortStep ==
  ASSUME FwTypeOK, OnePort, NEW t \in FwThreads, FwStep(t)
  PROVE  phase'[t] \in {"first", "soft"} \/ fwPc'[t] \in ReloadSteps
           => \E p \in Ports : on'[t] = {p}
<1> DEFINE Kept == /\ on' = on
                   /\ phase'[t] \in {"first", "soft"} \/ fwPc'[t] \in ReloadSteps
                        => \/ phase[t] \in {"first", "soft"}
                           \/ fwPc[t] \in ReloadSteps
<1> USE DEF FwTypeOK, FwAt, FwGo, fwCall, ReloadSteps
<1>1. CASE FwReturn(t)
  BY <1>1 DEF FwReturn
<1>2. ASSUME InitSbm(t) \/ FwLock(t) \/ Verify(t) \/ RequestFirmware(t)
      PROVE  Kept
  BY <1>2 DEF InitSbm, FwLock, Verify, RequestFirmware
<1>3. ASSUME FwUnlock(t) \/ CheckFirmware(t)
      PROVE  Kept
  BY <1>3 DEF FwUnlock, CheckFirmware
<1>4. ASSUME SoftPort(t) \/ SoftRing(t) \/ SoftOps(t)
      PROVE  Kept
  BY <1>4 DEF SoftPort, SoftRing, SoftOps
<1>5. ASSUME UploadPort(t) \/ UploadRing(t) \/ UploadWrite(t) \/ Ready(t) \/
             Crc(t)
      PROVE  Kept
  BY <1>5 DEF UploadPort, UploadRing, UploadWrite, Ready, Crc
<1>6. ASSUME ValidateSerdes(t) \/ ValidateSbm(t) \/ ReloadInhibited(t) \/
             ReloadWanted(t) \/ Demand(t)
      PROVE  Kept
  BY <1>6 DEF ValidateSerdes, ValidateSbm, ReloadInhibited, ReloadWanted,
     Demand
<1>7. ASSUME ReloadLock(t) \/ ReloadTest(t) \/ ReloadDump(t) \/ ReloadRing(t)
             \/ ReloadWrite(t) \/ ReloadClear(t) \/ ReloadUnlock(t)
      PROVE  Kept
  BY <1>7 DEF ReloadLock, ReloadTest, ReloadDump, ReloadRing, ReloadWrite,
     ReloadClear, ReloadUnlock
<1>8. ASSUME SpicoRing(t) \/ SpicoPort(t) \/ SpicoOp(t) \/ SpicoWait(t)
      PROVE  Kept
  BY <1>8 DEF SpicoRing, SpicoPort, SpicoOp, SpicoWait
<1>9. ASSUME ViewPort(t) \/ ViewOp(t) \/ ViewSbm(t)
      PROVE  Kept
  BY <1>9 DEF ViewPort, ViewOp, ViewSbm
<1>10. CASE ~FwReturn(t)
  <2>1. Kept
    BY <1>2, <1>3, <1>4, <1>5, <1>6, <1>7, <1>8, <1>9, <1>10
       DEF FwStep, Flash, FlashSafe, SpicoReset
  <2> QED
    BY <2>1 DEF OnePort
<1> QED
  BY <1>1, <1>10

(* Every step keeps the request with a thread that serves it.               *)
LEMMA RequestStep ==
  ASSUME RequestInv, [FwNext]_fwVars
  PROVE  RequestInv'
<1> USE DEF RequestInv
<1>1. ASSUME NEW t \in FwThreads, FwStep(t) PROVE RequestInv'
  <2>1. FwTypeOK'
    BY <1>1, FwStepType
  <2>2. \A u \in FwThreads \ {t} : /\ fwPc'[u] = fwPc[u] /\ on'[u] = on[u]
                                 /\ phase'[u] = phase[u]
    BY <1>1, OwnStepOnly
  <2>3. OnePort'
    BY <1>1, <2>2, OnePortStep DEF OnePort
  <2>4. RequestServed'
    <3> SUFFICES ASSUME NEW r \in Rings, reload'[r]
                 PROVE  \E u \in FwThreads : r \in RingsOf(u)' /\ fwPc'[u] \in Serving
      BY DEF RequestServed, Serving
    <3>1. reload[r] \/ (r \in RingsOf(t)' /\ fwPc'[t] \in Serving)
      BY <1>1, ServeStep
    <3>2. ASSUME NEW u \in FwThreads, r \in RingsOf(u), fwPc[u] \in Serving
          PROVE  \E v \in FwThreads : r \in RingsOf(v)' /\ fwPc'[v] \in Serving
      <4>1. CASE u = t
        BY <1>1, <3>2, <4>1, ServeStep
      <4>2. CASE u # t
        BY <2>2, <3>2, <4>2 DEF RingsOf
      <4> QED
        BY <4>1, <4>2
    <3> QED
      BY <3>1, <3>2 DEF RequestServed, Serving
  <2> QED
    BY <2>1, <2>3, <2>4
<1>2. CASE FwCall
  <2>1. FwTypeOK'
    BY <1>2, FwOtherType
  <2>2. PICK t \in FwThreads :
          /\ fwPc[t] = "idle" /\ reload' = reload
          /\ \A u \in FwThreads \ {t} : /\ fwPc'[u] = fwPc[u] /\ on'[u] = on[u]
                                      /\ phase'[u] = phase[u]
          /\ phase'[t] \in {"first", "soft"} \/ fwPc'[t] \in ReloadSteps
               => \E p \in Ports : on'[t] = {p}
    <3>1. ASSUME NEW t \in FwThreads, CallInit(t)
          PROVE  /\ fwPc[t] = "idle" /\ reload' = reload
                 /\ \A u \in FwThreads \ {t} :
                      /\ fwPc'[u] = fwPc[u] /\ on'[u] = on[u]
                      /\ phase'[u] = phase[u]
                 /\ phase'[t] = "init" /\ fwPc'[t] = "iSbm"
      BY <3>1 DEF CallInit, Enter, FwAt, FwGo, FwTypeOK
    <3>2. ASSUME NEW t \in FwThreads, NEW p \in Ports, NEW o \in FwOps,
                 CallPort(t, p, o)
          PROVE  /\ fwPc[t] = "idle" /\ reload' = reload
                 /\ \A u \in FwThreads \ {t} :
                      /\ fwPc'[u] = fwPc[u] /\ on'[u] = on[u]
                      /\ phase'[u] = phase[u]
                 /\ on'[t] = {p}
      BY <3>2 DEF CallPort, Enter, FwAt, FwGo, FwTypeOK
    <3> QED
      BY <1>2, <3>1, <3>2 DEF FwCall, ReloadSteps
  <2>3. OnePort'
    BY <2>2 DEF OnePort
  <2>4. RequestServed'
    <3> SUFFICES ASSUME NEW r \in Rings, reload[r]
                 PROVE  \E u \in FwThreads : r \in RingsOf(u)' /\ fwPc'[u] \in Serving
      BY <2>2 DEF RequestServed, Serving
    <3>1. PICK u \in FwThreads : r \in RingsOf(u) /\ fwPc[u] \in Serving
      BY DEF RequestServed, Serving
    <3>2. u # t
      BY <2>2, <3>1 DEF Serving
    <3> QED
      BY <2>2, <3>1, <3>2 DEF RingsOf
  <2> QED
    BY <2>1, <2>3, <2>4
<1>3. CASE FwFaults \/ UNCHANGED fwVars
  <2>1. FwTypeOK'
    BY <1>3, FwOtherType
  <2>2. UNCHANGED <<fwPc, on, phase, reload>>
    BY <1>3 DEF FwFaults, CorruptSerdes, CorruptSbm, fwVars, fwCall
  <2>3. OnePort' /\ RequestServed'
    BY <2>2 DEF OnePort, RequestServed, RingsOf
  <2> QED
    BY <2>1, <2>3
<1> QED
  BY <1>1, <1>2, <1>3 DEF FwNext

(* A request to reload the SBM of a ring is never left behind, whatever     *)
(* fails in the reloads before, for every number of ports, rings and        *)
(* threads that ask for one at the same time.                               *)
THEOREM RequestIsServed == FwSpec => []RequestServed
<1>1. FwInit => RequestInv
  <2> SUFFICES ASSUME FwInit PROVE OnePort /\ RequestServed
    BY LockInit DEF RequestInv, LockInv
  <2> QED
    BY DEF FwInit, OnePort, RequestServed, ReloadSteps
<1>2. RequestInv /\ [FwNext]_fwVars => RequestInv'
  BY RequestStep
<1>3. RequestInv => RequestServed
  BY DEF RequestInv
<1> QED
  BY <1>1, <1>2, <1>3, PTL DEF FwSpec
-----------------------------------------------------------------------------
(* Two operations that load firmware are never on the same port.            *)
LEMMA LoadersApart ==
  ASSUME CallInv, NEW t \in FwThreads, NEW u \in FwThreads, t # u,
         fwOp[t] \in Loading, fwOp[u] \in Loading
  PROVE  on[t] \cap on[u] = {}
<1> USE DEF CallInv
<1>1. ~FwAt(t, "idle") /\ ~FwAt(u, "idle")
  BY DEF OpSteps, FwAt
<1>2. loaded
  BY <1>1 DEF InitAlone
<1>3. fwOp[t] \in Serialised /\ fwOp[u] \in Serialised
  BY <1>2 DEF InitFirst, Loading, Serialised
<1> QED
  BY <1>3 DEF BusyOwned

(* A thread stays with the steps of its operation, and only its return      *)
(* releases busy_mtx or marks the instance as loaded.                       *)
LEMMA OpStepsStep ==
  ASSUME FwTypeOK, OpSteps, NEW t \in FwThreads, FwStep(t)
  PROVE  /\ IF fwOp'[t] \in Loading
              THEN fwPc'[t] \notin SpicoSteps \cup {"idle"}
              ELSE fwPc'[t] \in SpicoSteps \cup {"idle", "finish"}
         /\ FwReturn(t) \/ (loaded' = loaded /\ busyMtx' = busyMtx)
<1> DEFINE Same == loaded' = loaded /\ busyMtx' = busyMtx
           Load == /\ fwPc[t] \notin SpicoSteps \cup {"idle", "finish"}
                   /\ fwPc'[t] \notin SpicoSteps \cup {"idle"}
           Spico == /\ fwPc[t] \in SpicoSteps
                    /\ fwPc'[t] \in SpicoSteps \cup {"finish"}
<1> USE DEF FwTypeOK, FwAt, FwGo, fwCall, fwData, fwLocks, SpicoSteps
<1>1. CASE FwReturn(t)
  BY <1>1 DEF FwReturn, Loading
<1>2. ASSUME InitSbm(t) \/ FwLock(t) \/ Verify(t) \/ RequestFirmware(t)
      PROVE  Same /\ Load
  BY <1>2 DEF InitSbm, FwLock, Verify, RequestFirmware
<1>3. ASSUME FwUnlock(t) \/ CheckFirmware(t)
      PROVE  Same /\ Load
  BY <1>3 DEF FwUnlock, CheckFirmware
<1>4. ASSUME SoftPort(t) \/ SoftRing(t) \/ SoftOps(t)
      PROVE  Same /\ Load
  BY <1>4 DEF SoftPort, SoftRing, SoftOps
<1>5. ASSUME UploadPort(t) \/ UploadRing(t) \/ UploadWrite(t) \/ Ready(t) \/
             Crc(t)
      PROVE  Same /\ Load
  BY <1>5 DEF UploadPort, UploadRing, UploadWrite, Ready, Crc
<1>6. ASSUME ValidateSerdes(t) \/ ValidateSbm(t) \/ ReloadInhibited(t) \/
             ReloadWanted(t) \/ Demand(t)
      PROVE  Same /\ Load
  BY <1>6 DEF ValidateSerdes, ValidateSbm, ReloadInhibited, ReloadWanted,
     Demand
<1>7. ASSUME ReloadLock(t) \/ ReloadTest(t) \/ ReloadDump(t) \/ ReloadRing(t)
             \/ ReloadWrite(t) \/ ReloadClear(t) \/ ReloadUnlock(t)
      PROVE  Same /\ Load
  BY <1>7 DEF ReloadLock, ReloadTest, ReloadDump, ReloadRing, ReloadWrite,
     ReloadClear, ReloadUnlock
<1>8. ASSUME SpicoRing(t) \/ SpicoPort(t) \/ SpicoOp(t) \/ SpicoWait(t)
      PROVE  Same /\ Spico
  BY <1>8 DEF SpicoRing, SpicoPort, SpicoOp, SpicoWait
<1>9. ASSUME ViewPort(t) \/ ViewOp(t) \/ ViewSbm(t)
      PROVE  Same /\ Spico
  BY <1>9 DEF ViewPort, ViewOp, ViewSbm
<1>10. CASE ~FwReturn(t)
  <2>1. Same /\ (Load \/ Spico)
    BY <1>2, <1>3, <1>4, <1>5, <1>6, <1>7, <1>8, <1>9, <1>10
       DEF FwStep, Flash, FlashSafe, SpicoReset
  <2>2. fwOp'[t] = fwOp[t]
    BY <1>10, OwnStepOnly
  <2> QED
    BY <2>1, <2>2 DEF OpSteps
<1> QED
  BY <1>1, <1>10

(* Only the upload to a port makes its CRC unknown again.                   *)
LEMMA VerifiedStep ==
  ASSUME FwTypeOK, NEW t \in FwThreads, FwStep(t), NEW p \in Ports, verified[p]
  PROVE  verified'[p] \/ (p \in on[t] /\ fwPc[t] = "upWrite")
<1> USE DEF FwTypeOK, FwAt, fwData
<1>1. CASE UploadWrite(t)
  BY <1>1 DEF UploadWrite
<1>2. CASE Verify(t) \/ Crc(t) \/ CheckFirmware(t)
  BY <1>2 DEF Verify, Crc, CheckFirmware
<1>3. CASE InitSbm(t) \/ FwLock(t) \/ RequestFirmware(t) \/ FwUnlock(t) \/
           SoftPort(t) \/ SoftRing(t) \/ SoftOps(t) \/ UploadPort(t) \/
           UploadRing(t) \/ Ready(t)
  BY <1>3 DEF InitSbm, FwLock, RequestFirmware, FwUnlock, SoftPort,
     SoftRing, SoftOps, UploadPort, UploadRing, Ready
<1>4. CASE ValidateSerdes(t) \/ ValidateSbm(t) \/ ReloadInhibited(t) \/
           ReloadWanted(t) \/ Demand(t)
  BY <1>4 DEF ValidateSerdes, ValidateSbm, ReloadInhibited, ReloadWanted,
     Demand
<1>5. CASE ReloadLock(t) \/ ReloadTest(t) \/ ReloadDump(t) \/ ReloadRing(t)
           \/ ReloadWrite(t) \/ ReloadClear(t) \/ ReloadUnlock(t)
  BY <1>5 DEF ReloadLock, ReloadTest, ReloadDump, ReloadRing, ReloadWrite,
     ReloadClear, ReloadUnlock
<1>6. CASE SpicoReset(t) \/ ViewPort(t) \/ ViewOp(t) \/ ViewSbm(t) \/
           FwReturn(t)
  BY <1>6 DEF SpicoReset, SpicoRing, SpicoPort, SpicoOp, SpicoWait,
     ViewPort, ViewOp, ViewSbm, FwReturn
<1> QED
  BY <1>1, <1>2, <1>3, <1>4, <1>5, <1>6 DEF FwStep, Flash, FlashSafe

(* Every step keeps the threads with the steps and the locks of their       *)
(* calls.                                                                   *)
LEMMA CallStep ==
  ASSUME CallInv, [FwNext]_fwVars
  PROVE  CallInv'
<1>1. ASSUME NEW t \in FwThreads, FwStep(t) PROVE CallInv'
  <2>0. FwTypeOK /\ OpSteps
    BY DEF CallInv
  <2>1. FwTypeOK'
    BY <1>1, <2>0, FwStepType
  <2>2. /\ \A u \in FwThreads \ {t} : /\ fwPc'[u] = fwPc[u] /\ on'[u] = on[u]
                                    /\ phase'[u] = phase[u]
                                    /\ fwOp'[u] = fwOp[u] /\ rc'[u] = rc[u]
        /\ FwReturn(t) \/ (on' = on /\ fwOp' = fwOp)
    BY <1>1, <2>0, OwnStepOnly
  <2>3. /\ IF fwOp'[t] \in Loading
             THEN fwPc'[t] \notin SpicoSteps \cup {"idle"}
             ELSE fwPc'[t] \in SpicoSteps \cup {"idle", "finish"}
        /\ FwReturn(t) \/ (loaded' = loaded /\ busyMtx' = busyMtx)
    BY <1>1, <2>0, OpStepsStep
  <2>4. OpSteps'
    BY <2>2, <2>3 DEF CallInv, OpSteps
  <2>5. BusyOwned' /\ InitAlone' /\ InitFirst'
    <3>1. CASE FwReturn(t)
      <4>1. /\ fwOp'[t] = "view" /\ fwPc'[t] = "idle" /\ FwAt(t, "finish")
            /\ \A p \in Ports : busyMtx[p] # t => busyMtx'[p] = busyMtx[p]
            /\ loaded' => loaded \/ fwOp[t] = "init"
            /\ ~loaded' => ~loaded
        BY <2>0, <3>1 DEF FwReturn, FwTypeOK, FwGo
      <4>2. BusyOwned'
        BY <2>0, <2>2, <4>1, <2>1 DEF CallInv, BusyOwned, Serialised, FwTypeOK
      <4>3. InitAlone'
        BY <2>0, <2>2, <4>1 DEF CallInv, InitAlone, FwAt
      <4>4. InitFirst'
        <5> SUFFICES ASSUME loaded', NEW u \in FwThreads PROVE fwOp'[u] # "init"
          BY DEF InitFirst
        <5>1. CASE u = t
          BY <4>1, <5>1
        <5>2. CASE u # t /\ loaded
          BY <2>2, <5>2 DEF CallInv, InitFirst
        <5>3. CASE u # t /\ ~loaded
          BY <2>2, <4>1, <5>3 DEF CallInv, InitAlone, OpSteps, Loading, FwAt
        <5> QED
          BY <5>1, <5>2, <5>3
      <4> QED
        BY <4>2, <4>3, <4>4
    <3>2. CASE ~FwReturn(t)
      <4>1. on' = on /\ fwOp' = fwOp /\ loaded' = loaded /\ busyMtx' = busyMtx
        BY <2>2, <2>3, <3>2
      <4>2. ~FwAt(t, "idle")
        <5> USE DEF FwAt
        <5>1. CASE Flash(t)
          BY <5>1 DEF Flash, FwLock, Verify, RequestFirmware, SoftPort,
             SoftRing, SoftOps, UploadPort, UploadRing, UploadWrite, Ready,
             Crc, FwUnlock
        <5>2. CASE FlashSafe(t)
          BY <5>2 DEF FlashSafe, ValidateSerdes, ValidateSbm, ReloadInhibited,
             ReloadWanted, Demand, ReloadLock, ReloadTest, ReloadDump,
             ReloadRing, ReloadWrite, ReloadClear, ReloadUnlock
        <5>3. CASE InitSbm(t) \/ CheckFirmware(t) \/ SpicoReset(t) \/
                   ViewPort(t) \/ ViewOp(t) \/ ViewSbm(t)
          BY <5>3 DEF InitSbm, CheckFirmware, SpicoReset, SpicoRing,
             SpicoPort, SpicoOp, SpicoWait, ViewPort, ViewOp, ViewSbm
        <5> QED
          BY <1>1, <3>2, <5>1, <5>2, <5>3 DEF FwStep
      <4> QED
        BY <2>2, <4>1, <4>2 DEF CallInv, BusyOwned, InitAlone, InitFirst, FwAt
    <3> QED
      BY <3>1, <3>2
  <2> QED
    BY <2>1, <2>4, <2>5 DEF CallInv
<1>2. ASSUME NEW t \in FwThreads, CallInit(t) PROVE CallInv'
  <2>1. /\ ~loaded /\ loaded' = loaded /\ verified' = verified
        /\ busyMtx' = busyMtx
        /\ \A u \in FwThreads : fwPc[u] = "idle"
        /\ \A u \in FwThreads \ {t} : fwPc'[u] = "idle"
        /\ \A u \in FwThreads \ {t} : fwOp'[u] = fwOp[u] /\ on'[u] = on[u]
        /\ fwPc'[t] = "iSbm" /\ fwOp'[t] = "init"
    BY <1>2 DEF CallInv, CallInit, Enter, FwAt, FwGo, FwTypeOK, fwData
  <2>2. FwTypeOK'
    BY <1>2, FwOtherType DEF CallInv, FwCall
  <2>3. OpSteps'
    BY <2>1 DEF CallInv, OpSteps, SpicoSteps, Loading
  <2>4. BusyOwned'
    BY <2>1 DEF CallInv, BusyOwned, Serialised
  <2>5. InitAlone' /\ InitFirst'
    BY <2>1 DEF InitAlone, InitFirst, FwAt
  <2> QED
    BY <2>2, <2>3, <2>4, <2>5 DEF CallInv
<1>3. ASSUME NEW t \in FwThreads, NEW p \in Ports, NEW o \in FwOps,
             CallPort(t, p, o)
      PROVE  CallInv'
  <2>1. o \in AllFwOps \ {"init"}
    BY <1>3, FirmwareAssumption DEF CallPort
  <2>2. /\ o \in Loading => fwPc'[t] \in {"check", "fwLock", "softPort"}
        /\ o \notin Loading => fwPc'[t] \in {"spRing", "vPort", "vRing"}
    BY <1>3, <2>1 DEF CallPort, Enter, FirstStep, AllFwOps, Loading,
       CallInv, FwTypeOK, FwGo
  <2>3. /\ loaded /\ loaded' = loaded /\ verified' = verified
        /\ fwPc[t] = "idle"
        /\ \A u \in FwThreads \ {t} : /\ fwPc'[u] = fwPc[u] /\ fwOp'[u] = fwOp[u]
                                    /\ on'[u] = on[u] /\ rc'[u] = rc[u]
                                    /\ phase'[u] = phase[u]
        /\ fwOp'[t] = o /\ on'[t] = {p}
    BY <1>3 DEF CallInv, CallPort, Enter, FwAt, FwGo, FwTypeOK, fwData
  <2>4. /\ \A q \in Ports : busyMtx[q] \notin {FwNone, t} => busyMtx'[q] = busyMtx[q]
        /\ \A q \in Ports : busyMtx[q] # FwNone => busyMtx'[q] = busyMtx[q]
        /\ o \in Serialised => busyMtx'[p] = t
    BY <1>3 DEF CallInv, CallPort, FwTypeOK
  <2>5. FwTypeOK'
    BY <1>3, FwOtherType DEF CallInv, FwCall
  <2>6. OpSteps'
    BY <2>2, <2>3 DEF CallInv, OpSteps, SpicoSteps
  <2>7. BusyOwned'
    <3> SUFFICES ASSUME NEW u \in FwThreads, fwOp'[u] \in Serialised,
                        NEW q \in on'[u]
                 PROVE  busyMtx'[q] = u
      BY DEF BusyOwned
    <3>1. CASE u = t
      BY <2>3, <2>4, <3>1
    <3>2. CASE u # t
      <4>1. busyMtx[q] = u /\ q \in Ports
        BY <2>3, <3>2 DEF CallInv, BusyOwned, FwTypeOK
      <4> QED
        BY <2>4, <4>1, FirmwareAssumption
    <3> QED
      BY <3>1, <3>2
  <2>8. InitAlone' /\ InitFirst'
    BY <2>1, <2>3 DEF CallInv, InitAlone, InitFirst
  <2> QED
    BY <2>5, <2>6, <2>7, <2>8 DEF CallInv
<1>4. CASE FwFaults \/ UNCHANGED fwVars
  <2>1. FwTypeOK'
    BY <1>4, FwOtherType DEF CallInv
  <2>2. UNCHANGED <<loaded, verified, busyMtx, fwOp, fwPc, on, phase, rc>>
    BY <1>4 DEF FwFaults, CorruptSerdes, CorruptSbm, fwVars, fwData, fwCall,
       fwLocks
  <2>3. OpSteps' /\ BusyOwned' /\ InitAlone' /\ InitFirst'
    BY <2>2 DEF CallInv, OpSteps, BusyOwned, InitAlone, InitFirst, FwAt
  <2> QED
    BY <2>1, <2>3 DEF CallInv
<1> QED
  BY <1>1, <1>2, <1>3, <1>4 DEF FwNext, FwCall

(* A flash that comes to be judged a success has just passed the CRC, or    *)
(* was one before.                                                          *)
LEMMA JudgedStep ==
  ASSUME TRUE \notin InhibitReload, SuccessInv, NEW t \in FwThreads, FwStep(t),
         Judged(t)'
  PROVE  Sane(verified', on'[t])
<1> DEFINE Before == Judged(t) /\ verified' = verified /\ on' = on
<1> USE DEF SuccessInv, CallInv, FwTypeOK, FwAt, FwGo, Result, fwCall, fwData, Judged
<1>0. FwReturn(t) \/ (on' = on /\ fwOp' = fwOp)
  BY OwnStepOnly
<1>1. CASE Verify(t)
  BY <1>1 DEF Verify, Sane
<1>2. CASE Crc(t)
  BY <1>2 DEF Crc, Sane
<1>3. CASE CheckFirmware(t)
  BY <1>3 DEF CheckFirmware, Sane
<1>4. ASSUME FwUnlock(t) PROVE Before
  BY <1>4 DEF FwUnlock
<1>5. ASSUME ValidateSerdes(t) \/ ValidateSbm(t) PROVE Before
  BY <1>5 DEF ValidateSerdes, ValidateSbm
<1>6. CASE InitSbm(t) \/ FwLock(t) \/ RequestFirmware(t)
  BY <1>6 DEF InitSbm, FwLock, RequestFirmware
<1>7. CASE SoftPort(t) \/ SoftRing(t) \/ SoftOps(t)
  BY <1>7 DEF SoftPort, SoftRing, SoftOps
<1>8. CASE UploadPort(t) \/ UploadRing(t) \/ UploadWrite(t) \/ Ready(t)
  BY <1>8 DEF UploadPort, UploadRing, UploadWrite, Ready
<1>9. CASE ReloadInhibited(t)
  BY <1>9 DEF ReloadInhibited
<1>10. CASE ReloadWanted(t) \/ Demand(t)
  BY <1>10 DEF ReloadWanted, Demand
<1>11. CASE ReloadLock(t) \/ ReloadTest(t) \/ ReloadDump(t) \/ ReloadRing(t)
            \/ ReloadWrite(t) \/ ReloadClear(t) \/ ReloadUnlock(t)
  BY <1>11 DEF ReloadLock, ReloadTest, ReloadDump, ReloadRing, ReloadWrite,
     ReloadClear, ReloadUnlock
<1>12. CASE SpicoReset(t) \/ ViewPort(t) \/ ViewOp(t) \/ ViewSbm(t)
  <2>1. fwPc[t] \in SpicoSteps /\ fwOp'[t] = fwOp[t]
    BY <1>12 DEF SpicoReset, SpicoRing, SpicoPort, SpicoOp, SpicoWait,
       ViewPort, ViewOp, ViewSbm, SpicoSteps
  <2> QED
    BY <2>1 DEF OpSteps
<1>13. CASE FwReturn(t)
  BY <1>13 DEF FwReturn
<1>14. Before => Sane(verified', on'[t])
  BY DEF JudgedVerified
<1> HIDE DEF SuccessInv, Judged, Before
<1> QED
  BY <1>1, <1>2, <1>3, <1>4, <1>5, <1>6, <1>7, <1>8, <1>9, <1>10, <1>11,
     <1>12, <1>13, <1>14 DEF FwStep, Flash, FlashSafe

(* Every step keeps the results of the flashes true to their ports.         *)
LEMMA SuccessStep ==
  ASSUME TRUE \notin InhibitReload, SuccessInv, [FwNext]_fwVars
  PROVE  SuccessInv'
<1>0. CallInv /\ FwTypeOK /\ OpSteps
  BY DEF SuccessInv, CallInv
<1>1. CallInv'
  BY <1>0, CallStep
<1>2. ASSUME NEW t \in FwThreads, FwStep(t) PROVE JudgedVerified'
  <2>1. \A u \in FwThreads \ {t} : /\ fwPc'[u] = fwPc[u] /\ on'[u] = on[u]
                                 /\ phase'[u] = phase[u]
                                 /\ fwOp'[u] = fwOp[u] /\ rc'[u] = rc[u]
    BY <1>0, <1>2, OwnStepOnly
  <2> SUFFICES ASSUME NEW u \in FwThreads, Judged(u)'
               PROVE  Sane(verified', on'[u])
    BY DEF JudgedVerified, Sane
  <2>2. CASE u = t
    BY <1>2, <2>2, JudgedStep
  <2>3. CASE u # t
    <3>1. Judged(u) /\ on'[u] = on[u]
      BY <2>1, <2>3 DEF Judged
    <3>2. fwPc[t] = "upWrite" => on[t] \cap on[u] = {}
      BY <1>0, <2>3, <3>1, LoadersApart DEF Judged, OpSteps, SpicoSteps
    <3>3. ASSUME NEW p \in on[u] PROVE verified'[p]
      <4>1. p \in Ports /\ verified[p]
        BY <1>0, <3>1 DEF SuccessInv, JudgedVerified, Sane, FwTypeOK
      <4> QED
        BY <1>0, <1>2, <3>2, <4>1, VerifiedStep
    <3> QED
      BY <3>1, <3>3 DEF Sane
  <2> QED
    BY <2>2, <2>3
<1>3. ASSUME NEW t \in FwThreads, CallInit(t) PROVE JudgedVerified'
  <2>1. /\ \A u \in FwThreads : fwPc'[u] \in {"idle", "iSbm"}
    BY <1>0, <1>3 DEF CallInit, Enter, FwAt, FwGo, FwTypeOK
  <2> QED
    BY <2>1 DEF JudgedVerified, Judged
<1>4. ASSUME NEW t \in FwThreads, NEW p \in Ports, NEW o \in FwOps,
             CallPort(t, p, o)
      PROVE  JudgedVerified'
  <2>1. o \in AllFwOps \ {"init"}
    BY <1>4, FirmwareAssumption DEF CallPort
  <2>2. fwPc'[t] \in {"check", "fwLock", "softPort", "spRing", "vPort", "vRing"}
    BY <1>0, <1>4, <2>1 DEF CallPort, Enter, FirstStep, AllFwOps, FwTypeOK, FwGo
  <2>3. /\ verified' = verified
        /\ \A u \in FwThreads \ {t} : /\ fwPc'[u] = fwPc[u] /\ fwOp'[u] = fwOp[u]
                                    /\ on'[u] = on[u] /\ rc'[u] = rc[u]
                                    /\ phase'[u] = phase[u]
    BY <1>0, <1>4 DEF CallPort, Enter, FwGo, FwTypeOK, fwData
  <2>4. ~Judged(t)'
    BY <2>2 DEF Judged
  <2>5. \A u \in FwThreads \ {t} : Judged(u)' => Judged(u)
    BY <2>3 DEF Judged
  <2> QED
    BY <2>3, <2>4, <2>5 DEF SuccessInv, JudgedVerified
<1>5. CASE FwFaults \/ UNCHANGED fwVars
  <2>1. UNCHANGED <<verified, fwOp, fwPc, on, phase, rc>>
    BY <1>5 DEF FwFaults, CorruptSerdes, CorruptSbm, fwVars, fwData, fwCall,
       fwLocks
  <2>2. \A u \in FwThreads : Judged(u)' => Judged(u)
    BY <2>1 DEF Judged
  <2>3. verified' = verified /\ on' = on
    BY <2>1
  <2> QED
    BY <1>1, <2>2, <2>3 DEF SuccessInv, JudgedVerified, Sane
<1> QED
  BY <1>1, <1>2, <1>3, <1>4, <1>5 DEF FwNext, FwCall, SuccessInv

(* A flash that reports success has seen the CRC of the port pass after the *)
(* last write to it, for every number of ports, rings and threads, as long  *)
(* as the reload of the SBM is not inhibited: with                          *)
(* SBL_DEBUG_INHIBIT_RELOAD_SBM_FW the function may return a result that    *)
(* nothing has set.                                                         *)
THEOREM SuccessOfFlash ==
  ASSUME TRUE \notin InhibitReload
  PROVE  FwSpec => []SuccessIsVerified
<1>1. FwInit => SuccessInv
  <2> SUFFICES ASSUME FwInit
               PROVE  /\ OpSteps /\ BusyOwned /\ InitAlone /\ InitFirst
                      /\ JudgedVerified
    BY LockInit DEF SuccessInv, CallInv, LockInv
  <2> QED
    BY DEF FwInit, OpSteps, BusyOwned, InitAlone, InitFirst, JudgedVerified,
       Judged, Loading, Serialised, FwAt
<1>2. SuccessInv /\ [FwNext]_fwVars => SuccessInv'
  BY SuccessStep
<1>3. SuccessInv => SuccessIsVerified
  BY DEF SuccessInv, JudgedVerified, SuccessIsVerified, Judged, Loading, FwAt
<1> QED
  BY <1>1, <1>2, <1>3, PTL DEF FwSpec
-----------------------------------------------------------------------------
(* Who holds a mutex is at a step that holds it, for a port of its own, so  *)
(* that no thread returns with one.                                         *)
HoldsRing(t) ==
  fwPc[t] \in {"softOps", "upWrite", "rWrite", "spPort", "spOp", "spWait"}

PortHeld == \A p \in Ports, t \in FwThreads :
              portMtx[p] = t => HoldsPort(t) /\ p \in on[t]
RingHeld == \A r \in Rings, t \in FwThreads :
              ringMtx[r] = t => HoldsRing(t) /\ r \in RingsOf(t)
FwHeld == \A r \in Rings, t \in FwThreads :
            fwMtx[r] = t => HoldsFw(t) /\ r \in RingsOf(t)

(* The soft reset of sbl_serdes_reset() comes before its flash, and the     *)
(* steps of sbl_spico_reset() are of the operations that stop a SerDes.     *)
SoftFirst == \A t \in FwThreads :
               phase[t] = "soft" =>
                 fwPc[t] \in {"softPort", "softRing", "softOps", "finish"}
Stopping == {"spRing", "spPort", "spOp", "spWait"}
StopSteps == \A t \in FwThreads :
               fwPc[t] \in Stopping => fwOp[t] \in {"stop", "test"} \cap FwOps

WaitInv == /\ CallInv /\ PortHeld /\ RingHeld /\ FwHeld
           /\ SoftFirst /\ StopSteps

(* A thread keeps to that order and to those steps.                         *)
LEMMA OrderStep ==
  ASSUME FwTypeOK, SoftFirst, StopSteps, NEW t \in FwThreads, FwStep(t)
  PROVE  /\ phase'[t] = "soft" =>
              fwPc'[t] \in {"softPort", "softRing", "softOps", "finish"}
         /\ fwPc'[t] \in Stopping => fwOp'[t] \in {"stop", "test"} \cap FwOps
<1> DEFINE Soft == phase'[t] = "soft" =>
                     fwPc'[t] \in {"softPort", "softRing", "softOps", "finish"}
           Stop == /\ fwPc'[t] \in Stopping => fwPc[t] \in Stopping
                   /\ fwOp' = fwOp
<1> USE DEF FwTypeOK, SoftFirst, FwAt, FwGo, fwCall, Stopping
<1>1. CASE FwReturn(t)
  BY <1>1 DEF FwReturn
<1>2. ASSUME InitSbm(t) \/ FwLock(t) \/ Verify(t) \/ RequestFirmware(t)
      PROVE  Soft /\ Stop
  BY <1>2 DEF InitSbm, FwLock, Verify, RequestFirmware
<1>3. ASSUME FwUnlock(t) \/ CheckFirmware(t)
      PROVE  Soft /\ Stop
  BY <1>3 DEF FwUnlock, CheckFirmware
<1>4. ASSUME SoftPort(t) \/ SoftRing(t) \/ SoftOps(t)
      PROVE  Soft /\ Stop
  BY <1>4 DEF SoftPort, SoftRing, SoftOps
<1>5. ASSUME UploadPort(t) \/ UploadRing(t) \/ UploadWrite(t) \/ Ready(t) \/
             Crc(t)
      PROVE  Soft /\ Stop
  BY <1>5 DEF UploadPort, UploadRing, UploadWrite, Ready, Crc
<1>6. ASSUME ValidateSerdes(t) \/ ValidateSbm(t) \/ ReloadInhibited(t) \/
             ReloadWanted(t) \/ Demand(t)
      PROVE  Soft /\ Stop
  BY <1>6 DEF ValidateSerdes, ValidateSbm, ReloadInhibited, ReloadWanted,
     Demand
<1>7. ASSUME ReloadLock(t) \/ ReloadTest(t) \/ ReloadDump(t) \/ ReloadRing(t)
             \/ ReloadWrite(t) \/ ReloadClear(t) \/ ReloadUnlock(t)
      PROVE  Soft /\ Stop
  BY <1>7 DEF ReloadLock, ReloadTest, ReloadDump, ReloadRing, ReloadWrite,
     ReloadClear, ReloadUnlock
<1>8. ASSUME SpicoRing(t) \/ SpicoPort(t) \/ SpicoOp(t) \/ SpicoWait(t)
      PROVE  Soft /\ Stop
  BY <1>8 DEF SpicoRing, SpicoPort, SpicoOp, SpicoWait
<1>9. ASSUME ViewPort(t) \/ ViewOp(t) \/ ViewSbm(t)
      PROVE  Soft /\ Stop
  BY <1>9 DEF ViewPort, ViewOp, ViewSbm
<1> HIDE DEF FwAt, FwGo
<1>10. CASE ~FwReturn(t)
  <2>1. Soft /\ Stop
    BY <1>2, <1>3, <1>4, <1>5, <1>6, <1>7, <1>8, <1>9, <1>10
       DEF FwStep, Flash, FlashSafe, SpicoReset
  <2> QED
    BY <2>1 DEF StopSteps
<1> QED
  BY <1>1, <1>10

(* A step takes and drops serdes_mtx for its own thread only, which keeps   *)
(* it to the last step that needs it and no further.                        *)
LEMMA PortHeldStep ==
  ASSUME FwTypeOK, PortHeld, NEW t \in FwThreads, FwStep(t)
  PROVE  \A p \in Ports :
           /\ portMtx'[p] = t => HoldsPort(t)' /\ p \in on'[t]
           /\ portMtx'[p] \in {portMtx[p], t, FwNone}
<1> USE DEF FwTypeOK, PortHeld, HoldsPort, FwAt, FwGo, fwCall, fwLocks
<1>0. \A p \in Ports : /\ Drop(portMtx, on[t])[p] =
                            IF p \in on[t] THEN FwNone ELSE portMtx[p]
                       /\ Grab(portMtx, on[t], t)[p] =
                            IF p \in on[t] THEN t ELSE portMtx[p]
                       /\ t # FwNone
  BY FirmwareAssumption DEF Drop, Grab
<1>1. CASE SoftPort(t) \/ UploadPort(t) \/ SpicoPort(t) \/ ViewPort(t)
  <2>1. /\ portMtx' = Grab(portMtx, on[t], t) /\ on' = on
        /\ fwPc'[t] \in {"softRing", "upRing", "spOp", "vOp"}
        /\ ~HoldsPort(t)
    BY <1>1 DEF SoftPort, UploadPort, SpicoPort, ViewPort
  <2> QED
    BY <1>0, <2>1
<1>2. CASE SoftOps(t) \/ UploadWrite(t) \/ SpicoOp(t) \/ ViewOp(t)
  <2>1. portMtx' = Drop(portMtx, on[t])
    BY <1>2 DEF SoftOps, UploadWrite, SpicoOp, ViewOp
  <2> QED
    BY <1>0, <2>1
<1>3. CASE SoftRing(t) \/ UploadRing(t)
  BY <1>3 DEF SoftRing, UploadRing
<1>4. CASE InitSbm(t) \/ FwLock(t) \/ Verify(t) \/ RequestFirmware(t) \/
           Ready(t) \/ Crc(t) \/ FwUnlock(t) \/ CheckFirmware(t)
  <2>1. portMtx' = portMtx /\ ~HoldsPort(t)
    BY <1>4 DEF InitSbm, FwLock, Verify, RequestFirmware, Ready, Crc,
       FwUnlock, CheckFirmware
  <2> QED
    BY <2>1
<1>5. CASE FlashSafe(t)
  <2>1. portMtx' = portMtx /\ ~HoldsPort(t)
    BY <1>5 DEF FlashSafe, ValidateSerdes, ValidateSbm, ReloadInhibited,
       ReloadWanted, Demand, ReloadLock, ReloadTest, ReloadDump, ReloadRing,
       ReloadWrite, ReloadClear, ReloadUnlock
  <2> QED
    BY <2>1
<1>6. CASE SpicoRing(t) \/ SpicoWait(t) \/ ViewSbm(t) \/ FwReturn(t)
  <2>1. portMtx' = portMtx /\ ~HoldsPort(t)
    BY <1>6 DEF SpicoRing, SpicoWait, ViewSbm, FwReturn
  <2> QED
    BY <2>1
<1> QED
  BY <1>1, <1>2, <1>3, <1>4, <1>5, <1>6 DEF FwStep, Flash, SpicoReset

(* So it does sbus_ring_mtx.                                                *)
LEMMA RingHeldStep ==
  ASSUME FwTypeOK, RingHeld, NEW t \in FwThreads, FwStep(t)
  PROVE  \A r \in Rings :
           /\ ringMtx'[r] = t => HoldsRing(t)' /\ r \in RingsOf(t)'
           /\ ringMtx'[r] \in {ringMtx[r], t, FwNone}
<1> USE DEF FwTypeOK, RingHeld, HoldsRing, FwAt, FwGo, fwCall, fwLocks
<1>0. \A r \in Rings : /\ Drop(ringMtx, RingsOf(t))[r] =
                            IF r \in RingsOf(t) THEN FwNone ELSE ringMtx[r]
                       /\ Grab(ringMtx, RingsOf(t), t)[r] =
                            IF r \in RingsOf(t) THEN t ELSE ringMtx[r]
                       /\ t # FwNone
  BY FirmwareAssumption DEF Drop, Grab
<1>1. CASE SoftRing(t) \/ UploadRing(t) \/ ReloadRing(t) \/ SpicoRing(t)
  <2>1. /\ ringMtx' = Grab(ringMtx, RingsOf(t), t) /\ on' = on
        /\ fwPc'[t] \in {"softOps", "upWrite", "rWrite", "spPort"}
        /\ ~HoldsRing(t)
    BY <1>1 DEF SoftRing, UploadRing, ReloadRing, SpicoRing
  <2>2. RingsOf(t)' = RingsOf(t)
    BY <2>1 DEF RingsOf
  <2> QED
    BY <1>0, <2>1, <2>2
<1>2. CASE SoftOps(t) \/ UploadWrite(t) \/ ReloadWrite(t) \/ SpicoWait(t)
  <2>1. ringMtx' = Drop(ringMtx, RingsOf(t))
    BY <1>2 DEF SoftOps, UploadWrite, ReloadWrite, SpicoWait
  <2> QED
    BY <1>0, <2>1
<1>3. CASE SpicoPort(t)
  <2>1. ringMtx' = ringMtx /\ on' = on /\ fwPc'[t] = "spOp"
    BY <1>3 DEF SpicoPort
  <2>2. RingsOf(t)' = RingsOf(t)
    BY <2>1 DEF RingsOf
  <2> QED
    BY <2>1, <2>2
<1>4. CASE SpicoOp(t)
  <2>1. /\ on' = on
        /\ \/ ringMtx' = ringMtx /\ fwPc'[t] = "spWait"
           \/ ringMtx' = Drop(ringMtx, RingsOf(t))
    BY <1>4 DEF SpicoOp
  <2>2. RingsOf(t)' = RingsOf(t)
    BY <2>1 DEF RingsOf
  <2> QED
    BY <1>0, <2>1, <2>2
<1>5. CASE InitSbm(t) \/ FwLock(t) \/ Verify(t) \/ RequestFirmware(t) \/
           Ready(t) \/ Crc(t) \/ FwUnlock(t) \/ CheckFirmware(t)
  <2>1. ringMtx' = ringMtx /\ ~HoldsRing(t)
    BY <1>5 DEF InitSbm, FwLock, Verify, RequestFirmware, Ready, Crc,
       FwUnlock, CheckFirmware
  <2> QED
    BY <2>1
<1>6. CASE ValidateSerdes(t) \/ ValidateSbm(t) \/ ReloadInhibited(t) \/
           ReloadWanted(t) \/ Demand(t) \/ ReloadLock(t) \/ ReloadTest(t) \/
           ReloadDump(t) \/ ReloadClear(t) \/ ReloadUnlock(t)
  <2>1. ringMtx' = ringMtx /\ ~HoldsRing(t)
    BY <1>6 DEF ValidateSerdes, ValidateSbm, ReloadInhibited, ReloadWanted,
       Demand, ReloadLock, ReloadTest, ReloadDump, ReloadClear, ReloadUnlock
  <2> QED
    BY <2>1
<1>7. CASE SoftPort(t) \/ UploadPort(t) \/ ViewPort(t) \/ ViewOp(t) \/
           ViewSbm(t) \/ FwReturn(t)
  <2>1. ringMtx' = ringMtx /\ ~HoldsRing(t)
    BY <1>7 DEF SoftPort, UploadPort, ViewPort, ViewOp, ViewSbm, FwReturn
  <2> QED
    BY <2>1
<1> QED
  BY <1>1, <1>2, <1>3, <1>4, <1>5, <1>6, <1>7
     DEF FwStep, Flash, FlashSafe, SpicoReset

(* So it does sbm_fw_mtx.                                                   *)
LEMMA FwHeldStep ==
  ASSUME FwTypeOK, FwHeld, SoftFirst, NEW t \in FwThreads, FwStep(t)
  PROVE  \A r \in Rings :
           /\ fwMtx'[r] = t => HoldsFw(t)' /\ r \in RingsOf(t)'
           /\ fwMtx'[r] \in {fwMtx[r], t, FwNone}
<1> DEFINE Keeps == /\ fwMtx' = fwMtx /\ on' = on
                    /\ HoldsFw(t) => HoldsFw(t)'
<1> USE DEF FwTypeOK, FwHeld, HoldsFw, FwAt, FwGo, fwCall, fwLocks
<1>0. \A r \in Rings : /\ Drop(fwMtx, RingsOf(t))[r] =
                            IF r \in RingsOf(t) THEN FwNone ELSE fwMtx[r]
                       /\ Grab(fwMtx, RingsOf(t), t)[r] =
                            IF r \in RingsOf(t) THEN t ELSE fwMtx[r]
                       /\ t # FwNone
  BY FirmwareAssumption DEF Drop, Grab
<1>1. CASE FwLock(t) \/ ReloadLock(t)
  <2>1. /\ fwMtx' = Grab(fwMtx, RingsOf(t), t) /\ on' = on
        /\ fwPc'[t] \in {"verify", "request", "rTest"}
        /\ ~HoldsFw(t)
    BY <1>1 DEF FwLock, ReloadLock
  <2>2. RingsOf(t)' = RingsOf(t)
    BY <2>1 DEF RingsOf
  <2> QED
    BY <1>0, <2>1, <2>2
<1>2. CASE FwUnlock(t) \/ ReloadUnlock(t)
  <2>1. fwMtx' = Drop(fwMtx, RingsOf(t))
    BY <1>2 DEF FwUnlock, ReloadUnlock
  <2> QED
    BY <1>0, <2>1
<1>3. ASSUME Verify(t) \/ RequestFirmware(t) PROVE Keeps
  BY <1>3 DEF Verify, RequestFirmware, SoftFirst
<1>10. ASSUME SoftPort(t) PROVE Keeps
  BY <1>10 DEF SoftPort
<1>11. ASSUME SoftRing(t) PROVE Keeps
  BY <1>11 DEF SoftRing
<1>4. ASSUME SoftOps(t) PROVE Keeps
  BY <1>4 DEF SoftOps, Phases
<1>5. ASSUME UploadPort(t) \/ UploadRing(t) \/ UploadWrite(t) \/ Ready(t) \/
             Crc(t)
      PROVE  Keeps
  BY <1>5 DEF UploadPort, UploadRing, UploadWrite, Ready, Crc
<1>6. ASSUME ReloadTest(t) \/ ReloadDump(t) \/ ReloadRing(t) \/
             ReloadWrite(t) \/ ReloadClear(t)
      PROVE  Keeps
  BY <1>6 DEF ReloadTest, ReloadDump, ReloadRing, ReloadWrite, ReloadClear
<1>7. CASE InitSbm(t) \/ CheckFirmware(t) \/ ValidateSerdes(t) \/
           ValidateSbm(t) \/ ReloadInhibited(t) \/ ReloadWanted(t) \/
           Demand(t)
  <2>1. fwMtx' = fwMtx /\ ~HoldsFw(t)
    BY <1>7 DEF InitSbm, CheckFirmware, ValidateSerdes, ValidateSbm,
       ReloadInhibited, ReloadWanted, Demand
  <2> QED
    BY <2>1
<1>8. CASE SpicoReset(t) \/ ViewPort(t) \/ ViewOp(t) \/ ViewSbm(t) \/
           FwReturn(t)
  <2>1. fwMtx' = fwMtx /\ ~HoldsFw(t)
    BY <1>8 DEF SpicoReset, SpicoRing, SpicoPort, SpicoOp, SpicoWait,
       ViewPort, ViewOp, ViewSbm, FwReturn
  <2> QED
    BY <2>1
<1>9. ASSUME Keeps
      PROVE  \A r \in Rings :
               /\ fwMtx'[r] = t => HoldsFw(t)' /\ r \in RingsOf(t)'
               /\ fwMtx'[r] \in {fwMtx[r], t, FwNone}
  <2>1. RingsOf(t)' = RingsOf(t)
    BY <1>9 DEF RingsOf
  <2> HIDE DEF HoldsFw
  <2> QED
    BY <1>9, <2>1
<1> HIDE DEF Keeps, FwHeld, HoldsFw
<1> QED
  BY <1>1, <1>2, <1>3, <1>4, <1>5, <1>6, <1>7, <1>8, <1>9,
     <1>10, <1>11 DEF FwStep, Flash, FlashSafe
(* Every step keeps the mutexes with threads that have still to drop them.  *)
LEMMA WaitStep ==
  ASSUME WaitInv, [FwNext]_fwVars
  PROVE  WaitInv'
<1>0. /\ FwTypeOK /\ CallInv /\ PortHeld /\ RingHeld /\ FwHeld
      /\ SoftFirst /\ StopSteps
  BY DEF WaitInv, CallInv
<1>1. CallInv'
  BY <1>0, CallStep
<1>2. ASSUME NEW t \in FwThreads, FwStep(t)
      PROVE  PortHeld' /\ RingHeld' /\ FwHeld' /\ SoftFirst' /\ StopSteps'
  <2>1. \A u \in FwThreads \ {t} : /\ fwPc'[u] = fwPc[u] /\ on'[u] = on[u]
                                 /\ phase'[u] = phase[u]
    BY <1>0, <1>2, OwnStepOnly
  <2>2. \A u \in FwThreads \ {t} : /\ HoldsPort(u)' = HoldsPort(u)
                                 /\ HoldsRing(u)' = HoldsRing(u)
                                 /\ HoldsFw(u)' = HoldsFw(u)
                                 /\ RingsOf(u)' = RingsOf(u)
    BY <2>1 DEF HoldsPort, HoldsRing, HoldsFw, RingsOf
  <2>3. PortHeld'
    <3>1. \A p \in Ports : /\ portMtx'[p] = t => HoldsPort(t)' /\ p \in on'[t]
                           /\ portMtx'[p] \in {portMtx[p], t, FwNone}
      BY <1>0, <1>2, PortHeldStep
    <3> QED
      BY <1>0, <2>1, <2>2, <3>1, FirmwareAssumption DEF PortHeld
  <2>4. RingHeld'
    <3>1. \A r \in Rings :
            /\ ringMtx'[r] = t => HoldsRing(t)' /\ r \in RingsOf(t)'
            /\ ringMtx'[r] \in {ringMtx[r], t, FwNone}
      BY <1>0, <1>2, RingHeldStep
    <3> QED
      BY <1>0, <2>2, <3>1, FirmwareAssumption DEF RingHeld
  <2>5. FwHeld'
    <3>1. \A r \in Rings : /\ fwMtx'[r] = t => HoldsFw(t)' /\ r \in RingsOf(t)'
                           /\ fwMtx'[r] \in {fwMtx[r], t, FwNone}
      BY <1>0, <1>2, FwHeldStep
    <3> QED
      BY <1>0, <2>2, <3>1, FirmwareAssumption DEF FwHeld
  <2>6. SoftFirst' /\ StopSteps'
    BY <1>0, <1>2, <2>1, OrderStep, OwnStepOnly DEF SoftFirst, StopSteps
  <2> QED
    BY <2>3, <2>4, <2>5, <2>6
<1>3. ASSUME NEW t \in FwThreads, NEW o, NEW S, NEW s, NEW ph, NEW f,
             Enter(t, o, S, s, ph, f), s = "softPort" \/ ph # "soft",
             s \in Stopping => o \in {"stop", "test"} \cap FwOps
      PROVE  PortHeld' /\ RingHeld' /\ FwHeld' /\ SoftFirst' /\ StopSteps'
  <2>1. /\ UNCHANGED <<fwMtx, ringMtx, portMtx>> /\ fwPc[t] = "idle"
        /\ \A u \in FwThreads \ {t} : /\ fwPc'[u] = fwPc[u] /\ on'[u] = on[u]
                                    /\ phase'[u] = phase[u]
                                    /\ fwOp'[u] = fwOp[u]
        /\ fwPc'[t] = s /\ phase'[t] = ph /\ fwOp'[t] = o
    BY <1>0, <1>3 DEF Enter, FwAt, FwGo, FwTypeOK
  <2>2. ~HoldsPort(t) /\ ~HoldsRing(t) /\ ~HoldsFw(t)
    BY <2>1 DEF HoldsPort, HoldsRing, HoldsFw
  <2>3. \A u \in FwThreads \ {t} : /\ HoldsPort(u)' = HoldsPort(u)
                                 /\ HoldsRing(u)' = HoldsRing(u)
                                 /\ HoldsFw(u)' = HoldsFw(u)
                                 /\ RingsOf(u)' = RingsOf(u)
    BY <2>1 DEF HoldsPort, HoldsRing, HoldsFw, RingsOf
  <2>4. PortHeld' /\ RingHeld' /\ FwHeld'
    BY <1>0, <2>1, <2>2, <2>3 DEF PortHeld, RingHeld, FwHeld
  <2>5. SoftFirst' /\ StopSteps'
    BY <1>0, <1>3, <2>1 DEF SoftFirst, StopSteps
  <2> QED
    BY <2>4, <2>5
<1>4. ASSUME FwCall
      PROVE  PortHeld' /\ RingHeld' /\ FwHeld' /\ SoftFirst' /\ StopSteps'
  <2>1. ASSUME NEW t \in FwThreads, CallInit(t)
        PROVE  PortHeld' /\ RingHeld' /\ FwHeld' /\ SoftFirst' /\ StopSteps'
    BY <1>3, <2>1 DEF CallInit, Stopping
  <2>2. ASSUME NEW t \in FwThreads, NEW p \in Ports, NEW o \in FwOps,
               CallPort(t, p, o)
        PROVE  PortHeld' /\ RingHeld' /\ FwHeld' /\ SoftFirst' /\ StopSteps'
    <3> DEFINE ph == IF o = "reset" THEN "soft" ELSE "first"
               s == FirstStep(o)
               f == o # "check"
    <3>1. o \in AllFwOps \ {"init"}
      BY <2>2, FirmwareAssumption DEF CallPort
    <3>2. /\ Enter(t, o, {p}, s, ph, f)
          /\ s = "softPort" \/ ph # "soft"
          /\ s \in Stopping => o \in {"stop", "test"} \cap FwOps
      BY <2>2, <3>1 DEF CallPort, FirstStep, Stopping, AllFwOps
    <3> HIDE DEF ph, s, f
    <3> QED
      BY <1>3, <3>2
  <2> QED
    BY <1>4, <2>1, <2>2 DEF FwCall
<1>5. CASE FwFaults \/ UNCHANGED fwVars
  <2>1. UNCHANGED <<fwOp, fwPc, on, phase, portMtx, ringMtx, fwMtx>>
    BY <1>5 DEF FwFaults, CorruptSerdes, CorruptSbm, fwVars, fwCall, fwLocks
  <2>2. PortHeld' /\ RingHeld' /\ FwHeld' /\ SoftFirst' /\ StopSteps'
    BY <1>0, <2>1 DEF PortHeld, RingHeld, FwHeld, HoldsPort, HoldsRing,
       HoldsFw, RingsOf, SoftFirst, StopSteps
  <2> QED
    BY <1>1, <2>2 DEF WaitInv
<1> QED
  BY <1>1, <1>2, <1>4, <1>5 DEF FwNext, WaitInv

(* The invariant holds in every reachable state.                            *)
LEMMA WaitInvariant == FwSpec => []WaitInv
<1>1. FwInit => WaitInv
  <2> SUFFICES ASSUME FwInit
               PROVE  /\ OpSteps /\ BusyOwned /\ InitAlone /\ InitFirst
                      /\ PortHeld /\ RingHeld /\ FwHeld /\ SoftFirst /\ StopSteps
    BY LockInit DEF WaitInv, CallInv, LockInv
  <2>1. OpSteps /\ BusyOwned /\ InitAlone /\ InitFirst
    BY DEF FwInit, OpSteps, BusyOwned, InitAlone, InitFirst, Loading,
       Serialised, FwAt
  <2>2. PortHeld /\ RingHeld /\ FwHeld
    BY FirmwareAssumption DEF FwInit, PortHeld, RingHeld, FwHeld
  <2>3. SoftFirst /\ StopSteps
    BY DEF FwInit, SoftFirst, StopSteps, Stopping
  <2> QED
    BY <2>1, <2>2, <2>3
<1>2. WaitInv /\ [FwNext]_fwVars => WaitInv'
  BY WaitStep
<1> QED
  BY <1>1, <1>2, PTL DEF FwSpec

(* A thread that waits for a port inside the ring and one that waits for    *)
(* the ring inside the port are never on one port: the first stops the      *)
(* SerDes and the second loads its firmware, both with busy_mtx of the port.*)
LEMMA OrdersApart ==
  ASSUME "test" \notin FwOps, WaitInv, NEW t \in FwThreads, NEW u \in FwThreads,
         fwPc[t] = "spPort", fwPc[u] \in {"softRing", "upRing"}
  PROVE  on[t] \cap on[u] = {}
<1>1. /\ FwTypeOK /\ OpSteps /\ BusyOwned /\ InitAlone /\ InitFirst
      /\ StopSteps
  BY DEF WaitInv, CallInv
<1>2. fwOp[t] = "stop"
  BY <1>1 DEF StopSteps, Stopping
<1>3. fwOp[u] \in Loading
  BY <1>1 DEF OpSteps, SpicoSteps
<1>4. loaded
  BY <1>1, <1>2 DEF InitAlone, FwAt
<1>5. fwOp[t] \in Serialised /\ fwOp[u] \in Serialised
  BY <1>1, <1>2, <1>3, <1>4 DEF InitFirst, Loading, Serialised
<1> QED
  BY <1>1, <1>5 DEF BusyOwned

(* No set of threads waits for its own members, or for a thread that has    *)
(* returned with a mutex, for every number of ports, rings and threads: a   *)
(* wait for sbm_fw_mtx leads to one for a port or a ring, one for a port to *)
(* a thread that waits for the ring inside it, and one for the ring to a    *)
(* thread that waits for a port inside it, which nobody holds who waits.    *)
(* The stop of the test module is left out, which takes no busy_mtx and so  *)
(* may meet the reset of its port in the opposite order.                    *)
THEOREM WaitsEnd ==
  ASSUME "test" \notin FwOps
  PROVE  FwSpec => []NoDeadlock
<1>1. WaitInv => NoDeadlock
  <2> SUFFICES ASSUME WaitInv, NEW S \in SUBSET FwThreads, S # {},
                      \A t \in S : \E u \in FwThreads :
                        /\ WaitsFor(t, u)
                        /\ (u \in S \/ FwAt(u, "idle"))
               PROVE  FALSE
    BY DEF NoDeadlock
  <2>0. FwTypeOK /\ PortHeld /\ RingHeld /\ FwHeld
    BY DEF WaitInv, CallInv
  <2>1. \A t \in S : RingsOf(t) \subseteq Rings /\ on[t] \subseteq Ports
    BY <2>0, RingsInRings DEF FwTypeOK
  <2>2. ASSUME NEW t \in S, NEW u \in FwThreads, WaitsFor(t, u)
        PROVE  \/ NeedsFw(t) /\ HoldsFw(u)
               \/ NeedsPort(t) /\ HoldsPort(u) /\ on[t] \cap on[u] # {}
               \/ NeedsRing(t) /\ HoldsRing(u)
    BY <2>0, <2>1, <2>2 DEF WaitsFor, PortHeld, RingHeld, FwHeld
  <2>3. ASSUME NEW t \in S
        PROVE  \E u \in S :
                 \/ NeedsFw(t) /\ HoldsFw(u)
                 \/ NeedsPort(t) /\ HoldsPort(u) /\ on[t] \cap on[u] # {}
                 \/ NeedsRing(t) /\ HoldsRing(u)
    <3>1. PICK u \in FwThreads : /\ WaitsFor(t, u)
                                /\ (u \in S \/ FwAt(u, "idle"))
      OBVIOUS
    <3>2. HoldsFw(u) \/ HoldsPort(u) \/ HoldsRing(u)
      BY <2>2, <3>1
    <3>3. ~FwAt(u, "idle")
      BY <3>2 DEF HoldsFw, HoldsPort, HoldsRing, FwAt
    <3> QED
      BY <2>2, <3>1, <3>3
  <2>4. ASSUME NEW t \in S, NeedsPort(t), fwPc[t] = "spPort"
        PROVE  FALSE
    <3>1. PICK u \in S : HoldsPort(u) /\ on[t] \cap on[u] # {}
      BY <2>3, <2>4 DEF NeedsFw, NeedsRing
    <3>2. NeedsFw(u) \/ NeedsPort(u) \/ NeedsRing(u)
      BY <2>3
    <3>3. fwPc[u] \in {"softRing", "upRing"}
      BY <3>1, <3>2 DEF HoldsPort, NeedsFw, NeedsPort, NeedsRing
    <3> QED
      BY <2>4, <3>1, <3>3, OrdersApart
  <2>5. ASSUME NEW t \in S, NeedsRing(t)
        PROVE  FALSE
    <3>1. PICK u \in S : HoldsRing(u)
      BY <2>3, <2>5 DEF NeedsFw, NeedsPort, NeedsRing
    <3>2. NeedsFw(u) \/ NeedsPort(u) \/ NeedsRing(u)
      BY <2>3
    <3>3. fwPc[u] = "spPort" /\ NeedsPort(u)
      BY <3>1, <3>2 DEF HoldsRing, NeedsFw, NeedsPort, NeedsRing
    <3> QED
      BY <2>4, <3>3
  <2>6. ASSUME NEW t \in S, NeedsPort(t)
        PROVE  FALSE
    <3>1. PICK u \in S : HoldsPort(u)
      BY <2>3, <2>6 DEF NeedsFw, NeedsPort, NeedsRing
    <3>2. NeedsFw(u) \/ NeedsPort(u) \/ NeedsRing(u)
      BY <2>3
    <3>3. NeedsRing(u)
      BY <3>1, <3>2 DEF HoldsPort, NeedsFw, NeedsPort, NeedsRing
    <3> QED
      BY <2>5, <3>3
  <2>7. ASSUME NEW t \in S, NeedsFw(t)
        PROVE  FALSE
    <3>1. PICK u \in S : HoldsFw(u)
      BY <2>3, <2>5, <2>6, <2>7
    <3>2. NeedsFw(u) \/ NeedsPort(u) \/ NeedsRing(u)
      BY <2>3
    <3>3. ~NeedsFw(u)
      BY <3>1 DEF HoldsFw, NeedsFw
    <3> QED
      BY <2>5, <2>6, <3>2, <3>3
  <2> QED
    BY <2>3, <2>5, <2>6, <2>7
<1> QED
  BY <1>1, WaitInvariant, PTL
=============================================================================
