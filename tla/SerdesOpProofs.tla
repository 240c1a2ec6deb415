--------------------------- MODULE SerdesOpProofs ---------------------------
(***************************************************************************)
(* Operations on the SPICO of a SerDes, for every set of threads: each      *)
(* returns the answer to its own request, and a read-modify-write that      *)
(* succeeds has taken effect, although a request that timed out stays with  *)
(* the hardware.  And the SBus operations, for every limit of retries, polls*)
(* and size: success means done, and a burst writes the whole image.        *)
(***************************************************************************)
EXTENDS SerdesOp, Sbus, TLAPS

(* Only the writer changes memory, and it sends a request to write in the   *)
(* second half of its read-modify-write.                                    *)
RequestsMatch ==
  \A t \in OpThreads :
    /\ req[t].who = t
    /\ rmw[t] # "no" => t = Writer
    /\ req[t].kind = "wr" <=> rmw[t] = "wr"

(* serdes_mtx is held from the test of the busy bit to the end of polling.  *)
MutexHeld ==
  \A t \in OpThreads : opPc[t] \in {"start", "poll"} => opMtx = t

(* The request a thread polls for is the one the hardware has; once it is   *)
(* done, the data are its answer and a write has reached the memory.        *)
PollsOwnRequest ==
  \A t \in OpThreads : OpAt(t, "poll") =>
    /\ hwReq = req[t]
    /\ ~hwBusy => /\ hwData.who = t /\ hwData.tag = req[t].tag
                  /\ req[t].kind = "wr" => word = req[t].val

(* No write follows, late, one that has succeeded.                          *)
NoLateWrite ==
  OpAt(Writer, "ret") /\ rmw[Writer] = "wr" /\ opErr[Writer] = "OK" =>
    (hwBusy => hwReq.kind = "rd")

OpInv == /\ SerdesOpTypeOK /\ RequestsMatch /\ MutexHeld /\ PollsOwnRequest
         /\ OwnResult /\ NoLateWrite /\ RmwTakesEffect

-----------------------------------------------------------------------------
(* The initial states satisfy the invariant.                                *)
LEMMA OpInitInv == SerdesOpInit => OpInv
<1> SUFFICES ASSUME SerdesOpInit PROVE OpInv
  OBVIOUS
<1> USE SerdesOpAssumption DEF SerdesOpInit, OpAt
<1>1. Zero \in Words
  BY DEF Zero, Words
<1>2. SerdesOpTypeOK
  <2>1. hwReq \in Requests /\ req \in [OpThreads -> Requests]
    BY <1>1 DEF Requests
  <2>2. hwData \in Results /\ got \in [OpThreads -> Results]
    BY <1>1 DEF Results
  <2>3. opErr \in [OpThreads -> OpErrors]
    BY DEF OpErrors
  <2> QED
    BY <2>1, <2>2, <2>3 DEF SerdesOpTypeOK
<1>3. RequestsMatch
  BY DEF RequestsMatch
<1>4. MutexHeld /\ PollsOwnRequest /\ OwnResult
  BY DEF MutexHeld, PollsOwnRequest, OwnResult
<1>5. NoLateWrite /\ RmwTakesEffect
  BY DEF NoLateWrite, RmwTakesEffect
<1> QED
  BY <1>2, <1>3, <1>4, <1>5 DEF OpInv

-----------------------------------------------------------------------------
(* Every step keeps the types.                                              *)
LEMMA OpStepType ==
  ASSUME SerdesOpTypeOK, [SerdesOpNext]_opVars
  PROVE  SerdesOpTypeOK'
<1> USE SerdesOpAssumption DEF SerdesOpTypeOK, OpGo, OpAt, OpFails
<1>1. Zero \in Words /\ \A w \in Words : w.mine \in 0..1 /\ w.other \in 0..1
  BY DEF Zero, Words
<1>2. \A w \in Words : /\ \A v \in 0..1 : [w EXCEPT !.mine = v] \in Words
                       /\ [w EXCEPT !.other = 1 - @] \in Words
  BY DEF Words
<1>3. ASSUME NEW t \in OpThreads, OpCall(t) PROVE SerdesOpTypeOK'
  <2>1. req' \in [OpThreads -> Requests]
    BY <1>3 DEF OpCall, Requests
  <2> QED
    BY <1>3, <2>1 DEF OpCall
<1>4. ASSUME NEW t \in OpThreads, OpLock(t) PROVE SerdesOpTypeOK'
  BY <1>4 DEF OpLock, OpErrors
<1>5. ASSUME NEW t \in OpThreads, OpStart(t) PROVE SerdesOpTypeOK'
  <2>1. CASE hwBusy
    BY <1>5, <2>1 DEF OpStart, OpErrors
  <2>2. CASE ~hwBusy
    BY <1>5, <2>2 DEF OpStart
  <2> QED
    BY <2>1, <2>2
<1>6. ASSUME NEW t \in OpThreads, OpDone(t) PROVE SerdesOpTypeOK'
  BY <1>6 DEF OpDone, OpErrors
<1>7. ASSUME NEW t \in OpThreads, OpTimeout(t) PROVE SerdesOpTypeOK'
  BY <1>7 DEF OpTimeout, OpErrors
<1>8. ASSUME NEW t \in OpThreads, OpReturn(t) PROVE SerdesOpTypeOK'
  <2>1. req' \in [OpThreads -> Requests]
    <3>1. CASE rmw[t] = "rd" /\ opErr[t] = "OK"
      <4>1. PICK v \in 0..1 :
              req' = [req EXCEPT ![t].kind = "wr", ![t].tag = 1 - @,
                                 ![t].val = [got[t].val EXCEPT !.mine = v]]
        BY <1>8, <3>1 DEF OpReturn
      <4>2. [got[t].val EXCEPT !.mine = v] \in Words
        BY <1>2 DEF Results
      <4> QED
        BY <4>1, <4>2 DEF Requests
    <3>2. CASE ~(rmw[t] = "rd" /\ opErr[t] = "OK")
      BY <1>1, <1>8, <3>2 DEF OpReturn, Requests
    <3> QED
      BY <3>1, <3>2
  <2>2. got' \in [OpThreads -> Results]
    BY <1>1, <1>8 DEF OpReturn, Results
  <2>3. /\ opPc' \in [OpThreads -> {"idle", "lock", "start", "poll", "ret"}]
        /\ opErr' \in [OpThreads -> OpErrors]
        /\ rmw' \in [OpThreads -> {"no", "rd", "wr"}]
    BY <1>8 DEF OpReturn, OpErrors
  <2> QED
    BY <1>8, <2>1, <2>2, <2>3 DEF OpReturn
<1>9. CASE SpicoDone
  <2>1. word' \in Words /\ hwData' \in Results
    BY <1>9 DEF SpicoDone, Requests, Results
  <2> QED
    BY <1>9, <2>1 DEF SpicoDone
<1>10. CASE SpicoWrites
  <2>1. word' \in Words
    BY <1>2, <1>10 DEF SpicoWrites
  <2> QED
    BY <1>10, <2>1 DEF SpicoWrites
<1>11. CASE UNCHANGED opVars
  BY <1>11 DEF opVars
<1> HIDE DEF SerdesOpTypeOK
<1> QED
  BY <1>3, <1>4, <1>5, <1>6, <1>7, <1>8, <1>9, <1>10, <1>11
     DEF SerdesOpNext, SerdesOpStep

-----------------------------------------------------------------------------
(* Every step keeps what the requests are: OpCall() and OpReturn() are the  *)
(* steps that make one.                                                     *)
LEMMA OpStepRequests ==
  ASSUME SerdesOpTypeOK, RequestsMatch, [SerdesOpNext]_opVars
  PROVE  RequestsMatch'
<1> USE DEF RequestsMatch
<1>1. CASE UNCHANGED <<req, rmw>>
  BY <1>1
<1>2. ASSUME NEW t \in OpThreads, OpCall(t) PROVE RequestsMatch'
  BY <1>2 DEF OpCall, SerdesOpTypeOK, Requests
<1>3. ASSUME NEW t \in OpThreads, OpReturn(t) PROVE RequestsMatch'
  <2>1. CASE rmw[t] = "rd" /\ opErr[t] = "OK"
    BY <1>3, <2>1 DEF OpReturn, SerdesOpTypeOK, Requests
  <2>2. CASE ~(rmw[t] = "rd" /\ opErr[t] = "OK")
    BY <1>3, <2>2 DEF OpReturn, SerdesOpTypeOK, Requests
  <2> QED
    BY <2>1, <2>2
<1> HIDE DEF RequestsMatch
<1> QED
  BY <1>1, <1>2, <1>3
     DEF SerdesOpNext, SerdesOpStep, OpLock, OpStart, OpDone, OpTimeout,
         SpicoDone, SpicoWrites, opVars

(* The mutex is taken before the busy bit is tested and not dropped before  *)
(* the thread returns.                                                      *)
LEMMA OpStepMutex ==
  ASSUME SerdesOpTypeOK, MutexHeld, [SerdesOpNext]_opVars
  PROVE  MutexHeld'
<1> USE SerdesOpAssumption DEF MutexHeld, OpAt, OpGo, OpFails
<1>1. CASE UNCHANGED <<opMtx, opPc>>
  BY <1>1
<1>2. ASSUME NEW t \in OpThreads, OpCall(t) PROVE MutexHeld'
  BY <1>2 DEF OpCall, SerdesOpTypeOK
<1>3. ASSUME NEW t \in OpThreads, OpLock(t) PROVE MutexHeld'
  BY <1>3 DEF OpLock, SerdesOpTypeOK
<1>4. ASSUME NEW t \in OpThreads, OpStart(t) PROVE MutexHeld'
  BY <1>4 DEF OpStart, SerdesOpTypeOK
<1>5. ASSUME NEW t \in OpThreads, OpDone(t) PROVE MutexHeld'
  BY <1>5 DEF OpDone, SerdesOpTypeOK
<1>6. ASSUME NEW t \in OpThreads, OpTimeout(t) PROVE MutexHeld'
  BY <1>6 DEF OpTimeout, SerdesOpTypeOK
<1>7. ASSUME NEW t \in OpThreads, OpReturn(t) PROVE MutexHeld'
  BY <1>7 DEF OpReturn, SerdesOpTypeOK
<1> HIDE DEF MutexHeld
<1> QED
  BY <1>1, <1>2, <1>3, <1>4, <1>5, <1>6, <1>7
     DEF SerdesOpNext, SerdesOpStep, SpicoDone, SpicoWrites, opVars

(* While a thread polls, no other thread reaches the hardware, and the      *)
(* SPICO does not change by itself the memory a write has reached.          *)
LEMMA OpStepPoll ==
  ASSUME SerdesOpTypeOK, RequestsMatch, MutexHeld, PollsOwnRequest,
         [SerdesOpNext]_opVars
  PROVE  PollsOwnRequest'
<1> USE SerdesOpAssumption DEF PollsOwnRequest, OpAt, OpGo, OpFails
<1>1. CASE UNCHANGED opVars
  BY <1>1 DEF opVars
<1>2. ASSUME NEW t \in OpThreads, OpCall(t) PROVE PollsOwnRequest'
  BY <1>2 DEF OpCall, SerdesOpTypeOK
<1>3. ASSUME NEW t \in OpThreads, OpLock(t) PROVE PollsOwnRequest'
  BY <1>3 DEF OpLock, SerdesOpTypeOK
<1>4. ASSUME NEW t \in OpThreads, OpStart(t) PROVE PollsOwnRequest'
  <2>1. CASE hwBusy
    BY <1>4, <2>1 DEF OpStart, SerdesOpTypeOK
  <2>2. CASE ~hwBusy
    <3>1. \A u \in OpThreads \ {t} : opPc[u] # "poll" /\ opPc'[u] = opPc[u]
      BY <1>4, <2>2 DEF OpStart, SerdesOpTypeOK, MutexHeld
    <3> QED
      BY <1>4, <2>2, <3>1 DEF OpStart, SerdesOpTypeOK
  <2> QED
    BY <2>1, <2>2
<1>5. ASSUME NEW t \in OpThreads, OpDone(t) PROVE PollsOwnRequest'
  BY <1>5 DEF OpDone, SerdesOpTypeOK
<1>6. ASSUME NEW t \in OpThreads, OpTimeout(t) PROVE PollsOwnRequest'
  BY <1>6 DEF OpTimeout, SerdesOpTypeOK
<1>7. ASSUME NEW t \in OpThreads, OpReturn(t) PROVE PollsOwnRequest'
  <2>1. /\ opPc'[t] # "poll"
        /\ \A u \in OpThreads \ {t} : opPc'[u] = opPc[u] /\ req'[u] = req[u]
    BY <1>7 DEF OpReturn, SerdesOpTypeOK
  <2> QED
    BY <1>7, <2>1 DEF OpReturn
<1>8. CASE SpicoDone
  BY <1>8 DEF SpicoDone, RequestsMatch
<1>9. CASE SpicoWrites
  <2>1. \A t \in OpThreads : req[t].kind # "wr"
    BY <1>9 DEF SpicoWrites, RequestsMatch
  <2> QED
    BY <1>9, <2>1 DEF SpicoWrites
<1> HIDE DEF PollsOwnRequest
<1> QED
  BY <1>1, <1>2, <1>3, <1>4, <1>5, <1>6, <1>7, <1>8, <1>9
     DEF SerdesOpNext, SerdesOpStep

(* A thread that returns with success found the busy bit clear while it     *)
(* held the mutex, so the data it took are the answer to its request.       *)
LEMMA OpStepResult ==
  ASSUME SerdesOpTypeOK, PollsOwnRequest, OwnResult, [SerdesOpNext]_opVars
  PROVE  OwnResult'
<1> USE DEF OwnResult, OpAt, OpGo, OpFails
<1>1. CASE UNCHANGED <<opPc, req, opErr, got>>
  BY <1>1
<1>2. ASSUME NEW t \in OpThreads, OpCall(t) PROVE OwnResult'
  BY <1>2 DEF OpCall, SerdesOpTypeOK
<1>3. ASSUME NEW t \in OpThreads, OpLock(t) PROVE OwnResult'
  BY <1>3 DEF OpLock, SerdesOpTypeOK
<1>4. ASSUME NEW t \in OpThreads, OpStart(t) PROVE OwnResult'
  BY <1>4 DEF OpStart, SerdesOpTypeOK
<1>5. ASSUME NEW t \in OpThreads, OpDone(t) PROVE OwnResult'
  BY <1>5 DEF OpDone, SerdesOpTypeOK, PollsOwnRequest
<1>6. ASSUME NEW t \in OpThreads, OpTimeout(t) PROVE OwnResult'
  BY <1>6 DEF OpTimeout, SerdesOpTypeOK
<1>7. ASSUME NEW t \in OpThreads, OpReturn(t) PROVE OwnResult'
  <2>1. /\ opPc'[t] # "ret"
        /\ \A u \in OpThreads \ {t} :
             /\ opPc'[u] = opPc[u] /\ opErr'[u] = opErr[u]
             /\ req'[u] = req[u] /\ got'[u] = got[u]
    BY <1>7 DEF OpReturn, SerdesOpTypeOK
  <2> QED
    BY <2>1
<1> HIDE DEF OwnResult
<1> QED
  BY <1>1, <1>2, <1>3, <1>4, <1>5, <1>6, <1>7
     DEF SerdesOpNext, SerdesOpStep, SpicoDone, SpicoWrites, opVars

(* A write that has succeeded is neither overwritten, by a request or by    *)
(* the SPICO itself, before sbl_serdes_mem_rmw() returns, nor followed by a *)
(* write that was left with the hardware.                                   *)
LEMMA OpStepWrite ==
  ASSUME SerdesOpTypeOK, RequestsMatch, PollsOwnRequest, NoLateWrite,
         RmwTakesEffect, [SerdesOpNext]_opVars
  PROVE  NoLateWrite' /\ RmwTakesEffect'
<1> USE SerdesOpAssumption
    DEF NoLateWrite, RmwTakesEffect, OpAt, OpGo, OpFails
<1>1. CASE UNCHANGED opVars
  BY <1>1 DEF opVars
<1>2. ASSUME NEW t \in OpThreads, OpCall(t)
      PROVE  NoLateWrite' /\ RmwTakesEffect'
  BY <1>2 DEF OpCall, SerdesOpTypeOK
<1>3. ASSUME NEW t \in OpThreads, OpLock(t)
      PROVE  NoLateWrite' /\ RmwTakesEffect'
  BY <1>3 DEF OpLock, SerdesOpTypeOK
<1>4. ASSUME NEW t \in OpThreads, OpStart(t)
      PROVE  NoLateWrite' /\ RmwTakesEffect'
  <2>1. CASE hwBusy
    BY <1>4, <2>1 DEF OpStart, SerdesOpTypeOK
  <2>2. CASE ~hwBusy /\ t = Writer
    BY <1>4, <2>2 DEF OpStart, SerdesOpTypeOK
  <2>3. CASE ~hwBusy /\ t # Writer
    <3>1. req[t].kind = "rd"
      BY <2>3 DEF RequestsMatch, SerdesOpTypeOK, Requests
    <3> QED
      BY <1>4, <2>3, <3>1 DEF OpStart, SerdesOpTypeOK
  <2> QED
    BY <2>1, <2>2, <2>3
<1>5. ASSUME NEW t \in OpThreads, OpDone(t)
      PROVE  NoLateWrite' /\ RmwTakesEffect'
  BY <1>5 DEF OpDone, SerdesOpTypeOK, PollsOwnRequest, RequestsMatch
<1>6. ASSUME NEW t \in OpThreads, OpTimeout(t)
      PROVE  NoLateWrite' /\ RmwTakesEffect'
  BY <1>6 DEF OpTimeout, SerdesOpTypeOK
<1>7. ASSUME NEW t \in OpThreads, OpReturn(t)
      PROVE  NoLateWrite' /\ RmwTakesEffect'
  <2>1. CASE t = Writer
    BY <1>7, <2>1 DEF OpReturn, SerdesOpTypeOK
  <2>2. CASE t # Writer
    <3>1. /\ opPc'[Writer] = opPc[Writer] /\ opErr'[Writer] = opErr[Writer]
          /\ rmw'[Writer] = rmw[Writer] /\ req'[Writer] = req[Writer]
      BY <1>7, <2>2 DEF OpReturn, SerdesOpTypeOK
    <3> QED
      BY <1>7, <3>1 DEF OpReturn
  <2> QED
    BY <2>1, <2>2
<1>8. CASE SpicoDone
  BY <1>8 DEF SpicoDone
<1>9. CASE SpicoWrites
  BY <1>9 DEF SpicoWrites
<1> HIDE DEF NoLateWrite, RmwTakesEffect
<1> QED
  BY <1>1, <1>2, <1>3, <1>4, <1>5, <1>6, <1>7, <1>8, <1>9
     DEF SerdesOpNext, SerdesOpStep

-----------------------------------------------------------------------------
(* The invariant holds in every reachable state.                            *)
LEMMA OpInvariant == SerdesOpSpec => []OpInv
<1>1. OpInv /\ [SerdesOpNext]_opVars => OpInv'
  BY OpStepType, OpStepRequests, OpStepMutex, OpStepPoll, OpStepResult,
     OpStepWrite DEF OpInv
<1> QED
  BY <1>1, OpInitInv, PTL DEF SerdesOpSpec

(* An operation of sbl_pml_serdes_op() that succeeds returns the answer to  *)
(* its own request, for every set of threads and also after requests that   *)
(* timed out.                                                               *)
THEOREM ResultIsOwn == SerdesOpSpec => []OwnResult
<1>1. OpInv => OwnResult
  BY DEF OpInv
<1> QED
  BY <1>1, OpInvariant, PTL

(* A read-modify-write of SerDes memory that succeeds has changed the bits  *)
(* of its mask and no others, for every set of threads.                     *)
THEOREM RmwIsApplied == SerdesOpSpec => []RmwTakesEffect
<1>1. OpInv => RmwTakesEffect
  BY DEF OpInv
<1> QED
  BY <1>1, OpInvariant, PTL

-----------------------------------------------------------------------------
(* No attempt but the last is taken for a success: an earlier one has       *)
(* overrun or has another result, and code is 0 before the first.           *)
AttemptInv ==
  cmd # "reset" =>
    /\ sbPc \in {"try", "resetRing"} => overrun = TRUE \/ code # Code(cmd)
    /\ sbPc = "validate" => clean = TRUE \/ overrun = TRUE \/ code # Code(cmd)
    /\ sbPc = "opDone" /\ opRet = "OK" => clean = TRUE

(* The status is read for the last time when it is no longer in progress.   *)
ResultInv ==
  /\ step \in 0 .. LastStep
  /\ intRet # "none" => sbPc = "end"
  /\ step = LastStep => inProgress = FALSE
  /\ intRet = "OK" => step = LastStep

(* The successful writes of a burst carry the image up to the byte it is    *)
(* at, from which the next write goes on.                                   *)
BurstInv ==
  /\ sbPc = "burst" => call = "burst"
  /\ call = "burst" => /\ size \in Nat /\ byte \in Nat /\ byte % 2 = 0
  /\ call = "burst" /\ sbPc # "end" =>
       /\ sent = Bytes(0, byte)
       /\ size >= 4 => byte <= size + 1
  /\ BurstWritesImage

(* The invariant of the SBus operations.                                   *)
SbusInv == AttemptInv /\ ResultInv /\ BurstInv

(* Every step keeps the invariant of the attempts.                         *)
LEMMA AttemptNext == AttemptInv /\ [SbusNext]_sbusVars => AttemptInv'
<1> SUFFICES ASSUME AttemptInv, [SbusNext]_sbusVars PROVE AttemptInv'
  OBVIOUS
<1> USE DEF AttemptInv, Code
<1>1. CASE SbusCall
  BY <1>1 DEF SbusCall, Commands
<1>2. CASE AttemptDone
  <2> PICK c \in {Code(cmd)} \cup {2, 5}, o \in BOOLEAN :
        /\ code' = c /\ overrun' = o
        /\ clean' = (c = Code(cmd) /\ ~o)
        /\ sbPc' = IF o THEN "resetRing" ELSE "validate"
    BY <1>2 DEF AttemptDone
  <2>1. cmd' = cmd
    BY <1>2 DEF AttemptDone
  <2>2. CASE o = TRUE
    BY <2>1, <2>2
  <2>3. CASE o = FALSE
    BY <2>1, <2>3
  <2> QED BY <2>2, <2>3
<1>3. CASE AttemptFails
  BY <1>3 DEF AttemptFails
<1>4. CASE RingReset
  BY <1>4 DEF RingReset
<1>5. CASE Validate
  BY <1>5 DEF Validate
<1>6. CASE SbmInt
  <2>1. CASE sbPc' = "end"
    BY <2>1
  <2>2. CASE sbPc' # "end"
    <3>1. PICK k : IssueOp(k)
      BY <1>6, <2>2 DEF SbmInt, IntOpFailed, IntStep, IntPoll, IntResult, IntEnds
    <3> QED BY <3>1 DEF IssueOp, NewOp, NextCmd
  <2> QED BY <2>1, <2>2
<1>7. CASE SbmDone \/ UNCHANGED sbusVars
  BY <1>7 DEF SbmDone, sbusVars, sbusOp
<1>8. CASE Burst
  <2>1. CASE sbPc' \in {"burst", "end"}
    BY <2>1
  <2>2. CASE sbPc' \notin {"burst", "end"}
    BY <1>8, <2>2 DEF Burst, BurstWrite, BurstWritten, BurstWrites, BurstEnds, NewOp
  <2> QED BY <2>1, <2>2
<1> QED BY <1>1, <1>2, <1>3, <1>4, <1>5, <1>6, <1>7, <1>8 DEF SbusNext, SbusOp

(* Every step keeps the invariant of an SBus master interrupt.             *)
LEMMA ResultNext == ResultInv /\ [SbusNext]_sbusVars => ResultInv'
<1> SUFFICES ASSUME ResultInv, [SbusNext]_sbusVars PROVE ResultInv'
  OBVIOUS
<1> USE DEF ResultInv, LastStep, PollStep, RaiseStep
<1>1. CASE SbusCall
  BY <1>1 DEF SbusCall
<1>2. CASE AttemptDone \/ AttemptFails \/ RingReset \/ Validate
  BY <1>2 DEF AttemptDone, AttemptFails, RingReset, Validate, sbusInt
<1>3. CASE IntOpFailed
  BY <1>3 DEF IntOpFailed, IntEnds
<1>4. CASE IntStep
  BY <1>4 DEF IntStep, IssueOp, NewOp
<1>5. CASE IntPoll
  BY <1>5 DEF IntPoll, IssueOp, NewOp, IntEnds
<1>6. CASE IntResult
  BY <1>6 DEF IntResult, IntEnds
<1>7. CASE SbmDone
  BY <1>7 DEF SbmDone
<1>8. CASE Burst
  BY <1>8 DEF Burst, BurstWrite, BurstWritten, BurstWrites, BurstEnds, sbusInt
<1>9. CASE UNCHANGED sbusVars
  BY <1>9 DEF sbusVars, sbusInt
<1> QED BY <1>1, <1>2, <1>3, <1>4, <1>5, <1>6, <1>7, <1>8, <1>9
        DEF SbusNext, SbusOp, SbmInt

(* The bytes of a write follow those of the writes before it.               *)
LEMMA BytesGrow ==
  ASSUME NEW b \in Nat, NEW n \in Nat
  PROVE  /\ Bytes(0, b) \o Bytes(b, n) = Bytes(0, b + n)
         /\ Len(Bytes(0, b)) = b
  BY DEF Bytes

(* What a burst of even size has written ends within the image, and at its  *)
(* end when nothing is left to write.                                       *)
LEMMA WordFits ==
  ASSUME size \in Nat, byte \in Nat, byte % 2 = 0, byte <= size + 1,
         size >= 4, size % 2 = 0
  PROVE  /\ Word \in Nat /\ byte <= size /\ byte + Word <= size
         /\ More => Word = 6
         /\ ~More => byte + Word = size
<1>1. byte <= size
  OBVIOUS
<1>2. CASE More
  <2>1. byte + 4 < size
    BY <1>2 DEF More
  <2>2. byte + 6 <= size
    BY <2>1
  <2> QED BY <1>1, <1>2, <2>2 DEF Word
<1>3. CASE ~More
  <2>1. size - byte \in {0, 2, 4}
    BY <1>1, <1>3 DEF More
  <2> QED BY <1>1, <1>3, <2>1 DEF Word
<1> QED BY <1>2, <1>3

(* A write that is done adds the bytes that follow.                         *)
LEMMA WrittenNext == BurstInv /\ BurstWritten => BurstInv'
<1> SUFFICES ASSUME BurstInv, BurstWritten PROVE BurstInv'
  OBVIOUS
<1>1. /\ call = "burst" /\ sbPc = "opDone" /\ call' = call /\ size' = size
      /\ opRet' = opRet /\ sbPc' \in {"burst", "end"}
  BY DEF BurstWritten, sbusOp
<1>2. /\ size \in Nat /\ byte \in Nat /\ byte % 2 = 0 /\ sent = Bytes(0, byte)
      /\ size >= 4 => byte <= size + 1
  BY <1>1 DEF BurstInv
<1>3. Len(Bytes(0, byte)) = byte
  BY <1>2, BytesGrow
<1>4. CASE opRet # "OK"
  <2>1. sbPc' = "end" /\ byte' = byte /\ sent' = sent
    BY <1>4 DEF BurstWritten
  <2>2. ASSUME size >= 4, size % 2 = 0 PROVE byte <= size
    BY <1>2, <2>2, WordFits
  <2> QED BY <1>1, <1>2, <1>3, <1>4, <2>1, <2>2 DEF BurstInv, BurstWritesImage
<1>5. CASE opRet = "OK"
  <2>1. /\ sent' = sent \o Bytes(byte, Word)
        /\ byte' = IF More THEN byte + 6 ELSE byte
        /\ sbPc' = IF More /\ size >= 4 THEN "burst" ELSE "end"
    BY <1>5 DEF BurstWritten
  <2>2. Word \in Nat /\ (More => Word = 6)
    BY <1>2 DEF Word
  <2>3. /\ sent' = Bytes(0, byte + Word)
        /\ Len(Bytes(0, byte + Word)) = byte + Word
    <3>1. byte + Word \in Nat
      BY <1>2, <2>2
    <3> QED BY <1>2, <2>1, <2>2, <3>1, BytesGrow
  <2>4. byte' \in Nat /\ byte' % 2 = 0
    BY <1>2, <2>1
  <2>5. CASE sbPc' = "burst"
    <3>1. More /\ size >= 4 /\ byte' = byte + Word
      BY <2>1, <2>2, <2>5
    <3>2. byte' <= size + 1
      BY <1>2, <3>1, <2>2 DEF More
    <3>3. ASSUME size % 2 = 0 PROVE byte' <= size
      BY <1>2, <3>1, <3>3, WordFits
    <3> QED BY <1>1, <1>2, <2>3, <2>4, <2>5, <3>1, <3>2, <3>3
            DEF BurstInv, BurstWritesImage
  <2>6. CASE sbPc' = "end"
    <3>1. ASSUME size >= 4, size % 2 = 0 PROVE byte + Word = size
      BY <1>2, <2>1, <2>6, <3>1, WordFits
    <3>2. BurstWritesImage'
      BY <1>1, <2>3, <2>6, <3>1 DEF BurstWritesImage
    <3> QED BY <1>1, <1>2, <2>4, <2>6, <3>2 DEF BurstInv
  <2> QED BY <1>1, <2>5, <2>6
<1> QED BY <1>4, <1>5

(* Every step keeps the invariant of a burst: the loop of                   *)
(* sbl_spico_burst_upload() and the words behind it end at the size.        *)
LEMMA BurstNext == BurstInv /\ [SbusNext]_sbusVars => BurstInv'
<1> SUFFICES ASSUME BurstInv, [SbusNext]_sbusVars PROVE BurstInv'
  OBVIOUS
<1>1. CASE SbusCall
  <2>1. CASE call' = "burst"
    <3>1. /\ sbPc' = "burst" /\ size' \in 2 .. MaxSize
          /\ byte' = 0 /\ sent' = <<>>
      BY <1>1, <2>1 DEF SbusCall
    <3>2. size' \in Nat
      BY <3>1, SbusAssumption
    <3>3. byte' \in Nat /\ byte' % 2 = 0 /\ byte' <= size' + 1
      <4>1. \A n \in Nat : 0 <= n + 1 /\ 0 % 2 = 0
        OBVIOUS
      <4> QED BY <3>1, <3>2, <4>1
    <3>4. sent' = Bytes(0, byte')
      BY <3>1 DEF Bytes
    <3>5. Len(sent') = byte' /\ byte' <= size'
      BY <3>1, <3>2, <3>3, <3>4, BytesGrow
    <3>6. BurstWritesImage'
      BY <3>1, <3>4, <3>5 DEF BurstWritesImage
    <3> QED BY <2>1, <3>1, <3>2, <3>3, <3>4, <3>6 DEF BurstInv
  <2>2. CASE call' # "burst"
    BY <1>1, <2>2 DEF SbusCall, BurstInv, BurstWritesImage
  <2> QED BY <2>1, <2>2
<1>2. CASE AttemptDone \/ AttemptFails \/ RingReset \/ Validate
  <2>1. /\ sbPc \notin {"burst", "end"} /\ sbPc' \notin {"burst", "end"}
        /\ UNCHANGED <<call, size, byte, sent>>
    BY <1>2 DEF AttemptDone, AttemptFails, RingReset, Validate, sbusBurst
  <2> QED BY <2>1 DEF BurstInv, BurstWritesImage
<1>3. CASE SbmInt
  <2>1. call = "int" /\ call' = call /\ sbPc' \in {"try", "end"}
    BY <1>3 DEF SbmInt, IntOpFailed, IntStep, IntPoll, IntResult, IssueOp,
       NewOp, IntEnds
  <2> QED BY <2>1 DEF BurstInv, BurstWritesImage
<1>4. CASE SbmDone \/ UNCHANGED sbusVars
  BY <1>4 DEF SbmDone, sbusVars, sbusOp, sbusBurst, BurstInv, BurstWritesImage
<1>5. CASE BurstWrite
  <2>1. /\ sbPc = "burst" /\ call = "burst" /\ sbPc' \in {"try", "end"}
        /\ UNCHANGED <<call, size, byte, sent>>
    BY <1>5 DEF BurstWrite, BurstWrites, BurstEnds, NewOp, sbusBurst, BurstInv
  <2>2. CASE BurstWrites
    <3>1. sbPc' = "try"
      BY <2>2 DEF BurstWrites, NewOp
    <3> QED BY <2>1, <3>1 DEF BurstInv, BurstWritesImage
  <2>3. CASE BurstEnds
    <3>1. sbPc' = "end" /\ Word = 0
      BY <2>3 DEF BurstEnds
    <3>2. /\ size \in Nat /\ byte \in Nat /\ byte % 2 = 0
          /\ sent = Bytes(0, byte) /\ (size >= 4 => byte <= size + 1)
      BY <2>1 DEF BurstInv
    <3>3. Len(Bytes(0, byte)) = byte
      BY <3>2, BytesGrow
    <3>4. ASSUME size >= 4, size % 2 = 0 PROVE byte = size
      BY <3>1, <3>2, <3>4, WordFits
    <3> QED BY <2>1, <3>1, <3>2, <3>3, <3>4 DEF BurstInv, BurstWritesImage
  <2> QED BY <1>5, <2>2, <2>3 DEF BurstWrite
<1>6. CASE BurstWritten
  BY <1>6, WrittenNext
<1> QED BY <1>1, <1>2, <1>3, <1>4, <1>5, <1>6 DEF SbusNext, SbusOp, Burst

(* The invariant holds in the initial states.                              *)
LEMMA SbusInvInit == SbusInit => SbusInv
<1> SUFFICES ASSUME SbusInit PROVE SbusInv
  OBVIOUS
<1>1. AttemptInv
  BY DEF SbusInit, AttemptInv, Code, Commands
<1>2. ResultInv
  BY DEF SbusInit, ResultInv, LastStep
<1>3. BurstInv
  BY SbusAssumption DEF SbusInit, BurstInv, BurstWritesImage, Bytes
<1> QED BY <1>1, <1>2, <1>3 DEF SbusInv

(* The invariant of the SBus operations holds in every reachable state.    *)
THEOREM SbusHolds == SbusSpec => []SbusInv
  BY SbusInvInit, AttemptNext, ResultNext, BurstNext, PTL DEF SbusSpec, SbusInv

(* An SBus operation that reports success was completed by the ring        *)
(* without overrun in its last attempt, and an SBM interrupt that does had *)
(* ended before its result was read (SbusSuccessIsDone), for every limit   *)
(* of retries and polls: sbl_sbus_op_aux() and sbl_sbm_spico_int() take no *)
(* older result for it.                                                    *)
THEOREM SbusSuccess == SbusSpec => []SbusSuccessIsDone
<1>1. SbusInv => SbusSuccessIsDone
  BY DEF SbusInv, AttemptInv, ResultInv, SbusSuccessIsDone
<1> QED BY <1>1, SbusHolds, PTL

(* What the successful writes of sbl_spico_burst_upload() carry of an image *)
(* of even size and of four bytes at least is its beginning, in order, also *)
(* if a write fails, and all of it if it returns 0 (BurstWritesImage), for  *)
(* images of every size.                                                    *)
THEOREM BurstIsWhole == SbusSpec => []BurstWritesImage
<1>1. SbusInv => BurstWritesImage
  BY DEF SbusInv, BurstInv
<1> QED BY <1>1, SbusHolds, PTL

-----------------------------------------------------------------------------
(* An SerDes operation and its callers keep their types.                    *)
THEOREM SerdesOpTypes == SerdesOpSpec => []SerdesOpTypeOK
<1>1. OpInv => SerdesOpTypeOK
  BY DEF OpInv
<1> QED BY <1>1, OpInvariant, PTL

(* An image has two bytes at least; one of less than four is written in one *)
(* pass of the loop.                                                        *)
SmallBurst ==
  /\ sbPc = "burst" => call = "burst"
  /\ call = "burst" => size >= 2
  /\ call = "burst" /\ sbPc # "end" /\ size < 4 => byte = 0

(* The codes that an attempt may leave.                                     *)
LEMMA CodesFit == \A c \in Commands : {Code(c), 2, 5} \subseteq Codes
  BY DEF Commands, Code, Codes

(* Every step of an operation and of an interrupt keeps the types.          *)
LEMMA SbusOpTypes ==
  ASSUME SbusTypeOK, SmallBurst, SbusOp \/ SbmInt \/ SbmDone
  PROVE  SbusTypeOK' /\ SmallBurst'
<1> USE SbusAssumption DEF SbusTypeOK, SmallBurst
<1>1. CASE AttemptDone
  <2>1. PICK c \in {Code(cmd)} \cup {2, 5}, o \in BOOLEAN :
          /\ code' = c /\ overrun' = o
          /\ clean' = (c = Code(cmd) /\ ~o)
          /\ sbPc' = IF o THEN "resetRing" ELSE "validate"
    BY <1>1 DEF AttemptDone
  <2>2. code' \in Codes
    BY <2>1, CodesFit
  <2>3. overrun' \in BOOLEAN /\ clean' \in BOOLEAN
    BY <2>1
  <2>4. sbPc' \in {"resetRing", "validate"}
    BY <2>1
  <2>5. /\ tries' \in 0 .. RetryLimit /\ sbPc = "try"
        /\ UNCHANGED <<call, cmd, opRet, sbusInt, sbusBurst>>
    BY <1>1 DEF AttemptDone
  <2> QED BY <2>2, <2>3, <2>4, <2>5 DEF sbusInt, sbusBurst
<1>2. CASE AttemptFails
  <2>1. clean' \in BOOLEAN
    BY <1>2, Zenon DEF AttemptFails
  <2>2. /\ tries' \in 0 .. RetryLimit /\ sbPc = "try" /\ sbPc' = "resetRing"
        /\ UNCHANGED <<call, cmd, code, overrun, opRet, sbusInt, sbusBurst>>
    BY <1>2 DEF AttemptFails
  <2> QED BY <2>1, <2>2 DEF sbusInt, sbusBurst
<1>3. CASE RingReset
  BY <1>3 DEF RingReset, sbusInt, sbusBurst
<1>4. CASE Validate
  <2>1. opRet' \in {"OK", "EIO", "ENOMSG"}
    BY <1>4 DEF Validate
  <2> QED BY <1>4, <2>1 DEF Validate, sbusInt, sbusBurst
<1>5. CASE IntOpFailed \/ IntResult
  BY <1>5 DEF IntOpFailed, IntResult, IntEnds, sbusOp, sbusBurst
<1>6. ASSUME NEW k \in 0 .. LastStep, IssueOp(k)
      PROVE  /\ step' \in 0 .. LastStep /\ cmd' \in Commands /\ sbPc' = "try"
             /\ tries' \in 0 .. RetryLimit /\ code' \in Codes
             /\ overrun' \in BOOLEAN /\ clean' \in BOOLEAN /\ opRet' = "none"
  <2>1. overrun' \in BOOLEAN /\ clean' \in BOOLEAN
    BY <1>6, Zenon DEF IssueOp, NewOp
  <2>2. /\ step' = k /\ cmd' = NextCmd(k) /\ sbPc' = "try" /\ tries' = 0
        /\ code' = 0 /\ opRet' = "none"
    BY <1>6 DEF IssueOp, NewOp
  <2> QED BY <2>1, <2>2 DEF NextCmd, Commands, Codes
<1>7. CASE IntStep
  <2>1. step + 1 \in 0 .. LastStep /\ IssueOp(step + 1)
    BY <1>7 DEF IntStep, PollStep, LastStep
  <2>2. /\ inProgress' = (inProgress \/ step = RaiseStep)
        /\ call = "int" /\ UNCHANGED <<call, polls, intRet, sbusBurst>>
    BY <1>7 DEF IntStep
  <2>3. inProgress' \in BOOLEAN
    BY <2>2
  <2> QED BY <1>6, <2>1, <2>2, <2>3 DEF sbusBurst
<1>8. CASE IntPoll
  <2>1. call = "int" /\ UNCHANGED <<call, inProgress, sbusBurst>>
    BY <1>8 DEF IntPoll
  <2>2. CASE \E k \in {LastStep, PollStep} : IssueOp(k)
    <3>1. PICK k \in {LastStep, PollStep} : IssueOp(k)
      BY <2>2
    <3>2. k \in 0 .. LastStep
      BY DEF LastStep, PollStep
    <3>3. sbPc' = "try"
      BY <3>1 DEF IssueOp, NewOp
    <3>4. polls' \in 0 .. Polls /\ intRet' = intRet
      BY <1>8, <3>3 DEF IntPoll, IntEnds
    <3> QED BY <1>6, <2>1, <3>1, <3>2, <3>4 DEF sbusBurst
  <2>3. CASE IntEnds("ETIME") /\ polls' = polls
    BY <2>1, <2>3 DEF IntEnds, sbusOp, sbusBurst
  <2> QED BY <1>8, <2>2, <2>3 DEF IntPoll
<1>9. CASE SbmDone
  <2>1. inProgress' \in BOOLEAN
    BY <1>9, Zenon DEF SbmDone
  <2> QED BY <1>9, <2>1 DEF SbmDone, sbusOp, sbusBurst
<1> HIDE DEF SbusTypeOK, SmallBurst
<1> QED BY <1>1, <1>2, <1>3, <1>4, <1>5, <1>7, <1>8, <1>9 DEF SbusOp, SbmInt

(* The bytes of a write.                                                    *)
LEMMA BytesRange ==
  ASSUME NEW b \in Nat, NEW n \in Nat, NEW m \in Nat, b + n <= m + 1
  PROVE  Bytes(b, n) \in Seq(0 .. m)
  BY DEF Bytes

(* A burst stays within the image, but for the bytes of a word behind one   *)
(* that is too small.                                                       *)
LEMMA SbusBurstTypes ==
  ASSUME SbusTypeOK, SmallBurst, Burst
  PROVE  SbusTypeOK' /\ SmallBurst'
<1>1. CASE BurstWrites /\ BurstWrite
  <2>1. /\ cmd' = "write" /\ sbPc' = "try" /\ tries' = 0 /\ code' = 0
        /\ opRet' = "none" /\ sbPc = "burst"
        /\ UNCHANGED <<call, sbusInt, sbusBurst>>
    BY <1>1 DEF BurstWrites, BurstWrite, NewOp
  <2>2. overrun' \in BOOLEAN /\ clean' \in BOOLEAN
    BY <1>1, Zenon DEF BurstWrites, NewOp
  <2> QED BY <2>1, <2>2, SbusAssumption
          DEF SbusTypeOK, SmallBurst, Commands, Codes, sbusInt, sbusBurst
<1>2. CASE BurstEnds /\ BurstWrite
  BY <1>2 DEF BurstEnds, BurstWrite, SbusTypeOK, SmallBurst, sbusOp, sbusInt,
     sbusBurst
<1>3. CASE BurstWritten
  <2>1. /\ MaxSize \in Nat /\ size \in 0 .. MaxSize /\ byte \in 0 .. MaxSize + 5
        /\ sent \in Seq(0 .. MaxSize + 5) /\ size >= 2
        /\ size < 4 => byte = 0
    BY <1>3, SbusAssumption DEF SbusTypeOK, SmallBurst, BurstWritten
  <2>2. /\ UNCHANGED <<call, size, sbusOp, sbusInt>> /\ call = "burst"
        /\ sbPc' \in {"burst", "end"} /\ (sbPc' = "burst" => size >= 4)
    BY <1>3 DEF BurstWritten
  <2>3. byte' \in 0 .. MaxSize + 5 /\ sent' \in Seq(0 .. MaxSize + 5)
    <3>1. CASE opRet # "OK"
      BY <1>3, <2>1, <3>1 DEF BurstWritten
    <3>2. CASE opRet = "OK"
      <4>1. /\ sent' = sent \o Bytes(byte, Word)
            /\ byte' = IF More THEN byte + 6 ELSE byte
        BY <1>3, <3>2 DEF BurstWritten
      <4>2. More => byte + 6 <= MaxSize + 5
        BY <2>1 DEF More
      <4>3. Word \in Nat /\ byte + Word <= MaxSize + 6
        BY <2>1, <4>2 DEF Word
      <4>4. Bytes(byte, Word) \in Seq(0 .. MaxSize + 5)
        BY <2>1, <4>3, BytesRange
      <4> QED BY <2>1, <4>1, <4>2, <4>4
    <3> QED BY <3>1, <3>2
  <2> QED BY <2>1, <2>2, <2>3 DEF SbusTypeOK, SmallBurst, sbusOp, sbusInt
<1> QED BY <1>1, <1>2, <1>3 DEF Burst, BurstWrite

(* The next call begins with everything at its start.                       *)
LEMMA SbusCallTypes ==
  ASSUME SbusTypeOK, SbusCall
  PROVE  SbusTypeOK' /\ SmallBurst'
<1>1. /\ call' \in {"op", "int", "burst"} /\ cmd' \in Commands
      /\ tries' = 0 /\ code' = 0 /\ overrun' = FALSE
      /\ opRet' = "none" /\ clean' = FALSE
      /\ sbPc' = IF call' = "burst" THEN "burst" ELSE "try"
      /\ step' = 0 /\ polls' = 0 /\ intRet' = "none"
      /\ byte' = 0 /\ sent' = <<>> /\ inProgress' = inProgress
  BY DEF SbusCall, Commands
<1>2. /\ MaxSize \in Nat
      /\ size' \in IF call' = "burst" THEN 2 .. MaxSize ELSE {0}
  BY SbusAssumption DEF SbusCall
<1>3. size' \in 0 .. MaxSize /\ (call' = "burst" => size' >= 2)
  BY <1>2
<1>4. SmallBurst'
  BY <1>1, <1>3 DEF SmallBurst
<1>5. overrun' \in BOOLEAN /\ clean' \in BOOLEAN
  BY <1>1, Zenon
<1>6. /\ tries' \in 0 .. RetryLimit /\ step' \in 0 .. LastStep
      /\ polls' \in 0 .. Polls /\ byte' \in 0 .. (MaxSize + 5)
      /\ sent' \in Seq(0 .. (MaxSize + 5))
  BY <1>1, SbusAssumption DEF LastStep
<1> QED BY <1>1, <1>3, <1>4, <1>5, <1>6 DEF SbusTypeOK, Codes

(* Accesses, interrupts and bursts on an SBus ring keep their types, for    *)
(* every limit of retries and polls and every size of an image.             *)
THEOREM SbusTypes == SbusSpec => []SbusTypeOK
<1> DEFINE I == SbusTypeOK /\ SmallBurst
<1>1. SbusInit => I
  <2> SUFFICES ASSUME SbusInit PROVE SbusTypeOK /\ SmallBurst
    OBVIOUS
  <2>1. overrun \in BOOLEAN /\ clean \in BOOLEAN /\ inProgress \in BOOLEAN
    BY Zenon DEF SbusInit
  <2>2. /\ MaxSize \in Nat
        /\ size \in IF call = "burst" THEN 2 .. MaxSize ELSE {0}
        /\ sbPc = IF call = "burst" THEN "burst" ELSE "try"
        /\ byte = 0
    BY SbusAssumption DEF SbusInit
  <2>3. size \in 0 .. MaxSize /\ SmallBurst
    BY <2>2 DEF SmallBurst
  <2>4. /\ tries \in 0 .. RetryLimit /\ step \in 0 .. LastStep
        /\ polls \in 0 .. Polls /\ byte \in 0 .. (MaxSize + 5)
        /\ sent \in Seq(0 .. (MaxSize + 5))
    BY SbusAssumption DEF SbusInit, LastStep
  <2>5. /\ call \in {"op", "int", "burst"} /\ cmd \in Commands /\ code = 0
        /\ opRet = "none" /\ intRet = "none" /\ sbPc \in {"burst", "try"}
    BY DEF SbusInit, Commands
  <2> QED BY <2>1, <2>3, <2>4, <2>5 DEF SbusTypeOK, Codes
<1>2. I /\ [SbusNext]_sbusVars => I'
  <2> SUFFICES ASSUME SbusTypeOK, SmallBurst, [SbusNext]_sbusVars PROVE I'
    OBVIOUS
  <2>1. CASE UNCHANGED sbusVars
    BY <2>1 DEF sbusVars, sbusOp, sbusInt, sbusBurst, SbusTypeOK, SmallBurst
  <2> QED BY <2>1, SbusOpTypes, SbusBurstTypes, SbusCallTypes DEF SbusNext
<1>3. I => SbusTypeOK
  OBVIOUS
<1> HIDE DEF I
<1> QED BY <1>1, <1>2, <1>3, PTL DEF SbusSpec
=============================================================================
