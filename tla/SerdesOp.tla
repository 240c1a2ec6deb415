------------------------------ MODULE SerdesOp ------------------------------
(***************************************************************************)
(* Operations on the SPICO of a port's SerDes: sbl_pml_serdes_op() writes   *)
(* a request to the CORE_INTERRUPT register and polls its busy bit under    *)
(* serdes_mtx; sbl_serdes_spico_int() runs one, and the accesses to SerDes  *)
(* memory are built from it.  A request that times out stays with the       *)
(* hardware, which may still carry it out.                                  *)
(***************************************************************************)
EXTENDS Naturals

CONSTANTS OpThreads, OpNone, Writer  \* the thread that changes the memory

ASSUME SerdesOpAssumption == Writer \in OpThreads /\ OpNone \notin OpThreads

VARIABLES
  opMtx,      \* holder of serdes_mtx
  hwBusy,     \* CORE_INTERRUPT.do_core_interrupt
  hwReq,      \* the request the hardware works on, or the last one
  hwData,     \* CORE_INTERRUPT.core_interrupt_data: [tag, val]
  word,       \* the word of SerDes memory, as its two fields
  opPc,       \* step of each thread
  req,        \* the request of each thread: [who, tag, kind, val]
  opErr,      \* the result of each thread's operation
  rmw,        \* sbl_serdes_mem_rmw(): "rd", "wr", or "no" for a plain read
  got         \* *result of each thread's last operation that succeeded

opVars == <<opMtx, hwBusy, hwReq, hwData, word, opPc, req, opErr, rmw, got>>

Words == [mine : 0..1, other : 0..1]
Requests == [who : OpThreads, tag : 0..1, kind : {"rd", "wr"}, val : Words]
Results == [who : OpThreads, tag : 0..1, val : Words]
OpErrors == {"OK", "ERESTARTSYS", "EBUSY", "ETIMEDOUT", "EBADE"}
Zero == [mine |-> 0, other |-> 0]

SerdesOpInit ==
  /\ opMtx = OpNone /\ hwBusy = FALSE
  /\ hwReq = [who |-> Writer, tag |-> 0, kind |-> "rd", val |-> Zero]
  /\ hwData = [who |-> Writer, tag |-> 0, val |-> Zero]
  /\ word \in Words
  /\ opPc = [t \in OpThreads |-> "idle"]
  /\ req = [t \in OpThreads |->
              [who |-> t, tag |-> 0, kind |-> "rd", val |-> Zero]]
  /\ opErr = [t \in OpThreads |-> "OK"]
  /\ rmw = [t \in OpThreads |-> "no"]
  /\ got = [t \in OpThreads |-> [who |-> t, tag |-> 0, val |-> Zero]]

OpAt(t, s) == opPc[t] = s
OpGo(t, s) == opPc' = [opPc EXCEPT ![t] = s]

(* sbl_serdes_mem_rd(), or sbl_serdes_mem_rmw(), which starts with a read.  *)
OpCall(t) ==
  /\ OpAt(t, "idle") /\ OpGo(t, "lock")
  /\ req' = [req EXCEPT ![t].kind = "rd", ![t].tag = 1 - @]
  /\ rmw' = [rmw EXCEPT ![t] = IF t = Writer THEN "rd" ELSE "no"]
  /\ UNCHANGED <<opMtx, hwBusy, hwReq, hwData, word, opErr, got>>

OpFails(t, e) == OpGo(t, "ret") /\ opErr' = [opErr EXCEPT ![t] = e]

(* mutex_lock_interruptible()                                               *)
OpLock(t) ==
  /\ OpAt(t, "lock")
  /\ \/ /\ opMtx = OpNone /\ opMtx' = t
        /\ OpGo(t, "start") /\ UNCHANGED opErr
     \/ OpFails(t, "ERESTARTSYS") /\ UNCHANGED opMtx
  /\ UNCHANGED <<hwBusy, hwReq, hwData, word, req, rmw, got>>

(* Mutant: the busy bit is not tested before the request is written.        *)
OpStartUntested(t) ==
  /\ OpAt(t, "start") /\ OpGo(t, "poll")
  /\ hwBusy' = TRUE
  /\ hwReq' = IF hwBusy THEN hwReq ELSE req[t]
  /\ UNCHANGED <<opMtx, hwData, word, req, opErr, rmw, got>>

OpStart(t) ==
  /\ OpAt(t, "start")
  /\ IF hwBusy
       THEN /\ OpFails(t, "EBUSY") /\ opMtx' = OpNone
            /\ UNCHANGED <<hwBusy, hwReq>>
       ELSE /\ OpGo(t, "poll") /\ hwBusy' = TRUE /\ hwReq' = req[t]
            /\ UNCHANGED <<opMtx, opErr>>
  /\ UNCHANGED <<hwData, word, req, rmw, got>>

OpDone(t) ==
  /\ OpAt(t, "poll") /\ ~hwBusy
  /\ got' = [got EXCEPT ![t] = hwData]
  /\ opMtx' = OpNone
  /\ OpGo(t, "ret") /\ opErr' = [opErr EXCEPT ![t] = "OK"]
  /\ UNCHANGED <<hwBusy, hwReq, hwData, word, req, rmw>>

OpTimeout(t) ==
  /\ OpAt(t, "poll") /\ hwBusy
  /\ OpFails(t, "ETIMEDOUT") /\ opMtx' = OpNone
  /\ UNCHANGED <<hwBusy, hwReq, hwData, word, req, rmw, got>>

(* Back in sbl_serdes_mem_rmw(): an error ends it; the word that was read   *)
(* is written with the bits of the mask changed.                            *)
OpReturn(t) ==
  /\ OpAt(t, "ret")
  /\ \/ /\ rmw[t] = "rd" /\ opErr[t] = "OK"
        /\ OpGo(t, "lock") /\ rmw' = [rmw EXCEPT ![t] = "wr"]
        /\ \E v \in 0..1 :
             req' = [req EXCEPT ![t].kind = "wr", ![t].tag = 1 - @,
                                ![t].val = [got[t].val EXCEPT !.mine = v]]
        /\ UNCHANGED <<opErr, got>>
     \/ /\ ~(rmw[t] = "rd" /\ opErr[t] = "OK")
        /\ OpGo(t, "idle")
        /\ rmw' = [rmw EXCEPT ![t] = "no"]
        /\ req' = [req EXCEPT ![t].kind = "rd", ![t].val = Zero]
        /\ opErr' = [opErr EXCEPT ![t] = "OK"]
        /\ got' = [got EXCEPT ![t] = [who |-> t, tag |-> 0, val |-> Zero]]
  /\ UNCHANGED <<opMtx, hwBusy, hwReq, hwData, word>>

(* The SPICO carries out the request and clears the busy bit.               *)
SpicoDone ==
  /\ hwBusy /\ hwBusy' = FALSE
  /\ word' = IF hwReq.kind = "wr" THEN hwReq.val ELSE word
  /\ hwData' = [who |-> hwReq.who, tag |-> hwReq.tag, val |-> word]
  /\ UNCHANGED <<opMtx, hwReq, opPc, req, opErr, rmw, got>>

(* The SPICO's own firmware changes bits outside the mask while no request  *)
(* to write them is on its way.                                             *)
SpicoWrites ==
  /\ rmw[Writer] = "no"
  /\ ~hwBusy
  /\ word' = [word EXCEPT !.other = 1 - @]
  /\ UNCHANGED <<opMtx, hwBusy, hwReq, hwData, opPc, req, opErr, rmw, got>>

SerdesOpStep(t) == \/ OpLock(t) \/ OpStart(t) \/ OpDone(t) \/ OpTimeout(t)
                   \/ OpReturn(t)
SerdesOpNext == \/ \E t \in OpThreads : OpCall(t) \/ SerdesOpStep(t)
                \/ SpicoDone \/ SpicoWrites

SerdesOpSpec == SerdesOpInit /\ [][SerdesOpNext]_opVars

-----------------------------------------------------------------------------
SerdesOpTypeOK ==
  /\ opMtx \in OpThreads \cup {OpNone} /\ hwBusy \in BOOLEAN
  /\ hwReq \in Requests /\ hwData \in Results /\ word \in Words
  /\ opPc \in [OpThreads -> {"idle", "lock", "start", "poll", "ret"}]
  /\ req \in [OpThreads -> Requests] /\ opErr \in [OpThreads -> OpErrors]
  /\ rmw \in [OpThreads -> {"no", "rd", "wr"}]
  /\ got \in [OpThreads -> Results]

(* An operation that succeeds returns the answer to its own request, also   *)
(* after one that timed out, the caller's own or another thread's, has left *)
(* the hardware busy.                                                       *)
OwnResult ==
  \A t \in OpThreads :
    OpAt(t, "ret") /\ opErr[t] = "OK" =>
      got[t].who = t /\ got[t].tag = req[t].tag

(* When a read-modify-write returns success, the memory holds the bits of   *)
(* the mask as given, and the others as they were.                          *)
RmwTakesEffect ==
  OpAt(Writer, "ret") /\ rmw[Writer] = "wr" /\ opErr[Writer] = "OK" =>
    word = req[Writer].val
=============================================================================
