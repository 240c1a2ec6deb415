-------------------------------- MODULE Sbus --------------------------------
(***************************************************************************)
(* Access to the devices of an SBus ring under its mutex: one operation     *)
(* with its retries (sbl_sbus_op_aux), an interrupt of the SBus master's    *)
(* SPICO as a sequence of operations (sbl_sbm_spico_int), and the upload of *)
(* a firmware image in bursts (sbl_spico_burst_upload).                     *)
(*                                                                          *)
(* The operation itself is the accessor's.  When it fails it is taken to    *)
(* leave the result code and the overrun flag as they were.                 *)
(***************************************************************************)
EXTENDS Naturals, Sequences

CONSTANTS
  RetryLimit,   \* retry_limit
  Polls,        \* polls that fit in sbus_int_timeout
  MaxSize       \* largest firmware image, in bytes

ASSUME SbusAssumption == RetryLimit \in Nat \ {0} /\ {Polls, MaxSize} \subseteq Nat

Commands == {"reset", "write", "read"}
(* SBUS_RC_...: the code of a completed reset is also the initial value.    *)
Code(c) == CASE c = "reset" -> 0 [] c = "write" -> 1 [] c = "read" -> 4
Codes == {0, 1, 2, 4, 5}

VARIABLES
  call,        \* who asked for the operation: "op", "int" or "burst"
  cmd,         \* the command
  tries,       \* retry_cnt
  code, overrun,   \* result_code and overrun
  opRet,       \* what the operation returned
  clean,       \* history: the ring completed the last attempt, no overrun
  sbPc,
  step,        \* sbl_sbm_spico_int(): operations done so far
  inProgress,  \* the SPICO's interrupt is in progress
  polls,       \* times its status was read
  intRet,      \* what sbl_sbm_spico_int() returned
  size, byte,  \* sbl_spico_burst_upload(): fw_size and byte
  sent         \* history: the bytes of its writes that succeeded, in order

sbusOp == <<cmd, tries, code, overrun, opRet, clean>>
sbusInt == <<step, inProgress, polls, intRet>>
sbusBurst == <<size, byte, sent>>
sbusVars == <<call, sbusOp, sbPc, sbusInt, sbusBurst>>

SbusInit ==
  /\ call \in {"op", "int", "burst"}
  /\ cmd \in IF call = "op" THEN Commands ELSE {"write"}
  /\ tries = 0 /\ code = 0 /\ overrun = FALSE
  /\ opRet = "none" /\ clean = FALSE
  /\ sbPc = IF call = "burst" THEN "burst" ELSE "try"
  /\ step = 0 /\ inProgress = FALSE /\ polls = 0 /\ intRet = "none"
  /\ size \in IF call = "burst" THEN 2..MaxSize ELSE {0}
  /\ byte = 0 /\ sent = <<>>

-----------------------------------------------------------------------------
(* sbl_sbus_op_aux(): an attempt that fails or overran resets the ring; if   *)
(* even that fails the operation has failed.                                *)
AttemptDone ==
  /\ sbPc = "try" /\ tries < RetryLimit
  /\ tries' = tries + 1
  /\ \E c \in {Code(cmd)} \cup {2, 5}, o \in BOOLEAN :
       /\ code' = c /\ overrun' = o
       /\ clean' = (c = Code(cmd) /\ ~o)
       /\ sbPc' = IF o THEN "resetRing" ELSE "validate"
  /\ UNCHANGED <<call, cmd, opRet, sbusInt, sbusBurst>>

AttemptFails ==
  /\ sbPc = "try" /\ tries < RetryLimit
  /\ tries' = tries + 1 /\ clean' = FALSE
  /\ sbPc' = "resetRing"
  /\ UNCHANGED <<call, cmd, code, overrun, opRet, sbusInt, sbusBurst>>

RingReset ==
  /\ sbPc = "resetRing"
  /\ \/ sbPc' = (IF tries < RetryLimit THEN "try" ELSE "validate")
        /\ UNCHANGED opRet
     \/ opRet' = "EIO" /\ sbPc' = "opDone"
  /\ UNCHANGED <<call, cmd, tries, code, overrun, clean, sbusInt, sbusBurst>>

(* Mutant: the overrun of the last attempt is not looked at.                *)
ValidateCodeOnly ==
  /\ sbPc = "validate" /\ sbPc' = "opDone"
  /\ opRet' = IF code = Code(cmd) THEN "OK" ELSE "ENOMSG"
  /\ UNCHANGED <<call, cmd, tries, code, overrun, clean, sbusInt, sbusBurst>>

Validate ==
  /\ sbPc = "validate" /\ sbPc' = "opDone"
  /\ opRet' = CASE overrun -> "EIO"
                [] ~overrun /\ code # Code(cmd) -> "ENOMSG"
                [] OTHER -> "OK"
  /\ UNCHANGED <<call, cmd, tries, code, overrun, clean, sbusInt, sbusBurst>>

SbusOp == AttemptDone \/ AttemptFails \/ RingReset \/ Validate

-----------------------------------------------------------------------------
(* sbl_sbm_spico_int(): data and code, read the interrupt register, raise   *)
(* the request, drop it, read the status until it is not in progress, and   *)
(* once more.                                                               *)
NextCmd(k) == IF k \in {0, 2, 3} THEN "write" ELSE "read"
RaiseStep == 2
PollStep  == 4
LastStep  == 5

NewOp(c) ==
  /\ cmd' = c /\ sbPc' = "try"
  /\ tries' = 0 /\ code' = 0 /\ overrun' = FALSE /\ clean' = FALSE
  /\ opRet' = "none"

IssueOp(k) == step' = k /\ NewOp(NextCmd(k))

IntEnds(r) ==
  /\ intRet' = r /\ sbPc' = "end"
  /\ UNCHANGED <<sbusOp, step>>

IntOpFailed ==
  /\ call = "int" /\ sbPc = "opDone" /\ opRet # "OK"
  /\ IntEnds(opRet)
  /\ UNCHANGED <<call, inProgress, polls, sbusBurst>>

IntStep ==
  /\ call = "int" /\ sbPc = "opDone" /\ opRet = "OK"
  /\ step < PollStep
  /\ IssueOp(step + 1)
  /\ inProgress' = (inProgress \/ step = RaiseStep)
  /\ UNCHANGED <<call, polls, intRet, sbusBurst>>

IntPoll ==
  /\ call = "int" /\ sbPc = "opDone" /\ opRet = "OK" /\ step = PollStep
  /\ IF ~inProgress THEN IssueOp(LastStep) /\ UNCHANGED <<polls, intRet>>
     ELSE IF polls < Polls
       THEN IssueOp(PollStep) /\ polls' = polls + 1 /\ UNCHANGED intRet
       ELSE IntEnds("ETIME") /\ UNCHANGED polls
  /\ UNCHANGED <<call, inProgress, sbusBurst>>

(* The reread status is OK, or not.                                         *)
IntResult ==
  /\ call = "int" /\ sbPc = "opDone" /\ opRet = "OK" /\ step = LastStep
  /\ \E r \in {"OK", "EBADE"} : IntEnds(r)
  /\ UNCHANGED <<call, inProgress, polls, sbusBurst>>

SbmDone ==
  /\ inProgress /\ inProgress' = FALSE
  /\ UNCHANGED <<call, sbusOp, sbPc, step, polls, intRet, sbusBurst>>

-----------------------------------------------------------------------------
(* sbl_spico_burst_upload(): words of six bytes, then the four or two left. *)
(* fw_size-4 is unsigned: below four it wraps, and the loop goes on past    *)
(* the end of the image; the model stops it after one word.                 *)
More == byte + 4 < size \/ size < 4

(* Mutant: a rest of two bytes is forgotten.                                *)
WordWithoutTwo == IF More THEN 6 ELSE IF size - byte = 4 THEN 4 ELSE 0

Word == IF More THEN 6 ELSE IF size - byte \in {2, 4} THEN size - byte ELSE 0

Bytes(b, n) == [i \in 1 .. n |-> b + i - 1]

BurstWrites == sbPc = "burst" /\ Word > 0 /\ NewOp("write")
BurstEnds   == sbPc = "burst" /\ Word = 0 /\ sbPc' = "end" /\ UNCHANGED sbusOp

BurstWrite ==
  /\ BurstWrites \/ BurstEnds
  /\ UNCHANGED <<call, sbusInt, sbusBurst>>

(* The write is done, or its error ends the upload.                         *)
BurstWritten ==
  /\ call = "burst" /\ sbPc = "opDone"
  /\ \/ /\ opRet = "OK"
        /\ sent' = sent \o Bytes(byte, Word)
        /\ byte' = IF More THEN byte + 6 ELSE byte
        /\ sbPc' = IF More /\ size >= 4 THEN "burst" ELSE "end"
     \/ opRet # "OK" /\ sbPc' = "end" /\ UNCHANGED <<byte, sent>>
  /\ UNCHANGED <<call, size, sbusOp, sbusInt>>

Burst == BurstWrite \/ BurstWritten

(* The next call; an interrupt that the last one gave up may still be in    *)
(* progress.                                                                *)
SbusCall ==
  /\ sbPc = "end" \/ (sbPc = "opDone" /\ call = "op")
  /\ call' \in {"op", "int", "burst"}
  /\ cmd' \in IF call' = "op" THEN Commands ELSE {"write"}
  /\ tries' = 0 /\ code' = 0 /\ overrun' = FALSE
  /\ opRet' = "none" /\ clean' = FALSE
  /\ sbPc' = IF call' = "burst" THEN "burst" ELSE "try"
  /\ step' = 0 /\ polls' = 0 /\ intRet' = "none"
  /\ size' \in IF call' = "burst" THEN 2 .. MaxSize ELSE {0}
  /\ byte' = 0 /\ sent' = <<>>
  /\ UNCHANGED inProgress

SbmInt == IntOpFailed \/ IntStep \/ IntPoll \/ IntResult
SbusNext == SbusCall \/ SbusOp \/ SbmInt \/ SbmDone \/ Burst

SbusSpec == SbusInit /\ [][SbusNext]_sbusVars

-----------------------------------------------------------------------------
SbusTypeOK ==
  /\ call \in {"op", "int", "burst"} /\ cmd \in Commands
  /\ tries \in 0..RetryLimit /\ code \in Codes /\ overrun \in BOOLEAN
  /\ opRet \in {"none", "OK", "EIO", "ENOMSG"} /\ clean \in BOOLEAN
  /\ sbPc \in {"try", "resetRing", "validate", "opDone", "burst", "end"}
  /\ step \in 0..LastStep /\ inProgress \in BOOLEAN /\ polls \in 0..Polls
  /\ intRet \in {"none", "OK", "EIO", "ENOMSG", "ETIME", "EBADE"}
  /\ size \in 0..MaxSize /\ byte \in 0..(MaxSize + 5)
  /\ sent \in Seq(0..(MaxSize + 5))

(* What reports success is done.  An access was completed by the ring,      *)
(* without overrun, in its last attempt: neither the result of an attempt   *)
(* before a reset of the ring nor that reset's own success is taken for it  *)
(* (a reset that the caller asks for is never compared with the command).   *)
(* An interrupt of the SBM is over, and its result was read after that.     *)
SbusSuccessIsDone ==
  /\ cmd # "reset" /\ sbPc = "opDone" /\ opRet = "OK" => clean
  /\ intRet = "OK" => ~inProgress

(* The writes of an image of even size, of four bytes at least, carry its   *)
(* bytes from the first one on in order, none twice and none past the end,  *)
(* also if one of them fails, and all of them if the upload reports success.*)
(* (What a write that is tried again did before is the device's.)           *)
BurstWritesImage ==
  call = "burst" /\ size >= 4 /\ size % 2 = 0 =>
    /\ sent = Bytes(0, Len(sent)) /\ Len(sent) <= size
    /\ sbPc = "end" /\ opRet = "OK" => Len(sent) = size
=============================================================================
