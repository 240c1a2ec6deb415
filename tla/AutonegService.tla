---------------------------- MODULE AutonegService ----------------------------
(***************************************************************************)
(* What the base link relies on when it negotiates: attempts that each      *)
(* start the SerDes from DOWN and exchange pages only while it is in        *)
(* autoneg; an error that tells why the call ended; and a SerDes that is    *)
(* out of autoneg when the call returns.  These are the outcomes that       *)
(* AnInstall, AnTry, AnExchange and AnDone of LinkStart have; Autoneg       *)
(* implements this specification.                                           *)
(***************************************************************************)
VARIABLES serdes,   \* link->sstate
          stage,    \* "none" when no call is running
          failure,  \* the error the call is going to return
          asked     \* what asks it to end: a cancel, the start timeout

anServiceVars == <<serdes, stage, failure, asked>>

AnServiceInit ==
  serdes = "DOWN" /\ stage = "none" /\ failure = "ok" /\ asked = {}

Ask == /\ stage # "none"
       /\ asked' \in {asked \cup {"cancel"}, asked \cup {"timeout"}}
       /\ UNCHANGED <<serdes, stage, failure>>

(* A call blames a cancel or the timeout only if there was one.             *)
Asked(e) == \/ e = "ECANCELED" /\ "cancel" \in asked
            \/ e = "ETIMEDOUT" /\ "timeout" \in asked

(* The call may already fail as it is set up, with the SerDes untouched.    *)
Begin == /\ stage = "none" /\ UNCHANGED <<serdes, asked>>
         /\ \/ stage' = "try" /\ UNCHANGED failure
            \/ /\ stage' = "done"
               /\ failure' \in {"EBUSY", "EINVAL", "EALREADY", "EIO"}

(* The head of the loop and sbl_an_serdes_start().                          *)
Attempt ==
  /\ stage = "try" /\ UNCHANGED asked
  /\ \/ /\ serdes = "DOWN" /\ serdes' = "AUTONEG"
        /\ stage' = "exchange" /\ UNCHANGED failure
     \/ /\ serdes = "DOWN" /\ serdes' = "ERROR"
        /\ stage' = "done" /\ failure' = "EIO"
     \/ /\ serdes # "DOWN" /\ UNCHANGED serdes
        /\ stage' = "done" /\ failure' = "EUCLEAN"
     \/ /\ Asked(failure') /\ UNCHANGED serdes
        /\ stage' = "done"

(* An exchange that is repeated stops the SerDes first, pages without a     *)
(* common mode do not.                                                      *)
Exchange ==
  /\ stage = "exchange" /\ serdes = "AUTONEG" /\ UNCHANGED asked
  /\ \/ /\ stage' = "done" /\ UNCHANGED serdes
        /\ \/ UNCHANGED failure
           \/ failure' \in {"ETIME", "EBADE", "EIO"}
           \/ Asked(failure')
     \/ /\ stage' = "try" /\ UNCHANGED failure
        /\ serdes' \in {"DOWN", "ERROR", "AUTONEG"}

Return ==
  /\ stage = "done" /\ stage' = "none" /\ failure' = "ok" /\ asked' = {}
  /\ \/ serdes = "AUTONEG" /\ serdes' \in {"DOWN", "ERROR"}
     \/ serdes # "AUTONEG" /\ UNCHANGED serdes

(* The reset by the cleanup after a start that failed.                      *)
Reset == /\ stage = "none" /\ serdes = "ERROR" /\ serdes' = "DOWN"
         /\ UNCHANGED <<stage, failure, asked>>

AnServiceNext == Ask \/ Begin \/ Attempt \/ Exchange \/ Return \/ Reset

AnServiceSpec == AnServiceInit /\ [][AnServiceNext]_anServiceVars
=============================================================================
