--------------------------------- MODULE MCPml ---------------------------------
(***************************************************************************)
(* Values for TLC of the constants of PmlStart: automatic LLR over an       *)
(* Ethernet link with LLR and LLR monitored in a fabric, a cable of a       *)
(* length the port knows and one it does not, partners that want HPC with   *)
(* LLR and that do not.                                                     *)
(***************************************************************************)
EXTENDS PmlStart

Attr(llr, opts, ifg, loopback) ==
  [llr |-> llr, opts |-> opts, ifg |-> ifg, loopback |-> loopback]
McPmlAttrs ==
  {Attr("auto", {"ETHER_LLR", "HPC_WITH_LLR", "IFG_CONFIG", "LANE_DEGRADE"},
        "ieee", "off"),
   Attr("monitor", {"FABRIC_LINK", "LOOP_TIME_FAIL"}, "hpc", "local")}
McPmlMedias == {[optical |-> TRUE, len |-> l] : l \in {"known", "foreign"}}
McAnOptions == {{"LLR", "ETHER_LLR", "HPC"}, {"LLR", "ETHER_LLR"}}
McTxSource == [l \in 0 .. 3 |-> 3 - l]
McRxSource == [l \in 0 .. 3 |-> l]
=============================================================================
