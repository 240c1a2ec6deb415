----------------------------- MODULE SerdesConfig -----------------------------
(***************************************************************************)
(* The list of SerDes configurations that clients add, delete and clear     *)
(* under serdes_config_lock, and the part of sbl_serdes_config() that looks *)
(* up the values of each lane there and applies them.  The lock is held     *)
(* during one lookup only, so the list may change between two lanes.        *)
(***************************************************************************)
EXTENDS Naturals, FiniteSets, Sequences, SequencesExt

CONSTANTS
  ConfigLanes,  \* the lanes of the port that its mode needs, in order
  CfgPort,      \* the port
  Entries,      \* sequence of the configurations that clients may add
  MaxList       \* bound on the length of the list

(* ports, lanes: port_mask, of 64 bits, and serdes_mask, of 8.  mask, match: *)
(* the bits of both words of tp_state_mask and of tp_state_match under it.  *)
(* The values are left out.                                                 *)
ASSUME EntriesAssumption ==
  /\ MaxList \in Nat /\ DOMAIN Entries \subseteq Nat \ {0}
  /\ ConfigLanes \in Seq(Nat) /\ Len(ConfigLanes) > 0
  /\ \A t \in DOMAIN Entries : LET e == Entries[t] IN
       /\ e.isDefault \in BOOLEAN
       /\ IsFiniteSet(e.ports) /\ Cardinality(e.ports) <= 64
       /\ IsFiniteSet(e.lanes) /\ Cardinality(e.lanes) <= 8
       /\ IsFiniteSet(e.mask) /\ Cardinality(e.mask) <= 2 * 64
       /\ e.match \subseteq e.mask

VARIABLES
  cfgList,      \* serdes_config_list, the head first, by tag
  cfgHash,      \* the bits of the port's hash that are set
  cfgAt,        \* number of the lane being configured, 0: none
  cfgPc,        \* "lookup", "eq", "gs", "intr"
  found,        \* what the lookup for this lane found, or NoTag
  seen,         \* history: the list at the lookup for this lane
  values        \* whose values the variable of sbl_serdes_config() holds

cfgVars == <<cfgList, cfgHash, cfgAt, cfgPc, found, seen, values>>

Tags    == DOMAIN Entries
NoTag   == 0
AllBits == UNION {Entries[t].mask : t \in Tags}

ConfigInit ==
  /\ cfgList = << >>
  /\ cfgHash \in SUBSET AllBits
  /\ cfgAt = 0 /\ cfgPc = "lookup"
  /\ found = NoTag /\ seen = << >> /\ values = NoTag

-----------------------------------------------------------------------------
SameKey(s, t) ==
  LET a == Entries[s]
      b == Entries[t]
  IN /\ a.ports = b.ports /\ a.lanes = b.lanes
     /\ a.mask = b.mask /\ a.match = b.match

ListOnly == UNCHANGED <<cfgHash, cfgAt, cfgPc, found, seen, values>>

(* sbl_serdes_add_config(): EEXIST if an entry has the same key, else the   *)
(* new entry becomes the head.                                              *)
(* Mutant: an entry with other values is not the same entry.                *)
AddByValue(t) ==
  /\ Len(cfgList) < MaxList
  /\ ~\E i \in 1 .. Len(cfgList) : cfgList[i] = t
  /\ cfgList' = <<t>> \o cfgList
  /\ ListOnly

AddConfig(t) ==
  /\ Len(cfgList) < MaxList
  /\ ~\E i \in 1 .. Len(cfgList) : SameKey(cfgList[i], t)
  /\ cfgList' = <<t>> \o cfgList
  /\ ListOnly

(* sbl_serdes_del_config(): the first entry with the key.                   *)
DelConfig(t) ==
  /\ \E i \in 1 .. Len(cfgList) :
       /\ SameKey(cfgList[i], t)
       /\ \A j \in 1 .. i - 1 : ~SameKey(cfgList[j], t)
       /\ cfgList' = RemoveAt(cfgList, i)
  /\ ListOnly

(* sbl_serdes_clear_all_configs(): what is left of the list after a pass    *)
(* over its first i entries.                                                *)
Cleared(clrDefault) ==
  LET left[i \in 0 .. Len(cfgList)] ==
        IF i = 0 THEN << >>
        ELSE IF ~Entries[cfgList[i]].isDefault \/ clrDefault THEN left[i - 1]
        ELSE Append(left[i - 1], cfgList[i])
  IN left[Len(cfgList)]

ClearConfigs ==
  /\ \E clrDefault \in BOOLEAN : cfgList' = Cleared(clrDefault)
  /\ ListOnly

-----------------------------------------------------------------------------
(* sbl_get_serdes_config_values(): one pass over the list that keeps the    *)
(* best match of the first i entries.  The first match is better than the   *)
(* initial bounds of 64 bits, as serdes_mask has only 8.                    *)
Matches(t, lane) ==
  LET e == Entries[t]
  IN /\ CfgPort \in e.ports /\ lane \in e.lanes
     /\ e.mask \cap cfgHash \subseteq e.match

PortBits(t) == Cardinality(Entries[t].ports)
LaneBits(t) == Cardinality(Entries[t].lanes)
MaskBits(t) == Cardinality(Entries[t].mask)

(* Mutant: fewer mask bits win a tie.                                       *)
LessSpecific(s, t) ==
  \/ PortBits(s) < PortBits(t)
  \/ PortBits(s) = PortBits(t) /\ LaneBits(s) < LaneBits(t)
  \/ /\ PortBits(s) = PortBits(t) /\ LaneBits(s) = LaneBits(t)
     /\ MaskBits(s) < MaskBits(t)

MoreSpecific(s, t) ==
  \/ PortBits(s) < PortBits(t)
  \/ PortBits(s) = PortBits(t) /\ LaneBits(s) < LaneBits(t)
  \/ /\ PortBits(s) = PortBits(t) /\ LaneBits(s) = LaneBits(t)
     /\ MaskBits(s) > MaskBits(t)

Best(lane) ==
  LET best[i \in 0 .. Len(cfgList)] ==
        IF i = 0 THEN NoTag
        ELSE IF /\ Matches(cfgList[i], lane)
                /\ best[i - 1] = NoTag \/ MoreSpecific(cfgList[i], best[i - 1])
             THEN cfgList[i]
        ELSE best[i - 1]
  IN best[Len(cfgList)]

(* The lane loop of sbl_serdes_config() outside autonegotiation.            *)
LaneOf(i) == ConfigLanes[i]
CfgStep(from, to) == cfgPc = from /\ cfgPc' = to

ConfigBegin ==
  /\ cfgAt = 0 /\ cfgAt' = 1
  /\ values' = NoTag
  /\ cfgHash' \in SUBSET AllBits
  /\ UNCHANGED <<cfgList, cfgPc, found, seen>>

(* A lookup that finds nothing leaves values as they are.                   *)
LookUp ==
  /\ cfgAt > 0 /\ CfgStep("lookup", "eq")
  /\ found' = Best(LaneOf(cfgAt))
  /\ seen' = cfgList
  /\ values' = IF found' = NoTag THEN values ELSE found'
  /\ UNCHANGED <<cfgList, cfgHash, cfgAt>>

ConfigFails == /\ cfgAt' = 0 /\ cfgPc' = "lookup"
               /\ found' = NoTag /\ seen' = << >> /\ values' = NoTag

(* sbl_set_tx_eq() and sbl_set_gs() with the values found, if they are in   *)
(* range and the SerDes takes them, else with the defaults: if it does not  *)
(* take these either, sbl_serdes_config() fails.                            *)
ApplyEq ==
  /\ \/ CfgStep("eq", "gs") /\ seen' = << >> /\ UNCHANGED <<cfgAt, found, values>>
     \/ cfgPc = "eq" /\ ConfigFails
  /\ UNCHANGED <<cfgList, cfgHash>>

ApplyGs ==
  /\ \/ CfgStep("gs", "intr") /\ UNCHANGED <<cfgAt, found, seen, values>>
     \/ cfgPc = "gs" /\ ConfigFails
  /\ UNCHANGED <<cfgList, cfgHash>>

(* The interrupts of values; one that fails is only logged.                 *)
ApplyInterrupts ==
  /\ cfgAt > 0 /\ CfgStep("intr", "lookup")
  /\ cfgAt' = IF cfgAt = Len(ConfigLanes) THEN 0 ELSE cfgAt + 1
  /\ found' = NoTag /\ UNCHANGED seen
  /\ values' = IF cfgAt = Len(ConfigLanes) THEN NoTag ELSE values
  /\ UNCHANGED <<cfgList, cfgHash>>

ConfigNext ==
  \/ \E t \in Tags : AddConfig(t) \/ DelConfig(t)
  \/ ClearConfigs
  \/ ConfigBegin \/ LookUp \/ ApplyEq \/ ApplyGs \/ ApplyInterrupts

ConfigSpec == ConfigInit /\ [][ConfigNext]_cfgVars

-----------------------------------------------------------------------------
ConfigTypeOK ==
  /\ \A i \in 1 .. Len(cfgList) : cfgList[i] \in Tags
  /\ cfgAt \in 0 .. Len(ConfigLanes) /\ cfgPc \in {"lookup", "eq", "gs", "intr"}
  /\ {found, values} \subseteq Tags \cup {NoTag}

(* No two entries of the list have the same key, so that a deletion by key  *)
(* leaves none behind.                                                      *)
KeysAreUnique ==
  \A i, j \in 1 .. Len(cfgList) : SameKey(cfgList[i], cfgList[j]) => i = j

(* What a lookup chose was, among the entries of the list at that moment    *)
(* that match the lane, one that no other beats, and the first such: the    *)
(* order in which clients added them only breaks ties.  The rule is that of *)
(* the comment in sbl_get_serdes_config_values().                           *)
Rank(t) == 100000 * PortBits(t) + 1000 * LaneBits(t) + (128 - MaskBits(t))

LookupMostSpecific ==
  cfgPc = "eq" =>
    LET lane == LaneOf(cfgAt)
        M == {i \in 1 .. Len(seen) : Matches(seen[i], lane)}
        B == {i \in M : \A j \in M :
                Rank(seen[i]) <= Rank(seen[j])}
    IN IF M = {} THEN found = NoTag
       ELSE \E i \in B : (\A j \in B : i <= j) /\ found = seen[i]

(* "@serdes_mask: applicable serdes", sbl_serdes.c: the interrupts sent to  *)
(* a lane are those of a configuration that is for it.                      *)
InterruptsFit ==
  cfgPc = "intr" /\ values \in Tags => Matches(values, LaneOf(cfgAt))
=============================================================================
