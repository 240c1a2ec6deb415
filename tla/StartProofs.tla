----------------------------- MODULE StartProofs -----------------------------
(***************************************************************************)
(* The parts of a start, for every value of their constants: the list of    *)
(* SerDes configurations and the search in it, the pages of                 *)
(* autonegotiation, the stages of the PML with PCS, MAC and LLR, and the    *)
(* SerDes port operations, which implement the service the base link calls. *)
(*                                                                          *)
(* The library's induction theorems take an operator as a parameter, which  *)
(* the provers cannot instantiate.  What a pass over a list computes, for   *)
(* lists of any length, follows from the least-number principle instead:    *)
(* UpTo is derived from it, and the existence of the pass from UpTo.        *)
(***************************************************************************)
EXTENDS SerdesStart, Autoneg, PmlStart, SerdesConfig, SequenceTheorems,
        FiniteSetTheorems, WellFoundedInduction, TLAPS

(* A set of numbers that is not empty has a least one.                     *)
LEMMA LeastOf ==
  ASSUME NEW S, S \subseteq Nat, S # {}
  PROVE  \E x \in S : \A y \in S : x <= y
<1> DEFINE R == OpToRel(<, Nat)
<1>1. IsWellFoundedOn(R, Nat)
  BY NatLessThanWellFounded
<1>2. \A x, y \in Nat : x < y => <<x, y>> \in R
  BY DEF OpToRel
<1> HIDE DEF R
<1>3. PICK x \in S : \A y \in S : ~(<<y, x>> \in R)
  BY <1>1, WFMin
<1>4. \A y \in S : ~(y < x)
  BY <1>2, <1>3
<1> QED BY <1>4

(* Induction up to a bound: what holds of 0, and of a number when it holds *)
(* of the one before, holds of every number up to n.                       *)
LEMMA UpTo ==
  ASSUME NEW n \in Nat, NEW Good, 0 \in Good,
         \A i \in 1 .. n : i - 1 \in Good => i \in Good
  PROVE  0 .. n \subseteq Good
<1> DEFINE Bad == {i \in 0 .. n : i \notin Good}
<1> SUFFICES ASSUME Bad # {} PROVE FALSE
  OBVIOUS
<1>1. PICK m \in Bad : \A y \in Bad : m <= y
  <2>1. Bad \subseteq Nat
    OBVIOUS
  <2> HIDE DEF Bad
  <2> QED BY <2>1, LeastOf
<1>2. m \in 1 .. n /\ m - 1 \in 0 .. n /\ m \notin Good
  BY <1>1
<1>3. m - 1 \in Good
  BY <1>1, <1>2
<1> QED BY <1>2, <1>3

(* A pass of n steps over S, from base, and its results step by step.       *)
Steps(n, S, base, step) ==
  n \in Nat /\ base \in S /\ \A i \in 1 .. n, s \in S : step[<<i, s>>] \in S

PassResults(n, S, base, step, f) ==
  /\ f \in [0 .. n -> S] /\ f[0] = base
  /\ \A i \in 1 .. n : f[i] = step[<<i, f[i - 1]>>]

(* Such a pass over n elements exists, whatever each step does.            *)
LEMMA PassExists ==
  ASSUME NEW n, NEW S, NEW base, NEW step, Steps(n, S, base, step)
  PROVE  \E f : PassResults(n, S, base, step, f)
<1> USE DEF Steps
<1> DEFINE Pass(f, m) == /\ f \in [0 .. m -> S] /\ f[0] = base
                         /\ \A i \in 1 .. m : f[i] = step[<<i, f[i - 1]>>]
           Good == {m \in 0 .. n : \E f : Pass(f, m)}
<1>1. 0 \in Good
  <2> DEFINE g == [i \in 0 .. 0 |-> base]
  <2>1. g \in [0 .. 0 -> S] /\ g[0] = base
    OBVIOUS
  <2>2. \A i \in 1 .. 0 : g[i] = step[<<i, g[i - 1]>>]
    OBVIOUS
  <2>3. Pass(g, 0)
    BY <2>1, <2>2
  <2> HIDE DEF g, Pass
  <2> QED BY <2>3
<1>2. ASSUME NEW m \in 1 .. n, m - 1 \in Good PROVE m \in Good
  <2>1. PICK f : Pass(f, m - 1)
    BY <1>2
  <2> DEFINE g == [i \in 0 .. m |-> IF i = m THEN step[<<m, f[m - 1]>>] ELSE f[i]]
  <2>2. f[m - 1] \in S
    BY <2>1
  <2>3. \A i \in 0 .. m - 1 : g[i] = f[i] /\ f[i] \in S
    BY <2>1
  <2>4. g[m] = step[<<m, f[m - 1]>>] /\ g[m - 1] = f[m - 1]
    BY <2>3
  <2>5. g[m] \in S
    BY <2>2, <2>4
  <2>6. \A i \in 0 .. m : g[i] \in S
    <3>1. \A i \in 0 .. m : i = m \/ i \in 0 .. m - 1
      OBVIOUS
    <3> HIDE DEF g
    <3> QED BY <2>3, <2>5, <3>1
  <2>7. g \in [0 .. m -> S]
    BY <2>6
  <2>8. \A i \in 1 .. m - 1 : g[i] = step[<<i, g[i - 1]>>]
    <3>1. \A i \in 1 .. m - 1 : i \in 0 .. m - 1 /\ i - 1 \in 0 .. m - 1
      OBVIOUS
    <3> HIDE DEF g
    <3> QED BY <2>1, <2>3, <3>1
  <2>9. \A i \in 1 .. m : g[i] = step[<<i, g[i - 1]>>]
    <3>1. \A i \in 1 .. m : i = m \/ i \in 1 .. m - 1
      OBVIOUS
    <3> HIDE DEF g
    <3> QED BY <2>4, <2>8, <3>1
  <2>10. g[0] = base
    BY <2>1, <2>3
  <2>11. Pass(g, m)
    BY <2>7, <2>9, <2>10
  <2> HIDE DEF g, Pass
  <2> QED BY <2>11
<1>3. n \in Good
  <2> HIDE DEF Good
  <2> QED BY <1>1, <1>2, UpTo
<1> QED BY <1>3 DEF PassResults

-----------------------------------------------------------------------------
(* The list of configurations holds entries, by their tags.                *)
ListTyped == cfgList \in Seq(Tags)

(* What an entry weighs, from its numbers of port and lane bits and of     *)
(* bits of its media mask.                                                 *)
Weight(p, l, m) == 100000 * p + 1000 * l + (128 - m)

(* sbl_get_serdes_config_values() compares port bits, then lane bits, then *)
(* the bits of the mask, and the rank orders entries just as that          *)
(* comparison does, for masks of the widths they have.                     *)
LEMMA RankIs ==
  ASSUME NEW s \in Tags, NEW t \in Tags
  PROVE  /\ Rank(s) \in Nat /\ Rank(t) \in Nat
         /\ MoreSpecific(s, t) <=> Rank(s) < Rank(t)
<1>1. \A u \in Tags : /\ PortBits(u) \in 0 .. 64 /\ LaneBits(u) \in 0 .. 8
                      /\ MaskBits(u) \in 0 .. 128
  <2> SUFFICES ASSUME NEW u \in Tags
               PROVE  /\ PortBits(u) \in 0 .. 64 /\ LaneBits(u) \in 0 .. 8
                      /\ MaskBits(u) \in 0 .. 128
    OBVIOUS
  <2> DEFINE e == Entries[u]
  <2>1. /\ IsFiniteSet(e.ports) /\ Cardinality(e.ports) <= 64
        /\ IsFiniteSet(e.lanes) /\ Cardinality(e.lanes) <= 8
        /\ IsFiniteSet(e.mask) /\ Cardinality(e.mask) <= 2 * 64
    BY EntriesAssumption DEF Tags
  <2>2. /\ Cardinality(e.ports) \in Nat /\ Cardinality(e.lanes) \in Nat
        /\ Cardinality(e.mask) \in Nat
    BY <2>1, FS_CardinalityType
  <2> QED BY <2>1, <2>2 DEF PortBits, LaneBits, MaskBits
<1>2. PICK p \in 0 .. 64 : p = PortBits(s)
  BY <1>1
<1>3. PICK q \in 0 .. 64 : q = PortBits(t)
  BY <1>1
<1>4. PICK l \in 0 .. 8 : l = LaneBits(s)
  BY <1>1
<1>5. PICK k \in 0 .. 8 : k = LaneBits(t)
  BY <1>1
<1>6. PICK m \in 0 .. 128 : m = MaskBits(s)
  BY <1>1
<1>7. PICK j \in 0 .. 128 : j = MaskBits(t)
  BY <1>1
<1>8. Rank(s) = Weight(p, l, m)
  BY <1>2, <1>4, <1>6 DEF Rank, Weight
<1>9. Rank(t) = Weight(q, k, j)
  BY <1>3, <1>5, <1>7 DEF Rank, Weight
<1>10. MoreSpecific(s, t) <=>
         p < q \/ (p = q /\ l < k) \/ (p = q /\ l = k /\ m > j)
  BY <1>2, <1>3, <1>4, <1>5, <1>6, <1>7 DEF MoreSpecific
<1>11. /\ Weight(p, l, m) \in Nat /\ Weight(q, k, j) \in Nat
       /\ p < q \/ (p = q /\ l < k) \/ (p = q /\ l = k /\ m > j) <=>
          Weight(p, l, m) < Weight(q, k, j)
  <2> USE DEF Weight
  <2>1. CASE p < q
    BY <2>1
  <2>2. CASE p > q
    BY <2>2
  <2>3. CASE p = q /\ l < k
    BY <2>3
  <2>4. CASE p = q /\ l > k
    BY <2>4
  <2>5. CASE p = q /\ l = k
    BY <2>5
  <2> QED BY <2>1, <2>2, <2>3, <2>4, <2>5
<1> QED BY <1>8, <1>9, <1>10, <1>11

(* The search of sbl_get_serdes_config_values() is a pass over the list:   *)
(* after each entry the best is that entry, when it matches and none was   *)
(* found or it is more specific, or else the best so far.                  *)
LEMMA PassOfBest ==
  ASSUME ListTyped, NEW lane
  PROVE  \E b \in [0 .. Len(cfgList) -> Tags \cup {NoTag}] :
           /\ b[0] = NoTag /\ Best(lane) = b[Len(cfgList)]
           /\ \A i \in 1 .. Len(cfgList) :
                b[i] = IF /\ Matches(cfgList[i], lane)
                          /\ b[i - 1] = NoTag \/ MoreSpecific(cfgList[i], b[i - 1])
                       THEN cfgList[i] ELSE b[i - 1]
<1> DEFINE n == Len(cfgList)
           S == Tags \cup {NoTag}
           Better(i, s) == /\ Matches(cfgList[i], lane)
                           /\ s = NoTag \/ MoreSpecific(cfgList[i], s)
           step == [p \in (1 .. n) \X S |->
                      IF Better(p[1], p[2]) THEN cfgList[p[1]] ELSE p[2]]
           Def(b) == [i \in 0 .. n |-> IF i = 0 THEN NoTag
                        ELSE IF Better(i, b[i - 1]) THEN cfgList[i] ELSE b[i - 1]]
           best == CHOOSE b : b = Def(b)
<1>1. n \in Nat /\ \A i \in 1 .. n : cfgList[i] \in Tags
  BY DEF ListTyped
<1>2. \A i \in 1 .. n, s \in S :
        /\ step[<<i, s>>] = IF Better(i, s) THEN cfgList[i] ELSE s
        /\ step[<<i, s>>] \in S
  <2> HIDE DEF Better
  <2> QED BY <1>1
<1>3. PICK f : PassResults(n, S, NoTag, step, f)
  <2>1. Steps(n, S, NoTag, step)
    BY <1>1, <1>2 DEF Steps
  <2> HIDE DEF n, step, S
  <2> QED BY <2>1, PassExists
<1>4. /\ f \in [0 .. n -> S] /\ f[0] = NoTag
      /\ \A i \in 1 .. n : f[i] = step[<<i, f[i - 1]>>]
  BY <1>3 DEF PassResults
<1> HIDE DEF step, Better
<1>5. \A i \in 0 .. n : f[i] = IF i = 0 THEN NoTag
        ELSE IF Better(i, f[i - 1]) THEN cfgList[i] ELSE f[i - 1]
  <2> SUFFICES ASSUME NEW i \in 0 .. n, i # 0
               PROVE  f[i] = IF Better(i, f[i - 1]) THEN cfgList[i] ELSE f[i - 1]
    BY <1>4
  <2>1. i \in 1 .. n /\ f[i - 1] \in S
    BY <1>1, <1>4
  <2> QED BY <2>1, <1>2, <1>4
<1>6. f = Def(f)
  BY <1>4, <1>5
<1>7. best = Def(best)
  BY <1>6
<1>8. Best(lane) = best[n]
  BY DEF Best, Better
<1> HIDE DEF best
<1>9. /\ best[0] = NoTag
      /\ \A i \in 1 .. n : best[i] = IF Better(i, best[i - 1]) THEN cfgList[i]
                                     ELSE best[i - 1]
  BY <1>1, <1>7
<1>10. \A i \in 0 .. n : best[i] \in S
  <2> DEFINE Good == {i \in 0 .. n : best[i] \in S}
  <2>1. 0 \in Good
    BY <1>1, <1>9
  <2>2. \A i \in 1 .. n : i - 1 \in Good => i \in Good
    BY <1>1, <1>9
  <2> HIDE DEF Good
  <2>3. 0 .. n \subseteq Good
    BY <1>1, <2>1, <2>2, UpTo
  <2> QED BY <2>3 DEF Good
<1>11. best \in [0 .. n -> S]
  BY <1>7, <1>10
<1> QED BY <1>8, <1>9, <1>11 DEF Better

(* The best of the first i entries: the first of those that match and that  *)
(* no other that matches beats.                                             *)
LEMMA BestIsFirst ==
  ASSUME ListTyped, NEW lane
  PROVE  LET M == {i \in 1 .. Len(cfgList) : Matches(cfgList[i], lane)}
             B == {i \in M : \A j \in M : Rank(cfgList[i]) <= Rank(cfgList[j])}
         IN IF M = {} THEN Best(lane) = NoTag
            ELSE \E i \in B : (\A j \in B : i <= j) /\ Best(lane) = cfgList[i]
<1> DEFINE n == Len(cfgList)
           Met(i) == {k \in 1 .. i : Matches(cfgList[k], lane)}
           First(i, k) ==
             \A j \in Met(i) : /\ Rank(cfgList[k]) <= Rank(cfgList[j])
                               /\ j < k => Rank(cfgList[k]) < Rank(cfgList[j])
<1>1. n \in Nat /\ \A i \in 1 .. n : cfgList[i] \in Tags /\ cfgList[i] # NoTag
  BY EntriesAssumption DEF ListTyped, Tags, NoTag
<1>2. PICK b \in [0 .. n -> Tags \cup {NoTag}] :
        /\ b[0] = NoTag /\ Best(lane) = b[n]
        /\ \A i \in 1 .. n :
             b[i] = IF /\ Matches(cfgList[i], lane)
                       /\ b[i - 1] = NoTag \/ MoreSpecific(cfgList[i], b[i - 1])
                    THEN cfgList[i] ELSE b[i - 1]
  BY PassOfBest
<1> DEFINE Holds(i) ==
      /\ Met(i) = {} => b[i] = NoTag
      /\ Met(i) # {} => \E k \in Met(i) : b[i] = cfgList[k] /\ First(i, k)
           Good == {i \in 0 .. n : Holds(i)}
<1>3. 0 \in Good
  <2>1. Met(0) = {}
    OBVIOUS
  <2> QED BY <1>1, <1>2, <2>1
<1>4. \A i \in 1 .. n, k \in 1 .. n :
        /\ Rank(cfgList[i]) \in Nat /\ Rank(cfgList[k]) \in Nat
        /\ MoreSpecific(cfgList[i], cfgList[k]) <=> Rank(cfgList[i]) < Rank(cfgList[k])
  BY <1>1, RankIs
<1>5. ASSUME NEW i \in 1 .. n, i - 1 \in Good PROVE i \in Good
  <2>1. Holds(i - 1) /\ i \in 0 .. n /\ i - 1 \in 0 .. n /\ i - 1 \in Nat
    BY <1>1, <1>5
  <2>2. CASE ~Matches(cfgList[i], lane)
    <3>1. Met(i) = Met(i - 1)
      BY <1>1, <2>2
    <3>2. b[i] = b[i - 1]
      BY <1>2, <2>2
    <3>3. Holds(i)
      BY <2>1, <3>1, <3>2
    <3> QED BY <2>1, <3>3
  <2>3. CASE Matches(cfgList[i], lane)
    <3>1. Met(i) = Met(i - 1) \cup {i}
      BY <1>1, <2>3
    <3>2. i \in Met(i)
      BY <3>1
    <3>3. CASE Met(i - 1) = {}
      <4>1. b[i - 1] = NoTag
        BY <2>1, <3>3
      <4>2. b[i] = cfgList[i]
        BY <1>2, <2>3, <4>1
      <4>3. Met(i) = {i}
        BY <3>1, <3>3
      <4>4. First(i, i)
        BY <1>1, <1>4, <4>3
      <4> HIDE DEF Met, First
      <4>5. Holds(i)
        BY <3>2, <4>2, <4>4
      <4> QED BY <2>1, <4>5
    <3>4. CASE Met(i - 1) # {}
      <4>1. PICK k \in Met(i - 1) : b[i - 1] = cfgList[k] /\ First(i - 1, k)
        BY <2>1, <3>4
      <4>2. k \in 1 .. n /\ k < i /\ k \in Met(i)
        BY <1>1, <3>1, <4>1
      <4>3. CASE Rank(cfgList[i]) < Rank(cfgList[k])
        <5>1. b[i] = cfgList[i]
          BY <1>2, <1>4, <2>3, <4>1, <4>2, <4>3
        <5>2. \A j \in Met(i) : j \in 1 .. n /\ (j = i \/ j \in Met(i - 1))
          BY <1>1, <3>1
        <5>3. \A j \in Met(i - 1) : Rank(cfgList[k]) <= Rank(cfgList[j])
          BY <4>1
        <5>4. First(i, i)
          BY <1>4, <4>2, <4>3, <5>2, <5>3
        <5> HIDE DEF Met, First
        <5>5. Holds(i)
          BY <3>2, <5>1, <5>4
        <5> QED BY <2>1, <5>5
      <4>4. CASE ~(Rank(cfgList[i]) < Rank(cfgList[k]))
        <5>1. b[i] = cfgList[k]
          BY <1>1, <1>2, <1>4, <2>3, <4>1, <4>2, <4>4
        <5>2. \A j \in Met(i) : j \in 1 .. n /\ (j = i \/ j \in Met(i - 1))
          BY <1>1, <3>1
        <5>3. First(i, k)
          BY <1>4, <4>1, <4>2, <4>4, <5>2
        <5> HIDE DEF Met, First
        <5>4. Holds(i)
          BY <4>2, <5>1, <5>3
        <5> QED BY <2>1, <5>4
      <4> QED BY <4>3, <4>4
    <3> QED BY <3>3, <3>4
  <2> QED BY <2>2, <2>3
<1>6. Holds(n)
  <2>1. n \in Nat /\ n \in 0 .. n
    BY <1>1
  <2> HIDE DEF Good, n
  <2>2. \A i \in 1 .. n : i - 1 \in Good => i \in Good
    BY <1>5
  <2>3. n \in Good
    BY <1>3, <2>1, <2>2, UpTo
  <2> QED BY <2>3 DEF Good
<1> DEFINE M == {i \in 1 .. Len(cfgList) : Matches(cfgList[i], lane)}
           B == {i \in M : \A j \in M : Rank(cfgList[i]) <= Rank(cfgList[j])}
<1>7. M = Met(n)
  OBVIOUS
<1>8. CASE M = {}
  BY <1>2, <1>6, <1>7, <1>8
<1>9. CASE M # {}
  <2>1. PICK k \in M : b[n] = cfgList[k] /\ First(n, k)
    BY <1>6, <1>7, <1>9
  <2>2. k \in B
    BY <2>1
  <2>3. \A j \in B : k <= j
    <3> SUFFICES ASSUME NEW j \in B PROVE k <= j
      OBVIOUS
    <3>1. j \in 1 .. n /\ k \in 1 .. n /\ j \in M
      BY <2>1
    <3>2. Rank(cfgList[j]) <= Rank(cfgList[k])
      BY <2>1
    <3>3. j < k => Rank(cfgList[k]) < Rank(cfgList[j])
      BY <2>1, <3>1
    <3> QED BY <1>1, <1>4, <3>1, <3>2, <3>3
  <2> QED BY <1>2, <1>9, <2>1, <2>2, <2>3
<1> HIDE DEF M, B
<1> QED BY <1>8, <1>9 DEF M, B

(* sbl_serdes_clear_all_configs() is a pass over the list that drops an    *)
(* entry or keeps it behind those it kept.                                 *)
LEMMA PassOfClear ==
  ASSUME ListTyped, NEW clrDefault \in BOOLEAN
  PROVE  \E f \in [0 .. Len(cfgList) -> Seq(Tags)] :
           /\ f[0] = << >> /\ Cleared(clrDefault) = f[Len(cfgList)]
           /\ \A i \in 1 .. Len(cfgList) :
                f[i] = f[i - 1] \/ f[i] = Append(f[i - 1], cfgList[i])
<1> DEFINE n == Len(cfgList)
           S == Seq(Tags)
           Drops(i) == ~Entries[cfgList[i]].isDefault \/ clrDefault
           step == [p \in (1 .. n) \X S |->
                      IF Drops(p[1]) THEN p[2] ELSE Append(p[2], cfgList[p[1]])]
           Def(b) == [i \in 0 .. n |-> IF i = 0 THEN << >>
                        ELSE IF Drops(i) THEN b[i - 1]
                        ELSE Append(b[i - 1], cfgList[i])]
           left == CHOOSE b : b = Def(b)
<1>1. n \in Nat /\ \A i \in 1 .. n : cfgList[i] \in Tags
  BY DEF ListTyped
<1>2. \A s \in S, t \in Tags : Append(s, t) \in S
  OBVIOUS
<1> HIDE DEF S, Drops
<1>3. \A i \in 1 .. n, s \in S :
        /\ step[<<i, s>>] = IF Drops(i) THEN s ELSE Append(s, cfgList[i])
        /\ step[<<i, s>>] \in S
  BY <1>1, <1>2
<1>4. << >> \in S
  BY DEF S
<1>5. PICK f : PassResults(n, S, << >>, step, f)
  <2>1. Steps(n, S, << >>, step)
    BY <1>1, <1>3, <1>4 DEF Steps
  <2> HIDE DEF n, step
  <2> QED BY <2>1, PassExists
<1>6. /\ f \in [0 .. n -> S] /\ f[0] = << >>
      /\ \A i \in 1 .. n : f[i] = step[<<i, f[i - 1]>>]
  BY <1>5 DEF PassResults
<1> HIDE DEF step
<1>7. \A i \in 0 .. n : f[i] = IF i = 0 THEN << >>
        ELSE IF Drops(i) THEN f[i - 1] ELSE Append(f[i - 1], cfgList[i])
  <2> SUFFICES ASSUME NEW i \in 0 .. n, i # 0
               PROVE  f[i] = IF Drops(i) THEN f[i - 1]
                             ELSE Append(f[i - 1], cfgList[i])
    BY <1>6
  <2>1. i \in 1 .. n /\ f[i - 1] \in S
    BY <1>1, <1>6
  <2> QED BY <2>1, <1>3, <1>6
<1>8. f = Def(f)
  BY <1>6, <1>7
<1>9. left = Def(left)
  BY <1>8
<1>10. Cleared(clrDefault) = left[n]
  BY DEF Cleared, Drops
<1> HIDE DEF left
<1>11. /\ left[0] = << >>
       /\ \A i \in 1 .. n : left[i] = IF Drops(i) THEN left[i - 1]
                                      ELSE Append(left[i - 1], cfgList[i])
  <2>1. \A i \in 0 .. n : left[i] = IF i = 0 THEN << >>
          ELSE IF Drops(i) THEN left[i - 1] ELSE Append(left[i - 1], cfgList[i])
    <3>1. left = [i \in 0 .. n |-> IF i = 0 THEN << >>
                    ELSE IF Drops(i) THEN left[i - 1]
                    ELSE Append(left[i - 1], cfgList[i])]
      BY <1>9
    <3> HIDE DEF n
    <3> QED BY ONLY <3>1, Zenon
  <2>2. 0 \in 0 .. n /\ \A i \in 1 .. n : i \in 0 .. n /\ i # 0
    BY <1>1
  <2> HIDE DEF n
  <2> QED BY <2>1, <2>2, Zenon
<1>12. \A i \in 0 .. n : left[i] \in S
  <2> DEFINE Good == {i \in 0 .. n : left[i] \in S}
  <2>1. 0 \in Good
    BY <1>1, <1>4, <1>11
  <2>2. \A i \in 1 .. n : i - 1 \in Good => i \in Good
    BY <1>1, <1>2, <1>11
  <2> HIDE DEF Good
  <2>3. 0 .. n \subseteq Good
    BY <1>1, <2>1, <2>2, UpTo
  <2> QED BY <2>3 DEF Good
<1>13. left \in [0 .. n -> S]
  BY <1>9, <1>12
<1>14. \A i \in 1 .. n : left[i] = left[i - 1]
                        \/ left[i] = Append(left[i - 1], cfgList[i])
  BY <1>11
<1> QED BY <1>10, <1>11, <1>13, <1>14 DEF S

(* A list that is cleared keeps a part of its entries, in order, and so     *)
(* their keys stay unique.                                                  *)
LEMMA ClearedIsUnique ==
  ASSUME ListTyped, KeysAreUnique, NEW clrDefault \in BOOLEAN
  PROVE  LET new == Cleared(clrDefault) IN
           /\ new \in Seq(Tags)
           /\ \A i, j \in 1 .. Len(new) : SameKey(new[i], new[j]) => i = j
<1> DEFINE n == Len(cfgList)
<1>1. n \in Nat
  BY DEF ListTyped
<1>2. PICK f \in [0 .. n -> Seq(Tags)] :
        /\ f[0] = << >> /\ Cleared(clrDefault) = f[n]
        /\ \A i \in 1 .. n : f[i] = f[i - 1] \/ f[i] = Append(f[i - 1], cfgList[i])
  BY PassOfClear
<1> DEFINE Kept(i) ==
             /\ \A a \in 1 .. Len(f[i]) : \E k \in 1 .. i : f[i][a] = cfgList[k]
             /\ \A a, c \in 1 .. Len(f[i]) : SameKey(f[i][a], f[i][c]) => a = c
           Good == {i \in 0 .. n : Kept(i)}
<1>3. 0 \in Good
  BY <1>1, <1>2
<1>4. ASSUME NEW i \in 1 .. n, i - 1 \in Good PROVE i \in Good
  <2>1. /\ Kept(i - 1) /\ i \in 0 .. n /\ i - 1 \in 0 .. n
        /\ f[i - 1] \in Seq(Tags) /\ f[i] \in Seq(Tags)
    <3>1. i \in 0 .. n /\ i - 1 \in 0 .. n
      BY <1>1
    <3>2. Kept(i - 1)
      BY <1>4
    <3>3. f[i - 1] \in Seq(Tags) /\ f[i] \in Seq(Tags)
      BY <1>2, <3>1
    <3> HIDE DEF Kept
    <3> QED BY <3>1, <3>2, <3>3
  <2> DEFINE old == f[i - 1]
             new == f[i]
  <2>2. CASE new = old
    <3>1. \A k \in 1 .. i - 1 : k \in 1 .. i
      BY <1>1
    <3>2. Kept(i)
      BY <2>1, <2>2, <3>1
    <3> QED BY <2>1, <3>2
  <2>3. CASE new = Append(old, cfgList[i])
    <3>1. /\ Len(new) = Len(old) + 1 /\ Len(old) \in Nat
          /\ new[Len(old) + 1] = cfgList[i]
          /\ \A a \in 1 .. Len(old) : new[a] = old[a]
      BY <2>1, <2>3
    <3>2. \A a \in 1 .. Len(new) : a = Len(old) + 1 \/ a \in 1 .. Len(old)
      BY <3>1
    <3>3. \A k \in 1 .. i - 1 : k \in 1 .. i /\ k \in 1 .. n /\ k # i
      BY <1>1
    <3>4. \A a \in 1 .. Len(old) : \E k \in 1 .. i - 1 : old[a] = cfgList[k]
      BY <2>1
    <3>5. \A a, c \in 1 .. Len(old) : SameKey(old[a], old[c]) => a = c
      BY <2>1
    <3> HIDE DEF old, new
    <3>6. \A a \in 1 .. Len(old) :
            ~SameKey(old[a], cfgList[i]) /\ ~SameKey(cfgList[i], old[a])
      BY <3>3, <3>4 DEF KeysAreUnique
    <3>7. \A a \in 1 .. Len(new) : \E k \in 1 .. i : new[a] = cfgList[k]
      BY <3>1, <3>2, <3>3, <3>4
    <3>8. \A a, c \in 1 .. Len(new) : SameKey(new[a], new[c]) => a = c
      BY <3>1, <3>2, <3>5, <3>6
    <3>9. Kept(i)
      BY <3>7, <3>8 DEF new
    <3> QED BY <2>1, <3>9
  <2> QED BY <1>2, <2>2, <2>3
<1>5. Kept(n) /\ f[n] \in Seq(Tags)
  <2>1. n \in Nat /\ n \in 0 .. n /\ f[n] \in Seq(Tags)
    BY <1>1, <1>2
  <2> HIDE DEF Good, n
  <2>2. \A i \in 1 .. n : i - 1 \in Good => i \in Good
    BY <1>4
  <2>3. n \in Good
    BY <1>3, <2>1, <2>2, UpTo
  <2> QED BY <2>1, <2>3 DEF Good
<1> QED BY <1>2, <1>5

(* The invariant of the configurations. An operation looks one up before   *)
(* its first port serdes step, and what it found stays the one it was      *)
(* entitled to when it looked.                                             *)
ConfigInv ==
  /\ ListTyped /\ KeysAreUnique
  /\ cfgAt = 0 => cfgPc = "lookup"
  /\ cfgAt \in Nat
  /\ LookupMostSpecific

(* sbl_serdes_add_config() refuses a key the list has, and so adds none    *)
(* twice.                                                                  *)
LEMMA AddKeepsUnique ==
  ASSUME ListTyped, KeysAreUnique, NEW t \in Tags, AddConfig(t)
  PROVE  ListTyped' /\ KeysAreUnique'
<1> DEFINE new == <<t>> \o cfgList
<1>1. /\ new \in Seq(Tags) /\ Len(new) = Len(cfgList) + 1
      /\ Len(cfgList) \in Nat /\ new[1] = t
      /\ \A i \in 2 .. Len(new) : i - 1 \in 1 .. Len(cfgList)
                                  /\ new[i] = cfgList[i - 1]
  BY ConcatProperties DEF ListTyped
<1>2. cfgList' = new
  BY DEF AddConfig
<1>3. \A i \in 1 .. Len(cfgList) : ~SameKey(cfgList[i], t) /\ ~SameKey(t, cfgList[i])
  BY DEF AddConfig, SameKey
<1> HIDE DEF new
<1>4. \A i \in 1 .. Len(new) : i = 1 \/ i \in 2 .. Len(new)
  BY <1>1
<1>5. \A i, j \in 2 .. Len(new) : SameKey(new[i], new[j]) => i = j
  <2> SUFFICES ASSUME NEW i \in 2 .. Len(new), NEW j \in 2 .. Len(new),
                      SameKey(new[i], new[j])
               PROVE  i = j
    OBVIOUS
  <2>1. /\ i - 1 \in 1 .. Len(cfgList) /\ j - 1 \in 1 .. Len(cfgList)
        /\ SameKey(cfgList[i - 1], cfgList[j - 1])
    BY <1>1
  <2>2. i - 1 = j - 1
    BY <2>1 DEF KeysAreUnique
  <2> QED BY <1>1, <2>2
<1>6. \A i \in 2 .. Len(new) : ~SameKey(new[i], new[1]) /\ ~SameKey(new[1], new[i])
  BY <1>1, <1>3
<1>7. \A i, j \in 1 .. Len(new) : SameKey(new[i], new[j]) => i = j
  BY <1>4, <1>5, <1>6
<1> QED BY <1>1, <1>2, <1>7 DEF ListTyped, KeysAreUnique

(* sbl_serdes_del_config() takes one entry out and leaves the keys of the  *)
(* others apart.                                                           *)
LEMMA DelKeepsUnique ==
  ASSUME ListTyped, KeysAreUnique, NEW t \in Tags, DelConfig(t)
  PROVE  ListTyped' /\ KeysAreUnique'
<1>1. PICK k \in 1 .. Len(cfgList) : cfgList' = RemoveAt(cfgList, k)
  BY DEF DelConfig
<1> DEFINE n == Len(cfgList)
           front == SubSeq(cfgList, 1, k - 1)
           back == SubSeq(cfgList, k + 1, n)
           new == front \o back
           at(i) == IF i < k THEN i ELSE i + 1
<1>2. n \in Nat /\ k \in 1 .. n /\ cfgList \in Seq(Tags)
  BY DEF ListTyped
<1>3. /\ front \in Seq(Tags) /\ Len(front) = k - 1
      /\ \A i \in 1 .. k - 1 : front[i] = cfgList[i]
  BY <1>2, SubSeqProperties
<1>4. /\ back \in Seq(Tags) /\ Len(back) = n - k
      /\ \A i \in 1 .. n - k : back[i] = cfgList[k + i]
  BY <1>2, SubSeqProperties
<1>5. /\ new \in Seq(Tags) /\ Len(new) = n - 1
      /\ \A i \in 1 .. n - 1 : at(i) \in 1 .. n /\ new[i] = cfgList[at(i)]
  <2> HIDE DEF front, back
  <2>1. /\ new \in Seq(Tags) /\ Len(new) = (k - 1) + (n - k)
        /\ \A i \in 1 .. (k - 1) + (n - k) :
             new[i] = IF i <= k - 1 THEN front[i] ELSE back[i - (k - 1)]
    BY <1>3, <1>4, ConcatProperties
  <2> HIDE DEF new, n
  <2>2. (k - 1) + (n - k) = n - 1
    BY <1>2
  <2>3. ASSUME NEW i \in 1 .. n - 1 PROVE at(i) \in 1 .. n /\ new[i] = cfgList[at(i)]
    <3>1. CASE i < k
      <4>1. i \in 1 .. k - 1 /\ i <= k - 1 /\ i \in 1 .. n
        BY <1>2, <2>3, <3>1
      <4> QED BY <1>3, <2>1, <2>2, <3>1, <4>1
    <3>2. CASE ~(i < k)
      <4>1. /\ i - (k - 1) \in 1 .. n - k /\ ~(i <= k - 1) /\ i + 1 \in 1 .. n
            /\ k + (i - (k - 1)) = i + 1
        BY <1>2, <2>3, <3>2
      <4> QED BY <1>4, <2>1, <2>2, <3>2, <4>1
    <3> QED BY <3>1, <3>2
  <2> QED BY <2>1, <2>2, <2>3
<1>6. \A i, j \in 1 .. n - 1 : at(i) = at(j) => i = j
  BY <1>2
<1> HIDE DEF at
<1>7. \A i, j \in 1 .. n - 1 :
        SameKey(cfgList[at(i)], cfgList[at(j)]) => at(i) = at(j)
  BY <1>5 DEF KeysAreUnique
<1>8. cfgList' = new
  BY <1>1 DEF RemoveAt
<1> HIDE DEF new
<1>9. \A i, j \in 1 .. Len(new) : SameKey(new[i], new[j]) => i = j
  BY <1>5, <1>6, <1>7
<1> QED BY <1>5, <1>8, <1>9 DEF ListTyped, KeysAreUnique

(* sbl_serdes_clear_all_configs() leaves a list of different keys.         *)
LEMMA ClearKeepsUnique ==
  ASSUME ListTyped, KeysAreUnique, ClearConfigs
  PROVE  ListTyped' /\ KeysAreUnique'
<1>1. PICK clrDefault \in BOOLEAN : cfgList' = Cleared(clrDefault)
  BY DEF ClearConfigs
<1> DEFINE new == Cleared(clrDefault)
<1>2. /\ new \in Seq(Tags)
      /\ \A i, j \in 1 .. Len(new) : SameKey(new[i], new[j]) => i = j
  BY ClearedIsUnique
<1> HIDE DEF new
<1> QED BY <1>1, <1>2 DEF ListTyped, KeysAreUnique, new

(* Every step of a client or of a start keeps the invariant of the         *)
(* configurations.                                                         *)
LEMMA ConfigNextInv == ConfigInv /\ [ConfigNext]_cfgVars => ConfigInv'
<1> SUFFICES ASSUME ConfigInv, [ConfigNext]_cfgVars PROVE ConfigInv'
  OBVIOUS
<1>1. ASSUME UNCHANGED <<cfgHash, cfgAt, cfgPc, found, seen>>
      PROVE  /\ LookupMostSpecific' /\ cfgAt' \in Nat
             /\ cfgAt' = 0 => cfgPc' = "lookup"
  BY <1>1 DEF ConfigInv, LookupMostSpecific, Matches, LaneOf
<1>2. ASSUME UNCHANGED cfgList
      PROVE  ListTyped' /\ KeysAreUnique'
  BY <1>2 DEF ConfigInv, ListTyped, KeysAreUnique
<1>3. ASSUME NEW t \in Tags, AddConfig(t) \/ DelConfig(t) \/ ClearConfigs
      PROVE  ConfigInv'
  <2>1. ListTyped' /\ KeysAreUnique'
    BY <1>3, AddKeepsUnique, DelKeepsUnique, ClearKeepsUnique DEF ConfigInv
  <2> QED BY <1>1, <1>3, <2>1 DEF ConfigInv, AddConfig, DelConfig, ClearConfigs,
             ListOnly
<1>4. CASE ClearConfigs
  <2>1. ListTyped' /\ KeysAreUnique'
    BY <1>4, ClearKeepsUnique DEF ConfigInv
  <2> QED BY <1>1, <1>4, <2>1 DEF ConfigInv, ClearConfigs, ListOnly
<1>5. CASE ConfigBegin
  BY <1>2, <1>5 DEF ConfigInv, ConfigBegin, LookupMostSpecific
<1>6. CASE LookUp
  <2>1. ListTyped' /\ KeysAreUnique' /\ cfgAt' \in Nat /\ cfgAt' # 0
    BY <1>2, <1>6 DEF ConfigInv, LookUp
  <2> DEFINE lane == LaneOf(cfgAt)
  <2>2. /\ seen' = cfgList /\ found' = Best(lane) /\ cfgAt' = cfgAt
        /\ cfgHash' = cfgHash
    BY <1>6 DEF LookUp
  <2>3. LET M == {i \in 1 .. Len(cfgList) : Matches(cfgList[i], lane)}
            B == {i \in M : \A j \in M : Rank(cfgList[i]) <= Rank(cfgList[j])}
        IN IF M = {} THEN Best(lane) = NoTag
           ELSE \E i \in B : (\A j \in B : i <= j) /\ Best(lane) = cfgList[i]
    BY BestIsFirst DEF ConfigInv
  <2>4. LookupMostSpecific'
    BY <2>2, <2>3 DEF LookupMostSpecific, Matches, LaneOf
  <2> QED BY <2>1, <2>4 DEF ConfigInv
<1>7. CASE ApplyEq \/ ApplyGs \/ ApplyInterrupts
  <2>1. cfgPc' # "eq" /\ cfgList' = cfgList
    BY <1>7 DEF ApplyEq, ApplyGs, ApplyInterrupts, CfgStep, ConfigFails
  <2>2. cfgAt' \in Nat /\ (cfgAt' = 0 => cfgPc' = "lookup")
    BY <1>7 DEF ApplyEq, ApplyGs, ApplyInterrupts, CfgStep, ConfigFails, ConfigInv
  <2> QED BY <1>2, <2>1, <2>2 DEF ConfigInv, LookupMostSpecific
<1>8. CASE UNCHANGED cfgVars
  BY <1>1, <1>2, <1>8 DEF ConfigInv, cfgVars
<1> QED BY <1>3, <1>4, <1>5, <1>6, <1>7, <1>8 DEF ConfigNext

(* The invariant of the configurations holds in every reachable state.     *)
THEOREM ConfigHolds == ConfigSpec => []ConfigInv
<1>1. ConfigInit => ConfigInv
  BY DEF ConfigInit, ConfigInv, ListTyped, KeysAreUnique, LookupMostSpecific
<1> QED BY <1>1, ConfigNextInv, PTL DEF ConfigSpec

(* No two entries of the list have the same key, whatever additions,       *)
(* deletions and clearings clients make (KeysAreUnique), for a list of any *)
(* length: sbl_serdes_add_config() looks for the key under the lock it     *)
(* adds under, and the other two only take entries out.                    *)
THEOREM NoKeyTwice == ConfigSpec => []KeysAreUnique
<1>1. ConfigInv => KeysAreUnique
  BY DEF ConfigInv
<1> QED BY <1>1, ConfigHolds, PTL

(* A lookup finds the most specific of the entries that match the lane,    *)
(* the first such of the list, and nothing only when none matches          *)
(* (LookupMostSpecific), for a list of any length and any entries of the   *)
(* width the masks have: the one pass of sbl_get_serdes_config_values()    *)
(* computes the choice that the property states over the whole list.       *)
THEOREM MostSpecificIsChosen == ConfigSpec => []LookupMostSpecific
<1>1. ConfigInv => LookupMostSpecific
  BY DEF ConfigInv
<1> QED BY <1>1, ConfigHolds, PTL

(* The list, the lane and what was found keep their types                  *)
(* (ConfigTypeOK), for a list of any length and any lanes.                 *)
THEOREM ConfigTypes == ConfigSpec => []ConfigTypeOK
<1> DEFINE I == /\ cfgAt \in 0 .. Len(ConfigLanes)
                /\ cfgPc \in {"lookup", "eq", "gs", "intr"}
                /\ {found, values} \subseteq Tags \cup {NoTag}
<1>0. Len(ConfigLanes) \in Nat \ {0}
  BY EntriesAssumption
<1>1. ConfigInit => I
  BY <1>0 DEF ConfigInit
<1>2. ConfigInv /\ I /\ [ConfigNext]_cfgVars => I'
  <2> SUFFICES ASSUME ConfigInv, I, [ConfigNext]_cfgVars PROVE I'
    OBVIOUS
  <2>1. CASE \/ \E t \in Tags : AddConfig(t) \/ DelConfig(t)
             \/ ClearConfigs \/ UNCHANGED cfgVars
    BY <2>1 DEF AddConfig, DelConfig, ClearConfigs, ListOnly, cfgVars
  <2>2. CASE ConfigBegin
    BY <1>0, <2>2 DEF ConfigBegin
  <2>3. CASE LookUp
    <3>1. Best(LaneOf(cfgAt)) \in Tags \cup {NoTag}
      <4> DEFINE M == {i \in 1 .. Len(cfgList) :
                         Matches(cfgList[i], LaneOf(cfgAt))}
      <4>1. \/ Best(LaneOf(cfgAt)) = NoTag
            \/ \E i \in M : Best(LaneOf(cfgAt)) = cfgList[i]
        BY BestIsFirst DEF ConfigInv
      <4>2. \A i \in M : cfgList[i] \in Tags
        BY DEF ConfigInv, ListTyped
      <4> HIDE DEF M
      <4> QED BY <4>1, <4>2
    <3>2. found' \in Tags \cup {NoTag} /\ values' \in {values, found'}
      BY <2>3, <3>1 DEF LookUp
    <3> QED BY <2>3, <3>2 DEF LookUp, CfgStep
  <2>4. CASE ApplyEq \/ ApplyGs \/ ApplyInterrupts
    BY <1>0, <2>4 DEF ApplyEq, ApplyGs, ApplyInterrupts, CfgStep, ConfigFails
  <2> QED BY <2>1, <2>2, <2>3, <2>4 DEF ConfigNext
<1>3. ConfigInv /\ I => ConfigTypeOK
  BY DEF ConfigInv, ListTyped, ConfigTypeOK
<1> HIDE DEF I
<1> QED BY <1>1, <1>2, <1>3, ConfigHolds, PTL DEF ConfigSpec

-----------------------------------------------------------------------------
(* What is proved of the pages of autonegotiation. First the types: the    *)
(* buffer of received pages, its counters, and the registers of the link   *)
(* partner's pages.                                                        *)
Page == [np : BOOLEAN, no : Nat, try : Nat]
PagesTyped ==
  /\ anRx \in [0 .. MaxRxPages - 1 -> Page]
  /\ anCount \in Nat /\ anNo \in Nat /\ anTry \in Nat
  /\ hwPage \in Nat /\ hwRestarts \in Nat

(* The steps of the base page and of the next pages, and those at which    *)
(* the pages received are still of use: an exchange that fails with EPROTO *)
(* may be matched on them.                                                 *)
BaseSteps == {"sendBase", "waitBase", "gotBase"}
NextSteps == {"next", "sendNext", "waitNext", "pollNext", "gotNext"}
PagesKept == \/ anPc \in NextSteps \cup {"match"}
             \/ anPc = "failed" /\ anErr = "EPROTO"

(* The pages received are of this try, and in the order the partner sent   *)
(* them unless the hardware started over.                                  *)
PagesOfTry == \A i \in 0 .. anCount - 1 : anRx[i].try = anTry
PagesRise  ==
  hwRestarts = 0 =>
    \A i, j \in 0 .. anCount - 1 : i < j => anRx[i].no < anRx[j].no

(* Pages are stored behind one another: the count is at most the number of *)
(* the next page, and behind the last page that is stored none says that   *)
(* another follows.                                                        *)
NoGaps == /\ anNo \in 1 .. MaxRxPages - 1 /\ anCount \in 1 .. anNo
          /\ \A i \in anCount .. MaxRxPages - 1 : anRx[i].np = FALSE

(* The number of the last page stored.  While next pages are exchanged the *)
(* registers hold a later one, or an exchange is under way that brings a   *)
(* later one.                                                              *)
LastNo == anRx[anCount - 1].no

RegistersAhead ==
  /\ LastNo <= hwPage
  /\ anPc \in {"next", "sendNext"} /\ hwState = "good" => LastNo < hwPage
  /\ anPc \in {"waitNext", "pollNext", "gotNext"} =>
       hwState = "busy" \/ LastNo < hwPage

(* The invariant of the pages. It follows them from the base page, for     *)
(* which the buffer is cleared, through the next pages to the match.       *)
PageInv ==
  /\ anPc \in BaseSteps => anRx = NoPages /\ anCount = 0
  /\ anPc \in NextSteps => NoGaps
  /\ PagesKept => PagesOfTry /\ PagesRise
  /\ anPc \in BaseSteps \ {"sendBase"} \/ anPc \in NextSteps =>
       hwState \in {"busy", "ack", "good"}
  /\ anPc \in NextSteps /\ hwRestarts = 0 => RegistersAhead

(* The cleared buffer is a buffer, and no page of it says that another     *)
(* follows.                                                                *)
LEMMA NoPagesTyped ==
  /\ NoPages \in [0 .. MaxRxPages - 1 -> Page]
  /\ \A i \in 0 .. MaxRxPages - 1 : NoPages[i].np = FALSE
  BY DEF NoPages, NoPage, Page

(* The page in the registers is a page of this try.                        *)
LEMMA ThePageTyped ==
  ASSUME PagesTyped
  PROVE  /\ ThePage \in Page
         /\ ThePage.no = hwPage /\ ThePage.try = anTry
  BY DEF PagesTyped, ThePage, Page

(* Every step keeps the types.                                             *)
LEMMA AnTypedNext == PagesTyped /\ [AnNextState]_anVars => PagesTyped'
<1> SUFFICES ASSUME PagesTyped, [AnNextState]_anVars PROVE PagesTyped'
  OBVIOUS
<1>1. CASE HwExchange \/ HwRestart
  BY <1>1 DEF PagesTyped, HwExchange, HwRestart, HwOnly, pages
<1>2. CASE AnHandler \/ (\E why \in {"cancel", "timeout"} : AnStop(why))
           \/ UNCHANGED anVars
  BY <1>2 DEF PagesTyped, AnHandler, AnStop, HdlrOnly, anVars, hwPos, pages
<1>3. CASE AnBegin \/ AnReset \/ AnCleanup
  BY <1>3 DEF PagesTyped, AnBegin, AnReset, AnCleanup, hwPos, pages
<1>4. CASE AnTryAgain
  BY <1>4, AutonegAssumption DEF PagesTyped, AnTryAgain, hwPos, pages
<1>5. CASE AnSerdesStart \/ AnPmlSetup
  BY <1>5 DEF PagesTyped, AnSerdesStart, AnPmlSetup, hwPos, pages
<1>6. CASE AnBase
  BY <1>6, NoPagesTyped DEF PagesTyped, AnBase, hwPos
<1>7. CASE AnSendBase \/ AnSendNext
  BY <1>7 DEF PagesTyped, AnSendBase, AnSendNext, pages
<1>8. CASE AnWait \/ AnPoll \/ AnNext
  BY <1>8 DEF PagesTyped, AnWait, AnPoll, AnNext, hwPos, pages
<1>9. CASE AnGotBase
  BY <1>9, ThePageTyped DEF PagesTyped, AnGotBase, hwPos, pages
<1>10. CASE AnGotNext
  <2>1. /\ anTry' = anTry /\ hwPage' = hwPage /\ hwRestarts' = hwRestarts
        /\ anRx' \in {anRx, [anRx EXCEPT ![anNo] = ThePage]}
        /\ anCount' \in {anCount, anCount + 1} /\ anNo' \in {anNo, anNo + 1}
    BY <1>10 DEF AnGotNext, hwPos, pages
  <2> QED BY <2>1, ThePageTyped DEF PagesTyped
<1>11. CASE AnFailed \/ AnMatch
  BY <1>11 DEF PagesTyped, AnFailed, AnMatch, hwPos, pages
<1> QED BY <1>1, <1>2, <1>3, <1>4, <1>5, <1>6, <1>7, <1>8, <1>9, <1>10, <1>11
        DEF AnNextState, AnThread

(* Every step keeps the invariant of the pages. The delicate one is the    *)
(* receipt of a next page: it is stored only when the page before it says  *)
(* so, at its own number, which is then the count.                         *)
LEMMA PageNext ==
  PagesTyped /\ PagesTyped' /\ PageInv /\ [AnNextState]_anVars => PageInv'
<1> SUFFICES ASSUME PagesTyped, PagesTyped', PageInv, [AnNextState]_anVars
             PROVE  PageInv'
  OBVIOUS
<1> USE DEF AnGo, AnFail, AnLeave
<1>1. CASE HwExchange
  <2>1. /\ UNCHANGED <<anPc, anErr, anRx, anCount, anNo, anTry, hwRestarts>>
        /\ hwState = "busy" /\ hwState' \in {"good", "ack"}
        /\ hwPage' = hwPage + 1
    BY <1>1 DEF HwExchange, HwOnly, pages
  <2>2. ASSUME RegistersAhead, anCount \in 1 .. anNo, anNo \in 1 .. MaxRxPages - 1
        PROVE  RegistersAhead'
    <3>1. LastNo \in Nat /\ LastNo' = LastNo
      BY <2>1, <2>2, AutonegAssumption DEF LastNo, PagesTyped, Page
    <3>2. LastNo < hwPage'
      BY <2>1, <2>2, <3>1 DEF RegistersAhead, PagesTyped
    <3> QED BY <2>1, <3>1, <3>2 DEF RegistersAhead, PagesTyped
  <2> QED BY <2>1, <2>2 DEF PageInv, NoGaps, PagesKept, PagesOfTry, PagesRise,
          BaseSteps, NextSteps
<1>2. CASE HwRestart
  <2>1. /\ UNCHANGED <<anPc, anErr, anRx, anCount, anNo, anTry>>
        /\ hwState' = "ack" /\ hwRestarts' # 0
    BY <1>2 DEF HwRestart, HwOnly, pages, PagesTyped
  <2> QED BY <2>1 DEF PageInv, NoGaps, PagesKept, PagesOfTry, PagesRise,
          BaseSteps, NextSteps
<1>3. CASE AnHandler \/ (\E why \in {"cancel", "timeout"} : AnStop(why))
           \/ UNCHANGED anVars \/ AnReset
  <2>1. UNCHANGED <<anPc, anErr, anRx, anCount, anNo, anTry, hwPage, hwState,
                    hwRestarts>>
    BY <1>3 DEF AnHandler, AnStop, AnReset, HdlrOnly, anVars, hwPos, pages
  <2> QED BY <2>1 DEF PageInv, NoGaps, PagesKept, PagesOfTry, PagesRise,
          BaseSteps, NextSteps, RegistersAhead, LastNo
<1>4. CASE AnBegin \/ AnTryAgain \/ AnSerdesStart \/ AnPmlSetup \/ AnCleanup
  <2>1. anPc' \in {"try", "cleanup", "serdes", "pml", "base", "idle"}
    BY <1>4 DEF AnBegin, AnTryAgain, AnSerdesStart, AnPmlSetup, AnCleanup
  <2> QED BY <2>1 DEF PageInv, PagesKept, BaseSteps, NextSteps
<1>5. CASE AnBase
  <2>1. \/ anPc' = "failed" /\ anErr' # "EPROTO"
        \/ anPc' = "sendBase" /\ anRx' = NoPages /\ anCount' = 0
    BY <1>5 DEF AnBase, WaitPrepare, StopCode
  <2>2. NoPages' = NoPages
    BY DEF NoPages, NoPage
  <2> QED BY <2>1, <2>2 DEF PageInv, PagesKept, BaseSteps, NextSteps
<1>6. CASE AnSendBase
  <2>1. /\ anPc' = "waitBase" /\ anRx' = NoPages /\ anCount' = 0
        /\ hwState' = "busy"
    BY <1>6 DEF AnSendBase, PageInv, BaseSteps, pages
  <2>2. NoPages' = NoPages
    BY DEF NoPages, NoPage
  <2> QED BY <2>1, <2>2 DEF PageInv, PagesKept, BaseSteps, NextSteps
<1>7. CASE AnWait \/ AnPoll \/ AnNext
  <2>1. UNCHANGED <<anRx, anCount, anNo, anTry, hwPage, hwState, hwRestarts>>
    BY <1>7 DEF AnWait, AnPoll, AnNext, hwPos, pages
  <2>2. \/ anPc' = "failed" /\ anErr' # "EPROTO"
        \/ anPc = "waitBase" /\ anPc' = "gotBase"
        \/ anPc \in {"waitNext", "pollNext"} /\ anPc' = "gotNext"
        \/ anPc = "next" /\ anPc' = "sendNext"
    BY <1>7 DEF AnWait, AnPoll, AnNext, WaitPrepare, StopCode
  <2> QED BY <2>1, <2>2 DEF PageInv, NoGaps, PagesKept, PagesOfTry, PagesRise,
          BaseSteps, NextSteps, RegistersAhead, LastNo
<1>8. CASE AnGotBase
  <2>1. /\ anPc = "gotBase" /\ UNCHANGED <<anTry, hwPage, hwState, hwRestarts>>
        /\ \/ anPc' = "failed" /\ anErr' # "EPROTO"
           \/ /\ anPc' = IF hwState = "good" THEN "match" ELSE "next"
              /\ hwState \in {"ack", "good"} /\ hwPage = 1
              /\ anRx' = [anRx EXCEPT ![0] = ThePage] /\ anCount' = 1 /\ anNo' = 1
    BY <1>8 DEF AnGotBase, IsBasePage, Complete, hwPos, pages
  <2>2. CASE anPc' = "failed" /\ anErr' # "EPROTO"
    BY <2>2 DEF PageInv, PagesKept, BaseSteps, NextSteps
  <2>3. CASE anPc' # "failed"
    <3>1. anRx = NoPages /\ MaxRxPages \in Nat /\ MaxRxPages >= 2
      BY <2>1, AutonegAssumption DEF PageInv, BaseSteps
    <3>2. anRx'[0].try = anTry /\ anRx'[0].no = hwPage
      BY <2>1, <2>3, <3>1, ThePageTyped, NoPagesTyped
    <3>3. \A i \in 1 .. MaxRxPages - 1 : anRx'[i].np = FALSE
      BY <2>1, <2>3, <3>1, NoPagesTyped
    <3>4. NoGaps'
      BY <2>1, <2>3, <3>1, <3>3 DEF NoGaps
    <3>5. PagesOfTry' /\ PagesRise'
      BY <2>1, <2>3, <3>2 DEF PagesOfTry, PagesRise
    <3>6. anPc' = "next" => RegistersAhead'
      BY <2>1, <2>3, <3>2 DEF RegistersAhead, LastNo
    <3> QED BY <2>1, <2>3, <3>4, <3>5, <3>6 DEF PageInv, BaseSteps, NextSteps
  <2> QED BY <2>1, <2>2, <2>3
<1>9. CASE AnSendNext
  <2>1. /\ anPc = "sendNext" /\ anPc' \in {"pollNext", "waitNext"}
        /\ UNCHANGED <<anRx, anCount, anNo, anTry, hwPage, hwRestarts>>
        /\ hwState \in {"busy", "ack", "good"}
        /\ hwState' = IF hwState = "ack" THEN "busy" ELSE hwState
    BY <1>9 DEF AnSendNext, pages, PageInv, NextSteps
  <2> QED BY <2>1 DEF PageInv, NoGaps, PagesKept, PagesOfTry, PagesRise,
          BaseSteps, NextSteps, RegistersAhead, LastNo
<1>10. CASE AnGotNext
  <2>1. /\ anPc = "gotNext" /\ hwState \in {"busy", "ack", "good"}
        /\ NoGaps /\ PagesOfTry /\ PagesRise
        /\ hwRestarts = 0 => RegistersAhead
    BY <1>10 DEF AnGotNext, PageInv, PagesKept, BaseSteps, NextSteps
  <2>2. UNCHANGED <<anTry, hwPage, hwState, hwRestarts>>
    BY <1>10 DEF AnGotNext, hwPos
  <2>3. /\ anCount - 1 \in 0 .. MaxRxPages - 1 /\ LastNo \in Nat
        /\ MaxRxPages \in Nat /\ anCount \in Nat \ {0} /\ anNo \in Nat
        /\ hwPage \in Nat
    <3>1. /\ MaxRxPages \in Nat /\ anNo \in Nat /\ hwPage \in Nat
          /\ anCount \in Nat \ {0}
      BY <2>1, AutonegAssumption DEF NoGaps, PagesTyped
    <3>2. anCount - 1 \in 0 .. MaxRxPages - 1
      BY <2>1, <3>1 DEF NoGaps
    <3>3. anRx[anCount - 1] \in Page
      BY <3>2 DEF PagesTyped
    <3> QED BY <3>1, <3>2, <3>3 DEF LastNo, Page
  <2>4. CASE ~IsNextPage
    <3>1. UNCHANGED pages /\ anPc' = IF hwState = "good" THEN "match" ELSE "next"
      BY <1>10, <2>4 DEF AnGotNext, Complete
    <3>2. NoGaps' /\ PagesOfTry' /\ PagesRise'
      BY <2>1, <2>2, <3>1 DEF NoGaps, PagesOfTry, PagesRise, pages
    <3>3. anPc' = "next" /\ hwRestarts = 0 => RegistersAhead'
      BY <2>1, <2>2, <3>1 DEF RegistersAhead, LastNo, pages
    <3> QED BY <2>1, <2>2, <3>1, <3>2, <3>3 DEF PageInv, BaseSteps, NextSteps
  <2>5. CASE IsNextPage
    <3>1. /\ anNo' = anNo + 1 /\ hwState \in {"ack", "good"}
          /\ \/ anNo' >= MaxRxPages /\ anPc' = "failed"
             \/ anNo' < MaxRxPages /\ anPc' = IF hwState = "good" THEN "match"
                                                                ELSE "next"
      BY <1>10, <2>3, <2>5 DEF AnGotNext, Complete, IsNextPage, PagesTyped
    <3>2. hwRestarts = 0 => LastNo < hwPage
      BY <2>1, <3>1 DEF RegistersAhead
    <3> DEFINE Kept == /\ PagesOfTry' /\ PagesRise'
                       /\ anNo' < MaxRxPages => NoGaps'
                       /\ hwRestarts = 0 => LastNo' <= hwPage
    <3>3. ASSUME anRx[anNo - 1].np = TRUE PROVE Kept
      <4>1. anRx' = [anRx EXCEPT ![anNo] = ThePage] /\ anCount' = anCount + 1
        BY <1>10, <2>5, <3>3 DEF AnGotNext
      <4>2. anCount = anNo
        BY <2>1, <2>3, <3>3 DEF NoGaps, PagesTyped
      <4>3. /\ anRx'[anCount].try = anTry /\ anRx'[anCount].no = hwPage
            /\ \A i \in 0 .. MaxRxPages - 1 : i # anCount => anRx'[i] = anRx[i]
        BY <2>1, <2>3, <4>1, <4>2, ThePageTyped DEF PagesTyped, NoGaps
      <4>4. PagesOfTry'
        BY <2>1, <2>2, <2>3, <4>1, <4>2, <4>3 DEF PagesOfTry, NoGaps
      <4>5. PagesRise'
        <5> SUFFICES ASSUME hwRestarts = 0, NEW i \in 0 .. anCount,
                            NEW j \in 0 .. anCount, i < j
                     PROVE  anRx'[i].no < anRx'[j].no
          BY <2>2, <2>3, <4>1 DEF PagesRise
        <5>1. i \in 0 .. anCount - 1 /\ i \in 0 .. MaxRxPages - 1
          BY <2>3
        <5>2. anRx'[i] = anRx[i] /\ anRx[i].no \in Nat
          <6>1. i # anCount
            BY <2>3, <5>1
          <6>2. anRx[i] \in Page
            BY <5>1 DEF PagesTyped
          <6> QED BY <4>3, <5>1, <6>1, <6>2 DEF Page
        <5>3. CASE j = anCount
          <6>1. anRx[i].no <= LastNo
            BY <2>1, <2>3, <5>1, <5>2 DEF PagesRise, LastNo
          <6> QED BY <2>3, <3>2, <4>3, <5>2, <5>3, <6>1 DEF PagesTyped
        <5>4. CASE j # anCount
          <6>1. j \in 0 .. anCount - 1 /\ j \in 0 .. MaxRxPages - 1
            BY <2>3, <5>4
          <6> QED BY <2>1, <4>3, <5>1, <5>2, <5>4, <6>1 DEF PagesRise
        <5> QED BY <5>3, <5>4
      <4>6. anNo' < MaxRxPages => NoGaps'
        BY <2>1, <2>3, <3>1, <4>1, <4>2, <4>3 DEF NoGaps, PagesTyped
      <4>7. LastNo' = hwPage
        BY <2>3, <4>1, <4>3 DEF LastNo, PagesTyped
      <4> QED BY <4>4, <4>5, <4>6, <4>7 DEF PagesTyped
    <3>4. ASSUME anRx[anNo - 1].np # TRUE PROVE Kept
      <4>1. UNCHANGED <<anRx, anCount>>
        BY <1>10, <2>5, <3>4 DEF AnGotNext
      <4>2. PagesOfTry' /\ PagesRise'
        BY <2>1, <2>2, <4>1 DEF PagesOfTry, PagesRise
      <4>3. anNo' < MaxRxPages => NoGaps'
        BY <2>1, <2>3, <3>1, <4>1 DEF NoGaps, PagesTyped
      <4>4. hwRestarts = 0 => LastNo' <= hwPage
        BY <2>3, <3>2, <4>1 DEF LastNo, PagesTyped
      <4> QED BY <4>2, <4>3, <4>4
    <3>5. Kept
      BY <3>3, <3>4
    <3>6. anPc' = "next" /\ hwRestarts = 0 => RegistersAhead'
      BY <2>2, <3>1, <3>5 DEF RegistersAhead
    <3> HIDE DEF Kept
    <3>7. /\ PagesOfTry' /\ PagesRise'
          /\ anNo' < MaxRxPages => NoGaps'
      BY <3>5 DEF Kept
    <3> QED BY <2>2, <3>1, <3>6, <3>7 DEF PageInv, PagesKept, BaseSteps, NextSteps
  <2> QED BY <2>4, <2>5
<1>11. CASE AnFailed \/ AnMatch
  <2>1. UNCHANGED <<anRx, anCount, anNo, anTry, hwPage, hwState, hwRestarts>>
    BY <1>11 DEF AnFailed, AnMatch, hwPos, pages
  <2>2. \/ anPc' \in {"try", "cleanup"}
        \/ anPc = "failed" /\ anErr = "EPROTO" /\ anPc' = "match"
    BY <1>11 DEF AnFailed, AnMatch, Retries
  <2> QED BY <2>1, <2>2 DEF PageInv, PagesKept, PagesOfTry, PagesRise,
          BaseSteps, NextSteps
<1> QED BY <1>1, <1>2, <1>3, <1>4, <1>5, <1>6, <1>7, <1>8, <1>9, <1>10, <1>11
        DEF AnNextState, AnThread

(* The invariant of the pages holds in the initial states.                 *)
LEMMA AnInit0 == AnInit => PagesTyped /\ PageInv
<1> SUFFICES ASSUME AnInit PROVE PagesTyped /\ PageInv
  OBVIOUS
<1>1. PagesTyped
  BY NoPagesTyped DEF AnInit, PagesTyped
<1>2. anPc = "idle"
  BY DEF AnInit
<1> QED BY <1>1, <1>2 DEF PageInv, PagesKept, BaseSteps, NextSteps

(* The types and the invariant of the pages hold in every reachable state. *)
THEOREM PagesHold == AnSpec => [](PagesTyped /\ PageInv)
  BY AnInit0, AnTypedNext, PageNext, PTL DEF AnSpec

(* Technologies are matched on pages of the current try only, in the order *)
(* they were sent unless the partner starts over (PagesAreFresh), for      *)
(* every size of the buffer and number of tries: sbl_an_exchange() clears  *)
(* the buffer, and sbl_an_page_exchange() stores a page only behind one    *)
(* that announced it.                                                      *)
THEOREM MatchOnFreshPages == AnSpec => []PagesAreFresh
<1>1. PageInv => PagesAreFresh
  BY DEF PageInv, PagesKept, PagesOfTry, PagesRise, PagesAreFresh
<1> QED BY <1>1, PagesHold, PTL

(* The counts of pages and tries, and the states of the parties.           *)
CountsFit ==
  anTry \in 0 .. MaxRetry + 1 /\ {anCount, anNo} \subseteq 0 .. MaxRxPages
PartiesTyped ==
  /\ anSerdes \in {"DOWN", "AUTONEG", "ERROR"}
  /\ anStops \subseteq {"cancel", "timeout"}
  /\ anHdlr \in {"idle", "disable", "complete", "clear"}
  /\ hwState \in {"reset", "busy", "ack", "good"}
  /\ anFix \in {"off", "on", "applied"}
SignalsTyped == anDone \in BOOLEAN /\ anIntr \in BOOLEAN /\ hwFlag \in BOOLEAN

(* A next page is received while there is room for it.                     *)
LEMMA CountsNext ==
  PagesTyped /\ PageInv /\ CountsFit /\ [AnNextState]_anVars => CountsFit'
<1> SUFFICES ASSUME PagesTyped, PageInv, CountsFit, [AnNextState]_anVars
             PROVE  CountsFit'
  OBVIOUS
<1>0. MaxRxPages \in Nat \ {0, 1} /\ MaxRetry \in Nat
  BY AutonegAssumption
<1> USE DEF CountsFit
<1>1. CASE AnTryAgain
  <2>1. UNCHANGED pages /\ anTry' = IF anTry > MaxRetry THEN anTry ELSE anTry + 1
    BY <1>1 DEF AnTryAgain
  <2> QED BY <1>0, <2>1 DEF pages
<1>2. CASE AnBegin
  <2>1. UNCHANGED pages /\ anTry' \in {0, anTry}
    BY <1>2 DEF AnBegin
  <2> QED BY <1>0, <2>1 DEF pages
<1>3. CASE AnBase \/ AnGotBase
  BY <1>0, <1>3 DEF AnBase, AnGotBase, pages
<1>4. CASE AnGotNext
  <2>1. anNo \in 1 .. MaxRxPages - 1 /\ anCount \in 1 .. anNo
    BY <1>4 DEF AnGotNext, PageInv, NextSteps, NoGaps
  <2>2. /\ anTry' = anTry /\ anCount' \in {anCount, anCount + 1}
        /\ anNo' \in {anNo, anNo + 1}
    BY <1>4 DEF AnGotNext, pages
  <2> QED BY <1>0, <2>1, <2>2
<1>5. CASE UNCHANGED <<anTry, anCount, anNo>>
  BY <1>5
<1> QED BY <1>1, <1>2, <1>3, <1>4, <1>5
        DEF AnNextState, AnThread, AnSerdesStart, AnPmlSetup, AnSendBase, AnWait,
            AnPoll, AnNext, AnSendNext, AnFailed, AnMatch, AnCleanup, AnReset,
            AnHandler, HwExchange, HwRestart, AnStop, HdlrOnly, HwOnly, pages,
            anVars

(* Every step keeps the states of the parties.                             *)
LEMMA PartiesNext == PartiesTyped /\ [AnNextState]_anVars => PartiesTyped'
<1> SUFFICES ASSUME PartiesTyped, [AnNextState]_anVars PROVE PartiesTyped'
  OBVIOUS
<1> USE DEF PartiesTyped, ThreadOnly, hwPos
<1>1. CASE AnBegin \/ AnTryAgain \/ AnSerdesStart \/ AnPmlSetup \/ AnBase
  BY <1>1 DEF AnBegin, AnTryAgain, AnSerdesStart, AnPmlSetup, AnBase
<1>2. CASE AnSendBase \/ AnWait \/ AnPoll \/ AnGotBase \/ AnNext \/ AnSendNext
  BY <1>2 DEF AnSendBase, AnWait, AnPoll, AnGotBase, AnNext, AnSendNext
<1>3. CASE AnGotNext \/ AnFailed \/ AnMatch \/ AnCleanup \/ AnReset
  BY <1>3 DEF AnGotNext, AnFailed, Retries, AnMatch, AnCleanup, AnReset
<1>4. CASE AnHandler \/ HwExchange \/ HwRestart \/ UNCHANGED anVars
           \/ \E why \in {"cancel", "timeout"} : AnStop(why)
  BY <1>4 DEF AnHandler, HwExchange, HwRestart, AnStop, HdlrOnly, HwOnly, anVars
<1> QED BY <1>1, <1>2, <1>3, <1>4 DEF AnNextState, AnThread

(* Every step keeps the signals between handler and thread.                *)
LEMMA SignalsNext == SignalsTyped /\ [AnNextState]_anVars => SignalsTyped'
<1> SUFFICES ASSUME SignalsTyped, [AnNextState]_anVars PROVE SignalsTyped'
  OBVIOUS
<1>1. /\ anDone' \in {anDone, TRUE, FALSE} /\ anIntr' \in {anIntr, TRUE, FALSE}
      /\ hwFlag' \in {hwFlag, TRUE, FALSE}
  BY DEF AnNextState, AnThread, AnBegin, AnTryAgain, AnSerdesStart, AnPmlSetup,
     AnBase, AnSendBase, AnWait, AnPoll, AnGotBase, AnNext, AnSendNext,
     AnGotNext, AnFailed, AnMatch, AnCleanup, AnReset, AnHandler, HwExchange,
     HwRestart, AnStop, HdlrOnly, HwOnly, WaitPrepare, signals, anVars
<1> QED BY <1>1, Zenon DEF SignalsTyped

(* Autonegotiation keeps its types, and receives no more pages than there  *)
(* is room for (AnTypeOK), for every size of the buffer and number of      *)
(* tries, whatever the partner sends.                                      *)
THEOREM AnTypes == AnSpec => []AnTypeOK
<1> DEFINE I == CountsFit /\ PartiesTyped /\ SignalsTyped
<1>1. AnInit => I
  <2> SUFFICES ASSUME AnInit PROVE CountsFit /\ PartiesTyped /\ SignalsTyped
    OBVIOUS
  <2>1. CountsFit
    BY AutonegAssumption DEF AnInit, CountsFit
  <2>2. SignalsTyped
    BY Zenon DEF AnInit, SignalsTyped
  <2> QED BY <2>1, <2>2 DEF AnInit, PartiesTyped
<1>2. PagesTyped /\ PageInv /\ I /\ [AnNextState]_anVars => I'
  BY CountsNext, PartiesNext, SignalsNext
<1>3. PagesTyped /\ I => AnTypeOK
  BY DEF PagesTyped, CountsFit, PartiesTyped, SignalsTyped, AnTypeOK
<1> HIDE DEF I
<1> QED BY <1>1, <1>2, <1>3, PagesHold, PTL DEF AnSpec

-----------------------------------------------------------------------------
(* The call as the base link sees it.  It carries no error until the       *)
(* exchange fails or the call is about to end, and then one that is true:  *)
(* ECANCELED only after a cancel, ETIMEDOUT only after the timeout.        *)
AskedFor(e) == \/ e = "ECANCELED" /\ "cancel" \in anStops
               \/ e = "ETIMEDOUT" /\ "timeout" \in anStops
ExchangeErr(e) == e \in {"ETIME", "EBADE", "EIO", "EPROTO"} \/ AskedFor(e)
ErrIsTrue ==
  /\ anPc \notin {"failed", "cleanup"} => anErr = "ok"
  /\ anPc = "failed" => ExchangeErr(anErr)

(* The steps of an exchange, all of them made with the SerDes in autoneg.  *)
ExchangeSteps == BaseSteps \cup NextSteps \cup {"pml", "base", "failed", "match"}
InAutoneg == anPc \in ExchangeSteps => anSerdes = "AUTONEG"
StepKnown == /\ anPc \in ExchangeSteps \cup {"idle", "try", "serdes", "cleanup"}
             /\ anStops \subseteq {"cancel", "timeout"}

AnCallInv == StepKnown /\ ErrIsTrue /\ InAutoneg

(* The steps that go on with an exchange, or find that it failed.          *)
GoesOn == /\ anPc \in ExchangeSteps /\ anPc' \in ExchangeSteps
          /\ UNCHANGED <<anSerdes, anStops>>
          /\ IF anPc' = "failed" THEN ExchangeErr(anErr') ELSE anErr' = "ok"

(* The steps of the thread from the reset of the hardware to the match.    *)
LEMMA ExchangeGoesOn ==
  ASSUME AnCallInv,
         \/ AnPmlSetup \/ AnBase \/ AnSendBase \/ AnWait \/ AnPoll
         \/ AnGotBase \/ AnNext \/ AnSendNext \/ AnGotNext
  PROVE  GoesOn
<1> USE DEF AnCallInv, StepKnown, ErrIsTrue, InAutoneg, ExchangeSteps, BaseSteps,
            NextSteps, AnGo, AnFail, ThreadOnly
<1>1. /\ anPc \in ExchangeSteps \ {"failed", "match"} /\ anPc' \in ExchangeSteps
      /\ UNCHANGED anStops /\ UNCHANGED anSerdes
  BY DEF AnPmlSetup, AnBase, WaitPrepare, AnSendBase, AnWait, AnPoll, AnGotBase,
     AnNext, AnSendNext, AnGotNext
<1>2. \/ anPc' # "failed" /\ anErr' = anErr
      \/ anPc' = "failed" /\ anErr' \in {"ETIME", "EBADE", "EIO", "EPROTO"}
      \/ anPc' = "failed" /\ anErr' = StopCode /\ anStops # {}
  BY DEF AnPmlSetup, AnBase, WaitPrepare, AnSendBase, AnWait, AnPoll, AnGotBase,
     AnNext, AnSendNext, AnGotNext
<1>3. anStops # {} => AskedFor(StopCode)
  BY DEF AskedFor, StopCode
<1> QED
  BY <1>1, <1>2, <1>3 DEF GoesOn, ExchangeErr

(* The invariant of the call is kept by every step.                        *)
LEMMA CallNext == AnCallInv /\ [AnNextState]_anVars => AnCallInv'
<1> SUFFICES ASSUME AnCallInv, [AnNextState]_anVars PROVE AnCallInv'
  OBVIOUS
<1> USE DEF AnCallInv, StepKnown, ErrIsTrue, InAutoneg, ExchangeErr, AskedFor
<1>1. CASE \/ AnPmlSetup \/ AnBase \/ AnSendBase \/ AnWait \/ AnPoll
           \/ AnGotBase \/ AnNext \/ AnSendNext \/ AnGotNext
  <2>1. GoesOn
    BY <1>1, ExchangeGoesOn
  <2> QED
    BY <2>1 DEF GoesOn, ExchangeSteps, BaseSteps, NextSteps
<1>2. CASE AnFailed
  <2>1. /\ anPc' \in {"match", "try", "cleanup"} /\ UNCHANGED anStops
        /\ anPc' # "cleanup" => anErr' = "ok"
        /\ anPc' = "match" => anSerdes' = anSerdes /\ anPc = "failed"
    BY <1>2 DEF AnFailed, Retries, AnLeave, ThreadOnly
  <2>2. anPc' = "match" => anSerdes' = "AUTONEG"
    BY <2>1 DEF ExchangeSteps
  <2> QED
    BY <2>1, <2>2 DEF ExchangeSteps, BaseSteps, NextSteps
<1>3. CASE AnBegin \/ AnTryAgain \/ AnMatch \/ AnCleanup \/ AnReset
  <2>1. /\ anPc' \in {"try", "serdes", "cleanup", "idle"}
        /\ anStops' \in {anStops, {}}
        /\ anPc' # "cleanup" => anErr' = "ok"
    BY <1>3 DEF AnBegin, AnTryAgain, AnMatch, AnCleanup, AnReset, AnGo, AnLeave,
       ThreadOnly
  <2> QED
    BY <2>1 DEF ExchangeSteps, BaseSteps, NextSteps
<1>4. CASE AnSerdesStart
  <2>1. /\ UNCHANGED anStops
        /\ \/ anPc' = "pml" /\ anSerdes' = "AUTONEG" /\ anErr' = "ok"
           \/ anPc' = "cleanup"
    BY <1>4 DEF AnSerdesStart, AnGo, AnLeave, ThreadOnly
  <2> QED
    BY <2>1 DEF ExchangeSteps, BaseSteps, NextSteps
<1>5. CASE \E why \in {"cancel", "timeout"} : AnStop(why)
  BY <1>5 DEF AnStop
<1>6. CASE AnHandler \/ HwExchange \/ HwRestart \/ UNCHANGED anVars
  BY <1>6 DEF AnHandler, HwExchange, HwRestart, HdlrOnly, HwOnly, anVars
<1> QED
  BY <1>1, <1>2, <1>3, <1>4, <1>5, <1>6 DEF AnNextState, AnThread

(* What the base link sees of a call at each of its steps.                 *)
LEMMA StageSeen ==
  ASSUME AnCallInv
  PROVE  /\ anPc = "idle" => AnStage = "none"
         /\ anPc \in {"try", "serdes"} => AnStage = "try"
         /\ anPc \in ExchangeSteps => AnStage = "exchange"
         /\ anPc = "cleanup" => AnStage = "done" /\ AnFailure = anErr
         /\ anPc # "cleanup" => AnFailure = "ok"
  BY DEF AnCallInv, StepKnown, ErrIsTrue, AnStage, AnFailure, ExchangeSteps,
     BaseSteps, NextSteps
(* And behind a step.                                                      *)
LEMMA StageSeenNext ==
  ASSUME AnCallInv'
  PROVE  /\ anPc' = "idle" => AnStage' = "none"
         /\ anPc' \in {"try", "serdes"} => AnStage' = "try"
         /\ anPc' \in ExchangeSteps => AnStage' = "exchange"
         /\ anPc' = "cleanup" => AnStage' = "done" /\ AnFailure' = anErr'
         /\ anPc' # "cleanup" => AnFailure' = "ok"
  BY DEF AnCallInv, StepKnown, ErrIsTrue, AnStage, AnFailure, ExchangeSteps,
     BaseSteps, NextSteps

(* Every step of the call is one that the base link expects, or one that   *)
(* it does not see.                                                        *)
LEMMA CallStepRefines ==
  AnCallInv /\ AnCallInv' /\ [AnNextState]_anVars
    => [AnService!AnServiceNext]_(AnService!anServiceVars)
<1> SUFFICES ASSUME AnCallInv, AnCallInv', [AnNextState]_anVars
             PROVE  \/ AnService!AnServiceNext
                    \/ UNCHANGED <<anSerdes, AnStage, AnFailure, anStops>>
  BY DEF AnService!anServiceVars
<1> USE StageSeen, StageSeenNext
<1>0. /\ \A p \in {"idle", "try", "serdes", "cleanup"} : p \notin ExchangeSteps
      /\ {"pml", "failed", "match"} \subseteq ExchangeSteps
  BY DEF ExchangeSteps, BaseSteps, NextSteps
<1>1. CASE \/ AnPmlSetup \/ AnBase \/ AnSendBase \/ AnWait \/ AnPoll
           \/ AnGotBase \/ AnNext \/ AnSendNext \/ AnGotNext
  <2>1. GoesOn
    BY <1>1, ExchangeGoesOn
  <2> QED
    BY <1>0, <2>1 DEF GoesOn
<1>2. CASE AnFailed
  <2>1. anPc = "failed" /\ anSerdes = "AUTONEG" /\ ExchangeErr(anErr)
    BY <1>0, <1>2 DEF AnFailed, Retries, AnLeave, AnCallInv, InAutoneg, ErrIsTrue
  <2>2. /\ UNCHANGED anStops
        /\ \/ anPc' = "match" /\ UNCHANGED anSerdes
           \/ anPc' = "try" /\ anSerdes' \in {"DOWN", "ERROR"}
           \/ /\ anPc' = "cleanup" /\ UNCHANGED anSerdes
              /\ anErr' = anErr /\ anErr # "EPROTO"
    BY <1>2 DEF AnFailed, Retries, AnLeave, ThreadOnly
  <2>3. CASE anPc' = "match"
    BY <1>0, <2>1, <2>2, <2>3
  <2>4. CASE anPc' # "match"
    <3>1. AnService!Exchange
      BY <1>0, <2>1, <2>2, <2>4
      DEF AnService!Exchange, AnService!Asked, ExchangeErr, AskedFor
    <3> QED
      BY <3>1 DEF AnService!AnServiceNext
  <2> QED
    BY <2>3, <2>4
<1>3. CASE AnMatch
  <2>1. /\ anPc = "match" /\ anSerdes = "AUTONEG" /\ UNCHANGED <<anSerdes, anStops>>
        /\ \/ anPc' = "cleanup" /\ anErr' = "ok"
           \/ anPc' = "try"
    BY <1>0, <1>3 DEF AnMatch, AnGo, AnLeave, ThreadOnly, AnCallInv, InAutoneg
  <2>2. AnService!Exchange
    BY <1>0, <2>1 DEF AnService!Exchange
  <2> QED
    BY <2>2 DEF AnService!AnServiceNext
<1>4. CASE AnSerdesStart \/ AnTryAgain
  <2>1. /\ anPc \in {"try", "serdes"} /\ UNCHANGED anStops
        /\ \/ anPc' = "serdes" /\ UNCHANGED anSerdes
           \/ anPc' = "pml" /\ anSerdes = "DOWN" /\ anSerdes' = "AUTONEG"
           \/ /\ anPc' = "cleanup" /\ anErr' = "EIO"
              /\ anSerdes = "DOWN" /\ anSerdes' = "ERROR"
           \/ /\ anPc' = "cleanup" /\ anErr' = "EUCLEAN"
              /\ anSerdes # "DOWN" /\ UNCHANGED anSerdes
           \/ anPc' = "cleanup" /\ AskedFor(anErr') /\ UNCHANGED anSerdes
    BY <1>4 DEF AnSerdesStart, AnTryAgain, AnGo, AnLeave, ThreadOnly, AskedFor
  <2>2. CASE anPc' = "serdes"
    BY <2>1, <2>2
  <2>3. CASE anPc' # "serdes"
    <3>1. AnService!Attempt
      BY <1>0, <2>1, <2>3 DEF AnService!Attempt, AnService!Asked, AskedFor
    <3> QED
      BY <3>1 DEF AnService!AnServiceNext
  <2> QED
    BY <2>2, <2>3
<1>5. CASE AnBegin
  <2>1. /\ anPc = "idle" /\ UNCHANGED <<anSerdes, anStops>>
        /\ \/ anPc' = "try"
           \/ anPc' = "cleanup" /\ anErr' \in SetupErrors
    BY <1>5 DEF AnBegin, AnGo, AnLeave, ThreadOnly
  <2> QED
    BY <2>1 DEF AnService!Begin, AnService!AnServiceNext, SetupErrors
<1>6. CASE AnCleanup
  <2>1. /\ anPc = "cleanup" /\ anPc' = "idle" /\ anStops' = {}
        /\ \/ anSerdes = "AUTONEG" /\ anSerdes' \in {"DOWN", "ERROR"}
           \/ anSerdes # "AUTONEG" /\ UNCHANGED anSerdes
    BY <1>6 DEF AnCleanup
  <2> QED
    BY <2>1 DEF AnService!Return, AnService!AnServiceNext
<1>7. CASE AnReset
  <2>1. /\ anPc = "idle" /\ anPc' = anPc /\ UNCHANGED anStops
        /\ anSerdes = "ERROR" /\ anSerdes' = "DOWN"
    BY <1>7 DEF AnReset, ThreadOnly
  <2> QED
    BY <2>1 DEF AnService!Reset, AnService!AnServiceNext
<1>8. CASE \E why \in {"cancel", "timeout"} : AnStop(why)
  <2>1. /\ anPc # "idle" /\ UNCHANGED <<anPc, anErr, anSerdes>>
        /\ anStops' \in {anStops \cup {"cancel"}, anStops \cup {"timeout"}}
    BY <1>8 DEF AnStop
  <2>2. UNCHANGED <<AnStage, AnFailure>> /\ AnStage # "none"
    BY <2>1 DEF AnStage, AnFailure
  <2> QED
    BY <2>1, <2>2 DEF AnService!Ask, AnService!AnServiceNext
<1>9. CASE AnHandler \/ HwExchange \/ HwRestart \/ UNCHANGED anVars
  BY <1>9 DEF AnHandler, HwExchange, HwRestart, HdlrOnly, HwOnly, anVars,
     AnStage, AnFailure
<1> QED
  BY <1>1, <1>2, <1>3, <1>4, <1>5, <1>6, <1>7, <1>8, <1>9
  DEF AnNextState, AnThread

(* sbl_link_autoneg() keeps what the base link relies on                   *)
(* (ImplementsAnService), for every number of pages, attempts and restarts *)
(* of the partner and every timing of the handler: pages are exchanged     *)
(* only while the SerDes is in autoneg, a call that returns has left       *)
(* autoneg, and it names a cancel or the timeout only if there was one.    *)
THEOREM AnServiceImplemented == AnSpec => ImplementsAnService
<1>1. AnInit => AnService!AnServiceInit /\ AnCallInv
  BY DEF AnInit, AnService!AnServiceInit, AnStage, AnFailure, AnCallInv, StepKnown,
     ErrIsTrue, InAutoneg, ExchangeSteps, BaseSteps, NextSteps
<1> QED
  BY <1>1, CallNext, CallStepRefines, PTL
  DEF AnSpec, ImplementsAnService, AnService!AnServiceSpec

-----------------------------------------------------------------------------
(* The steps of a start at which the loop time of LLR may be begun and not *)
(* yet known, and a loop time that is known.                               *)
LoopPcs == {"measure", "llrFailed", "pmlFailed", "serdesDown", "out"}
Known == loopTime \in {"measured", "bound"}

(* The loop time is of the cable and loopback setting there are, and it is *)
(* known at every step that configures LLR and while the link is up.       *)
TimeInv ==
  /\ loopTime \in {"unset", "begun", "measured", "bound"}
  /\ loopTime # "unset" => loopFor = <<psLoop, psMedia>>
  /\ loopTime = "begun" => psPc \in LoopPcs \/ (psPc = "idle" /\ psState = "ERROR")
  /\ psPc = "measure" => loopTime = "begun"
  /\ psPc \in {"llrSet", "llrReady"} => Known
  /\ psPc \in {"llrDone", "fec"} /\ llrMode # "off" => Known
  /\ psState = "UP" => psPc = "idle"
  /\ psState = "UP" /\ llrMode # "off" => Known

(* The information bits the PCS leaves, those of the rest of the link,     *)
(* those of LLR, and the one that a start whose cable has an unusable      *)
(* length leaves, until a reset.                                           *)
PcsFlags  == {"TX_RF", "TX_AM", "ALIGN_EN", "A_WAIT", "F_WAIT", "PCS_UP"}
LinkFlags == {"MAC_OP", "OS", "LLR_RUN", "LLR_DISABLED"}
LlrFlags  == IF llrMode = "off" THEN {} ELSE {"OS", "LLR_RUN"}
LeftFlag  == "LLR_MEASURE"

(* The information bits (base link info_map) at each step of a start.      *)
StageInfo ==
  /\ psPc \in {"serdes", "config"} => info = {"TX_RF", "TX_AM"}
  /\ psPc \in {"lock", "align"} => info = {"TX_AM", "ALIGN_EN", "A_WAIT"}
  /\ psPc = "faults"   => info = {"TX_AM", "ALIGN_EN", "F_WAIT"}
  /\ psPc = "degrade"  => info = {"PCS_UP"}
  /\ psPc \in {"llr", "llrOn"} => info = {"PCS_UP", "MAC_OP", "LLR_LOOP"}
  /\ psPc = "detect"   => info = {"PCS_UP", "MAC_OP", "LLR_LOOP", "LLR_DETECT"}
  /\ psPc = "measure"  =>
       info = {"PCS_UP", "MAC_OP", "LLR_LOOP", "OS", "LLR_MEASURE"}
  /\ psPc = "llrSet"   => info = {"PCS_UP", "MAC_OP", "LLR_LOOP", "OS"}
  /\ psPc = "llrReady" =>
       info = {"PCS_UP", "MAC_OP", "LLR_LOOP", "OS", "LLR_WAIT"}
  /\ psPc = "llrDone"  => info = {"PCS_UP", "MAC_OP", "LLR_LOOP"} \cup LlrFlags
  /\ psPc = "fec"      => info = {"PCS_UP", "MAC_OP"} \cup LlrFlags
  /\ psPc = "llrFailed" =>
       info \subseteq {"PCS_UP", "MAC_OP", "LLR_LOOP", "OS", LeftFlag}
  /\ psPc = "pmlFailed" => info \subseteq PcsFlags \cup {"MAC_OP", LeftFlag}
  /\ psPc \in {"am", "pcsFailed"} => info \subseteq PcsFlags
  /\ psPc \in {"serdesDown", "out"} => info \subseteq PcsFlags \cup {LeftFlag}
  /\ psPc = "idle" /\ psState = "DOWN" => info \subseteq PcsFlags
  /\ psPc = "idle" => info \subseteq PcsFlags \cup LinkFlags \cup {LeftFlag}
  /\ LeftFlag \in info =>
       \/ psPc = "measure"
       \/ /\ psErr = "EBADRQC"
          /\ \/ psPc \in {"llrFailed", "pmlFailed", "serdesDown", "out"}
             \/ psPc = "idle" /\ psState = "ERROR"

(* The fields of the registers, and the steps grouped by what has been     *)
(* written: the waits of the PCS, its steps, the steps of LLR once ordered *)
(* sets are on, and all of its steps.                                      *)
HwFields == {"pcs", "lock", "lanes", "rf", "os", "degrade", "allow", "mac",
             "ifg", "llr", "timing"}
WaitPcs == {"lock", "align", "faults"}
PcsPcs  == {"serdes", "config"} \cup WaitPcs
SetPcs  == {"measure", "llrSet", "llrReady"}
LlrPcs  == {"llr", "detect", "llrOn", "llrDone"} \cup SetPcs

(* What holds of the registers, each part from the step that writes them    *)
(* to the end of the start.                                                *)
LanesHw == /\ hw.pcs = TRUE
           /\ hw.lanes = ActiveLanes(psMode, psLoop)
PlainHw == /\ hw.ifg = MacMode /\ hw.llr = "off" /\ hw.os = FALSE
GapHw   == /\ llrHpc => hw.ifg = "hpc"
           /\ ~llrHpc => hw.ifg = MacMode
LlrHw   == /\ hw.llr = llrMode
           /\ llrMode = "off" => hw.os = FALSE /\ hw.ifg = MacMode
           /\ llrMode # "off" => hw.os = TRUE /\ GapHw

StageHw ==
  /\ DOMAIN hw = HwFields
  /\ psPc = "am" => hw = Defaults
  /\ psPc \in PcsPcs \cup LlrPcs \cup {"degrade", "fec"} => LanesHw
  /\ psPc \in PcsPcs \cup {"degrade"} =>
       hw.degrade \in BOOLEAN /\ hw.allow = FALSE /\ hw.os = FALSE
  /\ psPc \in WaitPcs \cup LlrPcs \cup {"degrade", "fec"} => hw.rf = FALSE
  /\ psPc \in WaitPcs \cup {"degrade", "llr", "detect", "llrOn"} => PlainHw
  /\ psPc \in LlrPcs \cup {"fec"} => hw.mac = TRUE /\ hw.degrade = hw.allow
  /\ psPc \in SetPcs => hw.os = TRUE /\ GapHw
  /\ psPc \in SetPcs \cup {"llrOn"} => llrMode # "off"
  /\ psPc = "llrReady" => hw.llr = llrMode
  /\ psPc \in {"llrDone", "fec"} => LlrHw
  /\ psPc = "fec" => hw.timing = FALSE

(* HPC has not been asked for before LLR is resolved, nor by a start which  *)
(* resolves that there is no LLR, and is in the options of LLR when it has. *)
AskedInv ==
  /\ psPc \in WaitPcs \cup {"degrade", "llr", "detect"} => hpcAsked = FALSE
  /\ psPc \in SetPcs \cup {"llrOn", "llrDone", "fec"} =>
       hpcAsked = FALSE \/ llrHpc = TRUE
  /\ psPc \in {"llrDone", "fec"} /\ llrMode = "off" => hpcAsked = FALSE

(* Every step keeps the invariant of the loop time: another cable, another *)
(* loopback mode, a reset and a cleanup make it void.                      *)
LEMMA TimeNext == TimeInv /\ [PsNext]_psVars => TimeInv'
<1> SUFFICES ASSUME TimeInv, [PsNext]_psVars PROVE TimeInv'
  OBVIOUS
<1> USE DEF TimeInv, LoopPcs, Known, PsGo, PsQuit
<1>1. CASE PsBegin
  BY <1>1 DEF PsBegin, llrVars, hpcVars, timeVars
<1>2. CASE PsAmStart \/ PsSerdesStart
  BY <1>2 DEF PsAmStart, PsSerdesStart, Stopped, confVars, llrVars, hpcVars,
     timeVars
<1>3. CASE PsConfigure \/ PsLock \/ PsAlign \/ PsFaults
  BY <1>3 DEF PsConfigure, PsLock, PsAlign, PsFaults, PcsWaitFails, Stopped,
     InfoOnly, PmlOnly, confVars, llrVars, hpcVars, timeVars
<1>4. CASE PsPcsFailed \/ PsPmlFailed \/ PsDegrade
  BY <1>4 DEF PsPcsFailed, PsPmlFailed, PsDegrade, PmlOnly, confVars, llrVars,
     hpcVars, timeVars
<1>5. CASE PsLlrMode
  BY <1>5 DEF PsLlrMode, PmlOnly, confVars, timeVars
<1>6. CASE PsDetect
  BY <1>6 DEF PsDetect, Stopped, PmlOnly, confVars, timeVars
<1>7. CASE PsLlrOn
  BY <1>7 DEF PsLlrOn, PmlOnly, confVars, timeVars, llrVars, hpcVars
<1>8. CASE PsMeasure
  <2>1. /\ psPc = "measure" /\ psState' = psState /\ loopFor' = loopFor
        /\ psLoop' = psLoop /\ psMedia' = psMedia
    BY <1>8 DEF PsMeasure, MeasureLoops, Stopped, PmlOnly, confVars
  <2>2. \/ psPc' = "llrFailed" /\ loopTime' = loopTime
        \/ psPc' = "llrSet" /\ loopTime' \in {"measured", "bound"}
    BY <1>8 DEF PsMeasure, MeasureLoops, Stopped
  <2>3. loopFor = <<psLoop, psMedia>> \/ loopTime = "unset"
    OBVIOUS
  <2>4. loopTime = "begun"
    BY <2>1
  <2> QED BY <2>1, <2>2, <2>3, <2>4
<1>9. CASE PsLlrSet \/ PsLlrReady \/ PsLlrDone
  BY <1>9 DEF PsLlrSet, PsLlrReady, PsLlrDone, Stopped, InfoOnly, PmlOnly,
     confVars, llrVars, hpcVars, timeVars
<1>10. CASE PsLlrFailed \/ PsFecFails
  BY <1>10 DEF PsLlrFailed, PsFecFails, PmlOnly, confVars, timeVars
<1>11. CASE PsUp \/ PsSerdesDown \/ PsOut
  BY <1>11 DEF PsUp, PsSerdesDown, PsOut, PmlOnly, confVars, llrVars, hpcVars,
     timeVars
<1>12. CASE PsCleanup
  BY <1>12 DEF PsCleanup, CleanupPml, confVars, timeVars
<1>13. CASE PsStop
  BY <1>13 DEF PsStop, PsLinkDown, confVars, timeVars
<1>14. CASE PsReset
  BY <1>14 DEF PsReset
<1>15. CASE PsConfig \/ PsMedia
  BY <1>15 DEF PsConfig, PsMedia, psCallVars, llrVars, hpcVars, timeVars
<1>16. CASE PsClient \/ PsCancel \/ PsExpire \/ UNCHANGED psVars
  BY <1>16 DEF PsClient, PsCancel, PsExpire, psVars, PmlOnly, psCallVars,
     confVars, llrVars, hpcVars, timeVars
<1> QED BY <1>1, <1>2, <1>3, <1>4, <1>5, <1>6, <1>7, <1>8, <1>9, <1>10, <1>11,
           <1>12, <1>13, <1>14, <1>15, <1>16 DEF PsNext, PsThread

(* Every step keeps the information bits at what they are at its stage.    *)
LEMMA InfoNext == StageInfo /\ StageHw /\ [PsNext]_psVars => StageInfo'
<1> SUFFICES ASSUME StageInfo, StageHw, [PsNext]_psVars PROVE StageInfo'
  OBVIOUS
<1> USE DEF StageInfo, PcsFlags, LinkFlags, LlrFlags, LeftFlag, PsGo, PsQuit
<1>1. CASE PsBegin
  BY <1>1 DEF PsBegin
<1>2. CASE PsAmStart
  <2>1. /\ psPc = "am" /\ info \subseteq PcsFlags
        /\ psState' = psState
    BY <1>2 DEF PsAmStart, Stopped
  <2>2. CASE psPc' = "serdes"
    <3>1. info' = (info \ {"ALIGN_EN", "A_WAIT", "F_WAIT", "PCS_UP"})
                    \cup {"TX_RF", "TX_AM"}
      BY <1>2, <2>2 DEF PsAmStart, Stopped
    <3>2. info' = {"TX_RF", "TX_AM"}
      BY <2>1, <3>1
    <3> QED BY <2>2, <3>2
  <2>3. CASE psPc' = "out" /\ info' = info
    BY <2>1, <2>3
  <2> QED BY <1>2, <2>2, <2>3 DEF PsAmStart, Stopped
<1>3. CASE PsSerdesStart \/ PsConfigure
  BY <1>3 DEF PsSerdesStart, PsConfigure, Stopped
<1>4. CASE PsLock \/ PsAlign \/ PsFaults
  BY <1>4 DEF PsLock, PsAlign, PsFaults, PcsWaitFails, Stopped, InfoOnly, PmlOnly
<1>5. CASE PsPcsFailed \/ PsPmlFailed
  <2>1. CASE PsPcsFailed
    <3>1. psPc = "pcsFailed" /\ psPc' = "pmlFailed" /\ info' \subseteq info
      BY <2>1 DEF PsPcsFailed
    <3>2. info \subseteq PcsFlags
      BY <3>1
    <3> QED BY <3>1, <3>2
  <2>2. CASE PsPmlFailed
    <3>1. /\ psPc = "pmlFailed" /\ psPc' = "serdesDown"
          /\ info' = info \ {"MAC_OP", "ALIGN_EN"} /\ psErr' = psErr
      BY <2>2 DEF PsPmlFailed
    <3>2. info \subseteq PcsFlags \cup {"MAC_OP", LeftFlag}
      BY <3>1
    <3>3. info' \subseteq PcsFlags \cup {LeftFlag}
      BY <3>1, <3>2
    <3> QED BY <3>1, <3>3
  <2> QED BY <1>5, <2>1, <2>2
<1>6. CASE PsDegrade
  BY <1>6 DEF PsDegrade
<1>7. CASE PsLlrMode
  BY <1>7 DEF PsLlrMode
<1>8. CASE PsDetect
  BY <1>8 DEF PsDetect, Stopped
<1>9. CASE PsLlrOn
  BY <1>9 DEF PsLlrOn
<1>10. CASE PsMeasure
  BY <1>10 DEF PsMeasure, MeasureLoops, Stopped
<1>11. CASE PsLlrSet
  BY <1>11 DEF PsLlrSet
<1>12. CASE PsLlrReady
  BY <1>12 DEF PsLlrReady, Stopped, InfoOnly, llrVars, hpcVars, StageHw, SetPcs
<1>13. CASE PsLlrDone
  BY <1>13 DEF PsLlrDone, PmlOnly, llrVars, hpcVars
<1>14. CASE PsLlrFailed
  BY <1>14 DEF PsLlrFailed, LlrStopClears
<1>15. CASE PsFecFails
  BY <1>15 DEF PsFecFails, PsLinkDown, PmlDownClears, LlrStopClears
<1>16. CASE PsUp \/ PsSerdesDown \/ PsOut
  <2>1. CASE PsUp
    <3>1. /\ psPc = "fec" /\ psPc' = "idle" /\ psState' = "UP"
          /\ info' = info
      BY <2>1 DEF PsUp
    <3>2. info = {"PCS_UP", "MAC_OP"} \cup LlrFlags
      BY <3>1
    <3>3. info \subseteq PcsFlags \cup LinkFlags
      BY <3>2
    <3> QED BY <3>1, <3>3
  <2>2. CASE PsSerdesDown
    BY <2>2 DEF PsSerdesDown
  <2>3. CASE PsOut
    <3>1. /\ psPc = "out" /\ psPc' = "idle" /\ psState' = "ERROR"
          /\ info' = info /\ psErr' = psErr
      BY <2>3 DEF PsOut
    <3>2. info \subseteq PcsFlags \cup {LeftFlag}
      BY <3>1
    <3> QED BY <3>1, <3>2
  <2> QED BY <1>16, <2>1, <2>2, <2>3
<1>17. CASE PsCleanup
  BY <1>17 DEF PsCleanup, CleanupPml, PmlDownClears, LlrStopClears,
     ClearedErrors, InvalidatesAll
<1>18. CASE PsStop
  BY <1>18 DEF PsStop, PsLinkDown, PmlDownClears, LlrStopClears
<1>19. CASE PsReset \/ PsConfig \/ PsMedia
  BY <1>19 DEF PsReset, PsConfig, PsMedia, psCallVars
<1>20. CASE PsClient
  BY <1>20 DEF PsClient, psCallVars
<1>21. CASE PsCancel \/ PsExpire \/ UNCHANGED psVars
  BY <1>21 DEF PsCancel, PsExpire, psVars, psCallVars, llrVars, hpcVars
<1> QED BY <1>1, <1>2, <1>3, <1>4, <1>5, <1>6, <1>7, <1>8, <1>9, <1>10, <1>11,
           <1>12, <1>13, <1>14, <1>15, <1>16, <1>17, <1>18, <1>19, <1>20, <1>21
        DEF PsNext, PsThread

(* Stopping the PCS clears its enable or leaves all as it is.              *)
LEMMA PcsStoppedIs ==
  ASSUME NEW r, NEW serdes, DOMAIN r = HwFields
  PROVE  /\ DOMAIN PcsStopped(r, serdes) = HwFields
         /\ \/ PcsStopped(r, serdes) = r
            \/ PcsStopped(r, serdes) = [r EXCEPT !.pcs = FALSE]
<1>1. PcsStopped(r, serdes) = r \/ PcsStopped(r, serdes) = [r EXCEPT !.pcs = FALSE]
  BY DEF PcsStopped
<1> QED BY <1>1

(* What is said of the registers stands when neither they nor the settings *)
(* of the start change.                                                    *)
LEMMA HwStands ==
  ASSUME StageHw, hw' = hw, psMode' = psMode, psLoop' = psLoop,
         psAttr' = psAttr, llrVars' = llrVars
  PROVE  /\ MacMode' = MacMode
         /\ PlainHw' = PlainHw /\ LanesHw' = LanesHw /\ LlrHw' = LlrHw
         /\ GapHw' = GapHw
<1>1. MacMode' = MacMode
  BY DEF MacMode
<1> QED BY <1>1 DEF PlainHw, LanesHw, LlrHw, GapHw, llrVars, hpcVars

(* Every step keeps the registers at what they are at its stage.           *)
LEMMA HwNext == StageHw /\ [PsNext]_psVars => StageHw'
<1> SUFFICES ASSUME StageHw, [PsNext]_psVars PROVE StageHw'
  OBVIOUS
<1> USE DEF StageHw, WaitPcs, PcsPcs, SetPcs, LlrPcs, PsGo, PsQuit
<1>1. CASE PsBegin
  BY <1>1 DEF PsBegin, Defaults, HwFields
<1>2. CASE PsAmStart
  <2>1. CASE psPc' = "serdes"
    <3>1. psPc = "am" /\ hw' = AmStarted /\ hw = Defaults /\ psLoop' = psLoop
      BY <1>2, <2>1 DEF PsAmStart, Stopped
    <3>2. /\ DOMAIN PcsStopped(hw, psSerdes) = HwFields
          /\ \/ PcsStopped(hw, psSerdes) = hw
             \/ PcsStopped(hw, psSerdes) = [hw EXCEPT !.pcs = FALSE]
      BY PcsStoppedIs
    <3>3. PcsStopped(hw, psSerdes).allow = FALSE
      BY <3>1, <3>2 DEF Defaults, HwFields
    <3>4. /\ DOMAIN hw' = HwFields /\ hw'.pcs = TRUE
          /\ hw'.lanes = ActiveLanes(psMode', psLoop)
          /\ hw'.allow = FALSE /\ hw'.os = FALSE
          /\ hw'.degrade = ("LANE_DEGRADE" \in psAttr.opts /\ psMode' = "BS_200G")
      BY <3>1, <3>2, <3>3 DEF AmStarted, HwFields
    <3>5. hw'.degrade \in BOOLEAN
      BY <3>4
    <3> QED BY <2>1, <3>1, <3>4, <3>5 DEF LanesHw
  <2>2. CASE psPc' = "out" /\ hw' = hw
    BY <2>2
  <2> QED BY <1>2, <2>1, <2>2 DEF PsAmStart, Stopped
<1>3. CASE PsSerdesStart
  <2>1. MacMode' = MacMode /\ LanesHw' = LanesHw
    BY <1>3, HwStands DEF PsSerdesStart, confVars
  <2>2. psPc = "serdes" /\ psPc' \in {"config", "out"} /\ hw' = hw
    BY <1>3 DEF PsSerdesStart, Stopped
  <2> QED BY <2>1, <2>2
<1>4. CASE PsConfigure
  <2>1. MacMode' = MacMode /\ psMode' = psMode /\ psLoop' = psLoop
    BY <1>4 DEF PsConfigure, MacMode, confVars
  <2>2. /\ DOMAIN hw' = HwFields /\ hw'.pcs = hw.pcs /\ hw'.rf = FALSE
        /\ hw'.lanes = ActiveLanes(psMode, psLoop) /\ hw'.ifg = MacMode
        /\ hw'.llr = "off" /\ hw'.os = hw.os /\ hw'.degrade = hw.degrade
        /\ hw'.allow = hw.allow
    BY <1>4 DEF PsConfigure, HwFields
  <2>3. psPc = "config" /\ psPc' = "lock"
    BY <1>4 DEF PsConfigure
  <2> QED BY <2>1, <2>2, <2>3 DEF LanesHw, PlainHw
<1>5. CASE PsLock \/ PsAlign \/ PsFaults
  <2>1. /\ MacMode' = MacMode /\ LanesHw' = LanesHw /\ PlainHw' = PlainHw
        /\ hw' = hw
    BY <1>5, HwStands DEF PsLock, PsAlign, PsFaults, InfoOnly, PmlOnly, confVars
  <2>2. psPc \in WaitPcs /\ psPc' \in WaitPcs \cup {"pcsFailed", "degrade"}
    BY <1>5 DEF PsLock, PsAlign, PsFaults, PcsWaitFails, Stopped
  <2> QED BY <2>1, <2>2
<1>6. CASE PsPcsFailed \/ PsPmlFailed \/ PsSerdesDown \/ PsOut
  <2>1. psPc' \in {"pmlFailed", "serdesDown", "out", "idle"}
    BY <1>6 DEF PsPcsFailed, PsPmlFailed, PsSerdesDown, PsOut
  <2>2. DOMAIN hw' = HwFields
    BY <1>6 DEF PsPcsFailed, PsPmlFailed, PsSerdesDown, PsOut
  <2> QED BY <2>1, <2>2
<1>7. CASE PsDegrade
  <2>1. MacMode' = MacMode /\ psMode' = psMode /\ psLoop' = psLoop
    BY <1>7 DEF PsDegrade, PmlOnly, MacMode, confVars
  <2>2. psPc = "degrade" /\ psPc' = "llr"
    BY <1>7 DEF PsDegrade
  <2>3. PICK told \in BOOLEAN :
          hw' = [hw EXCEPT !.degrade = hw.degrade /\ told,
                           !.allow = hw.allow \/ (hw.degrade /\ told),
                           !.mac = TRUE, !.timing = TRUE]
    BY <1>7 DEF PsDegrade
  <2>4. /\ DOMAIN hw' = HwFields /\ hw'.pcs = hw.pcs /\ hw'.rf = hw.rf
        /\ hw'.lanes = hw.lanes /\ hw'.ifg = hw.ifg /\ hw'.llr = hw.llr
        /\ hw'.os = hw.os /\ hw'.mac = TRUE
    BY <2>3 DEF HwFields
  <2>5. /\ hw'.degrade = (hw.degrade /\ told)
        /\ hw'.allow = (hw.allow \/ (hw.degrade /\ told))
    BY <2>3 DEF HwFields
  <2>6. hw'.degrade = hw'.allow
    BY <2>2, <2>5
  <2> QED BY <2>1, <2>2, <2>4, <2>6 DEF LanesHw, PlainHw
<1>8. CASE PsLlrMode \/ PsDetect
  <2>1. /\ MacMode' = MacMode /\ psMode' = psMode /\ psLoop' = psLoop /\ hw' = hw
    BY <1>8 DEF PsLlrMode, PsDetect, PmlOnly, MacMode, confVars
  <2>2. /\ psPc \in {"llr", "detect"}
        /\ \/ psPc' \in {"detect", "llrFailed"}
           \/ psPc' = "llrOn" /\ llrMode' # "off"
           \/ psPc' = "llrDone" /\ llrMode' = "off"
    BY <1>8 DEF PsLlrMode, PsDetect, Stopped
  <2>3. LanesHw' /\ PlainHw'
    BY <2>1, <2>2 DEF LanesHw, PlainHw
  <2> QED BY <2>1, <2>2, <2>3 DEF LlrHw, PlainHw
<1>9. CASE PsLlrOn
  <2>1. /\ MacMode' = MacMode /\ psMode' = psMode /\ psLoop' = psLoop
        /\ llrMode' = llrMode /\ llrHpc' = llrHpc
    BY <1>9 DEF PsLlrOn, PmlOnly, MacMode, confVars, llrVars, hpcVars
  <2>2. psPc = "llrOn" /\ psPc' \in {"llrSet", "measure"}
    BY <1>9 DEF PsLlrOn
  <2>3. hw' = [hw EXCEPT !.ifg = IF llrHpc THEN "hpc" ELSE @, !.os = TRUE]
    BY <1>9 DEF PsLlrOn
  <2>4. /\ DOMAIN hw' = HwFields /\ hw'.pcs = hw.pcs /\ hw'.rf = hw.rf
        /\ hw'.lanes = hw.lanes /\ hw'.llr = hw.llr
        /\ hw'.os = TRUE /\ hw'.mac = hw.mac /\ hw'.degrade = hw.degrade
        /\ hw'.allow = hw.allow
    BY <2>3 DEF HwFields
  <2>5. hw'.ifg = IF llrHpc THEN "hpc" ELSE hw.ifg
    BY <2>3 DEF HwFields
  <2>6. (llrHpc => hw'.ifg = "hpc") /\ (~llrHpc => hw'.ifg = hw.ifg)
    BY <2>5
  <2> QED BY <2>1, <2>2, <2>4, <2>6 DEF LanesHw, PlainHw, GapHw
<1>10. CASE PsMeasure
  <2>1. /\ MacMode' = MacMode /\ LanesHw' = LanesHw /\ GapHw' = GapHw
        /\ hw' = hw /\ llrMode' = llrMode
    BY <1>10, HwStands DEF PsMeasure, PmlOnly, confVars, llrVars, hpcVars
  <2>2. psPc = "measure" /\ psPc' \in {"llrSet", "llrFailed"}
    BY <1>10 DEF PsMeasure, MeasureLoops, Stopped
  <2> QED BY <2>1, <2>2
<1>11. CASE PsLlrSet
  <2>1. /\ MacMode' = MacMode /\ psMode' = psMode /\ psLoop' = psLoop
        /\ llrMode' = llrMode /\ llrHpc' = llrHpc
    BY <1>11 DEF PsLlrSet, PmlOnly, MacMode, confVars, llrVars, hpcVars
  <2>2. /\ psPc = "llrSet" /\ psPc' = "llrReady"
        /\ hw' = [hw EXCEPT !.llr = llrMode]
    BY <1>11 DEF PsLlrSet
  <2>3. /\ DOMAIN hw' = HwFields /\ hw'.pcs = hw.pcs /\ hw'.rf = hw.rf
        /\ hw'.lanes = hw.lanes /\ hw'.llr = llrMode /\ hw'.os = hw.os
        /\ hw'.mac = hw.mac /\ hw'.degrade = hw.degrade
        /\ hw'.allow = hw.allow /\ hw'.ifg = hw.ifg
    BY <2>2 DEF HwFields
  <2> QED BY <2>1, <2>2, <2>3 DEF LanesHw, GapHw
<1>12. CASE PsLlrReady
  <2>1. /\ MacMode' = MacMode /\ LanesHw' = LanesHw /\ GapHw' = GapHw
        /\ LlrHw' = LlrHw /\ hw' = hw /\ llrMode' = llrMode
    BY <1>12, HwStands DEF PsLlrReady, InfoOnly, PmlOnly, confVars, llrVars,
       hpcVars
  <2>2. psPc = "llrReady" /\ psPc' \in {"llrDone", "llrFailed"}
    BY <1>12 DEF PsLlrReady, Stopped
  <2>3. LlrHw
    BY <2>2 DEF LlrHw
  <2> QED BY <2>1, <2>2, <2>3
<1>13. CASE PsLlrDone
  <2>1. /\ MacMode' = MacMode /\ psMode' = psMode /\ psLoop' = psLoop
        /\ llrMode' = llrMode /\ llrHpc' = llrHpc
    BY <1>13 DEF PsLlrDone, PmlOnly, MacMode, confVars, llrVars, hpcVars
  <2>2. /\ psPc = "llrDone" /\ psPc' = "fec"
        /\ hw' = [hw EXCEPT !.timing = FALSE]
    BY <1>13 DEF PsLlrDone
  <2>3. /\ DOMAIN hw' = HwFields /\ hw'.pcs = hw.pcs /\ hw'.rf = hw.rf
        /\ hw'.lanes = hw.lanes /\ hw'.llr = hw.llr /\ hw'.os = hw.os
        /\ hw'.mac = hw.mac /\ hw'.degrade = hw.degrade
        /\ hw'.allow = hw.allow /\ hw'.ifg = hw.ifg /\ hw'.timing = FALSE
    BY <2>2 DEF HwFields
  <2>4. LlrHw' /\ LanesHw'
    BY <2>1, <2>2, <2>3 DEF LanesHw, GapHw, LlrHw
  <2> QED BY <2>2, <2>3, <2>4
<1>14. CASE PsLlrFailed \/ PsFecFails
  <2>1. psPc' \in {"pmlFailed", "serdesDown"}
    BY <1>14 DEF PsLlrFailed, PsFecFails
  <2>2. DOMAIN LlrStopped(hw) = HwFields
    BY DEF LlrStopped, HwFields
  <2>3. DOMAIN [LlrStopped(hw) EXCEPT !.mac = FALSE] = HwFields
    BY <2>2
  <2>4. DOMAIN hw' = HwFields
    BY <1>14, <2>2, <2>3, PcsStoppedIs DEF PsLlrFailed, PsFecFails, PsLinkDown
  <2> QED BY <2>1, <2>4
<1>15. CASE PsCleanup \/ PsStop \/ PsReset \/ PsUp \/ PsClient
  <2>1. psPc' = "idle"
    BY <1>15 DEF PsCleanup, PsStop, PsReset, PsUp, PsClient, psCallVars
  <2>2. DOMAIN LlrStopped(hw) = HwFields
    BY DEF LlrStopped, HwFields
  <2>3. DOMAIN [LlrStopped(hw) EXCEPT !.mac = FALSE] = HwFields
    BY <2>2
  <2>4. DOMAIN PcsStopped([LlrStopped(hw) EXCEPT !.mac = FALSE], "DOWN") = HwFields
    BY <2>3, PcsStoppedIs
  <2>5. DOMAIN Defaults = HwFields
    BY DEF Defaults, HwFields
  <2>6. DOMAIN hw' = HwFields
    BY <1>15, <2>4, <2>5 DEF PsCleanup, CleanupPml, PsStop, PsLinkDown, PsReset,
       PsUp, PsClient
  <2> QED BY <2>1, <2>6
<1>16. CASE PsConfig \/ PsMedia
  BY <1>16 DEF PsConfig, PsMedia, psCallVars
<1>17. CASE PsCancel \/ PsExpire \/ UNCHANGED psVars
  <2>1. /\ MacMode' = MacMode /\ PlainHw' = PlainHw /\ LanesHw' = LanesHw
        /\ LlrHw' = LlrHw /\ GapHw' = GapHw /\ hw' = hw /\ llrMode' = llrMode
        /\ psPc' = psPc
    BY <1>17, HwStands DEF PsCancel, PsExpire, psVars, psCallVars, confVars,
       llrVars, hpcVars
  <2> QED BY <2>1
<1> QED BY <1>1, <1>2, <1>3, <1>4, <1>5, <1>6, <1>7, <1>8, <1>9, <1>10, <1>11,
           <1>12, <1>13, <1>14, <1>15, <1>16, <1>17 DEF PsNext, PsThread

(* The partner and the options ask for HPC or do not.                      *)
LEMMA AsksOrNot ==
  AnHpc \in BOOLEAN /\ ("HPC_WITH_LLR" \in psAttr.opts) \in BOOLEAN
<1>1. AnHpc \in BOOLEAN
  BY DEF AnHpc
<1>2. ("HPC_WITH_LLR" \in psAttr.opts) \in BOOLEAN
  OBVIOUS
<1> QED BY <1>1, <1>2

(* Every step keeps what has been asked for; a start begins anew.           *)
LEMMA AskedNext == StageHw /\ AskedInv /\ [PsNext]_psVars => AskedInv'
<1> SUFFICES ASSUME StageHw, AskedInv, [PsNext]_psVars PROVE AskedInv'
  OBVIOUS
<1> USE DEF AskedInv, WaitPcs, SetPcs, PsGo, PsQuit
<1>1. CASE psPc' \notin WaitPcs \cup SetPcs \cup
                        {"degrade", "llr", "detect", "llrOn", "llrDone", "fec"}
  BY <1>1
<1>2. CASE PsConfigure
  BY <1>2 DEF PsConfigure
<1>3. CASE PsLock \/ PsAlign \/ PsFaults \/ PsDegrade
  BY <1>3 DEF PsLock, PsAlign, PsFaults, PcsWaitFails, PsDegrade, Stopped,
     InfoOnly, llrVars, hpcVars
<1>4. CASE PsLlrMode \/ PsDetect
  <2>1. psPc \in {"llr", "detect"} /\ hpcAsked = FALSE
    BY <1>4 DEF PsLlrMode, PsDetect, Stopped
  <2>2. CASE UNCHANGED hpcVars
    <3>1. hpcAsked' = FALSE
      BY <2>1, <2>2 DEF hpcVars
    <3> QED BY <3>1
  <2>3. ASSUME NEW yes \in BOOLEAN, HpcWithLlr(yes), psPc' = "llrOn"
        PROVE  AskedInv'
    <3>1. yes = TRUE => llrHpc' = TRUE
      BY <2>3 DEF HpcWithLlr
    <3>2. yes = FALSE => hpcAsked' = FALSE
      BY <2>3 DEF HpcWithLlr
    <3> QED BY <2>3, <3>1, <3>2
  <2> QED BY <1>4, <2>2, <2>3, AsksOrNot DEF PsLlrMode, PsDetect, Stopped, llrVars
<1>5. CASE PsLlrOn \/ PsMeasure \/ PsLlrSet \/ PsLlrReady \/ PsLlrDone
  <2>1. UNCHANGED <<llrMode, llrHpc, hpcAsked>>
    BY <1>5 DEF PsLlrOn, PsMeasure, PsLlrSet, PsLlrReady, PsLlrDone, InfoOnly,
       llrVars, hpcVars
  <2>2. \/ psPc \in SetPcs \cup {"llrOn"} /\ llrMode # "off"
        \/ psPc = "llrDone" /\ psPc' = "fec"
    BY <1>5 DEF PsLlrOn, PsMeasure, MeasureLoops, PsLlrSet, PsLlrReady,
       PsLlrDone, Stopped, StageHw
  <2>3. psPc' \in SetPcs \cup {"llrDone", "fec", "llrFailed"}
    BY <1>5 DEF PsLlrOn, PsMeasure, MeasureLoops, PsLlrSet, PsLlrReady,
       PsLlrDone, Stopped
  <2> QED BY <2>1, <2>2, <2>3
<1>6. CASE PsCancel \/ PsExpire \/ UNCHANGED psVars
  BY <1>6 DEF PsCancel, PsExpire, psVars, psCallVars, llrVars, hpcVars
<1>7. CASE PsBegin \/ PsAmStart \/ PsSerdesStart \/ PsPcsFailed \/ PsPmlFailed
           \/ PsLlrFailed \/ PsUp \/ PsFecFails \/ PsSerdesDown \/ PsOut
           \/ PsCleanup \/ PsStop \/ PsReset \/ PsConfig \/ PsMedia \/ PsClient
  <2>1. psPc' \in {"idle", "am", "serdes", "config", "out", "pmlFailed",
                   "serdesDown"}
    BY <1>7 DEF PsBegin, PsAmStart, PsSerdesStart, PsPcsFailed, PsPmlFailed,
       PsLlrFailed, PsUp, PsFecFails, PsSerdesDown, PsOut, PsCleanup, PsStop,
       PsReset, PsConfig, PsMedia, PsClient, Stopped, psCallVars
  <2> QED BY <1>1, <2>1
<1> QED BY <1>2, <1>3, <1>4, <1>5, <1>6, <1>7 DEF PsNext, PsThread

(* The invariants of a start of the PML.                                   *)
PmlInv == TimeInv /\ StageInfo /\ StageHw /\ AskedInv

(* They hold in the initial states.                                        *)
LEMMA PmlInit == PsInit => PmlInv
BY DEF PsInit, PmlInv, TimeInv, Known, StageInfo, PcsFlags, LinkFlags, LlrFlags,
   LeftFlag, AskedInv, StageHw, PcsPcs, WaitPcs, SetPcs, LlrPcs, HwFields, Defaults

(* They hold in every reachable state.                                     *)
THEOREM PmlHolds == PsSpec => []PmlInv
<1>1. PmlInv /\ [PsNext]_psVars => PmlInv'
  BY TimeNext, InfoNext, HwNext, AskedNext DEF PmlInv
<1> QED BY PmlInit, <1>1, PTL DEF PsSpec

(* LLR never runs on a loop time that a failed start had begun to measure, *)
(* nor on that of another loopback mode or cable (LoopTimeFits), for all   *)
(* media and configurations: sbl_media_config(), sbl_base_link_start(),    *)
(* the cleanup and sbl_base_link_reset() make it void.                     *)
THEOREM LoopTimeIsOfThisCable == PsSpec => []LoopTimeFits
<1>1. PmlInv => LoopTimeFits
  BY DEF PmlInv, TimeInv, Known, LoopTimeFits
<1> QED BY <1>1, PmlHolds, PTL

(* sbl_base_link_start() reports the link up only with PCS, MAC, lane      *)
(* degrade and LLR set as its mode and options ask, no stage of the start  *)
(* left open and the information bits saying so (UpIsWhole), for all media,*)
(* configurations and modes, whatever was cancelled, late or failed        *)
(* before.  The gap is the one that this start asked for, or HPC for a LLR *)
(* that runs where llr_options has kept HPC from an earlier start.         *)
THEOREM UpAfterWholeStart == PsSpec => UpIsWhole
<1> DEFINE UpWhole ==
      psState # "UP" /\ psState' = "UP" =>
       /\ hw.pcs /\ hw.mac /\ ~hw.rf /\ ~hw.timing
       /\ hw.lanes = ActiveLanes(psMode, psLoop)
       /\ hw.degrade = hw.allow
       /\ hw.llr = llrMode /\ hw.os = (llrMode # "off")
       /\ hw.ifg = GapAsked \/ GapLeft
       /\ info = {"PCS_UP", "MAC_OP"} \cup
                   IF hw.os THEN {"OS", "LLR_RUN"} ELSE {}
<1>1. PmlInv /\ psPc = "fec" => UpWhole
  <2> SUFFICES ASSUME PmlInv, psPc = "fec" PROVE UpWhole
    OBVIOUS
  <2>0. /\ hpcAsked = FALSE \/ llrHpc = TRUE
        /\ llrMode = "off" => hpcAsked = FALSE
    BY DEF PmlInv, AskedInv
  <2>1. /\ LanesHw /\ LlrHw /\ hw.rf = FALSE /\ hw.mac = TRUE
        /\ hw.degrade = hw.allow /\ hw.timing = FALSE
        /\ info = {"PCS_UP", "MAC_OP"} \cup LlrFlags
    BY DEF PmlInv, StageHw, StageInfo, LlrPcs, SetPcs
  <2>2. CASE llrMode = "off"
    <3>1. hw.os = FALSE /\ hw.ifg = MacMode /\ hw.llr = llrMode
      BY <2>1, <2>2 DEF LlrHw
    <3>2. info = {"PCS_UP", "MAC_OP"} \cup {}
      BY <2>1, <2>2 DEF LlrFlags
    <3>3. hw.ifg = GapAsked
      BY <2>0, <2>2, <3>1 DEF GapAsked
    <3> QED BY <2>1, <2>2, <3>1, <3>2, <3>3 DEF LanesHw
  <2>3. CASE llrMode # "off"
    <3>1. hw.os = TRUE /\ GapHw /\ hw.llr = llrMode
      BY <2>1, <2>3 DEF LlrHw
    <3>2. info = {"PCS_UP", "MAC_OP"} \cup {"OS", "LLR_RUN"}
      BY <2>1, <2>3 DEF LlrFlags
    <3>3. hw.ifg = GapAsked \/ GapLeft
      BY <2>0, <3>1 DEF GapHw, GapAsked, GapLeft
    <3> QED BY <2>1, <2>3, <3>1, <3>2, <3>3 DEF LanesHw
  <2> QED BY <2>2, <2>3
<1>2. [PsNext]_psVars => psPc = "fec" \/ psState' # "UP" \/ psState' = psState
  BY DEF PsNext, PsThread, PsBegin, PsAmStart, PsSerdesStart, PsConfigure, PsLock,
     PsAlign, PsFaults, PcsWaitFails, Stopped, PsPcsFailed, PsPmlFailed,
     PsDegrade, PsLlrMode, PsDetect, PsLlrOn, PsMeasure, PsLlrSet, PsLlrReady,
     PsLlrDone, PsLlrFailed, PsUp, PsFecFails, PsSerdesDown, PsOut, PsCleanup,
     PsStop, PsReset, PsConfig, PsMedia, PsClient, PsCancel, PsExpire, PsGo,
     PsQuit, MeasureLoops, psVars, psCallVars
<1>3. PmlInv /\ [PsNext]_psVars => [UpWhole]_psVars
  BY <1>1, <1>2
<1>4. UpIsWhole <=> [][UpWhole]_psVars
  BY DEF UpIsWhole
<1> HIDE DEF UpWhole
<1>5. PsSpec => [][UpWhole]_psVars
  BY <1>3, PmlHolds, PTL DEF PsSpec
<1> QED BY <1>4, <1>5

-----------------------------------------------------------------------------
(* The types of the PML, in three parts: states, flags and counts; the     *)
(* mode of LLR, which is resolved before it is written; the registers.     *)
StatesTyped ==
  /\ psState \in {"DOWN", "STARTING", "UP", "ERROR"}
  /\ psSerdes \in {"DOWN", "RUNNING", "ERROR"}
  /\ psParams \in {"none", "saved", "used"}
  /\ info \subseteq PsFlags /\ psGood \in 0 .. NoFaults - 1

LlrTyped ==
  /\ psAttr \in PmlAttrs /\ llrMode \in LlrModes
  /\ psPc \in SetPcs \cup {"llrOn", "llrDone", "fec"} \/ psState = "UP" =>
       llrMode # "auto"

HwTyped == hw.llr \in LlrModes \ {"auto"} /\ hw.lanes \subseteq DOMAIN TxSource

(* A step of the thread, and one of the others.                            *)
LEMMA StatesNext == StatesTyped /\ [PsNext]_psVars => StatesTyped'
<1> SUFFICES ASSUME StatesTyped, [PsNext]_psVars PROVE StatesTyped'
  OBVIOUS
<1> USE DEF StatesTyped, PsFlags, PsGo, PsQuit, Stopped, PmlOnly, serdesVars,
            psCallVars
<1>1. CASE PsAmStart \/ PsSerdesStart \/ PsConfigure \/ PsLock \/ PsAlign
  <2>1. CASE PsAmStart
    BY <2>1 DEF PsAmStart
  <2>2. CASE PsSerdesStart
    BY <2>2 DEF PsSerdesStart
  <2>3. CASE PsConfigure
    BY <2>3 DEF PsConfigure
  <2>4. CASE PsLock
    BY <2>4 DEF PsLock, PcsWaitFails, InfoOnly
  <2>5. CASE PsAlign
    <3>1. UNCHANGED <<psState, psSerdes, psParams>> /\ psGood' \in {psGood, 0}
      BY <2>5 DEF PsAlign, PcsWaitFails
    <3>2. info' \subseteq info \cup {"F_WAIT"}
      BY <2>5 DEF PsAlign
    <3> QED BY <3>1, <3>2, PmlAssumption
  <2> QED BY <1>1, <2>1, <2>2, <2>3, <2>4, <2>5
<1>2. CASE PsFaults
  <2>1. UNCHANGED <<psState, psSerdes, psParams>>
    BY <1>2 DEF PsFaults, PcsWaitFails
  <2>2. psGood' = psGood \/ psGood' \in {0} \cup ({psGood + 1} \ {NoFaults})
    BY <1>2 DEF PsFaults
  <2>3. info' \subseteq info \cup {"A_WAIT", "PCS_UP"}
    BY <1>2 DEF PsFaults
  <2> QED BY <2>1, <2>2, <2>3, PmlAssumption
<1>3. CASE PsPcsFailed \/ PsPmlFailed \/ PsDegrade \/ PsLlrMode \/ PsDetect
  BY <1>3 DEF PsPcsFailed, PsPmlFailed, PsDegrade, PsLlrMode, PsDetect
<1>4. CASE PsLlrOn \/ PsMeasure \/ PsLlrSet \/ PsLlrReady \/ PsLlrDone
           \/ PsLlrFailed
  BY <1>4 DEF PsLlrOn, PsMeasure, MeasureLoops, PsLlrSet, PsLlrReady, PsLlrDone,
     PsLlrFailed, InfoOnly
<1>5. CASE PsUp \/ PsFecFails \/ PsSerdesDown \/ PsOut
  BY <1>5 DEF PsUp, PsFecFails, PsLinkDown, PsSerdesDown, SerdesStops, PsOut
<1>6. CASE PsBegin \/ PsCleanup \/ PsStop \/ PsReset
  BY <1>6, PmlAssumption DEF PsBegin, PsCleanup, CleanupPml, PsStop, PsLinkDown,
     SerdesStops, PsReset
<1>7. CASE PsConfig \/ PsMedia \/ PsClient \/ PsCancel \/ PsExpire
           \/ UNCHANGED psVars
  BY <1>7 DEF PsConfig, PsMedia, PsClient, PsCancel, PsExpire, psVars
<1> QED BY <1>1, <1>2, <1>3, <1>4, <1>5, <1>6, <1>7 DEF PsNext, PsThread

(* A mode that was given as automatic is resolved before LLR is set up.    *)
LEMMA LlrNext == TimeInv /\ LlrTyped /\ [PsNext]_psVars => LlrTyped'
<1> SUFFICES ASSUME TimeInv, LlrTyped, [PsNext]_psVars PROVE LlrTyped'
  OBVIOUS
<1>0. (psState = "UP" => psPc = "idle") /\ psAttr.llr \in LlrModes
  BY PmlAssumption DEF TimeInv, LlrTyped, LlrModes
<1> USE DEF LlrTyped, LlrModes, SetPcs, PsGo, PsQuit, Stopped, PmlOnly, confVars,
            llrVars, hpcVars, psCallVars
<1>1. CASE PsAmStart \/ PsSerdesStart \/ PsConfigure \/ PsLock \/ PsAlign
           \/ PsFaults
  BY <1>0, <1>1 DEF PsAmStart, PsSerdesStart, PsConfigure, PsLock, PsAlign,
     PsFaults, PcsWaitFails, InfoOnly
<1>2. CASE PsPcsFailed \/ PsPmlFailed \/ PsDegrade \/ PsLlrMode \/ PsDetect
  <2>1. CASE PsLlrMode
    BY <1>0, <2>1 DEF PsLlrMode
  <2>2. CASE PsDetect
    BY <1>0, <2>2 DEF PsDetect
  <2>3. CASE PsPcsFailed \/ PsPmlFailed \/ PsDegrade
    BY <1>0, <2>3 DEF PsPcsFailed, PsPmlFailed, PsDegrade
  <2> QED BY <1>2, <2>1, <2>2, <2>3
<1>3. CASE PsLlrOn \/ PsMeasure \/ PsLlrSet \/ PsLlrReady \/ PsLlrDone
           \/ PsLlrFailed
  BY <1>0, <1>3 DEF PsLlrOn, PsMeasure, MeasureLoops, PsLlrSet, PsLlrReady,
     PsLlrDone, PsLlrFailed, InfoOnly
<1>4. CASE PsUp \/ PsFecFails \/ PsSerdesDown \/ PsOut
  BY <1>0, <1>4 DEF PsUp, PsFecFails, PsLinkDown, PsSerdesDown, PsOut
<1>5. CASE PsBegin \/ PsCleanup \/ PsStop \/ PsReset
  BY <1>0, <1>5 DEF PsBegin, PsCleanup, CleanupPml, PsStop, PsLinkDown, PsReset
<1>6. CASE PsConfig \/ PsMedia \/ PsClient \/ PsCancel \/ PsExpire
           \/ UNCHANGED psVars
  BY <1>0, <1>6 DEF PsConfig, PsMedia, PsClient, PsCancel, PsExpire, psVars
<1> QED BY <1>1, <1>2, <1>3, <1>4, <1>5, <1>6 DEF PsNext, PsThread

(* The active lanes are lanes of the port.                                 *)
LEMMA ActiveAreLanes ==
  ASSUME NEW mode, NEW loop
  PROVE  ActiveLanes(mode, loop) \subseteq DOMAIN TxSource
<1> DEFINE source == IF loop = "local" THEN TxSource ELSE RxSource
<1>1. DOMAIN source = DOMAIN TxSource
  BY PmlAssumption
<1> HIDE DEF source
<1>2. ActiveLanes(mode, loop) \subseteq DOMAIN source
  BY DEF ActiveLanes, source
<1> QED BY <1>1, <1>2

(* What is written to the registers has the type of its field.             *)
LEMMA HwTypedNext ==
  /\ StageHw /\ TimeInv /\ LlrTyped /\ LlrTyped' /\ HwTyped
  /\ [PsNext]_psVars
  => HwTyped'
<1> SUFFICES ASSUME StageHw, TimeInv, LlrTyped, HwTyped, [PsNext]_psVars
             PROVE  HwTyped'
  OBVIOUS
<1>0. /\ DOMAIN hw = HwFields
      /\ hw.llr \in LlrModes \ {"auto"} /\ hw.lanes \subseteq DOMAIN TxSource
      /\ DOMAIN TxSource' = DOMAIN TxSource
      /\ "off" \in LlrModes \ {"auto"}
  BY DEF StageHw, HwTyped, LlrModes
<1>1. ASSUME hw'.llr \in {hw.llr, "off"},
             hw'.lanes = hw.lanes \/ hw'.lanes \subseteq DOMAIN TxSource
      PROVE  HwTyped'
  BY <1>0, <1>1 DEF HwTyped
<1>2. Defaults.llr = "off" /\ Defaults.lanes = {}
  BY DEF Defaults
<1>3. CASE UNCHANGED hw
  BY <1>1, <1>3
<1>4. CASE hw' = Defaults
  BY <1>1, <1>2, <1>4
<1>5. ASSUME NEW r, DOMAIN r = HwFields, NEW serdes
      PROVE  /\ PcsStopped(r, serdes).llr = r.llr
             /\ PcsStopped(r, serdes).lanes = r.lanes
             /\ DOMAIN PcsStopped(r, serdes) = HwFields
  BY <1>5 DEF PcsStopped, HwFields
<1>6. CASE PsAmStart
  <2>1. DOMAIN PcsStopped(hw, psSerdes) = HwFields
    BY <1>0, <1>5
  <2>2. AmStarted.llr = hw.llr /\ AmStarted.lanes = ActiveLanes(psMode', psLoop)
    BY <1>0, <1>5, <2>1 DEF AmStarted, HwFields
  <2>3. hw' \in {hw, AmStarted}
    BY <1>6 DEF PsAmStart
  <2> QED BY <1>1, <2>2, <2>3, ActiveAreLanes
<1>7. CASE PsConfigure
  <2>1. /\ hw'.llr = "off" /\ hw'.lanes = ActiveLanes(psMode, psLoop)
    BY <1>0, <1>7 DEF PsConfigure, HwFields
  <2> QED BY <1>1, <2>1, ActiveAreLanes
<1>8. CASE PsPmlFailed \/ PsDegrade \/ PsLlrOn \/ PsLlrDone \/ PsLlrFailed
  <2>1. hw'.llr \in {hw.llr, "off"} /\ hw'.lanes = hw.lanes
    BY <1>0, <1>8 DEF PsPmlFailed, PsDegrade, PsLlrOn, PsLlrDone, PsLlrFailed,
       LlrStopped, HwFields
  <2> QED BY <1>1, <2>1
<1>9. CASE PsLlrSet
  <2>1. hw'.llr = llrMode /\ hw'.lanes = hw.lanes
    BY <1>0, <1>9 DEF PsLlrSet, HwFields
  <2>2. llrMode \in LlrModes \ {"auto"}
    BY <1>9 DEF PsLlrSet, PsGo, LlrTyped, SetPcs
  <2> QED BY <1>0, <2>1, <2>2 DEF HwTyped, LlrModes
<1>10. ASSUME NEW serdes, PsLinkDown(serdes) PROVE HwTyped'
  <2> DEFINE r == [LlrStopped(hw) EXCEPT !.mac = FALSE]
  <2>1. DOMAIN r = HwFields /\ r.llr = "off" /\ r.lanes = hw.lanes
    BY <1>0 DEF LlrStopped, HwFields
  <2>2. hw' = PcsStopped(r, serdes)
    BY <1>10 DEF PsLinkDown
  <2> HIDE DEF r
  <2> QED BY <1>1, <1>5, <2>1, <2>2
<1>11. CASE PsClient
  <2>1. hw'.llr \in {hw.llr, "off", llrMode} /\ hw'.lanes = hw.lanes
    BY <1>0, <1>11 DEF PsClient, HwFields
  <2>2. llrMode \in LlrModes \ {"auto"}
    BY <1>11 DEF PsClient, LlrTyped
  <2> QED BY <1>0, <2>1, <2>2 DEF HwTyped, LlrModes
<1>12. CASE PsSerdesStart \/ PsLock \/ PsAlign \/ PsFaults \/ PsPcsFailed
            \/ PsLlrMode \/ PsDetect \/ PsMeasure \/ PsLlrReady \/ PsUp
            \/ PsSerdesDown \/ PsOut \/ PsConfig \/ PsMedia \/ PsCancel
            \/ PsExpire \/ UNCHANGED psVars
  BY <1>3, <1>12 DEF PsSerdesStart, PsLock, PsAlign, PsFaults, PsPcsFailed,
     PsLlrMode, PsDetect, PsMeasure, PsLlrReady, PsUp, PsSerdesDown, PsOut,
     PsConfig, PsMedia, PsCancel, PsExpire, InfoOnly, psVars
<1>13. CASE PsFecFails \/ PsBegin \/ PsCleanup \/ PsStop \/ PsReset
  BY <1>3, <1>4, <1>10, <1>13 DEF PsFecFails, PsBegin, PsCleanup, CleanupPml,
     PsStop, PsReset
<1> QED BY <1>6, <1>7, <1>8, <1>9, <1>11, <1>12, <1>13 DEF PsNext, PsThread

(* A cancel, the timeout and HPC are set or clear.                         *)
StopsTyped == /\ psExpired \in BOOLEAN /\ psCancelled \in BOOLEAN
              /\ llrHpc \in BOOLEAN /\ hpcAsked \in BOOLEAN

(* Every step keeps them so.                                               *)
LEMMA StopsNext == StopsTyped /\ [PsNext]_psVars => StopsTyped'
<1> SUFFICES ASSUME StopsTyped, [PsNext]_psVars PROVE StopsTyped'
  OBVIOUS
<1>1. psExpired' \in {psExpired, TRUE, FALSE} /\ psCancelled' \in {psCancelled, TRUE, FALSE}
  BY DEF PsNext, PsThread, PsAmStart, PsSerdesStart, PsConfigure, PsLock,
     PsAlign, PsFaults, PsPcsFailed, PsPmlFailed, PsDegrade, PsLlrMode, PsDetect,
     PsLlrOn, PsMeasure, PsLlrSet, PsLlrReady, PsLlrDone, PsLlrFailed, PsUp,
     PsFecFails, PsSerdesDown, PsOut, PsBegin, PsCleanup, PsStop, PsReset,
     PsConfig, PsMedia, PsClient, PsCancel, PsExpire, InfoOnly, PmlOnly, stopVars,
     psVars
<1>2. \/ llrHpc' = llrHpc /\ (hpcAsked' = hpcAsked \/ hpcAsked' = FALSE)
      \/ \E yes \in {AnHpc, "HPC_WITH_LLR" \in psAttr.opts} : HpcWithLlr(yes)
  BY DEF PsNext, PsThread, PsAmStart, PsSerdesStart, PsConfigure, PsLock,
     PsAlign, PsFaults, PsPcsFailed, PsPmlFailed, PsDegrade, PsLlrMode, PsDetect,
     PsLlrOn, PsMeasure, PsLlrSet, PsLlrReady, PsLlrDone, PsLlrFailed, PsUp,
     PsFecFails, PsSerdesDown, PsOut, PsBegin, PsCleanup, PsStop, PsReset,
     PsConfig, PsMedia, PsClient, PsCancel, PsExpire, InfoOnly, PmlOnly, llrVars,
     hpcVars, psVars
<1>3. llrHpc' \in BOOLEAN /\ hpcAsked' \in BOOLEAN
  BY <1>2, AsksOrNot, Zenon DEF StopsTyped, HpcWithLlr
<1> QED BY <1>1, <1>3, Zenon DEF StopsTyped

(* A start of the PML keeps its types (PsTypeOK), for every mode, attribute *)
(* and lane map: no automatic mode reaches the registers of LLR.           *)
THEOREM PsTypes == PsSpec => []PsTypeOK
<1> DEFINE I == StatesTyped /\ LlrTyped /\ HwTyped /\ StopsTyped
           H == PmlInv
<1>1. PsInit => I
  <2> SUFFICES ASSUME PsInit PROVE I
    OBVIOUS
  <2>1. StatesTyped
    BY PmlAssumption DEF PsInit, StatesTyped
  <2>2. LlrTyped /\ HwTyped
    BY DEF PsInit, LlrTyped, LlrModes, SetPcs, HwTyped, Defaults
  <2>3. StopsTyped
    BY Zenon DEF PsInit, StopsTyped
  <2> QED BY <2>1, <2>2, <2>3
<1>2. H /\ I /\ [PsNext]_psVars => I'
  BY StatesNext, LlrNext, HwTypedNext, StopsNext DEF PmlInv
<1>3. H /\ I => PsTypeOK
  BY DEF PmlInv, TimeInv, StatesTyped, LlrTyped, HwTyped, StopsTyped, PsTypeOK
<1>4. PsSpec => []H
  BY PmlHolds
<1> HIDE DEF I, H
<1> QED BY <1>1, <1>2, <1>3, <1>4, PTL DEF PsSpec

-----------------------------------------------------------------------------
(* The steps of a port operation by the routine they belong to, the states *)
(* the port rests in, and the steps each operation goes through.           *)
CfgPcs  == {"cfgPcal", "cfgInit", "cfgSet", "cfgOff", "cfgClock", "cfgLanes",
            "cfgData"}
OffPcs  == {"offPcal", "offLanes", "offSpico"}
MtPcs   == {"mtSetup", "mtSignal", "mtFilter", "mtWait"}
TunePcs == {"optics", "saved", "preDelay", "tune", "tuneWait", "eyes",
            "params", "pcal", "pcalSaved", "save", "prbs"}

RestStates == {"DOWN", "RUNNING", "AUTONEG", "ERROR"}

StepsOf(o) ==
  CASE o = "none"    -> {"idle"}
    [] o = "detect"  -> CfgPcs \cup MtPcs \cup {"end", "broken"}
    [] o = "start"   -> CfgPcs \cup TunePcs \cup {"end", "broken"}
    [] o = "anStart" -> OffPcs \cup CfgPcs \cup {"end", "broken"}
    [] o \in {"stop", "anStop"} -> OffPcs \cup {"end", "broken"}
    [] o = "reset"   -> {"rsPcal", "rsSoft", "flash", "end"}
    [] o = "flash"   -> {"flash"}

(* A port operation is at a step of its own.                               *)
OpStep ==
  /\ sdOp \in SdOps \cup {"none"}
  /\ sdPc \in StepsOf(sdOp)
  /\ sdOp = "none" => sd \in RestStates

USE DEF CfgPcs, OffPcs, MtPcs, TunePcs, RestStates, StepsOf, SdOps, CallOnly,
        StepOnly, SdGo, SdFail, SdBreak

(* No operation is under way at first.                                     *)
LEMMA OpStepInit == SdInit => OpStep
  BY DEF SdInit, OpStep

(* Every step leaves an operation at a step of its own.                    *)
LEMMA OpStepNext == OpStep /\ [SdNext]_sdVars => OpStep'
<1> SUFFICES ASSUME OpStep, [SdNext]_sdVars PROVE OpStep'
  OBVIOUS
<1>1. CASE OffPcal \/ OffLanes \/ OffSpico
  BY <1>1 DEF OpStep, OffPcal, OffLanes, OffSpico, OffGo, OffBreak, OffUnchanged
<1>2. CASE CfgPcal \/ CfgInit \/ CfgSet \/ CfgOff \/ CfgClock
  BY <1>2 DEF OpStep, CfgPcal, CfgInit, CfgSet, CfgOff, CfgClock, CfgGo,
     CfgBreak, CfgUnchanged
<1>3. CASE CfgLanes \/ CfgData
  BY <1>3 DEF OpStep, CfgLanes, CfgData, CfgGo, CfgBreak, CfgUnchanged
<1>4. CASE WaitOptics \/ TuneAnew \/ UseSaved \/ PreDelay \/ TuneStart
  BY <1>4 DEF OpStep, WaitOptics, TuneAnew, UseSaved, PreDelay, TuneStart,
     TuneUnchanged
<1>5. CASE TuneDone \/ TuneStopped \/ TuneFails \/ CheckEyes \/ CheckParams
  BY <1>5 DEF OpStep, TuneDone, TuneStopped, TuneFails, CheckEyes, CheckParams,
     AfterTune, TuneUnchanged
<1>6. CASE StartPcal \/ SaveParams \/ SetPrbs
  BY <1>6 DEF OpStep, StartPcal, PcalStarts, SaveParams, SetPrbs, TuneUnchanged
<1>7. CASE MtSetup \/ MtSignal \/ MtFilter \/ MtWait
  BY <1>7 DEF OpStep, MtSetup, MtSignal, MtFilter, MtWait
<1>8. CASE DetectEnd \/ StartEnd \/ StopEnd \/ BrokenEnd \/ ResetEnd
            \/ ReloadFirmware
  BY <1>8 DEF OpStep, DetectEnd, StartEnd, StopEnd, BrokenEnd, ResetEnd,
     ReloadFirmware, CallEnds
<1>9. CASE ResetPcal \/ ResetSoft
  BY <1>9 DEF OpStep, ResetPcal, ResetSoft
<1>10. CASE SdCalls
  BY <1>10 DEF OpStep, SdCalls, CallDetect, CallStart, CallAnStart, CallStop,
     CallReset, CallFlash, SdCall
<1>11. CASE SdCancel \/ Expire \/ SdConfigure \/ SetParams \/ Invalidate
             \/ UNCHANGED sdVars
  BY <1>11 DEF OpStep, SdCancel, Expire, SdConfigure, SetParams, Invalidate,
     FlagOnly, ParamsOnly, sdVars
<1> QED BY <1>1, <1>2, <1>3, <1>4, <1>5, <1>6, <1>7, <1>8, <1>9, <1>10, <1>11
        DEF SdNext, SdStep

-----------------------------------------------------------------------------
(* What an operation may have changed of the state it was called in: the   *)
(* flag that asks for a reload of the firmware, and that only when it      *)
(* breaks off.                                                             *)
Calls ==
  /\ atCall \in RestStates \X BOOLEAN
  /\ reloadSerdes \in BOOLEAN
  /\ sdOp # "none" /\ sdPc # "broken" => reloadSerdes = atCall[2]
  /\ sdPc = "broken" =>
       CASE sdOp \in {"stop", "anStop"} -> reloadSerdes = TRUE
         [] sdOp \in {"start", "anStart"} -> reloadSerdes \in {atCall[2], TRUE}
         [] OTHER -> reloadSerdes = atCall[2]

(* Every step keeps the invariant of the calls.                            *)
LEMMA CallsNext == OpStep /\ Calls /\ [SdNext]_sdVars => Calls'
<1> SUFFICES ASSUME OpStep, Calls, [SdNext]_sdVars PROVE Calls'
  OBVIOUS
<1>1. CASE OffPcal \/ OffLanes \/ OffSpico
  BY <1>1 DEF OpStep, Calls, OffPcal, OffLanes, OffSpico, OffGo, OffBreak, OffUnchanged
<1>2. CASE CfgPcal \/ CfgInit \/ CfgSet \/ CfgOff \/ CfgClock
  BY <1>2 DEF OpStep, Calls, CfgPcal, CfgInit, CfgSet, CfgOff, CfgClock, CfgGo,
     CfgBreak, CfgUnchanged
<1>3. CASE CfgLanes \/ CfgData
  BY <1>3 DEF OpStep, Calls, CfgLanes, CfgData, CfgGo, CfgBreak, CfgUnchanged
<1>4. CASE WaitOptics \/ TuneAnew \/ UseSaved \/ PreDelay \/ TuneStart
  BY <1>4 DEF OpStep, Calls, WaitOptics, TuneAnew, UseSaved, PreDelay, TuneStart,
     TuneUnchanged
<1>5. CASE TuneDone \/ TuneStopped \/ TuneFails \/ CheckEyes \/ CheckParams
  BY <1>5 DEF OpStep, Calls, TuneDone, TuneStopped, TuneFails, CheckEyes, CheckParams,
     AfterTune, TuneUnchanged
<1>6. CASE StartPcal \/ SaveParams \/ SetPrbs
  BY <1>6 DEF OpStep, Calls, StartPcal, PcalStarts, SaveParams, SetPrbs, TuneUnchanged
<1>7. CASE MtSetup \/ MtSignal \/ MtFilter \/ MtWait
  BY <1>7 DEF OpStep, Calls, MtSetup, MtSignal, MtFilter, MtWait
<1>8. CASE DetectEnd \/ StartEnd \/ StopEnd \/ BrokenEnd \/ ResetEnd
            \/ ReloadFirmware
  <2>1. sdOp' = "none" /\ sdPc' = "idle" /\ atCall' = <<"DOWN", FALSE>>
    BY <1>8 DEF DetectEnd, StartEnd, StopEnd, BrokenEnd, ResetEnd,
       ReloadFirmware, CallEnds
  <2>2. reloadSerdes' \in {reloadSerdes, MayReload, reloadSerdes /\ sdOp # "flash"}
    BY <1>8 DEF DetectEnd, StartEnd, StopEnd, BrokenEnd, ResetEnd,
       ReloadFirmware
  <2>3. reloadSerdes \in BOOLEAN
    BY DEF Calls
  <2>4. reloadSerdes' \in BOOLEAN
    BY <2>2, <2>3, Zenon DEF MayReload
  <2> QED BY <2>1, <2>4 DEF Calls
<1>9. CASE ResetPcal \/ ResetSoft
  BY <1>9 DEF OpStep, Calls, ResetPcal, ResetSoft
<1>10. CASE SdCalls
  <2>1. /\ sdOp = "none" /\ sdOp' # "none" /\ sdPc' # "broken"
        /\ atCall' = <<sd, reloadSerdes>> /\ reloadSerdes' = reloadSerdes
    BY <1>10 DEF SdCalls, CallDetect, CallStart, CallAnStart, CallStop,
       CallReset, CallFlash, SdCall
  <2>2. sd \in RestStates /\ reloadSerdes \in BOOLEAN
    BY <2>1 DEF OpStep, Calls
  <2>3. atCall' \in RestStates \X BOOLEAN /\ atCall'[2] = reloadSerdes
    BY <2>1, <2>2
  <2> QED BY <2>1, <2>2, <2>3 DEF Calls
<1>11. CASE SdCancel \/ Expire \/ SdConfigure \/ SetParams \/ Invalidate
             \/ UNCHANGED sdVars
  BY <1>11 DEF OpStep, Calls, SdCancel, Expire, SdConfigure, SetParams, Invalidate,
     FlagOnly, ParamsOnly, sdVars
<1> QED BY <1>1, <1>2, <1>3, <1>4, <1>5, <1>6, <1>7, <1>8, <1>9, <1>10, <1>11
        DEF SdNext, SdStep

-----------------------------------------------------------------------------
(* The state and the reload flag that the abstract service sees: those of  *)
(* the call while an operation is under way.                               *)
State == IF SdIdle THEN sd ELSE atCall[1]
Fw    == IF SdIdle THEN reloadSerdes ELSE atCall[2]

(* What the service sees while no operation is under way.                  *)
LEMMA MapIdle == sdOp = "none" => State = sd /\ Fw = reloadSerdes
  BY DEF State, Fw, SdIdle
(* And while one is under way.                                             *)
LEMMA MapCall == sdOp # "none" => State = atCall[1] /\ Fw = atCall[2]
  BY DEF State, Fw, SdIdle
(* The same behind a step that leaves none under way.                      *)
LEMMA MapIdleN == sdOp' = "none" => State' = sd' /\ Fw' = reloadSerdes'
  BY DEF State, Fw, SdIdle
(* And behind one that leaves one under way.                               *)
LEMMA MapCallN == sdOp' # "none" => State' = atCall'[1] /\ Fw' = atCall'[2]
  BY DEF State, Fw, SdIdle

(* A call that the port accepts is one that the service accepts.           *)
LEMMA CallRefines ==
  ASSUME OpStep, Calls, SdCalls
  PROVE  Service!ServiceNext
<1>1. /\ sdOp = "none" /\ sdOp' \in Service!ServiceCalls
      /\ atCall' = <<sd, reloadSerdes>> /\ reloadSerdes' = reloadSerdes
  BY DEF SdCalls, CallDetect, CallStart, CallAnStart, CallStop, CallReset,
     CallFlash, SdCall, Service!ServiceCalls
<1>2. State = sd /\ Fw = reloadSerdes
  BY <1>1, MapIdle
<1>3. State' = sd /\ Fw' = reloadSerdes
  BY <1>1, MapCallN DEF Service!ServiceCalls
<1>4. CASE sdOp' \in {"detect", "start", "anStart"}
  <2>1. State = "DOWN"
    BY <1>2, <1>4 DEF SdCalls, CallDetect, CallStart, CallAnStart, CallStop,
       CallReset, CallFlash, SdCall
  <2> QED BY <1>1, <1>2, <1>3, <1>4, <2>1 DEF Service!ServiceNext,
          Service!Begin, Service!Accepts, State, Fw
<1>5. CASE sdOp' \in {"stop", "anStop"}
  <2>1. /\ State \in {"RUNNING", "AUTONEG"}
        /\ sdOp' = "anStop" => State = "AUTONEG"
    BY <1>2, <1>5 DEF SdCalls, CallDetect, CallStart, CallAnStart, CallStop,
       CallReset, CallFlash, SdCall
  <2> QED BY <1>1, <1>2, <1>3, <1>5, <2>1 DEF Service!ServiceNext,
          Service!Begin, Service!Accepts, State, Fw
<1>6. CASE sdOp' = "reset"
  BY <1>1, <1>2, <1>3, <1>6 DEF Service!ServiceNext,
          Service!Begin, Service!Accepts, State, Fw
<1>7. CASE sdOp' = "flash"
  <2>1. Fw
    BY <1>2, <1>7, Zenon DEF SdCalls, CallDetect, CallStart, CallAnStart, CallStop,
       CallReset, CallFlash, SdCall
  <2> QED BY <1>1, <1>2, <1>3, <1>7, <2>1 DEF Service!ServiceNext,
          Service!Begin, Service!Accepts, State, Fw
<1> QED BY <1>1, <1>4, <1>5, <1>6, <1>7 DEF Service!ServiceCalls

(* An operation returns, and its effect becomes visible.                   *)
CallOver == /\ sdOp \in SdOps /\ sdOp' = "none"
            /\ Fw = atCall[2] /\ State' = sd' /\ Fw' = reloadSerdes'

(* Each way an operation can end is a return.                              *)
LEMMA EndsOver ==
  ASSUME OpStep, Calls,
         DetectEnd \/ StartEnd \/ StopEnd \/ BrokenEnd \/ ResetEnd \/ ReloadFirmware
  PROVE  CallOver
<1>1. sdOp \in SdOps /\ sdOp' = "none"
  BY DEF OpStep, DetectEnd, StartEnd, StopEnd, BrokenEnd, ResetEnd,
     ReloadFirmware, CallEnds
<1> QED BY <1>1, MapCall, MapIdleN DEF CallOver

(* Each return is an outcome the service allows: a success, giving up, or  *)
(* breaking with the port in error.                                        *)
LEMMA EndRefines ==
  ASSUME OpStep, Calls,
         DetectEnd \/ StartEnd \/ StopEnd \/ BrokenEnd \/ ResetEnd \/ ReloadFirmware
  PROVE  Service!ServiceNext
<1> USE DEF Service!ServiceCalls
<1> DEFINE Outcome ==
      Service!Succeeds(sdOp) \/ Service!GivesUp(sdOp) \/ Service!Breaks(sdOp)
<1>1. CallOver
  BY EndsOver
<1>2. SUFFICES Outcome
  BY <1>1 DEF CallOver, Service!ServiceNext, Service!End
<1>3. Fw \in BOOLEAN
  BY <1>1 DEF CallOver, Calls
<1>4. CASE DetectEnd
  <2>1. /\ sdOp = "detect" /\ reloadSerdes = Fw
        /\ reloadSerdes' \in {reloadSerdes, MayReload}
        /\ sd' \in {"DOWN", "ERROR"}
        /\ sd' = "ERROR" => reloadSerdes' = reloadSerdes
    BY <1>1, <1>4 DEF CallOver, Calls, DetectEnd, CallEnds
  <2>2. reloadSerdes' \in {Fw, TRUE}
    BY <2>1, <1>3, Zenon DEF MayReload
  <2> QED BY <1>1, <2>1, <2>2 DEF CallOver, Service!GivesUp, Service!Breaks, Fw, State
<1>5. CASE StartEnd
  <2>1. /\ sdOp = "start" /\ reloadSerdes = Fw
        /\ reloadSerdes' \in {reloadSerdes, MayReload}
        /\ sd' \in {"RUNNING", "ERROR"}
        /\ sd' = "RUNNING" => reloadSerdes' = reloadSerdes
    BY <1>1, <1>5 DEF CallOver, Calls, StartEnd, CallEnds
  <2>2. reloadSerdes' \in {Fw, TRUE}
    BY <2>1, <1>3, Zenon DEF MayReload
  <2>3. CASE sd' = "RUNNING"
    BY <1>1, <1>3, <2>1, <2>3 DEF CallOver, Service!Succeeds, Fw, State
  <2>4. CASE sd' = "ERROR"
    BY <1>1, <2>1, <2>2, <2>4 DEF CallOver, Service!Breaks, Fw, State
  <2> QED BY <2>1, <2>3, <2>4
<1>6. CASE StopEnd
  BY <1>1, <1>3, <1>6 DEF CallOver, Calls, StopEnd, CallEnds, Service!Succeeds, Fw, State
<1>7. CASE BrokenEnd
  <2>1. sd' = "ERROR" /\ reloadSerdes' = reloadSerdes /\ sdPc = "broken"
    BY <1>7 DEF BrokenEnd, CallEnds
  <2>2. sdOp \in {"detect", "start", "anStart", "stop", "anStop"}
    BY <2>1 DEF OpStep
  <2> QED BY <1>1, <2>1, <2>2 DEF CallOver, Calls, Service!Breaks, Fw, State
<1>8. CASE ResetEnd
  BY <1>1, <1>3, <1>8 DEF CallOver, Calls, ResetEnd, CallEnds, Service!Succeeds, Fw, State
<1>9. CASE ReloadFirmware
  <2>1. /\ sdOp \in {"reset", "flash"} /\ reloadSerdes = Fw
        /\ reloadSerdes' = (reloadSerdes /\ sdOp # "flash")
        /\ sd' \in {"DOWN", "ERROR"}
    BY <1>1, <1>9 DEF CallOver, OpStep, Calls, ReloadFirmware, CallEnds
  <2>2. reloadSerdes' = IF sdOp = "flash" THEN FALSE ELSE Fw
    BY <2>1, <1>3
  <2> QED BY <1>1, <1>3, <2>1, <2>2 DEF CallOver, Service!Succeeds, Service!Breaks, Fw, State
<1> QED BY <1>4, <1>5, <1>6, <1>7, <1>8, <1>9

(* Every step of the port operations is a step of the service or leaves    *)
(* what it sees alone.                                                     *)
LEMMA NextRefines ==
  OpStep /\ Calls /\ [SdNext]_sdVars => [Service!ServiceNext]_(Service!serviceVars)
<1> SUFFICES ASSUME OpStep, Calls, SdNext \/ UNCHANGED sdVars
             PROVE  Service!ServiceNext \/ UNCHANGED Service!serviceVars
  OBVIOUS
<1> DEFINE Stays == /\ sdOp' = sdOp /\ atCall' = atCall
                    /\ sdOp = "none" => sd' = sd /\ reloadSerdes' = reloadSerdes
<1>1. CASE SdCalls
  BY <1>1, CallRefines
<1>2. CASE DetectEnd \/ StartEnd \/ StopEnd \/ BrokenEnd \/ ResetEnd \/ ReloadFirmware
  BY <1>2, EndRefines
<1>3. CASE Stays
  BY <1>3, MapIdle, MapIdleN, MapCall, MapCallN DEF Service!serviceVars, State, Fw
<1>4. CASE OffPcal \/ OffLanes \/ OffSpico \/ ResetPcal \/ ResetSoft
  <2> Stays
  BY <1>4 DEF OpStep, OffPcal, OffLanes, OffSpico, OffGo, OffBreak, OffUnchanged,
       ResetPcal, ResetSoft
  <2> QED BY <1>3
<1>5. CASE CfgPcal \/ CfgInit \/ CfgSet \/ CfgOff \/ CfgClock \/ CfgLanes \/ CfgData
  <2> Stays
  BY <1>5 DEF OpStep, CfgPcal, CfgInit, CfgSet, CfgOff, CfgClock, CfgLanes,
     CfgData, CfgGo, CfgBreak, CfgUnchanged
  <2> QED BY <1>3
<1>6. CASE WaitOptics \/ TuneAnew \/ UseSaved \/ PreDelay \/ TuneStart
  <2> Stays
  BY <1>6 DEF OpStep, WaitOptics, TuneAnew, UseSaved, PreDelay, TuneStart,
     TuneUnchanged
  <2> QED BY <1>3
<1>7. CASE TuneDone \/ TuneStopped \/ TuneFails \/ CheckEyes \/ CheckParams
  <2> Stays
  BY <1>7 DEF OpStep, TuneDone, TuneStopped, TuneFails, CheckEyes, CheckParams,
     TuneUnchanged
  <2> QED BY <1>3
<1>8. CASE StartPcal \/ SaveParams \/ SetPrbs
  <2> Stays
  BY <1>8 DEF OpStep, StartPcal, PcalStarts, SaveParams, SetPrbs, TuneUnchanged
  <2> QED BY <1>3
<1>9. CASE MtSetup \/ MtSignal \/ MtFilter \/ MtWait
  <2> Stays
  BY <1>9 DEF OpStep, MtSetup, MtSignal, MtFilter, MtWait
  <2> QED BY <1>3
<1>10. CASE SdCancel \/ Expire \/ SdConfigure \/ SetParams \/ Invalidate
             \/ UNCHANGED sdVars
  <2> Stays
  BY <1>10 DEF OpStep, SdCancel, Expire, SdConfigure, SetParams, Invalidate,
     FlagOnly, ParamsOnly, sdVars
  <2> QED BY <1>3
<1> HIDE DEF Stays
<1> QED BY <1>1, <1>2, <1>4, <1>5, <1>6, <1>7, <1>8, <1>9, <1>10
        DEF SdNext, SdStep

(* The invariant of the calls holds in the initial states.                 *)
LEMMA CallsInit == SdInit => Calls
<1> SUFFICES ASSUME SdInit PROVE Calls
  OBVIOUS
<1>1. atCall = <<"DOWN", FALSE>> /\ reloadSerdes = FALSE
  BY DEF SdInit
<1>2. sdOp = "none" /\ sdPc = "idle"
  BY DEF SdInit
<1> QED BY <1>1, <1>2 DEF Calls

(* The SerDes port operations implement the service of SerdesService       *)
(* (ImplementsService), for every set of lanes and every configuration:    *)
(* with all their steps, failures, cancels and timeouts they do to the     *)
(* state of the port and to its request for a firmware reload what the     *)
(* model of the base link takes them to do.                                *)
THEOREM ServiceImplemented == SdSpec => ImplementsService
<1>1. SdInit => Service!ServiceInit
  BY DEF SdInit, Service!ServiceInit, SdIdle
<1>2. SdSpec => [](OpStep /\ Calls)
  BY OpStepInit, OpStepNext, CallsInit, CallsNext, PTL DEF SdSpec
<1> QED BY <1>1, <1>2, NextRefines, PTL DEF SdSpec, ImplementsService,
        Service!ServiceSpec

-----------------------------------------------------------------------------
(* The lanes of each set are lanes of the port, and its setting is one     *)
(* that can be configured.                                                 *)
LaneSets == {txOn, rxOn, txOut, pcalOn, ready} \subseteq SUBSET Lanes
Setting  == <<linkMode, looped>> \in SdConfigs
Typed    == LaneSets /\ Setting

(* The lanes that a setting uses are lanes of the port, and the clock lane *)
(* is always transmitted on.                                               *)
LEMMA MasksFit ==
  ASSUME Setting
  PROVE  /\ TxMask \subseteq Lanes /\ RxNeeded \subseteq Lanes
         /\ TxNeeded \subseteq Lanes /\ Needed \subseteq Lanes
         /\ 0 \in Lanes /\ 0 \in TxNeeded
<1>1. linkMode \in LinkModes
  BY LanesAssumption DEF Setting
<1>2. TxLanes[linkMode] \subseteq Lanes /\ RxLanes[linkMode] \subseteq Lanes
  BY <1>1, LanesAssumption
<1> QED BY <1>2, LanesAssumption DEF TxMask, RxMask, TxNeeded, RxNeeded, Needed

(* Every step keeps the types.                                             *)
LEMMA TypedNext == Typed /\ [SdNext]_sdVars => Typed'
<1> SUFFICES ASSUME Typed, [SdNext]_sdVars PROVE Typed'
  OBVIOUS
<1> USE MasksFit
<1>1. CASE OffPcal \/ OffLanes \/ OffSpico \/ CfgPcal
  BY <1>1 DEF Typed, LaneSets, Setting, OffPcal, OffLanes, OffSpico, OffUnchanged,
     CfgPcal, CfgUnchanged, StopPcal, setVars
<1>2. CASE CfgInit \/ CfgSet \/ CfgOff \/ CfgClock \/ CfgLanes \/ CfgData
  BY <1>2 DEF Typed, LaneSets, Setting, CfgInit, CfgSet, CfgOff, CfgClock,
     CfgLanes, CfgData, EnableLanes, CfgUnchanged, setVars, laneVars
<1>3. CASE WaitOptics \/ TuneAnew \/ UseSaved \/ PreDelay \/ TuneStart
  BY <1>3 DEF Typed, LaneSets, Setting, WaitOptics, TuneAnew, UseSaved, PreDelay,
     TuneStart, TuneUnchanged, setVars, laneVars
<1>4. CASE TuneDone \/ TuneStopped \/ TuneFails \/ CheckEyes \/ CheckParams
  BY <1>4 DEF Typed, LaneSets, Setting, TuneDone, TuneStopped, TuneFails,
     CheckEyes, CheckParams, TuneUnchanged, setVars, laneVars
<1>5. CASE StartPcal \/ SaveParams \/ SetPrbs
  BY <1>5 DEF Typed, LaneSets, Setting, StartPcal, PcalStarts, PcalBreaks,
     SaveParams, SetPrbs, TuneUnchanged, setVars, laneVars
<1>6. CASE MtSetup \/ MtSignal \/ MtFilter \/ MtWait
  BY <1>6 DEF Typed, LaneSets, Setting, MtSetup, MtSignal, MtFilter, MtWait,
     setVars, laneVars
<1>7. CASE DetectEnd \/ StartEnd \/ StopEnd \/ BrokenEnd \/ ResetEnd
            \/ ReloadFirmware
  BY <1>7 DEF Typed, LaneSets, Setting, DetectEnd, StartEnd, StopEnd, BrokenEnd,
     ResetEnd, ReloadFirmware, ResetLanes, CallEnds, setVars, laneVars
<1>8. CASE ResetPcal \/ ResetSoft
  BY <1>8 DEF Typed, LaneSets, Setting, ResetPcal, ResetSoft, ResetLanes,
     StopPcal, setVars
<1>9. CASE SdCalls
  BY <1>9 DEF Typed, LaneSets, Setting, SdCalls, CallDetect, CallStart,
     CallAnStart, CallStop, CallReset, CallFlash, SdCall, setVars, laneVars
<1>10. CASE SdCancel \/ Expire \/ SetParams \/ Invalidate \/ UNCHANGED sdVars
  BY <1>10 DEF Typed, LaneSets, Setting, SdCancel, Expire, SetParams, Invalidate,
     FlagOnly, ParamsOnly, sdVars, setVars, laneVars
<1>11. CASE SdConfigure
  BY <1>11, LanesAssumption DEF Typed, LaneSets, Setting, SdConfigure, laneVars
<1> QED BY <1>1, <1>2, <1>3, <1>4, <1>5, <1>6, <1>7, <1>8, <1>9, <1>10, <1>11
        DEF SdNext, SdStep

-----------------------------------------------------------------------------
(* The lanes that are on after the clock lane is set, and after all are; a *)
(* start that ends well; and the steps behind tuning.                      *)
ClockSet == /\ 0 \in rxOn <=> 0 \in RxNeeded
            /\ 0 \in txOn
            /\ 0 \in txOut <=> 0 \in TxMask
LanesSet == rxOn = RxNeeded /\ 0 \in txOn /\ txOut = TxMask

EndsWell == sdPc = "end" /\ sdErr = "ok"
TunedPcs == {"eyes", "params", "pcal", "pcalSaved", "save", "prbs"}

(* A start has the lanes on from the time it enabled them, and the         *)
(* receivers ready from the time they are tuned; a port that runs has      *)
(* both.                                                                   *)
LanesInv ==
  /\ sdOp = "start" =>
       /\ sdPc = "cfgLanes" => ClockSet
       /\ sdPc \in {"cfgData"} \cup TunePcs \/ EndsWell => LanesSet
       /\ sdPc \in TunedPcs \/ EndsWell => RxNeeded \subseteq ready
  /\ sdOp = "none" /\ sd = "RUNNING" => LanesSet /\ RxNeeded \subseteq ready

(* The lanes a setting uses change only with it.                           *)
LEMMA MasksStay ==
  ASSUME setVars' = setVars
  PROVE  /\ TxMask' = TxMask /\ RxNeeded' = RxNeeded
         /\ TxNeeded' = TxNeeded /\ Needed' = Needed
  BY DEF setVars, TxMask, RxMask, TxNeeded, RxNeeded, Needed

(* Only a configuration changes the setting.                               *)
LEMMA SettingStays ==
  ASSUME [SdNext]_sdVars, ~SdConfigure
  PROVE  setVars' = setVars
<1>1. CASE SdStep
  BY <1>1 DEF SdStep, OffPcal, OffLanes, OffSpico, OffUnchanged, CfgPcal, CfgInit,
     CfgSet, CfgOff, CfgClock, CfgLanes, CfgData, CfgUnchanged, WaitOptics,
     TuneAnew, UseSaved, PreDelay, TuneStart, TuneDone, TuneStopped, TuneFails,
     CheckEyes, CheckParams, StartPcal, SaveParams, SetPrbs, TuneUnchanged,
     MtSetup, MtSignal, MtFilter, MtWait, DetectEnd, StartEnd, StopEnd,
     BrokenEnd, ResetEnd, ReloadFirmware, CallEnds, ResetPcal, ResetSoft, setVars
<1>2. CASE SdCalls
  BY <1>2 DEF SdCalls, CallDetect, CallStart, CallAnStart, CallStop, CallReset,
     CallFlash, SdCall, setVars
<1>3. CASE SdCancel \/ Expire \/ SetParams \/ Invalidate \/ UNCHANGED sdVars
  BY <1>3 DEF SdCancel, Expire, SetParams, Invalidate, FlagOnly, ParamsOnly,
     sdVars, setVars
<1> QED BY <1>1, <1>2, <1>3 DEF SdNext

(* Every step keeps the invariant of the lanes.                            *)
LEMMA LanesNext == OpStep /\ Typed /\ LanesInv /\ [SdNext]_sdVars => LanesInv'
<1> SUFFICES ASSUME OpStep, Typed, LanesInv, [SdNext]_sdVars PROVE LanesInv'
  OBVIOUS
<1> USE DEF LanesInv, ClockSet, LanesSet, EndsWell, TunedPcs
<1>0. /\ TxMask \subseteq Lanes /\ RxNeeded \subseteq Lanes
      /\ TxNeeded \subseteq Lanes /\ 0 \in Lanes /\ 0 \in TxNeeded
      /\ rxOn \subseteq Lanes /\ txOn \subseteq Lanes /\ txOut \subseteq Lanes
  BY MasksFit DEF Typed, LaneSets
<1>1. CASE SdConfigure
  BY <1>1 DEF SdConfigure, laneVars
<1>2. SUFFICES ASSUME ~SdConfigure PROVE LanesInv'
  BY <1>1
<1>3. TxMask' = TxMask /\ RxNeeded' = RxNeeded /\ TxNeeded' = TxNeeded
  BY <1>2, SettingStays, MasksStay
<1>4. CASE OffPcal \/ OffLanes \/ OffSpico \/ ResetPcal \/ ResetSoft
  <2> sdOp # "start" /\ sdOp # "none" /\ sdOp' = sdOp
    BY <1>4 DEF OpStep, OffPcal, OffLanes, OffSpico, OffGo, OffBreak,
       OffUnchanged, ResetPcal, ResetSoft
  <2> QED OBVIOUS
<1>5. CASE CfgPcal \/ CfgInit \/ CfgSet \/ CfgOff
  <2> /\ sdOp' # "none" /\ sdPc' \in {"cfgInit", "cfgSet", "cfgOff", "cfgClock", "broken"}
    BY <1>5 DEF OpStep, CfgPcal, CfgInit, CfgSet, CfgOff, CfgGo, CfgBreak,
       CfgUnchanged
  <2> QED OBVIOUS
<1>6. CASE CfgClock
  <2>1. /\ sdPc = "cfgClock" /\ sdOp' = sdOp
        /\ \/ sdPc' = "cfgLanes" /\ EnableLanes({0})
           \/ sdPc' = "broken"
    BY <1>6 DEF CfgClock, CfgGo, CfgBreak, CfgUnchanged, Ends
  <2>2. sdOp # "none"
    BY <2>1 DEF OpStep
  <2> QED BY <1>0, <1>3, <2>1, <2>2 DEF EnableLanes
<1>7. CASE CfgLanes
  <2>1. /\ sdPc = "cfgLanes" /\ sdOp' = sdOp
        /\ \/ sdPc' = "cfgData" /\ EnableLanes(Lanes \ {0})
           \/ sdPc' = "broken"
    BY <1>7 DEF CfgLanes, CfgGo, CfgBreak, CfgUnchanged, Ends
  <2>2. sdOp # "none"
    BY <2>1 DEF OpStep
  <2>3. CASE sdPc' = "cfgData" /\ sdOp = "start"
    <3>1. ClockSet /\ EnableLanes(Lanes \ {0})
      BY <2>1, <2>3
    <3>2. rxOn' = RxNeeded
      BY <1>0, <3>1 DEF EnableLanes
    <3>3. 0 \in txOn'
      BY <1>0, <3>1 DEF EnableLanes
    <3>4. txOut' = TxMask
      BY <1>0, <3>1 DEF EnableLanes
    <3> QED BY <1>3, <2>1, <2>3, <3>2, <3>3, <3>4
  <2> QED BY <2>1, <2>2, <2>3
<1>8. CASE CfgData
  BY <1>3, <1>8 DEF OpStep, CfgData, CfgGo, CfgBreak, CfgUnchanged, laneVars
<1>9. CASE WaitOptics \/ TuneAnew \/ PreDelay \/ TuneStart
  BY <1>3, <1>9 DEF OpStep, WaitOptics, TuneAnew, PreDelay, TuneStart,
     TuneUnchanged, laneVars, LaneErrs
<1>10. CASE UseSaved
  BY <1>3, <1>10 DEF OpStep, UseSaved, TuneUnchanged, Ends, LaneErrs
<1>11. CASE TuneDone
  BY <1>3, <1>11 DEF OpStep, TuneDone, TuneUnchanged
<1>12. CASE TuneStopped \/ TuneFails \/ CheckEyes \/ CheckParams
  BY <1>3, <1>12 DEF OpStep, TuneStopped, TuneFails, CheckEyes, CheckParams,
     AfterTune, TuneUnchanged, laneVars
<1>13. CASE StartPcal \/ SaveParams \/ SetPrbs
  BY <1>3, <1>13 DEF OpStep, StartPcal, PcalStarts, SaveParams, SetPrbs,
     TuneUnchanged, laneVars
<1>14. CASE MtSetup \/ MtSignal \/ MtFilter \/ MtWait
  <2> sdOp # "start" /\ sdOp # "none" /\ sdOp' = sdOp
    BY <1>14 DEF OpStep, MtSetup, MtSignal, MtFilter, MtWait
  <2> QED OBVIOUS
<1>15. CASE StartEnd
  BY <1>3, <1>15 DEF StartEnd, CallEnds, laneVars
<1>16. CASE DetectEnd \/ StopEnd \/ BrokenEnd \/ ResetEnd \/ ReloadFirmware
  <2> sdOp' = "none" /\ sd' # "RUNNING"
    BY <1>16 DEF DetectEnd, StopEnd, BrokenEnd, ResetEnd, ReloadFirmware, CallEnds
  <2> QED OBVIOUS
<1>17. CASE SdCalls
  <2> sdOp' # "none" /\ sdPc' \in {"cfgPcal", "offPcal", "rsPcal", "flash"}
    BY <1>17 DEF SdCalls, CallDetect, CallStart, CallAnStart, CallStop,
       CallReset, CallFlash, SdCall
  <2> QED OBVIOUS
<1>18. CASE SdCancel \/ Expire \/ SetParams \/ Invalidate \/ UNCHANGED sdVars
  BY <1>3, <1>18 DEF SdCancel, Expire, SetParams, Invalidate, FlagOnly,
     ParamsOnly, sdVars, laneVars
<1> QED BY <1>2, <1>4, <1>5, <1>6, <1>7, <1>8, <1>9, <1>10, <1>11, <1>12, <1>13,
           <1>14, <1>15, <1>16, <1>17, <1>18 DEF SdNext, SdStep

-----------------------------------------------------------------------------
(* Continuous calibration runs at most on the receivers in use, and only   *)
(* with the flag that a stop looks at set.                                 *)
PcalKept == pcalOn \subseteq RxNeeded /\ (pcalOn = {} \/ pcalRunning = TRUE)

(* The steps by what holds of the calibration.                             *)
StopPcs == {"offLanes", "offSpico"}
KeptPcs == {"offPcal", "save", "prbs"}
NoPcalPcs == StopPcs \cup CfgPcs \cup MtPcs \cup (TunePcs \ {"save", "prbs"})

(* Calibration is off from the stop at the beginning of an operation to    *)
(* the end of tuning, and of a port that is down or negotiates.            *)
PcalInv ==
  /\ sdPc \in NoPcalPcs => pcalOn = {}
  /\ sdPc \in KeptPcs => PcalKept
  /\ sdPc = "end" /\ sdOp # "start" => pcalOn = {}
  /\ sdOp = "start" /\ EndsWell => PcalKept
  /\ sdOp = "none" /\ sd \in {"DOWN", "AUTONEG"} => pcalOn = {}
  /\ sdOp = "none" /\ sd = "RUNNING" => PcalKept

(* Stopping calibration leaves no lane calibrated.                         *)
LEMMA StopPcalEmpties ==
  ASSUME NEW done, PcalKept, StopPcal(done, TRUE)
  PROVE  pcalOn' = {}
<1>1. CASE pcalRunning
  BY <1>1 DEF PcalKept, StopPcal, Ends
<1>2. CASE ~pcalRunning
  BY <1>2 DEF PcalKept, StopPcal
<1> QED BY <1>1, <1>2

(* Every step keeps the invariant of the calibration.                      *)
LEMMA PcalNext ==
  OpStep /\ Typed /\ PcalInv /\ [SdNext]_sdVars => PcalInv'
<1> SUFFICES ASSUME OpStep, Typed, PcalInv, [SdNext]_sdVars PROVE PcalInv'
  OBVIOUS
<1> USE DEF PcalInv, EndsWell, StopPcs, KeptPcs, NoPcalPcs
<1>0. pcalOn \subseteq Lanes
  BY DEF Typed, LaneSets
<1>1. CASE SdConfigure
  BY <1>1 DEF SdConfigure, laneVars, OpStep
<1>2. SUFFICES ASSUME ~SdConfigure PROVE PcalInv'
  BY <1>1
<1>3. RxNeeded' = RxNeeded
  BY <1>2, SettingStays, MasksStay
<1>4. CASE OffPcal
  <2>1. /\ sdPc = "offPcal" /\ sdOp' = sdOp
        /\ \/ sdPc' = "offLanes" /\ \E done \in SUBSET Lanes : StopPcal(done, TRUE)
           \/ sdPc' = "broken"
    BY <1>4 DEF OffPcal, OffGo, OffBreak, OffUnchanged
  <2>2. sdPc' = "offLanes" => pcalOn' = {}
    BY <2>1, StopPcalEmpties
  <2>3. sdOp # "none"
    BY <2>1 DEF OpStep
  <2> QED BY <2>1, <2>2, <2>3
<1>5. CASE CfgPcal
  <2>1. /\ sdPc = "cfgPcal" /\ sdOp' = sdOp
        /\ \/ sdPc' = "cfgInit" /\ \E done \in SUBSET Lanes : StopPcal(done, TRUE)
           \/ sdPc' = "broken"
    BY <1>5 DEF CfgPcal, CfgGo, CfgBreak, CfgUnchanged
  <2>2. PcalKept
    BY <2>1 DEF PcalKept
  <2>3. sdPc' = "cfgInit" => pcalOn' = {}
    BY <2>1, <2>2, StopPcalEmpties
  <2>4. sdOp # "none"
    BY <2>1 DEF OpStep
  <2> QED BY <2>1, <2>3, <2>4
<1>6. CASE OffLanes \/ OffSpico
  BY <1>3, <1>6 DEF OpStep, OffLanes, OffSpico, OffGo, OffBreak, OffUnchanged
<1>7. CASE CfgInit \/ CfgSet \/ CfgOff \/ CfgClock \/ CfgLanes \/ CfgData
  BY <1>3, <1>7 DEF OpStep, CfgInit, CfgSet, CfgOff, CfgClock, CfgLanes, CfgData,
     CfgGo, CfgBreak, CfgUnchanged, laneVars
<1>8. CASE WaitOptics \/ TuneAnew \/ PreDelay \/ TuneStart \/ UseSaved
  BY <1>3, <1>8 DEF OpStep, WaitOptics, TuneAnew, PreDelay, TuneStart,
     UseSaved, TuneUnchanged, laneVars, LaneErrs
<1>9. CASE TuneDone \/ TuneStopped \/ TuneFails \/ CheckEyes \/ CheckParams
  BY <1>3, <1>9 DEF OpStep, TuneDone, TuneStopped, TuneFails, CheckEyes,
     CheckParams, AfterTune, TuneUnchanged, laneVars, tpVars, PcalKept
<1>10. CASE StartPcal
  <2>1. /\ sdPc \in {"pcal", "pcalSaved"} /\ sdOp' = sdOp /\ sdOp = "start"
        /\ \/ sdPc' \in {"save", "end"} /\ PcalStarts(sdPc, sdPc')
           \/ sdPc' = "end" /\ sdErr' # "ok"
    BY <1>10 DEF OpStep, StartPcal, PcalStarts, LaneErrs, TuneUnchanged
  <2>2. ASSUME PcalStarts(sdPc, sdPc') PROVE PcalKept'
    <3>1. pcalOn = {}
      BY <2>1
    <3>2. CASE PcalWanted
      BY <1>3, <2>2, <3>1, <3>2 DEF PcalStarts, PcalKept
    <3>3. CASE ~PcalWanted
      BY <1>3, <2>2, <3>1, <3>3 DEF PcalStarts, PcalKept
    <3> QED BY <3>2, <3>3
  <2> QED BY <2>1, <2>2
<1>11. CASE SaveParams \/ SetPrbs
  BY <1>3, <1>11 DEF OpStep, SaveParams, SetPrbs, TuneUnchanged, laneVars,
     tpVars, PcalKept
<1>12. CASE MtSetup \/ MtSignal \/ MtFilter \/ MtWait
  BY <1>3, <1>12 DEF OpStep, MtSetup, MtSignal, MtFilter, MtWait, laneVars
<1>13. CASE StartEnd
  BY <1>3, <1>13 DEF OpStep, StartEnd, CallEnds, laneVars, tpVars, PcalKept
<1>14. CASE DetectEnd \/ StopEnd \/ BrokenEnd \/ ResetEnd
  BY <1>3, <1>14 DEF OpStep, DetectEnd, StopEnd, BrokenEnd, ResetEnd, CallEnds,
     laneVars
<1>15. CASE ResetPcal
  BY <1>15 DEF OpStep, ResetPcal
<1>16. CASE ResetSoft
  <2>1. /\ sdOp' = sdOp /\ sdOp = "reset"
        /\ \/ sdPc' = "flash"
           \/ sdPc' = "end" /\ ResetLanes(Lanes)
    BY <1>16 DEF OpStep, ResetSoft, Ends
  <2>2. sdPc' = "end" => pcalOn' = {}
    BY <1>0, <2>1 DEF ResetLanes
  <2> QED BY <2>1, <2>2
<1>17. CASE ReloadFirmware
  <2>1. sdOp' = "none" /\ sdPc' = "idle"
    BY <1>17 DEF ReloadFirmware, CallEnds
  <2>2. \/ sd' = "ERROR"
        \/ sd' = "DOWN" /\ ResetLanes(Lanes)
    BY <1>17 DEF ReloadFirmware, CallEnds, Ends
  <2>3. sd' = "DOWN" => pcalOn' = {}
    BY <1>0, <2>2 DEF ResetLanes
  <2> QED BY <2>1, <2>2, <2>3
<1>18. CASE SdCalls
  BY <1>3, <1>18 DEF OpStep, SdCalls, CallDetect, CallStart, CallAnStart,
     CallStop, CallReset, CallFlash, SdCall, laneVars, PcalKept
<1>19. CASE SdCancel \/ Expire \/ SetParams \/ Invalidate \/ UNCHANGED sdVars
  BY <1>3, <1>19 DEF SdCancel, Expire, SetParams, Invalidate, FlagOnly,
     ParamsOnly, sdVars, laneVars, tpVars, PcalKept
<1> QED BY <1>2, <1>4, <1>5, <1>6, <1>7, <1>8, <1>9, <1>10, <1>11, <1>12, <1>13,
           <1>14, <1>15, <1>16, <1>17, <1>18, <1>19 DEF SdNext, SdStep

(* The invariants of lanes and calibration hold in the initial states.     *)
LEMMA RestInit == SdInit => Typed /\ LanesInv /\ PcalInv
<1> SUFFICES ASSUME SdInit PROVE Typed /\ LanesInv /\ PcalInv
  OBVIOUS
<1>1. LaneSets
  BY DEF SdInit, LaneSets
<1>2. Setting
  <2>1. PICK c \in SdConfigs : linkMode = c[1] /\ looped = c[2]
    BY DEF SdInit
  <2>2. c = <<linkMode, looped>>
    BY <2>1, LanesAssumption
  <2> QED BY <2>2 DEF Setting
<1>3. /\ sdOp = "none" /\ sdPc = "idle" /\ sd = "DOWN" /\ pcalOn = {}
  BY DEF SdInit
<1> QED BY <1>1, <1>2, <1>3 DEF Typed, LanesInv, PcalInv, StopPcs, KeptPcs,
        NoPcalPcs, EndsWell

(* The invariant of the port operations.                                   *)
SdInv == OpStep /\ Typed /\ LanesInv /\ PcalInv

(* The invariant of the port operations holds in every reachable state.    *)
THEOREM SdHolds == SdSpec => []SdInv
  BY OpStepInit, RestInit, OpStepNext, TypedNext, LanesNext, PcalNext, PTL
     DEF SdSpec, SdInv

(* A port whose SerDes run has exactly the lanes of its mode on and every  *)
(* receiver tuned or given parameters since it was configured              *)
(* (RunningIsReady), for every set of lanes and mode, whatever failed or   *)
(* was cancelled before: no path through sbl_serdes_start() ends well      *)
(* around a lane.                                                          *)
THEOREM RunningHasLanes == SdSpec => []RunningIsReady
<1>1. SdInv => RunningIsReady
  BY DEF SdInv, LanesInv, RunningIsReady, SdIdle, LanesSet
<1> QED BY <1>1, SdHolds, PTL

(* No lane is tuned with continuous calibration running on the port, and   *)
(* calibration that the driver does not know of leaves the SerDes in error *)
(* (TuneWithoutPcal), for every set of lanes and mode: a start stops it    *)
(* first, and a stop that fails halfway leaves nothing a start would       *)
(* accept.                                                                 *)
THEOREM PcalIsOffInTune == SdSpec => []TuneWithoutPcal
<1>1. SdInv => TuneWithoutPcal
  BY DEF SdInv, OpStep, PcalInv, PcalKept, NoPcalPcs, TuneWithoutPcal, SdIdle
<1> QED BY <1>1, SdHolds, PTL

-----------------------------------------------------------------------------
(* The types of the SerDes: its state, error and count; the saved          *)
(* parameters; the flags.                                                  *)
SdStates ==
  /\ sd \in {"DOWN", "LPD_MT", "TUNING", "RUNNING", "AUTONEG", "RESETTING",
             "ERROR"}
  /\ sdErr \in SdErrs /\ oob \in 0 .. MaxOob + 1 /\ sdOpt \in SdOptions

SavedTyped == saved \in [hash : SdConfigs \cup {NoHash}, lanes : SUBSET Lanes]

SdFlags == /\ reloadSerdes \in BOOLEAN /\ sdCancelled \in BOOLEAN
           /\ sdExpired \in BOOLEAN /\ pcalRunning \in BOOLEAN
           /\ signal \in BOOLEAN

(* Every step keeps state, error and count.                                *)
LEMMA SdStatesNext == SdStates /\ [SdNext]_sdVars => SdStates'
<1> SUFFICES ASSUME SdStates, [SdNext]_sdVars PROVE SdStates'
  OBVIOUS
<1>0. MaxOob \in Nat \ {0}
  BY LanesAssumption
<1> USE DEF SdStates, SdErrs, LaneErrs, setVars, tpVars
<1>1. CASE OffPcal \/ OffLanes \/ OffSpico
  BY <1>1 DEF OffPcal, OffLanes, OffSpico, OffGo, OffBreak, OffUnchanged
<1>2. CASE CfgPcal \/ CfgInit \/ CfgSet \/ CfgOff \/ CfgClock \/ CfgLanes
           \/ CfgData
  BY <1>2 DEF CfgPcal, CfgInit, CfgSet, CfgOff, CfgClock, CfgLanes, CfgData,
     CfgGo, CfgBreak, CfgUnchanged
<1>3. CASE TuneAnew
  BY <1>0, <1>3 DEF TuneAnew, TuneUnchanged
<1>4. CASE WaitOptics \/ UseSaved \/ PreDelay \/ TuneStart
  BY <1>4 DEF WaitOptics, UseSaved, PreDelay, TuneStart, TuneUnchanged
<1>5. CASE TuneDone \/ TuneStopped \/ TuneFails \/ CheckEyes
  BY <1>5 DEF TuneDone, TuneStopped, TuneFails, CheckEyes, TuneUnchanged
<1>6. CASE CheckParams
  <2>1. oob' \in 0 .. MaxOob + 1
    <3>1. oob' \in {0, IF oob > MaxOob THEN oob ELSE oob + 1}
      BY <1>6 DEF CheckParams
    <3> QED BY <1>0, <3>1
  <2>2. sd' = sd /\ sdOpt' = sdOpt /\ sdErr' \in {sdErr, "ELNRNG"}
    BY <1>6 DEF CheckParams, TuneUnchanged
  <2> QED BY <2>1, <2>2
<1>7. CASE StartPcal \/ SaveParams \/ SetPrbs
  BY <1>7 DEF StartPcal, PcalStarts, SaveParams, SetPrbs, TuneUnchanged
<1>8. CASE MtSetup \/ MtSignal \/ MtFilter
  BY <1>8 DEF MtSetup, MtSignal, MtFilter
<1>9. CASE MtWait
  <2>1. /\ UNCHANGED <<sd, oob, sdOpt>>
        /\ sdErr' \in {sdErr, "ECANCELED", "ETIMEDOUT", "ETIME", "ok", "EIO",
                       "ENOMSG"}
    BY <1>9 DEF MtWait
  <2> QED BY <2>1
<1>10. CASE DetectEnd \/ StartEnd \/ StopEnd \/ BrokenEnd \/ ResetEnd
            \/ ReloadFirmware
  BY <1>10 DEF DetectEnd, StartEnd, StopEnd, BrokenEnd, ResetEnd,
     ReloadFirmware, CallEnds
<1>11. CASE ResetPcal \/ ResetSoft
  BY <1>11 DEF ResetPcal, ResetSoft
<1>12. CASE SdCalls
  BY <1>12 DEF SdCalls, CallDetect, CallStart, CallAnStart, CallStop, CallReset,
     CallFlash, SdCall
<1>13. CASE SdCancel \/ Expire \/ SdConfigure \/ SetParams \/ Invalidate
            \/ UNCHANGED sdVars
  BY <1>13 DEF SdCancel, Expire, SdConfigure, SetParams, Invalidate, FlagOnly,
     ParamsOnly, sdVars
<1> QED BY <1>1, <1>2, <1>3, <1>4, <1>5, <1>6, <1>7, <1>8, <1>9, <1>10, <1>11,
           <1>12, <1>13 DEF SdNext, SdStep

(* A save, a client and a reset are all that change the saved parameters.  *)
LEMMA SavedNext == SavedTyped /\ Typed /\ [SdNext]_sdVars => SavedTyped'
<1> SUFFICES ASSUME SavedTyped, Typed, [SdNext]_sdVars PROVE SavedTyped'
  OBVIOUS
<1>1. CASE UNCHANGED saved
  BY <1>1 DEF SavedTyped
<1>2. CASE SaveParams
  <2>1. Hash \in SdConfigs
    BY DEF Typed, Setting, Hash
  <2>2. \/ saved' = saved
        \/ \E done \in SUBSET Lanes :
             saved' = [hash |-> Hash, lanes |-> saved.lanes \cup done]
    BY <1>2 DEF SaveParams
  <2> QED BY <2>1, <2>2 DEF SavedTyped
<1>3. CASE CallReset
  BY <1>3 DEF CallReset, SavedTyped, Blank
<1>4. CASE SetParams \/ Invalidate
  BY <1>4 DEF SetParams, Whole, Invalidate, SavedTyped
<1> QED BY <1>1, <1>2, <1>3, <1>4
        DEF SdNext, SdStep, OffPcal, OffLanes, OffSpico, CfgPcal, CfgInit, CfgSet,
            CfgOff, CfgClock, CfgLanes, CfgData, CfgUnchanged, WaitOptics,
            TuneAnew, UseSaved, PreDelay, TuneStart, TuneDone, TuneStopped,
            TuneFails, CheckEyes, CheckParams, StartPcal, SetPrbs, MtSetup,
            MtSignal, MtFilter, MtWait, DetectEnd, StartEnd, StopEnd, BrokenEnd,
            ResetPcal, ResetSoft, ResetEnd, ReloadFirmware, SdCalls, CallDetect,
            CallStart, CallAnStart, CallStop, CallFlash, SdCancel, Expire,
            SdConfigure, FlagOnly, tpVars, sdVars

(* Every step keeps the flags.                                             *)
LEMMA SdFlagsNext == SdFlags /\ [SdNext]_sdVars => SdFlags'
<1> SUFFICES ASSUME SdFlags, [SdNext]_sdVars PROVE SdFlags'
  OBVIOUS
<1>1. /\ sdCancelled' \in {sdCancelled, TRUE, FALSE}
      /\ sdExpired' \in {sdExpired, TRUE, FALSE}
      /\ signal' = signal \/ signal' \in BOOLEAN
  BY DEF SdNext, SdStep, OffPcal, OffLanes, OffSpico, OffUnchanged, CfgPcal,
     CfgInit, CfgSet, CfgOff, CfgClock, CfgLanes, CfgData, CfgUnchanged,
     WaitOptics, TuneAnew, UseSaved, PreDelay, TuneStart, TuneDone, TuneStopped,
     TuneFails, CheckEyes, CheckParams, StartPcal, SaveParams, SetPrbs,
     TuneUnchanged, MtSetup, MtSignal, MtFilter, MtWait, DetectEnd, StartEnd,
     StopEnd, BrokenEnd, ResetPcal, ResetSoft, ResetEnd, ReloadFirmware, CallEnds,
     SdCalls, CallDetect, CallStart, CallAnStart, CallStop, CallReset, CallFlash,
     SdCall, SdCancel, Expire, SdConfigure, FlagOnly, SetParams, Invalidate,
     ParamsOnly, flagVars, sdVars
<1>2. reloadSerdes' \in BOOLEAN
  <2>1. CASE reloadSerdes' \in {reloadSerdes, TRUE}
    BY <2>1, Zenon DEF SdFlags
  <2>2. CASE CfgPcal \/ CfgInit \/ CfgSet \/ CfgOff \/ CfgClock \/ CfgLanes
             \/ CfgData
    <3>1. \/ reloadSerdes' = reloadSerdes
          \/ \E e \in LaneErrs \cup {"ETIME"} :
               reloadSerdes' = (reloadSerdes \/ (sdOp = "start" /\ e = "EBADE"))
      BY <2>2, Zenon DEF CfgPcal, CfgInit, CfgSet, CfgOff, CfgClock, CfgLanes,
         CfgData, CfgGo, CfgBreak
    <3> QED BY <3>1, Zenon DEF SdFlags
  <2>3. CASE DetectEnd \/ StartEnd
    <3>1. reloadSerdes' = reloadSerdes \/ reloadSerdes' = MayReload
      BY <2>3, Zenon DEF DetectEnd, StartEnd
    <3> QED BY <3>1, Zenon DEF SdFlags, MayReload
  <2>4. CASE ReloadFirmware
    BY <2>4, Zenon DEF ReloadFirmware
  <2> QED BY <2>1, <2>2, <2>3, <2>4
          DEF SdNext, SdStep, OffPcal, OffLanes, OffSpico, OffGo, OffBreak,
              WaitOptics, TuneAnew, UseSaved, PreDelay, TuneStart, TuneDone,
              TuneStopped, TuneFails, CheckEyes, CheckParams, StartPcal,
              SaveParams, SetPrbs, TuneUnchanged, MtSetup, MtSignal, MtFilter,
              MtWait, StopEnd, BrokenEnd, ResetPcal, ResetSoft, ResetEnd, SdCalls,
              CallDetect, CallStart, CallAnStart, CallStop, CallReset, CallFlash,
              SdCall, SdCancel, Expire, SdConfigure, FlagOnly, SetParams,
              Invalidate, ParamsOnly, sdVars
<1>3. pcalRunning' \in BOOLEAN
  <2>1. CASE pcalRunning' \in {pcalRunning, FALSE}
    BY <2>1, Zenon DEF SdFlags
  <2>2. CASE OffPcal \/ CfgPcal \/ ResetPcal
    <3>1. \E done \in SUBSET Lanes, all \in BOOLEAN : StopPcal(done, all)
      BY <2>2, Zenon DEF OffPcal, CfgPcal, ResetPcal
    <3> QED BY <3>1, Zenon DEF StopPcal
  <2>3. CASE StartPcal
    <3>1. pcalRunning' = pcalRunning \/ pcalRunning' = (pcalRunning \/ PcalWanted)
      BY <2>3, Zenon DEF StartPcal, PcalStarts, PcalBreaks
    <3> QED BY <3>1, Zenon DEF SdFlags
  <2>4. CASE ResetSoft
    <3>1. \/ pcalRunning' = FALSE
          \/ \E k \in Lanes :
               pcalRunning' = (pcalRunning /\ BreaksAt(Lanes, k) = {})
      BY <2>4, Zenon DEF ResetSoft
    <3> QED BY <3>1, Zenon
  <2> QED BY <2>1, <2>2, <2>3, <2>4
          DEF SdNext, SdStep, OffLanes, OffSpico, CfgInit, CfgSet, CfgOff,
              CfgClock, CfgLanes, CfgData, CfgUnchanged, WaitOptics, TuneAnew,
              UseSaved, PreDelay, TuneStart, TuneDone, TuneStopped, TuneFails,
              CheckEyes, CheckParams, SaveParams, SetPrbs, MtSetup, MtSignal,
              MtFilter, MtWait, DetectEnd, StartEnd, StopEnd, BrokenEnd, ResetEnd,
              ReloadFirmware, SdCalls, CallDetect, CallStart, CallAnStart,
              CallStop, CallReset, CallFlash, SdCall, SdCancel, Expire,
              SdConfigure, FlagOnly, SetParams, Invalidate, ParamsOnly, tpVars,
              sdVars
<1> QED BY <1>1, <1>2, <1>3, Zenon DEF SdFlags

(* The port operations keep their types (SdTypeOK), for every set of lanes *)
(* and options: a step is one of the operation under way, lanes are lanes  *)
(* of the port, and saved parameters are of a setting it may have.         *)
THEOREM SdTypes == SdSpec => []SdTypeOK
<1> DEFINE I == SdStates /\ SavedTyped /\ SdFlags
<1>1. SdInit => I
  <2> SUFFICES ASSUME SdInit PROVE SdStates /\ SavedTyped /\ SdFlags
    OBVIOUS
  <2>1. SdStates
    BY LanesAssumption DEF SdInit, SdStates, SdErrs, LaneErrs
  <2>2. SavedTyped
    BY DEF SdInit, SavedTyped, Blank
  <2>3. SdFlags
    BY Zenon DEF SdInit, SdFlags
  <2> QED BY <2>1, <2>2, <2>3
<1>2. SdInv /\ I /\ [SdNext]_sdVars => I'
  BY SdStatesNext, SavedNext, SdFlagsNext DEF SdInv
<1>3. SdInv /\ I => SdTypeOK
  <2> SUFFICES ASSUME SdInv, I PROVE SdTypeOK
    OBVIOUS
  <2>1. /\ sdOp \in SdOps \cup {"none"} /\ sdPc \in SdPcs
        /\ sdOp = "none" <=> sdPc = "idle"
    BY DEF SdInv, OpStep, SdPcs
  <2>2. /\ Hash \in SdConfigs
        /\ \A S \in {txOn, rxOn, txOut, pcalOn, ready} : S \subseteq Lanes
    BY DEF SdInv, Typed, LaneSets, Setting, Hash
  <2>3. {reloadSerdes, sdCancelled, sdExpired, pcalRunning, signal}
          \subseteq BOOLEAN
    BY Zenon DEF SdFlags
  <2>4. saved.hash \in SdConfigs \cup {NoHash} /\ saved.lanes \subseteq Lanes
    BY DEF SavedTyped
  <2>5. (sdOp = "none") = (sdPc = "idle")
    BY <2>1
  <2> QED BY <2>1, <2>2, <2>3, <2>4, <2>5 DEF SdStates, SdTypeOK
<1> HIDE DEF I
<1> QED BY <1>1, <1>2, <1>3, SdHolds, PTL DEF SdSpec
=============================================================================
