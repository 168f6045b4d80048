---------------------- MODULE PartitionTransfer_proofs ----------------------
(***************************************************************************)
(* How quadrants are shared out anew. For any number of ranks and any two  *)
(* partitions of the same forest, the messages of a partition match and    *)
(* carry every quadrant once.                                              *)
(***************************************************************************)
EXTENDS PartitionTransfer, TLAPS

(* p4est_bsearch_partition finds a rank that holds the quadrant. *)
LEMMA HolderHolds ==
  ASSUME NEW off, IsPartition(off), NEW g \in Nat, g < off[NRanks]
  PROVE  /\ Holder(off, g) \in Ranks
         /\ off[Holder(off, g)] <= g
         /\ g < off[Holder(off, g) + 1]
<1>1. \E q \in Ranks : off[q] <= g /\ g < off[q + 1]
  <2>1. off[NRanks] \in Nat BY NRanksAssumption DEF IsPartition
  <2>2. g \in 0 .. (off[NRanks] - 1) BY <2>1
  <2> QED BY <2>2 DEF IsPartition
<1> QED BY <1>1 DEF Holder

(* Offsets are naturals, at every rank and one past the last. *)
LEMMA OffsetsAreNaturals ==
  ASSUME NEW off, IsPartition(off), NEW q \in Ranks
  PROVE  /\ q \in Int /\ q + 1 \in 0 .. NRanks /\ q \in 0 .. NRanks
         /\ off[q] \in Nat /\ off[q + 1] \in Nat /\ off[NRanks] \in Nat
         /\ off[q] <= off[q + 1] /\ off[q + 1] <= off[NRanks]
<1>1. q \in Int /\ q + 1 \in 0 .. NRanks /\ q \in 0 .. NRanks /\ NRanks \in 0 .. NRanks
  BY NRanksAssumption DEF Ranks
<1>2. q <= q + 1 /\ q + 1 <= NRanks
  BY NRanksAssumption DEF Ranks
<1> QED BY <1>1, <1>2 DEF IsPartition

(* Only one rank holds a quadrant. *)
LEMMA HolderIsUnique ==
  ASSUME NEW off, IsPartition(off), NEW g \in Nat, g < off[NRanks],
         NEW q \in Ranks, off[q] <= g, g < off[q + 1]
  PROVE  q = Holder(off, g)
<1> DEFINE h == Holder(off, g)
<1>1. h \in Ranks /\ off[h] <= g /\ g < off[h + 1]
  BY HolderHolds
<1> HIDE DEF h
<1>2. /\ q \in Int /\ q + 1 \in 0 .. NRanks /\ q \in 0 .. NRanks
      /\ off[q] \in Nat /\ off[q + 1] \in Nat
  BY OffsetsAreNaturals
<1>3. /\ h \in Int /\ h + 1 \in 0 .. NRanks /\ h \in 0 .. NRanks
      /\ off[h] \in Nat /\ off[h + 1] \in Nat
  BY <1>1, OffsetsAreNaturals
<1>4. ~ (q < h)
  <2> SUFFICES ASSUME q < h PROVE FALSE OBVIOUS
  <2>1. q + 1 <= h BY <1>2, <1>3
  <2>2. off[q + 1] <= off[h] BY <2>1, <1>2, <1>3 DEF IsPartition
  <2> QED BY <2>2, <1>1, <1>2, <1>3
<1>5. ~ (h < q)
  <2> SUFFICES ASSUME h < q PROVE FALSE OBVIOUS
  <2>1. h + 1 <= q BY <1>2, <1>3
  <2>2. off[h + 1] <= off[q] BY <2>1, <1>2, <1>3 DEF IsPartition
  <2> QED BY <2>2, <1>1, <1>2, <1>3
<1>6. q = h BY <1>2, <1>3, <1>4, <1>5
<1> QED BY <1>6 DEF h

(* What a rank works out is the intersection of its range with its
   partner's: the loop over the partners is right. *)
LEMMA ExchangedIsIntersection ==
  ASSUME NEW mine, NEW other, IsPartition(mine), IsPartition(other),
         mine[NRanks] = other[NRanks], NEW r \in Ranks, NEW q \in Ranks, NEW g \in Nat
  PROVE  g \in Exchanged(mine, other, r, q) <=>
            /\ mine[r] <= g /\ g < mine[r + 1]
            /\ other[q] <= g /\ g < other[q + 1]
<1> DEFINE a == mine[r]
           b == mine[r + 1]
           c == other[q]
           d == other[q + 1]
           N == other[NRanks]
<1>1. /\ a \in Nat /\ b \in Nat /\ c \in Nat /\ d \in Nat /\ N \in Nat
      /\ a <= b /\ b <= N /\ c <= d /\ d <= N
      /\ q \in Int /\ q \in 0 .. NRanks /\ q + 1 \in 0 .. NRanks
  BY OffsetsAreNaturals
<1>2. CASE ~ (a < b)
  <2>1. Exchanged(mine, other, r, q) = {} BY <1>2 DEF Exchanged, Partners
  <2> QED BY <2>1, <1>1, <1>2
<1>3. CASE a < b
  <2> DEFINE f == Holder(other, a)
             l == Holder(other, b - 1)
  <2>1. /\ f \in Ranks /\ other[f] <= a /\ a < other[f + 1]
        /\ l \in Ranks /\ other[l] <= b - 1 /\ b - 1 < other[l + 1]
    <3>1. b - 1 \in Nat /\ b - 1 < N /\ a < N BY <1>1, <1>3
    <3> QED BY <3>1, <1>1, HolderHolds
  <2>2. Partners(mine, other, r) = f .. l BY <1>3 DEF Partners
  <2>3. GBegin(mine, other, r, q) = IF q = f THEN a ELSE c BY DEF GBegin
  <2>4. GEnd(mine, other, r, q) = IF d <= b THEN d ELSE b BY DEF GEnd, MinOf
  <2>5. Exchanged(mine, other, r, q) =
          IF q \in f .. l THEN (IF q = f THEN a ELSE c) .. ((IF d <= b THEN d ELSE b) - 1) ELSE {}
    BY <2>2, <2>3, <2>4 DEF Exchanged
  <2>6. /\ f \in Int /\ f \in 0 .. NRanks /\ f + 1 \in 0 .. NRanks
        /\ l \in Int /\ l \in 0 .. NRanks /\ l + 1 \in 0 .. NRanks
        /\ other[f] \in Nat /\ other[f + 1] \in Nat /\ other[l] \in Nat /\ other[l + 1] \in Nat
    BY <2>1, OffsetsAreNaturals
  <2>7. q < f => d <= a
    <3>1. q < f => q + 1 <= f BY <1>1, <2>6
    <3>2. q < f => d <= other[f] BY <3>1, <1>1, <2>6 DEF IsPartition
    <3> QED BY <3>2, <1>1, <2>1, <2>6
  <2>8. l < q => b <= c
    <3>1. l < q => l + 1 <= q BY <1>1, <2>6
    <3>2. l < q => other[l + 1] <= c BY <3>1, <1>1, <2>6 DEF IsPartition
    <3> QED BY <3>2, <1>1, <2>1, <2>6
  <2>9. f < q => a < c
    <3>1. f < q => f + 1 <= q BY <1>1, <2>6
    <3>2. f < q => other[f + 1] <= c BY <3>1, <1>1, <2>6 DEF IsPartition
    <3> QED BY <3>2, <1>1, <2>1, <2>6
  <2>10. q = f => c <= a BY <2>1
  <2> HIDE DEF a, b, c, d, N, f, l
  <2>11. g \in Exchanged(mine, other, r, q) <=> (a <= g /\ g < b /\ c <= g /\ g < d)
    BY <1>1, <2>5, <2>6, <2>7, <2>8, <2>9, <2>10
  <2> QED BY <2>11 DEF a, b, c, d
<1> QED BY <1>2, <1>3

(* The ranges are sets of naturals. *)
LEMMA ExchangedAreNaturals ==
  ASSUME NEW mine, NEW other, IsPartition(mine), IsPartition(other),
         NEW r \in Ranks, NEW q \in Ranks
  PROVE  Exchanged(mine, other, r, q) \subseteq Nat
<1>1. mine[r] \in Nat /\ other[q] \in Nat /\ mine[r + 1] \in Nat /\ other[q + 1] \in Nat
  BY OffsetsAreNaturals
<1>2. GBegin(mine, other, r, q) \in Nat BY <1>1 DEF GBegin
<1>3. GEnd(mine, other, r, q) \in Nat BY <1>1 DEF GEnd, MinOf
<1> QED BY <1>2, <1>3 DEF Exchanged

(* Both ends of every message of a partition agree on the quadrants in it
   (grace_transfer_fixed_begin computes them separately for its receives and
   its sends): no receive waits for a message nobody sends, and none is cut
   off. *)
THEOREM MessagesMatch ==
  ASSUME NEW src, NEW dst, IsPartition(src), IsPartition(dst), src[NRanks] = dst[NRanks]
  PROVE  TransfersMatch(src, dst)
<1> SUFFICES ASSUME NEW s \in Ranks, NEW d \in Ranks
             PROVE  Exchanged(dst, src, d, s) = Exchanged(src, dst, s, d)
  BY DEF TransfersMatch
<1>1. ASSUME NEW g \in Nat
      PROVE  g \in Exchanged(dst, src, d, s) <=> g \in Exchanged(src, dst, s, d)
  <2>1. g \in Exchanged(dst, src, d, s) <=>
          dst[d] <= g /\ g < dst[d + 1] /\ src[s] <= g /\ g < src[s + 1]
    BY ExchangedIsIntersection
  <2>2. g \in Exchanged(src, dst, s, d) <=>
          src[s] <= g /\ g < src[s + 1] /\ dst[d] <= g /\ g < dst[d + 1]
    BY ExchangedIsIntersection
  <2> QED BY <2>1, <2>2
<1>2. /\ Exchanged(dst, src, d, s) \subseteq Nat
      /\ Exchanged(src, dst, s, d) \subseteq Nat
  BY ExchangedAreNaturals
<1> QED BY <1>1, <1>2

(* Every quadrant of the new partition is received, from the rank that had
   it and from no other. *)
THEOREM EveryQuadrantArrivesOnce ==
  ASSUME NEW src, NEW dst, IsPartition(src), IsPartition(dst), src[NRanks] = dst[NRanks]
  PROVE  TransfersComplete(src, dst)
<1> SUFFICES ASSUME NEW d \in Ranks, NEW g \in dst[d] .. (dst[d + 1] - 1)
             PROVE  /\ g \in Exchanged(dst, src, d, Holder(src, g))
                    /\ \A s \in Ranks : g \in Exchanged(dst, src, d, s) => s = Holder(src, g)
  BY DEF TransfersComplete
<1>0. g \in Nat /\ dst[d] <= g /\ g < dst[d + 1]
  <2>1. dst[d] \in Nat /\ dst[d + 1] \in Nat BY OffsetsAreNaturals
  <2> QED BY <2>1
<1>1. g < src[NRanks]
  <2>1. dst[d + 1] \in Nat /\ dst[NRanks] \in Nat /\ dst[d + 1] <= dst[NRanks]
    BY OffsetsAreNaturals
  <2> QED BY <2>1, <1>0
<1>2. /\ Holder(src, g) \in Ranks /\ src[Holder(src, g)] <= g /\ g < src[Holder(src, g) + 1]
  BY <1>0, <1>1, HolderHolds
<1>3. g \in Exchanged(dst, src, d, Holder(src, g))
  BY <1>0, <1>2, ExchangedIsIntersection
<1>4. ASSUME NEW s \in Ranks, g \in Exchanged(dst, src, d, s) PROVE s = Holder(src, g)
  <2>1. src[s] <= g /\ g < src[s + 1] BY <1>0, <1>4, ExchangedIsIntersection
  <2> QED BY <2>1, <1>0, <1>1, HolderIsUnique
<1> QED BY <1>3, <1>4
=============================================================================
