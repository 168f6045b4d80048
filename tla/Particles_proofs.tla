-------------------------- MODULE Particles_proofs --------------------------
(***************************************************************************)
(* Proofs about Particles, for any number of ranks, forests, flows and     *)
(* tracers, any cadence of compaction and any threshold.                   *)
(***************************************************************************)
EXTENDS Particles, FiniteSetTheorems, FunctionTheorems, SequenceTheorems, WellFoundedInduction, TLAPS

-----------------------------------------------------------------------------
(* The inductive invariant *)

Tracer == [id : Nat \X Nat, pos : Int, status : {"default", "outside"}, owner : Int, quad : Nat]
Saved  == [id : Nat \X Nat, pos : Int, status : {"default", "outside"}]

TypeOK ==
  /\ forest \in Forests
  /\ shadow = [r \in Ranks |-> shadow[r]]
  /\ tr \in [Ranks -> Seq(Tracer)]
  /\ found = [r \in Ranks |-> found[r]]
  /\ wire = [r \in Ranks |-> wire[r]]
  /\ pc = [r \in Ranks |-> pc[r]]
  /\ migrate \in BOOLEAN
  /\ iter \in Nat /\ job \in Nat
  /\ flow \in Flows
  /\ restored \in BOOLEAN /\ rescaled \in BOOLEAN
  /\ file.iter \in Nat
  /\ file.tracers \in Seq(Saved)

(* The ranks are in one stretch of a call between two of its collectives. *)
Within(S) == \A r \in Ranks : pc[r] \in S
Rebalancing ==
  \/ Within({"resolve", "reduce"})
  \/ Within({"flag", "cull"})
  \/ migrate /\ Within({"update", "migrate"})
Staged ==
  \/ phase = "start"   /\ (Within({"width"}) \/ Within({"seed", "rest"}))
  \/ phase = "load"    /\ \/ Within({"width"}) \/ Within({"owners", "migrate"}) \/ Within({"rest"})
                          \/ file.tracers = <<>> /\ Within({"read", "rest"})
                          \/ file.tracers # <<>> /\ Within({"read", "counters"})
  \/ phase = "advance" /\ \/ Rebalancing
                          \/ ~migrate /\ Within({"update", "pack", "request"})
                          \/ Within({"pack", "request"}) \/ Within({"fulfil", "respond"})
                          \/ Within({"push", "drift"}) \/ Within({"bcs", "rest"})
  \/ phase = "regrid"  /\ \/ Rebalancing
                          \/ ~migrate /\ Within({"update", "rest"})
                          \/ Within({"refresh", "width"}) \/ Within({"rest"})
  \/ phase = "save"    /\ Within({"rest"})

(* Where a tracer may be between two steps of the evolution; one that was
   flagged is outside and has nothing that moves it. *)
AtHome(x) == /\ boundary = "periodic" => x \in Inside
             /\ boundary = "reflect" => x >= 0
Sound(t)  == t.status # "default" => t.pos \notin Inside /\ AtHome(t.pos)
InPlace ==
  /\ \A r \in Ranks : \A i \in DOMAIN tr[r] :
       /\ Sound(tr[r][i])
       /\ pc[r] \notin {"drift", "bcs"} => AtHome(tr[r][i].pos)
  /\ \A i \in DOMAIN file.tracers : Sound(file.tracers[i]) /\ AtHome(file.tracers[i].pos)

(* OwnerRank in a forest; what ranks have looked up is what they would find
   now. *)
OwnerIn(f, x) == IF \E q \in DOMAIN f : QuadAt(f[q], x) # NoQuad
                 THEN CHOOSE q \in DOMAIN f : QuadAt(f[q], x) # NoQuad ELSE NoRank
LookedUp == \A r \in Ranks : pc[r] \in {"reduce", "flag", "cull", "update"} =>
              /\ DOMAIN found[r] = DOMAIN tr[r]
              /\ \A i \in DOMAIN tr[r] : /\ found[r][i].rank = OwnerIn(forest, tr[r][i].pos)
                                        /\ found[r][i].quad \in Nat

(* Every tracer of a rank is on its way to the owner of its place. *)
Leaves(r) ==
  /\ DOMAIN wire[r] = DOMAIN tr[r]
  /\ \A i \in DOMAIN tr[r] :
       /\ wire[r][i].to = OwnerIn(forest, tr[r][i].pos)
       /\ wire[r][i].body \in Tracer
       /\ wire[r][i].body.id = tr[r][i].id
       /\ wire[r][i].body.pos = tr[r][i].pos
       /\ wire[r][i].body.status = tr[r][i].status
Departing == \A r \in Ranks : pc[r] = "migrate" => Leaves(r)

(* A rank's slice of the file, and the ids of tracers. *)
Has(r, i, k) == /\ tr[r][i].id = file.tracers[k].id
                /\ tr[r][i].pos = file.tracers[k].pos
                /\ tr[r][i].status = file.tracers[k].status
HasSlice(r) ==
  LET n == Len(file.tracers)
      p == Cardinality(Ranks)
  IN /\ Len(tr[r]) = SliceCount(n, r, p)
     /\ \A i \in DOMAIN tr[r] : Has(r, i, SliceOffset(n, r, p) + i)
FileIds == \A i, k \in DOMAIN file.tracers : file.tracers[i].id = file.tracers[k].id => i = k
Loaded == phase = "load" => \A r \in Ranks :
            /\ pc[r] \in {"width", "read"} => tr[r] = <<>>
            /\ file.tracers = <<>> => tr[r] = <<>>
            /\ pc[r] = "counters" => HasSlice(r)
Seeded == phase = "start" => \A r \in Ranks :
            /\ counter = [q \in Ranks |-> counter[q]]
            /\ pc[r] # "rest" => tr[r] = <<>>
            /\ pc[r] = "rest" => counter[r] = Len(tr[r])
            /\ \A i \in DOMAIN tr[r] : tr[r][i].id = <<r, i - 1>>

(* No id is given twice. *)
Restoring == phase = "load" /\ \E r \in Ranks : pc[r] \in {"width", "read", "counters"}
Numbered ==
  ~rescaled =>
    /\ phase # "start" /\ ~Restoring =>
         \A r \in Ranks : \A i \in DOMAIN tr[r] :
           tr[r][i].id[1] \in Ranks => tr[r][i].id[2] < counter[tr[r][i].id[1]]
    /\ file # NoFile =>
         /\ file.size = Cardinality(Ranks)
         /\ \A i \in DOMAIN file.tracers :
              file.tracers[i].id[1] \in Ranks => file.tracers[i].id[2] < file.counters[file.tracers[i].id[1]]

(* The requests for the fluid's velocity and their answers. *)
Fresh == RebalanceEvery = 1 /\ ~restored
Shadowed ==
  ~restored => \A r \in Ranks :
     \/ shadow[r] = forest[r]
     \/ phase = "start" /\ pc[r] \in {"width", "seed"}
     \/ phase = "regrid" /\ pc[r] = "refresh"
OwnerKnown ==
  RebalanceEvery = 1 => \A r \in Ranks :
     phase = "advance" /\ pc[r] \in {"pack", "request", "fulfil", "respond", "push"} =>
        \A i \in DOMAIN tr[r] : tr[r][i].owner = OwnerIn(forest, tr[r][i].pos)
Asks(e, r, i) == e.body.rank = r /\ e.body.idx = i /\ e.body.pos = tr[r][i].pos
Answer(value, x) == /\ value \subseteq {x, Elsewhere}
                    /\ Fresh /\ x \in Inside => value = {x}
Requesting(r) ==
  /\ DOMAIN wire[r] = DOMAIN tr[r]
  /\ \A i \in DOMAIN tr[r] : wire[r][i].to = tr[r][i].owner /\ Asks(wire[r][i], r, i)
Asked(s) ==
  /\ \A k \in DOMAIN wire[s] :
       \E r \in Ranks : \E i \in DOMAIN tr[r] : tr[r][i].owner = s /\ Asks(wire[s][k], r, i)
  /\ \A r \in Ranks : \A i \in DOMAIN tr[r] :
       tr[r][i].owner = s => \E k \in DOMAIN wire[s] : Asks(wire[s][k], r, i)
Answered(s) ==
  /\ \A k \in DOMAIN wire[s] :
       /\ wire[s][k].to \in Ranks /\ wire[s][k].body.idx \in DOMAIN tr[wire[s][k].to]
       /\ Answer(wire[s][k].body.value, tr[wire[s][k].to][wire[s][k].body.idx].pos)
  /\ \A r \in Ranks : \A i \in DOMAIN tr[r] :
       tr[r][i].owner = s => \E k \in DOMAIN wire[s] : wire[s][k].to = r /\ wire[s][k].body.idx = i
Received(r) ==
  /\ \A k \in DOMAIN wire[r] :
       /\ wire[r][k].body.idx \in DOMAIN tr[r]
       /\ Answer(wire[r][k].body.value, tr[r][wire[r][k].body.idx].pos)
  /\ \A i \in DOMAIN tr[r] :
       tr[r][i].owner \in Ranks => \E k \in DOMAIN wire[r] : wire[r][k].body.idx = i
IsList(w) == w = [k \in 1 .. Len(w) |-> w[k]] /\ Len(w) \in Nat
Queries ==
  phase = "advance" => \A r \in Ranks :
    /\ pc[r] \in {"request", "fulfil", "respond", "push"} =>
         IsList(wire[r])
    /\ pc[r] = "request" => Requesting(r)
    /\ pc[r] = "fulfil"  => Asked(r)
    /\ pc[r] = "respond" => Answered(r)
    /\ pc[r] = "push"    => Received(r)

IInv == /\ TypeOK /\ Staged /\ InPlace /\ LookedUp /\ Departing /\ FileIds /\ Loaded /\ Seeded
        /\ EachOnce /\ Numbered /\ (restored \/ phase # "load") /\ Shadowed /\ OwnerKnown /\ Queries

-----------------------------------------------------------------------------
(* Lists of the elements at given places *)

(* The order of the places is total. *)
LEMMA AheadIsAnOrder ==
  ASSUME NEW p \in Nat \X Nat, NEW q \in Nat \X Nat, NEW s \in Nat \X Nat
  PROVE  /\ ~Ahead(p, p)
         /\ p # q => Ahead(p, q) \/ Ahead(q, p)
         /\ Ahead(p, q) /\ Ahead(q, s) => Ahead(p, s)
<1>1. /\ p[1] \in Nat /\ p[2] \in Nat /\ q[1] \in Nat /\ q[2] \in Nat /\ s[1] \in Nat /\ s[2] \in Nat
      /\ p = <<p[1], p[2]>> /\ q = <<q[1], q[2]>>
  OBVIOUS
<1> QED BY <1>1 DEF Ahead

(* A list names each of its places once: it is what arrives, nothing twice
   and nothing left behind. *)
LEMMA ListsEachOnce ==
  ASSUME NEW P, IsFiniteSet(P), P \subseteq Nat \X Nat
  PROVE  /\ Cardinality(P) \in Nat
         /\ \A n \in 1 .. Cardinality(P) : Nth(P, n) \in P
         /\ \A m, n \in 1 .. Cardinality(P) : Nth(P, m) = Nth(P, n) => m = n
         /\ \A p \in P : \E n \in 1 .. Cardinality(P) : Nth(P, n) = p
<1> DEFINE N == Cardinality(P)
           Number(p) == Cardinality(Before(P, p))
           place == [p \in P |-> Number(p) + 1]
<1>1. N \in Nat
  BY FS_CardinalityType
<1>2. ASSUME NEW p \in P
      PROVE  IsFiniteSet(Before(P, p)) /\ Number(p) \in Nat /\ Number(p) < N
  <2>1. Before(P, p) \in SUBSET P /\ p \notin Before(P, p)
    BY AheadIsAnOrder DEF Before
  <2>2. IsFiniteSet(Before(P, p)) /\ Number(p) <= N /\ (N = Number(p) => P = Before(P, p))
    BY <2>1, FS_Subset
  <2>3. Number(p) \in Nat
    BY <2>2, FS_CardinalityType
  <2> QED BY <1>1, <2>1, <2>2, <2>3
<1>3. ASSUME NEW p \in P, NEW q \in P, Ahead(p, q)
      PROVE  Number(p) < Number(q)
  <2>1. Before(P, p) \in SUBSET Before(P, q)
    BY <1>3, AheadIsAnOrder DEF Before
  <2>2. p \in Before(P, q) /\ p \notin Before(P, p)
    BY <1>3, AheadIsAnOrder DEF Before
  <2>3. /\ Number(p) <= Number(q)
        /\ Number(q) = Number(p) => Before(P, q) = Before(P, p)
    BY <1>2, <2>1, FS_Subset
  <2> QED BY <1>2, <2>2, <2>3
<1> HIDE DEF Number
<1>4. \A p, q \in P : Number(p) = Number(q) => p = q
  <2> SUFFICES ASSUME NEW p \in P, NEW q \in P, p # q
               PROVE  Number(p) # Number(q)
    OBVIOUS
  <2>1. Ahead(p, q) \/ Ahead(q, p)
    BY AheadIsAnOrder
  <2>2. Number(p) \in Nat /\ Number(q) \in Nat
    BY <1>2
  <2>3. Number(p) < Number(q) \/ Number(q) < Number(p)
    BY <2>1, <1>3
  <2> QED BY <2>2, <2>3
<1>5. place \in Injection(P, 1 .. N)
  <2>1. place \in [P -> 1 .. N]
    BY <1>1, <1>2
  <2>2. \A p, q \in P : place[p] = place[q] => p = q
    BY <1>2, <1>4
  <2> QED BY <2>1, <2>2, Fun_IsInj
<1>6. IsFiniteSet(1 .. N) /\ Cardinality(1 .. N) = N
  BY <1>1, FS_Interval
<1>7. place \in Surjection(P, 1 .. N)
  BY <1>5, <1>6, FS_Injection
<1>8. \A n \in 1 .. N : \E p \in P : Number(p) = n - 1
  <2> TAKE n \in 1 .. N
  <2>1. PICK p \in P : place[p] = n
    <3>1. \A t \in 1 .. N : \E p \in P : place[p] = t
      BY <1>7 DEF Surjection
    <3> QED BY <3>1
  <2>2. place[p] = Number(p) + 1
    OBVIOUS
  <2>3. Number(p) \in Nat
    BY <1>2
  <2> QED BY <2>1, <2>2, <2>3
<1>9. \A n \in 1 .. N : Nth(P, n) \in P /\ Number(Nth(P, n)) = n - 1
  BY <1>8 DEF Nth, Number
<1>10. \A p \in P : Nth(P, Number(p) + 1) = p /\ Number(p) + 1 \in 1 .. N
  <2> TAKE p \in P
  <2>1. Number(p) + 1 \in 1 .. N /\ Number(p) \in Nat
    BY <1>1, <1>2
  <2>2. Number(Nth(P, Number(p) + 1)) = Number(p) /\ Nth(P, Number(p) + 1) \in P
    BY <2>1, <1>9
  <2> QED BY <2>1, <2>2, <1>4
<1>11. \A m, n \in 1 .. N : Nth(P, m) = Nth(P, n) => m = n
  <2> SUFFICES ASSUME NEW m \in 1 .. N, NEW n \in 1 .. N, Nth(P, m) = Nth(P, n)
               PROVE  m = n
    OBVIOUS
  <2>1. m - 1 = n - 1 /\ m \in Int /\ n \in Int
    BY <1>1, <1>9
  <2> QED BY <2>1
<1> QED BY <1>1, <1>9, <1>10, <1>11

(* The places of a family of sequences are finitely many. *)
Lists(f) == /\ IsFiniteSet(DOMAIN f) /\ DOMAIN f \subseteq Nat
            /\ \A r \in DOMAIN f : \E n \in Nat : DOMAIN f[r] = 1 .. n
LEMMA PlacesAreFinite ==
  ASSUME NEW f, Lists(f)
  PROVE  /\ IsFiniteSet(Places(f)) /\ Places(f) \subseteq Nat \X Nat
         /\ \A p \in Places(f) : p[1] \in DOMAIN f /\ p[2] \in DOMAIN f[p[1]]
         /\ \A r \in DOMAIN f : \A i \in DOMAIN f[r] : <<r, i>> \in Places(f)
<1> DEFINE Row(r) == {<<r, i>> : i \in DOMAIN f[r]}
           Rows == {Row(r) : r \in DOMAIN f}
<1>1. ASSUME NEW r \in DOMAIN f PROVE IsFiniteSet(Row(r))
  <2> DEFINE g == [i \in DOMAIN f[r] |-> <<r, i>>]
  <2>1. IsFiniteSet(DOMAIN f[r])
    <3>1. PICK n \in Nat : DOMAIN f[r] = 1 .. n
      BY DEF Lists
    <3> QED BY <3>1, FS_Interval
  <2>2. g \in Surjection(DOMAIN f[r], Row(r))
    BY DEF Surjection
  <2> QED BY <2>1, <2>2, FS_Surjection
<1>2. IsFiniteSet(Rows)
  <2> DEFINE g == [r \in DOMAIN f |-> Row(r)]
  <2>1. g \in Surjection(DOMAIN f, Rows)
    <3>1. g \in [DOMAIN f -> Rows]
      OBVIOUS
    <3>2. \A t \in Rows : \E r \in DOMAIN f : g[r] = t
      OBVIOUS
    <3> QED BY <3>1, <3>2 DEF Surjection
  <2> QED BY <2>1, FS_Surjection DEF Lists
<1>3. \A T \in Rows : IsFiniteSet(T)
  BY <1>1
<1>4. Places(f) = UNION Rows
  BY DEF Places
<1>5. IsFiniteSet(Places(f))
  BY <1>2, <1>3, <1>4, FS_UNION
<1>6. \A p \in Places(f) : \E r \in DOMAIN f : \E i \in DOMAIN f[r] : p = <<r, i>>
  BY DEF Places
<1>7. \A r \in DOMAIN f : DOMAIN f[r] \subseteq Nat /\ r \in Nat
  BY DEF Lists
<1>8. \A r \in DOMAIN f : \A i \in DOMAIN f[r] : <<r, i>> \in Places(f)
  BY DEF Places
<1> QED BY <1>5, <1>6, <1>7, <1>8

(* What a list of places out of f holds. *)
LEMMA ListOfPlaces ==
  ASSUME NEW f, Lists(f), NEW P, P \subseteq Places(f)
  PROVE  /\ Cardinality(P) \in Nat
         /\ DOMAIN InOrder(f, P) = 1 .. Cardinality(P)
         /\ \A n \in DOMAIN InOrder(f, P) :
              /\ Nth(P, n) \in P /\ Nth(P, n)[1] \in DOMAIN f /\ Nth(P, n)[2] \in DOMAIN f[Nth(P, n)[1]]
              /\ InOrder(f, P)[n] = f[Nth(P, n)[1]][Nth(P, n)[2]]
         /\ \A m, n \in DOMAIN InOrder(f, P) : Nth(P, m)[1] = Nth(P, n)[1] /\ Nth(P, m)[2] = Nth(P, n)[2] => m = n
         /\ \A p \in P : \E n \in DOMAIN InOrder(f, P) : Nth(P, n) = p /\ InOrder(f, P)[n] = f[p[1]][p[2]]
<1>1. IsFiniteSet(P) /\ P \subseteq Nat \X Nat
  BY PlacesAreFinite, FS_Subset
<1>2. \A p \in P : p[1] \in DOMAIN f /\ p[2] \in DOMAIN f[p[1]]
  BY PlacesAreFinite
<1>3. DOMAIN InOrder(f, P) = 1 .. Cardinality(P)
  BY DEF InOrder
<1>4. \A p, q \in P : p[1] = q[1] /\ p[2] = q[2] => p = q
  BY <1>1
<1>5. /\ Cardinality(P) \in Nat
      /\ \A n \in 1 .. Cardinality(P) : Nth(P, n) \in P
      /\ \A m, n \in 1 .. Cardinality(P) : Nth(P, m) = Nth(P, n) => m = n
      /\ \A p \in P : \E n \in 1 .. Cardinality(P) : Nth(P, n) = p
  BY <1>1, ListsEachOnce
<1>6. \A n \in 1 .. Cardinality(P) : InOrder(f, P)[n] = f[Nth(P, n)[1]][Nth(P, n)[2]]
  BY DEF InOrder
<1>8. \A p \in P : \E n \in DOMAIN InOrder(f, P) : Nth(P, n) = p /\ InOrder(f, P)[n] = f[p[1]][p[2]]
  BY <1>3, <1>5, <1>6
<1>9. \A m, n \in 1 .. Cardinality(P) : Nth(P, m)[1] = Nth(P, n)[1] /\ Nth(P, m)[2] = Nth(P, n)[2] => m = n
  BY <1>4, <1>5
<1> QED BY <1>2, <1>3, <1>5, <1>6, <1>8, <1>9

-----------------------------------------------------------------------------
(* Ranks, quadrants and owners *)

LEMMA RanksOfAForest ==
  ASSUME NEW f \in Forests
  PROVE  /\ IsFiniteSet(DOMAIN f) /\ Cardinality(DOMAIN f) \in Nat \ {0}
         /\ DOMAIN f = 0 .. (Cardinality(DOMAIN f) - 1) /\ DOMAIN f \subseteq Nat
         /\ 0 \in DOMAIN f
<1>1. IsFiniteSet(DOMAIN f) /\ DOMAIN f = 0 .. (Cardinality(DOMAIN f) - 1) /\ Cardinality(DOMAIN f) \in Nat
  BY ForestsAssumption, FS_CardinalityType
<1>2. 0 \in Inside
  BY LengthAssumption DEF Inside
<1>3. \E r : r \in DOMAIN f
  BY <1>2, ForestsAssumption
<1> QED BY <1>1, <1>3

(* The test the code makes of a place agrees with the extent of a quadrant. *)
LEMMA PlacesHaveAQuadrant ==
  ASSUME NEW f \in Forests, NEW x \in Inside
  PROVE  \E r \in DOMAIN f : \E i \in DOMAIN f[r] : Holds(f[r][i], x)
<1>1. PICK r \in DOMAIN f : \E i \in DOMAIN f[r] : x \in Extent(f[r][i])
  BY ForestsAssumption
<1>2. PICK i \in DOMAIN f[r] : x \in Extent(f[r][i])
  BY <1>1
<1>3. f[r] \in Seq(Int \X Int)
  BY ForestsAssumption
<1>4. f[r][i] \in Int \X Int
  BY <1>3
<1>5. f[r][i][1] \in Int /\ f[r][i][2] \in Int /\ x \in f[r][i][1] .. (f[r][i][2] - 1)
  BY <1>2, <1>4 DEF Extent
<1>6. f[r][i][1] <= x /\ x < f[r][i][2]
  <2> DEFINE a == f[r][i][1]
             b == f[r][i][2]
  <2>1. a \in Int /\ b \in Int /\ x \in a .. (b - 1)
    BY <1>5
  <2> HIDE DEF a, b
  <2>2. a <= x /\ x < b
    BY <2>1
  <2> QED BY <2>2 DEF a, b
<1> QED BY <1>6 DEF Holds

LEMMA RanksAreAnInterval ==
  ASSUME forest \in Forests
  PROVE  /\ IsFiniteSet(Ranks) /\ Cardinality(Ranks) \in Nat \ {0}
         /\ Ranks = 0 .. (Cardinality(Ranks) - 1) /\ Ranks \subseteq Nat
         /\ NoRank \notin Ranks /\ 0 \in Ranks
BY RanksOfAForest DEF Ranks, NoRank

LEMMA QuadrantsOfARank ==
  ASSUME forest \in Forests, NEW r \in Ranks
  PROVE  /\ forest[r] \in Seq(Int \X Int)
         /\ \A x : \/ QuadAt(forest[r], x) \in DOMAIN forest[r] /\ Holds(forest[r][QuadAt(forest[r], x)], x)
                   \/ QuadAt(forest[r], x) = NoQuad /\ \A i \in DOMAIN forest[r] : ~Holds(forest[r][i], x)
         /\ \A x : QuadAt(forest[r], x) \in Nat
         /\ NoQuad \notin DOMAIN forest[r]
<1>1. forest[r] \in Seq(Int \X Int)
  BY ForestsAssumption DEF Ranks
<1>2. DOMAIN forest[r] \subseteq Nat /\ NoQuad \notin DOMAIN forest[r]
  BY <1>1 DEF NoQuad
<1> QED BY <1>1, <1>2 DEF QuadAt, NoQuad

LEMMA OwnersExist ==
  ASSUME forest \in Forests, NEW x
  PROVE  /\ OwnerRank(x) = OwnerIn(forest, x)
         /\ OwnerIn(forest, x) \in Ranks \cup {NoRank}
         /\ OwnerIn(forest, x) \in Int
         /\ x \in Inside =>
              LET q == OwnerIn(forest, x)
              IN /\ q \in Ranks
                 /\ QuadAt(forest[q], x) \in DOMAIN forest[q]
                 /\ Holds(forest[q][QuadAt(forest[q], x)], x)
<1> DEFINE Owns(q) == QuadAt(forest[q], x) # NoQuad
           o == OwnerIn(forest, x)
<1>1. o = IF \E q \in Ranks : Owns(q) THEN CHOOSE q \in Ranks : Owns(q) ELSE NoRank
  BY DEF OwnerIn, Ranks
<1>2. OwnerRank(x) = o
  BY DEF OwnerIn, OwnerRank, Ranks
<1> HIDE DEF o
<1>3. o \in Ranks \cup {NoRank} /\ ((\E q \in Ranks : Owns(q)) => o \in Ranks /\ Owns(o))
  <2> HIDE DEF Owns
  <2> QED BY <1>1
<1>4. ASSUME x \in Inside PROVE \E q \in Ranks : Owns(q)
  <2>1. PICK q \in Ranks : \E i \in DOMAIN forest[q] : Holds(forest[q][i], x)
    BY <1>4, PlacesHaveAQuadrant DEF Ranks
  <2>2. QuadAt(forest[q], x) \in DOMAIN forest[q] /\ NoQuad \notin DOMAIN forest[q]
    BY <2>1, QuadrantsOfARank
  <2> QED BY <2>2
<1>5. o \in Int
  BY <1>3, RanksAreAnInterval DEF NoRank
<1>6. ASSUME x \in Inside
      PROVE  /\ o \in Ranks
             /\ QuadAt(forest[o], x) \in DOMAIN forest[o]
             /\ Holds(forest[o][QuadAt(forest[o], x)], x)
  <2>1. o \in Ranks /\ Owns(o)
    BY <1>3, <1>4, <1>6
  <2> QED BY <2>1, QuadrantsOfARank
<1> QED BY <1>2, <1>3, <1>5, <1>6 DEF o

LEMMA EmptySequence ==
  ASSUME NEW T, NEW f \in Seq(T), DOMAIN f = {}
  PROVE  f = <<>>
<1>1. Len(f) \in Nat /\ DOMAIN f = 1 .. Len(f)
  OBVIOUS
<1>2. Len(f) = 0
  BY <1>1
<1> QED BY <1>2

LEMMA SequencesOf ==
  ASSUME NEW T, NEW n \in Nat, NEW f, f = [i \in 1 .. n |-> f[i]], \A i \in 1 .. n : f[i] \in T
  PROVE  f \in Seq(T) /\ Len(f) = n /\ DOMAIN f = 1 .. n
OBVIOUS

-----------------------------------------------------------------------------
(* Exchanges *)

(* A collective exchange brings each rank what was sent to it, and no element
   twice. *)
LEMMA Arrivals ==
  ASSUME forest \in Forests, wire = [r \in Ranks |-> wire[r]],
         \A r \in Ranks : \E n \in Nat : DOMAIN wire[r] = 1 .. n,
         NEW r \in Ranks
  PROVE  /\ \E n \in Nat : DOMAIN Exchanged[r] = 1 .. n /\ Exchanged[r] = [k \in 1 .. n |-> Exchanged[r][k]]
         /\ \A k \in DOMAIN Exchanged[r] :
              /\ Nth(SentTo(r), k)[1] \in Ranks
              /\ Nth(SentTo(r), k)[2] \in DOMAIN wire[Nth(SentTo(r), k)[1]]
              /\ Exchanged[r][k] = wire[Nth(SentTo(r), k)[1]][Nth(SentTo(r), k)[2]]
              /\ Exchanged[r][k].to = r
         /\ \A k, m \in DOMAIN Exchanged[r] :
              /\ Nth(SentTo(r), k)[1] = Nth(SentTo(r), m)[1]
              /\ Nth(SentTo(r), k)[2] = Nth(SentTo(r), m)[2]
              => k = m
         /\ \A s \in Ranks : \A i \in DOMAIN wire[s] :
              wire[s][i].to = r => \E k \in DOMAIN Exchanged[r] : Exchanged[r][k] = wire[s][i]
         /\ \A k \in DOMAIN Exchanged[r] : \E s \in Ranks : \E i \in DOMAIN wire[s] :
              Exchanged[r][k] = wire[s][i] /\ wire[s][i].to = r
<1>1. Lists(wire) /\ DOMAIN wire = Ranks
  BY RanksAreAnInterval DEF Lists
<1>2. SentTo(r) \subseteq Places(wire) /\ \A p \in SentTo(r) : wire[p[1]][p[2]].to = r
  BY DEF SentTo
<1>3. Exchanged[r] = InOrder(wire, SentTo(r))
  BY DEF Exchanged
<1>4. \A s \in Ranks : \A i \in DOMAIN wire[s] : wire[s][i].to = r => <<s, i>> \in SentTo(r)
  BY <1>1, PlacesAreFinite DEF SentTo
<1> DEFINE P == SentTo(r)
           A == Exchanged[r]
<1> HIDE DEF P, A
<1>5. /\ Cardinality(P) \in Nat
      /\ DOMAIN A = 1 .. Cardinality(P)
      /\ \A n \in DOMAIN A :
           /\ Nth(P, n) \in P /\ Nth(P, n)[1] \in DOMAIN wire /\ Nth(P, n)[2] \in DOMAIN wire[Nth(P, n)[1]]
           /\ A[n] = wire[Nth(P, n)[1]][Nth(P, n)[2]]
      /\ \A m, n \in DOMAIN A : Nth(P, m)[1] = Nth(P, n)[1] /\ Nth(P, m)[2] = Nth(P, n)[2] => m = n
      /\ \A p \in P : \E n \in DOMAIN A : Nth(P, n) = p /\ A[n] = wire[p[1]][p[2]]
  <2>1. P \subseteq Places(wire) /\ A = InOrder(wire, P)
    BY <1>2, <1>3 DEF P, A
  <2> QED BY <1>1, <2>1, ListOfPlaces
<1>6. A = [k \in 1 .. Cardinality(P) |-> A[k]]
  <2>1. A = InOrder(wire, P)
    BY <1>3 DEF A, P
  <2>2. A = [n \in 1 .. Cardinality(P) |-> wire[Nth(P, n)[1]][Nth(P, n)[2]]]
    BY <2>1 DEF InOrder
  <2> QED BY <2>2
<1>7. ASSUME NEW k \in DOMAIN A PROVE A[k].to = r
  <2>1. \A p \in P : wire[p[1]][p[2]].to = r
    BY <1>2 DEF P
  <2>2. Nth(P, k) \in P /\ A[k] = wire[Nth(P, k)[1]][Nth(P, k)[2]]
    BY <1>5
  <2> QED BY <2>1, <2>2
<1>8. ASSUME NEW s \in Ranks, NEW i \in DOMAIN wire[s], wire[s][i].to = r
      PROVE  \E k \in DOMAIN A : A[k] = wire[s][i]
  <2> DEFINE p == <<s, i>>
  <2>1. p \in P
    BY <1>4, <1>8 DEF P
  <2>2. PICK k \in DOMAIN A : A[k] = wire[p[1]][p[2]]
    BY <2>1, <1>5
  <2> QED BY <2>2
<1>9. ASSUME NEW k \in DOMAIN A
      PROVE  \E s \in Ranks : \E i \in DOMAIN wire[s] : A[k] = wire[s][i] /\ wire[s][i].to = r
  <2>1. /\ Nth(P, k)[1] \in Ranks /\ Nth(P, k)[2] \in DOMAIN wire[Nth(P, k)[1]]
        /\ A[k] = wire[Nth(P, k)[1]][Nth(P, k)[2]]
    BY <1>1, <1>5
  <2> QED BY <1>7, <2>1
<1> QED BY <1>1, <1>5, <1>6, <1>7, <1>8, <1>9 DEF P, A
-----------------------------------------------------------------------------
(* Slices of the file *)

(* Slices start at 0, each at the end of the one before it, and the last ends
   with the last tracer: for every number of tracers and of ranks, no tracer
   of the file is read twice and none is left (equal_slice). *)
THEOREM SlicesTile ==
  ASSUME NEW n \in Nat, NEW p \in Nat \ {0}
  PROVE  /\ SliceOffset(n, 0, p) = 0
         /\ \A r \in 0 .. (p - 1) : SliceOffset(n, r + 1, p) = SliceOffset(n, r, p) + SliceCount(n, r, p)
         /\ SliceOffset(n, p, p) = n
<1> DEFINE b == n \div p
           e == n % p
           LowerOf(r) == IF r < e THEN r ELSE e
<1>1. b \in Nat /\ e \in Nat /\ e < p /\ n = p * b + e
  OBVIOUS
<1>2. \A r \in Nat : /\ SliceOffset(n, r, p) = r * b + LowerOf(r)
                     /\ SliceCount(n, r, p) = b + IF r < e THEN 1 ELSE 0
  BY DEF SliceOffset, SliceCount
<1> HIDE DEF b, e
<1>3. 0 * b = 0
  BY <1>1
<1>4. SliceOffset(n, 0, p) = 0
  BY <1>1, <1>2, <1>3
<1>5. SliceOffset(n, p, p) = n
  <2>1. SliceOffset(n, p, p) = p * b + LowerOf(p)
    BY <1>2
  <2>2. LowerOf(p) = e
    BY <1>1
  <2> QED
    BY <1>1, <2>1, <2>2
<1>6. ASSUME NEW r \in 0 .. (p - 1)
      PROVE  SliceOffset(n, r + 1, p) = SliceOffset(n, r, p) + SliceCount(n, r, p)
  <2>1. (r + 1) * b = r * b + b /\ r * b \in Int
    BY <1>1
  <2>2. LowerOf(r + 1) = LowerOf(r) + (IF r < e THEN 1 ELSE 0) /\ LowerOf(r) \in Int
    BY <1>1
  <2>3. SliceOffset(n, r + 1, p) = (r + 1) * b + LowerOf(r + 1)
    BY <1>2
  <2>4. SliceOffset(n, r, p) = r * b + LowerOf(r) /\ SliceCount(n, r, p) = b + IF r < e THEN 1 ELSE 0
    BY <1>2
  <2> QED
    BY <1>1, <2>1, <2>2, <2>3, <2>4
<1> QED
  BY <1>4, <1>5, <1>6

LEMMA SlicesApart ==
  ASSUME NEW n \in Nat, NEW p \in Nat \ {0}
  PROVE  /\ \A r \in Nat : SliceOffset(n, r, p) \in Nat /\ SliceCount(n, r, p) \in Nat
         /\ \A q, r \in 0 .. p : q < r => SliceOffset(n, q, p) + SliceCount(n, q, p) <= SliceOffset(n, r, p)
         /\ \A r \in 0 .. (p - 1) : SliceOffset(n, r, p) + SliceCount(n, r, p) <= n
         /\ \A k \in 1 .. n : \E r \in 0 .. (p - 1) :
              SliceOffset(n, r, p) < k /\ k <= SliceOffset(n, r, p) + SliceCount(n, r, p)
<1> DEFINE b == n \div p
           e == n % p
           LowerOf(r) == IF r < e THEN r ELSE e
           off(r) == SliceOffset(n, r, p)
           count(r) == SliceCount(n, r, p)
<1>1. b \in Nat /\ e \in Nat /\ e < p
  OBVIOUS
<1>2. \A r \in Nat : off(r) = r * b + LowerOf(r) /\ count(r) = b + IF r < e THEN 1 ELSE 0
  BY DEF SliceOffset, SliceCount
<1> HIDE DEF b, e
<1>3. \A r \in Nat : off(r) \in Nat /\ count(r) \in Nat
  BY <1>1, <1>2
<1>4. ASSUME NEW q \in 0 .. p, NEW r \in 0 .. p, q < r
      PROVE  off(q) + count(q) <= off(r)
  <2>1. PICK k \in Nat : r = (q + 1) + k
    <3>1. r - (q + 1) \in Nat /\ r = (q + 1) + (r - (q + 1))
      BY <1>4
    <3> QED BY <3>1
  <2>2. k * b \in Nat /\ q * b \in Nat /\ r * b = q * b + b + k * b
    BY <1>1, <2>1
  <2>3. LowerOf(q) + (IF q < e THEN 1 ELSE 0) <= LowerOf(r)
    BY <1>1, <1>4
  <2>4. off(q) = q * b + LowerOf(q) /\ count(q) = b + (IF q < e THEN 1 ELSE 0) /\ off(r) = r * b + LowerOf(r)
    BY <1>2
  <2> HIDE DEF LowerOf, off, count
  <2>5. LowerOf(q) \in Int /\ LowerOf(r) \in Int
    BY <1>1 DEF LowerOf
  <2> QED BY <1>1, <2>2, <2>3, <2>4, <2>5
<1> HIDE DEF off, count
<1>5. off(0) = 0 /\ off(p) = n /\ \A r \in 0 .. (p - 1) : off(r + 1) = off(r) + count(r)
  BY SlicesTile DEF off, count
<1>6. ASSUME NEW r \in 0 .. (p - 1) PROVE off(r) + count(r) <= n
  <2>1. r \in 0 .. p /\ p \in 0 .. p /\ r < p
    OBVIOUS
  <2>2. off(r) + count(r) <= off(p)
    BY <2>1, <1>4
  <2> QED BY <2>2, <1>5
<1>7. ASSUME NEW k \in 1 .. n
      PROVE  \E r \in 0 .. (p - 1) : off(r) < k /\ k <= off(r) + count(r)
  <2> DEFINE Past == {m \in Nat : m <= p /\ k <= off(m)}
  <2>1. p \in Past /\ Past \subseteq Nat
    BY <1>5
  <2> DEFINE Less == OpToRel(<, Nat)
  <2>8. IsWellFoundedOn(Less, Nat)
    BY NatLessThanWellFounded, Zenon
  <2>9. \A l, m \in Nat : l < m => <<l, m>> \in Less
    BY DEF OpToRel
  <2> HIDE DEF Less, Past
  <2>2. PICK m \in Past : \A l \in Past : <<l, m>> \notin Less
    BY <2>1, <2>8, WFMin
  <2>3. \A l \in Past : ~(l < m)
    BY <2>2, <2>1, <2>9
  <2> USE DEF Past
  <2>4. m # 0
    BY <1>5
  <2>5. m - 1 \in 0 .. (p - 1) /\ m - 1 \notin Past
    BY <2>3, <2>4
  <2>6. off(m - 1) < k
    BY <2>5, <1>3
  <2>7. off(m) = off(m - 1) + count(m - 1)
    <3>1. (m - 1) + 1 = m
      OBVIOUS
    <3> QED BY <2>5, <3>1, <1>5
  <2> QED BY <2>5, <2>6, <2>7
<1> QED BY <1>3, <1>4, <1>6, <1>7 DEF off, count

-----------------------------------------------------------------------------
(* The stretches of a call *)

(* Which ranks can be where when one is at a given place. *)
LEMMA Where ==
  ASSUME Staged, NEW r \in Ranks
  PROVE  /\ pc[r] = "seed" => phase = "start" /\ Within({"seed", "rest"})
         /\ pc[r] = "width" => \/ phase \in {"start", "load", "regrid"} /\ Within({"width"})
                               \/ phase = "regrid" /\ Within({"refresh", "width"})
         /\ pc[r] = "read" => /\ phase = "load"
                              /\ \/ file.tracers = <<>> /\ Within({"read", "rest"})
                                 \/ file.tracers # <<>> /\ Within({"read", "counters"})
         /\ pc[r] = "counters" => phase = "load" /\ file.tracers # <<>> /\ Within({"read", "counters"})
         /\ pc[r] = "owners" => phase = "load" /\ Within({"owners", "migrate"})
         /\ pc[r] \in {"resolve", "reduce"} => phase \in {"advance", "regrid"} /\ Within({"resolve", "reduce"})
         /\ pc[r] \in {"flag", "cull"} => phase \in {"advance", "regrid"} /\ Within({"flag", "cull"})
         /\ pc[r] = "update" => /\ phase \in {"advance", "regrid"}
                                /\ \/ migrate /\ Within({"update", "migrate"})
                                   \/ ~migrate /\ phase = "advance" /\ Within({"update", "pack", "request"})
                                   \/ ~migrate /\ phase = "regrid" /\ Within({"update", "rest"})
         /\ pc[r] = "migrate" => \/ phase = "load" /\ Within({"owners", "migrate"})
                                 \/ phase \in {"advance", "regrid"} /\ Within({"update", "migrate"})
         /\ pc[r] \in {"pack", "request"} => phase = "advance" /\ Within({"update", "pack", "request"})
         /\ pc[r] = "request" /\ migrate => Within({"pack", "request"})
         /\ pc[r] \in {"fulfil", "respond"} => phase = "advance" /\ Within({"fulfil", "respond"})
         /\ pc[r] \in {"push", "drift"} => phase = "advance" /\ Within({"push", "drift"})
         /\ pc[r] = "bcs" => phase = "advance" /\ Within({"bcs", "rest"})
         /\ pc[r] = "refresh" => phase = "regrid" /\ Within({"refresh", "width"})
BY DEF Staged, Within, Rebalancing

LEMMA StagedIsKept ==
  ASSUME Staged, forest \in Forests, migrate \in BOOLEAN, pc = [r \in Ranks |-> pc[r]], Next
  PROVE  Staged'
<1>0. \E r : r \in Ranks
  BY RanksAreAnInterval
<1> USE DEF Within, Rebalancing, Ranks, Go, Enter, All, SetAll, AtRest
<1>1. CASE Width
  <2>1. /\ phase' = phase /\ forest' = forest /\ migrate' = migrate /\ file' = file
        /\ \A r \in Ranks : pc[r] = "width"
        /\ pc' = [r \in Ranks |-> CASE phase = "start" -> "seed" [] phase = "load" -> "read" [] OTHER -> "resolve"]
    BY <1>1 DEF Width, mesh, run
  <2>2. phase \in {"start", "load", "regrid"}
    BY <1>0, <2>1 DEF Staged
  <2>3. CASE phase = "start"
    BY <2>1, <2>3 DEF Staged
  <2>4. CASE phase = "load"
    BY <2>1, <2>4 DEF Staged
  <2>5. CASE phase = "regrid"
    BY <2>1, <2>5 DEF Staged
  <2> QED BY <2>2, <2>3, <2>4, <2>5
<1>2. CASE Counters
  BY <1>0, <1>2 DEF Counters, Staged, mesh, run
<1>3. CASE Reduce
  BY <1>0, <1>3 DEF Reduce, Staged, mesh, run
<1>4. CASE Cull
  BY <1>0, <1>4 DEF Cull, Staged, mesh, run
<1>5. CASE Migrate
  BY <1>0, <1>5 DEF Migrate, After, Staged, mesh, run
<1>6. CASE Request
  BY <1>0, <1>6 DEF Request, Exchange, Staged, mesh, run
<1>7. CASE Respond
  BY <1>0, <1>7 DEF Respond, Exchange, Staged, mesh, run
<1>8. CASE Drift
  BY <1>0, <1>8 DEF Drift, Staged, mesh, run
<1>9. ASSUME NEW r \in Ranks, RankStep(r) PROVE Staged'
  <2>1. CASE Seed(r)
    BY <2>1 DEF Seed, Staged, mesh, run
  <2>2. CASE Load(r)
    BY <2>2 DEF Load, Staged, mesh, run
  <2>3. CASE Export(r)
    BY <2>3 DEF Export, Staged, mesh, run
  <2>4. CASE Refresh(r)
    BY <2>4 DEF Refresh, Staged, mesh, run
  <2>5. CASE Resolve(r)
    BY <2>5 DEF Resolve, Staged, mesh, run
  <2>6. CASE Flag(r)
    BY <2>6 DEF Flag, Staged, mesh, run
  <2>7. CASE Update(r)
    BY <2>7 DEF Update, After, Staged, mesh, run
  <2>8. CASE Pack(r)
    BY <2>8 DEF Pack, Staged, mesh, run
  <2>9. CASE Fulfil(r)
    BY <2>9 DEF Fulfil, Staged, mesh, run
  <2>10. CASE Push(r)
    BY <2>10 DEF Push, Staged, mesh, run
  <2>11. CASE PositionBcs(r)
    BY <2>11 DEF PositionBcs, Staged, mesh, run
  <2> QED BY <1>9, <2>1, <2>2, <2>3, <2>4, <2>5, <2>6, <2>7, <2>8, <2>9, <2>10, <2>11 DEF RankStep
<1>10. CASE Evolve
  BY <1>10 DEF Evolve, Staged, mesh
<1>11. CASE Regrid
  BY <1>11 DEF Regrid, Staged
<1>12. CASE Save
  BY <1>12 DEF Save, Staged, mesh
<1>13. CASE NextJob
  BY <1>13 DEF NextJob, StartOn, Staged
<1>14. CASE Settled
  BY <1>14 DEF Settled, Staged, vars
<1> QED BY <1>1, <1>2, <1>3, <1>4, <1>5, <1>6, <1>7, <1>8, <1>9, <1>10, <1>11, <1>12, <1>13, <1>14
       DEF Next, Work, Collective

-----------------------------------------------------------------------------
(* Each step keeps the invariant *)

LEMMA InitIInv == Init => IInv
<1> SUFFICES ASSUME Init PROVE IInv
  OBVIOUS
<1> USE DEF Init, None, Ranks
<1>1. TypeOK
  <2>1. \A r \in Ranks : tr[r] = <<>> /\ <<>> \in Seq(Tracer)
    OBVIOUS
  <2>2. file.iter = 0 /\ file.tracers = <<>> /\ <<>> \in Seq(Saved)
    BY DEF NoFile
  <2>3. tr \in [Ranks -> Seq(Tracer)] /\ tr = [r \in Ranks |-> <<>>]
    BY <2>1
  <2>4. /\ shadow = [r \in Ranks |-> shadow[r]] /\ found = [r \in Ranks |-> found[r]]
        /\ wire = [r \in Ranks |-> wire[r]] /\ pc = [r \in Ranks |-> pc[r]]
    OBVIOUS
  <2>5. migrate \in BOOLEAN /\ restored \in BOOLEAN /\ rescaled \in BOOLEAN
    OBVIOUS
  <2>6. forest \in Forests /\ iter \in Nat /\ job \in Nat /\ flow \in Flows
    OBVIOUS
  <2> HIDE DEF Init, None
  <2> QED BY <2>2, <2>3, <2>4, <2>5, <2>6 DEF TypeOK
<1>2. Staged
  BY DEF Staged, Within
<1>3. InPlace /\ FileIds
  <2>1. file.tracers = <<>>
    BY DEF NoFile
  <2> QED BY <2>1 DEF InPlace, FileIds
<1>4. LookedUp /\ Departing /\ Loaded /\ Seeded
  BY DEF LookedUp, Departing, Loaded, Seeded
<1>5. EachOnce
  BY DEF EachOnce
<1>6. Numbered /\ Shadowed /\ OwnerKnown /\ Queries
  BY DEF Numbered, Shadowed, OwnerKnown, Queries
<1> QED BY <1>1, <1>2, <1>3, <1>4, <1>5, <1>6 DEF IInv

(* A step of a call that leaves the containers alone. *)
LEMMA StandingStep ==
  ASSUME IInv, UNCHANGED <<forest, tr, counter>>, UNCHANGED run, migrate' \in BOOLEAN,
         pc' = [q \in Ranks |-> pc'[q]], shadow' = [q \in Ranks |-> shadow'[q]],
         found' = [q \in Ranks |-> found'[q]], wire' = [q \in Ranks |-> wire'[q]],
         \A q \in Ranks : pc[q] \in {"drift", "bcs"} => pc'[q] \in {"drift", "bcs"}
  PROVE  /\ TypeOK' /\ InPlace' /\ FileIds' /\ EachOnce' /\ (restored \/ phase # "load")'
         /\ phase = "start" \/ (Restoring => Restoring') => Numbered'
<1> USE DEF IInv, run, Ranks
<1>1. FileIds' /\ (restored \/ phase # "load")'
  BY DEF FileIds
<1>2. EachOnce'
  BY DEF EachOnce
<1>3. ASSUME phase = "start" \/ (Restoring => Restoring')
      PROVE  Numbered'
  BY <1>3 DEF Numbered
<1>4. TypeOK'
  BY DEF TypeOK
<1>5. InPlace'
  BY DEF InPlace, Sound, AtHome
<1> QED BY <1>1, <1>2, <1>3, <1>4, <1>5

(* A step that keeps the ids of all tracers in their places. *)
LEMMA SameIds ==
  ASSUME EachOnce, Numbered, UNCHANGED <<forest, counter, phase, file, rescaled>>,
         phase \notin {"start", "load"},
         \A q \in Ranks : DOMAIN tr'[q] = DOMAIN tr[q] /\ \A i \in DOMAIN tr[q] : tr'[q][i].id = tr[q][i].id
  PROVE  EachOnce' /\ Numbered'
<1>1. EachOnce'
  BY DEF EachOnce, Ranks
<1>2. Numbered'
  BY DEF Numbered, Restoring, Ranks
<1> QED BY <1>1, <1>2

(* A step of one rank that keeps its tracers, in their places in the container,
   in a call of the evolution loop. *)
LEMMA TracersStay ==
  ASSUME IInv, UNCHANGED <<forest, shadow, counter, migrate>>, UNCHANGED run, NEW r \in Ranks,
         phase \in {"advance", "regrid"},
         pc' = [q \in Ranks |-> pc'[q]], found' = [q \in Ranks |-> found'[q]], wire' = [q \in Ranks |-> wire'[q]],
         \A q \in Ranks \ {r} : pc'[q] = pc[q] /\ tr'[q] = tr[q],
         tr' = [q \in Ranks |-> tr'[q]], tr'[r] = [i \in DOMAIN tr[r] |-> tr'[r][i]],
         \A i \in DOMAIN tr[r] : tr'[r][i] \in Tracer /\ tr'[r][i].id = tr[r][i].id,
         \A i \in DOMAIN tr[r] : Sound(tr'[r][i]) /\ (pc'[r] \notin {"drift", "bcs"} => AtHome(tr'[r][i].pos))
  PROVE  /\ TypeOK' /\ InPlace' /\ FileIds' /\ EachOnce' /\ (restored \/ phase # "load")' /\ Numbered'
         /\ Loaded' /\ Seeded'
<1>1. FileIds' /\ (restored \/ phase # "load")' /\ Loaded' /\ Seeded'
  BY DEF IInv, run, FileIds, Loaded, Seeded
<1>2. DOMAIN tr'[r] = DOMAIN tr[r]
  OBVIOUS
<1>3. \A q \in Ranks : DOMAIN tr'[q] = DOMAIN tr[q] /\ \A i \in DOMAIN tr[q] : tr'[q][i].id = tr[q][i].id
  BY <1>2
<1>4. EachOnce' /\ Numbered'
  <2>1. EachOnce /\ Numbered /\ UNCHANGED <<forest, counter, phase, file, rescaled>>
    BY DEF IInv, run
  <2> QED BY <1>3, <2>1, SameIds
<1>5. TypeOK'
  <2>1. tr'[r] \in Seq(Tracer)
    <3>1. PICK n \in Nat : DOMAIN tr[r] = 1 .. n
      <4>1. tr[r] \in Seq(Tracer)
        BY DEF IInv, TypeOK
      <4> QED BY <4>1
    <3> QED BY <3>1, SequencesOf
  <2>2. tr' \in [Ranks -> Seq(Tracer)]
    BY <2>1 DEF IInv, TypeOK
  <2> QED BY <2>2 DEF IInv, run, Ranks, TypeOK
<1>6. InPlace'
  <2>1. UNCHANGED <<forest, boundary, file>>
    BY DEF run
  <2>2. \A q \in Ranks : \A i \in DOMAIN tr'[q] :
          Sound(tr'[q][i]) /\ (pc'[q] \notin {"drift", "bcs"} => AtHome(tr'[q][i].pos))
    BY <1>2 DEF IInv, InPlace
  <2> QED BY <2>1, <2>2 DEF IInv, InPlace, Sound, AtHome, Ranks
<1> QED BY <1>1, <1>4, <1>5, <1>6

(* While ranks still write their requests, those of the others stand. *)
LEMMA RequestsStay ==
  ASSUME Queries, UNCHANGED forest, UNCHANGED phase,
         \A q \in Ranks : pc'[q] \notin {"fulfil", "respond", "push"},
         \A q \in Ranks : pc'[q] = "request" =>
            \/ pc[q] = "request" /\ tr'[q] = tr[q] /\ wire'[q] = wire[q]
            \/ IsList(wire'[q]) /\ Requesting(q)'
  PROVE  Queries'
<1>1. ASSUME NEW q \in Ranks, pc'[q] = "request", phase = "advance"
      PROVE  IsList(wire'[q]) /\ Requesting(q)'
  <2>1. CASE pc[q] = "request" /\ tr'[q] = tr[q] /\ wire'[q] = wire[q]
    <3>1. IsList(wire[q]) /\ Requesting(q)
      BY <1>1, <2>1 DEF Queries
    <3> QED BY <2>1, <3>1 DEF Requesting, Asks
  <2>2. CASE IsList(wire'[q]) /\ Requesting(q)'
    BY <2>2
  <2> QED BY <1>1, <2>1, <2>2
<1> QED BY <1>1 DEF Queries, Ranks

LEMMA SeedKeepsIInv ==
  ASSUME IInv, Staged', NEW r \in Ranks, Seed(r)
  PROVE  IInv'
<1> DEFINE place(n) == (forest[r][n][1] + forest[r][n][2]) \div 2
<1>1. forest \in Forests /\ r \in Nat /\ TypeOK
  BY RanksAreAnInterval DEF IInv, TypeOK
<1>2. phase = "start" /\ pc[r] = "seed" /\ Within({"seed", "rest"})
  BY Where DEF IInv, Seed, Go
<1>3. /\ UNCHANGED <<forest, found, migrate, wire, phase, iter, flow, boundary, file, job, restored, rescaled>>
      /\ pc' = [pc EXCEPT ![r] = "rest"] /\ shadow' = [shadow EXCEPT ![r] = forest[r]]
  BY DEF Seed, Go, run
<1> DEFINE Seeding(quads) ==
        /\ tr' = [tr EXCEPT ![r] = [i \in DOMAIN quads |->
                    [id |-> <<r, i - 1>>, pos |-> place(quads[i]),
                     status |-> "default", owner |-> r, quad |-> quads[i]]]]
        /\ counter' = [counter EXCEPT ![r] = Len(tr'[r])]
<1>4. PICK n \in 0 .. TracersPerRank : \E quads \in [1 .. n -> DOMAIN forest[r]] : Seeding(quads)
  BY DEF Seed, Seeds
<1>20. PICK quads \in [1 .. n -> DOMAIN forest[r]] : Seeding(quads)
  BY <1>4
<1>21. n \in Nat
  OBVIOUS
<1>5. \A k \in DOMAIN forest[r] : k \in Nat /\ place(k) \in Int /\ place(k) \in Inside
  <2> TAKE k \in DOMAIN forest[r]
  <2>1. k \in Nat /\ forest[r][k] \in Int \X Int
    BY <1>1, QuadrantsOfARank
  <2>2. 0 <= forest[r][k][1] /\ forest[r][k][1] < forest[r][k][2] /\ forest[r][k][2] <= Length
    BY <1>1, ForestsAssumption DEF Ranks
  <2>3. forest[r][k][1] \in Int /\ forest[r][k][2] \in Int /\ Length \in Nat
    BY <2>1, LengthAssumption
  <2> QED BY <2>1, <2>2, <2>3 DEF Inside
<1>6. /\ tr'[r] = [i \in 1 .. n |-> [id |-> <<r, i - 1>>, pos |-> place(quads[i]),
                                     status |-> "default", owner |-> r, quad |-> quads[i]]]
      /\ \A q \in Ranks \ {r} : tr'[q] = tr[q]
      /\ DOMAIN tr' = Ranks
  BY <1>1, <1>20 DEF TypeOK
<1> HIDE DEF place, Seeding
<1>7. /\ DOMAIN tr'[r] = 1 .. n
      /\ \A i \in 1 .. n : tr'[r][i] \in Tracer /\ tr'[r][i].id = <<r, i - 1>> /\ tr'[r][i].status = "default"
                           /\ tr'[r][i].pos \in Inside
  <2>1. \A i \in 1 .. n : quads[i] \in Nat /\ place(quads[i]) \in Int /\ place(quads[i]) \in Inside /\ i - 1 \in Nat
    BY <1>5
  <2> QED BY <1>1, <1>6, <2>1 DEF Tracer
<1>8. tr'[r] \in Seq(Tracer)
  <2>1. tr'[r] = [i \in 1 .. n |-> tr'[r][i]]
    BY <1>6
  <2> QED BY <1>7, <2>1, SequencesOf
<1>9. tr' \in [Ranks -> Seq(Tracer)]
  BY <1>1, <1>20, <1>8 DEF TypeOK, Seeding
<1>10. TypeOK'
  <2>1. shadow' = [q \in Ranks |-> shadow'[q]] /\ pc' = [q \in Ranks |-> pc'[q]]
    BY <1>1, <1>3 DEF TypeOK
  <2> QED BY <1>1, <1>3, <1>9, <2>1 DEF TypeOK, Ranks
<1>11. InPlace'
  <2>1. \A x \in Inside : AtHome(x)' /\ AtHome(x)
    BY LengthAssumption DEF AtHome, Inside
  <2>2. \A i \in DOMAIN tr'[r] : Sound(tr[r][i])' /\ AtHome(tr[r][i].pos)'
    BY <1>3, <1>7, <2>1 DEF Sound, AtHome
  <2>3. \A q \in Ranks \ {r} : \A i \in DOMAIN tr'[q] :
          Sound(tr[q][i])' /\ (pc[q] \notin {"drift", "bcs"} => AtHome(tr[q][i].pos))'
    BY <1>1, <1>3, <1>6 DEF IInv, TypeOK, InPlace, Sound, AtHome
  <2> QED BY <1>3, <2>2, <2>3 DEF IInv, InPlace, Sound, AtHome, Ranks
<1>12. Within({"seed", "rest"})'
  BY <1>1, <1>2, <1>3 DEF Within, Ranks, TypeOK
<1>13. LookedUp' /\ Departing' /\ Loaded' /\ OwnerKnown' /\ Queries'
  BY <1>2, <1>3, <1>12 DEF LookedUp, Departing, Loaded, OwnerKnown, Queries, Within
<1>14. Seeded'
  BY <1>1, <1>2, <1>3, <1>20, <1>21, <1>6, <1>7, <1>8 DEF IInv, Seeded, TypeOK, Ranks, Seeding
<1>15. EachOnce'
  <2>1. \A q \in Ranks : \A i \in DOMAIN tr'[q] : tr'[q][i].id = <<q, i - 1>> /\ i \in Nat
    BY <1>2, <1>3, <1>9, <1>14 DEF Seeded, Ranks
  <2>2. \A q, s \in Ranks : \A i \in DOMAIN tr'[q], k \in DOMAIN tr'[s] :
          tr'[q][i].id = tr'[s][k].id => q = s /\ i = k
    BY <2>1
  <2> QED BY <1>3, <2>2 DEF EachOnce, Ranks
<1>16. FileIds' /\ (restored \/ phase # "load")' /\ Numbered'
  BY <1>2, <1>3 DEF IInv, FileIds, Numbered, Ranks
<1>17. Shadowed'
  BY <1>1, <1>2, <1>3 DEF IInv, TypeOK, Shadowed, Ranks
<1> QED BY <1>10, <1>11, <1>13, <1>14, <1>15, <1>16, <1>17 DEF IInv

LEMMA WidthKeepsIInv ==
  ASSUME IInv, Staged', Width
  PROVE  IInv'
<1> DEFINE next == CASE phase = "start" -> "seed" [] phase = "load" -> "read" [] OTHER -> "resolve"
<1>1. /\ UNCHANGED <<forest, shadow, tr, counter, found, migrate, wire>> /\ UNCHANGED run
      /\ \A q \in Ranks : pc[q] = "width"
      /\ pc' = [q \in Ranks |-> next]
  BY DEF Width, Enter, All, SetAll, mesh
<1>2. /\ phase = "start" => next = "seed"
      /\ phase = "load" => next = "read"
      /\ phase \notin {"start", "load"} => next = "resolve"
      /\ 0 \in Ranks /\ phase \in {"start", "load", "regrid"}
  BY <1>1, Where, RanksAreAnInterval DEF IInv, TypeOK
<1> HIDE DEF next
<1>3. \A q \in Ranks : pc'[q] = next /\ next \in {"seed", "read", "resolve"}
  BY <1>1, <1>2
<1>4. phase = "start" \/ (Restoring => Restoring')
  BY <1>1, <1>2, <1>3 DEF Restoring, Ranks, run
<1>5. /\ TypeOK' /\ InPlace' /\ FileIds' /\ EachOnce' /\ (restored \/ phase # "load")' /\ Numbered'
  <2>1. TypeOK
    BY DEF IInv
  <2> QED BY <1>1, <1>3, <1>4, <2>1, StandingStep DEF TypeOK
<1>6. LookedUp' /\ Departing' /\ OwnerKnown' /\ Queries'
  BY <1>1, <1>3 DEF LookedUp, Departing, OwnerKnown, Queries, Ranks
<1>7. Loaded' /\ Seeded'
  BY <1>1, <1>2, <1>3 DEF IInv, Loaded, Seeded, Ranks, run, HasSlice
<1>8. Shadowed'
  BY <1>1, <1>2, <1>3 DEF IInv, Shadowed, Ranks, run
<1> QED BY <1>5, <1>6, <1>7, <1>8 DEF IInv

LEMMA ResolveKeepsIInv ==
  ASSUME IInv, Staged', NEW r \in Ranks, Resolve(r)
  PROVE  IInv'
<1>1. /\ UNCHANGED <<forest, shadow, tr, counter, migrate, wire>> /\ UNCHANGED run
      /\ pc[r] = "resolve" /\ pc' = [pc EXCEPT ![r] = "reduce"]
      /\ found' = [found EXCEPT ![r] = [i \in DOMAIN tr[r] |-> FindOwner(r, tr[r][i].pos)]]
  BY DEF Resolve, Go, mesh
<1>2. TypeOK /\ forest \in Forests
  BY DEF IInv, TypeOK
<1>3. /\ phase \in {"advance", "regrid"}
      /\ \A q \in Ranks : pc[q] \in {"resolve", "reduce"} /\ pc'[q] \in {"resolve", "reduce"}
      /\ \A q \in Ranks \ {r} : pc'[q] = pc[q] /\ found'[q] = found[q]
  BY <1>1, <1>2, Where DEF IInv, Within, TypeOK
<1>4. /\ TypeOK' /\ InPlace' /\ FileIds' /\ EachOnce' /\ (restored \/ phase # "load")' /\ Numbered'
  <2>1. Restoring => Restoring'
    BY <1>3 DEF Restoring
  <2> QED BY <1>1, <1>2, <1>3, <2>1, StandingStep DEF TypeOK
<1>5. Departing' /\ OwnerKnown' /\ Queries' /\ Loaded' /\ Seeded'
  BY <1>1, <1>3 DEF Departing, OwnerKnown, Queries, Loaded, Seeded, Ranks, run
<1>6. Shadowed'
  BY <1>1, <1>3 DEF IInv, Shadowed, Ranks, run
<1>7. LookedUp'
  <2>1. found'[r] = [i \in DOMAIN tr[r] |-> FindOwner(r, tr[r][i].pos)]
    BY <1>1, <1>2 DEF TypeOK
  <2>2. \A x : FindOwner(r, x).rank = OwnerIn(forest, x) /\ FindOwner(r, x).quad \in Nat
    BY <1>2, OwnersExist, QuadrantsOfARank DEF FindOwner, NoQuad
  <2>3. /\ DOMAIN found'[r] = DOMAIN tr[r]
        /\ \A i \in DOMAIN tr[r] : /\ found'[r][i].rank = OwnerIn(forest, tr[r][i].pos)
                                  /\ found'[r][i].quad \in Nat
    BY <2>1, <2>2
  <2>4. \A q \in Ranks \ {r} : pc[q] = "reduce" =>
              /\ DOMAIN found[q] = DOMAIN tr[q]
              /\ \A i \in DOMAIN tr[q] : /\ found[q][i].rank = OwnerIn(forest, tr[q][i].pos)
                                        /\ found[q][i].quad \in Nat
    BY DEF IInv, LookedUp
  <2>5. \A q \in Ranks : pc'[q] = "reduce" =>
              /\ DOMAIN found'[q] = DOMAIN tr[q]
              /\ \A i \in DOMAIN tr[q] : /\ found'[q][i].rank = OwnerIn(forest, tr[q][i].pos)
                                        /\ found'[q][i].quad \in Nat
    BY <1>3, <2>3, <2>4
  <2>6. UNCHANGED <<forest, tr>>
    BY <1>1
  <2> QED BY <1>3, <2>5, <2>6 DEF LookedUp, Ranks
<1> QED BY <1>4, <1>5, <1>6, <1>7 DEF IInv

(* Two collectives and the agreement they reach. *)
LEMMA ReduceKeepsIInv ==
  ASSUME IInv, Staged', Reduce \/ Cull
  PROVE  IInv'
<1>1. /\ UNCHANGED <<forest, shadow, tr, counter, found, wire>> /\ UNCHANGED run
      /\ migrate' \in BOOLEAN
      /\ \/ (\A q \in Ranks : pc[q] = "reduce") /\ pc' = [q \in Ranks |-> "flag"]
         \/ (\A q \in Ranks : pc[q] = "cull") /\ pc' = [q \in Ranks |-> "update"]
  <2>1. CASE Reduce
    <3> DEFINE A == 100 * MapThenSumSet(Moving, Ranks)
               B == Threshold * MapThenSumSet(LAMBDA q : Len(tr[q]), Ranks)
    <3>2. migrate' = (A > B)
      BY <2>1 DEF Reduce
    <3> HIDE DEF A, B
    <3>1. migrate' \in BOOLEAN
      BY <3>2
    <3> QED BY <2>1, <3>1 DEF Reduce, Enter, All, SetAll, mesh
  <2>2. CASE Cull
    BY <2>2 DEF Cull, Enter, All, SetAll, mesh, IInv, TypeOK
  <2> QED BY <2>1, <2>2
<1>2. TypeOK /\ 0 \in Ranks
  BY RanksAreAnInterval DEF IInv, TypeOK
<1>3. /\ phase \in {"advance", "regrid"} /\ pc' = [q \in Ranks |-> pc'[q]]
      /\ \A q \in Ranks : pc[q] \in {"reduce", "cull"} /\ pc'[q] \in {"flag", "update"}
  BY <1>1, <1>2, Where DEF IInv
<1>4. /\ TypeOK' /\ InPlace' /\ FileIds' /\ EachOnce' /\ (restored \/ phase # "load")' /\ Numbered'
  <2>1. Restoring => Restoring'
    BY <1>3 DEF Restoring
  <2> QED BY <1>1, <1>2, <1>3, <2>1, StandingStep DEF TypeOK
<1>5. Departing' /\ OwnerKnown' /\ Queries' /\ Loaded' /\ Seeded'
  BY <1>1, <1>3 DEF Departing, OwnerKnown, Queries, Loaded, Seeded, Ranks, run
<1>6. Shadowed'
  BY <1>1, <1>3 DEF IInv, Shadowed, Ranks, run
<1>7. LookedUp'
  BY <1>1, <1>3 DEF IInv, LookedUp, Ranks
<1> QED BY <1>4, <1>5, <1>6, <1>7 DEF IInv

LEMMA FlagKeepsIInv ==
  ASSUME IInv, Staged', NEW r \in Ranks, Flag(r)
  PROVE  IInv'
<1> DEFINE new == [i \in DOMAIN tr[r] |-> IF found[r][i].rank = NoRank THEN [tr[r][i] EXCEPT !.status = "outside"]
                                         ELSE tr[r][i]]
<1>1. /\ UNCHANGED <<forest, shadow, counter, migrate, wire, found>> /\ UNCHANGED run
      /\ pc[r] = "flag" /\ pc' = [pc EXCEPT ![r] = "cull"]
      /\ tr' = [tr EXCEPT ![r] = new]
  BY DEF Flag, Go, mesh, IInv, TypeOK
<1>2. TypeOK /\ forest \in Forests /\ tr[r] \in Seq(Tracer)
  BY DEF IInv, TypeOK
<1>3. /\ phase \in {"advance", "regrid"} /\ pc' = [q \in Ranks |-> pc'[q]]
      /\ \A q \in Ranks : pc[q] \in {"flag", "cull"} /\ pc'[q] \in {"flag", "cull"}
      /\ \A q \in Ranks \ {r} : pc'[q] = pc[q]
  BY <1>1, <1>2, Where DEF IInv, Within, TypeOK
<1>4. ASSUME NEW i \in DOMAIN tr[r]
      PROVE  /\ new[i] \in Tracer /\ new[i].id = tr[r][i].id /\ new[i].pos = tr[r][i].pos
             /\ Sound(new[i]) /\ AtHome(new[i].pos)
  <2>1. tr[r][i] \in Tracer
    BY <1>2
  <2>2. Sound(tr[r][i]) /\ AtHome(tr[r][i].pos) /\ found[r][i].rank = OwnerIn(forest, tr[r][i].pos)
    BY <1>1 DEF IInv, InPlace, LookedUp
  <2>3. found[r][i].rank = NoRank => tr[r][i].pos \notin Inside
    <3>1. \A x \in Inside : OwnerIn(forest, x) \in Ranks
      BY <1>2, OwnersExist
    <3> QED BY <1>2, <2>2, <3>1, RanksAreAnInterval
  <2> QED BY <2>1, <2>2, <2>3 DEF Tracer, Sound
<1>5. new = [i \in DOMAIN tr[r] |-> new[i]]
  OBVIOUS
<1>20. tr'[r] = new /\ (\A q \in Ranks \ {r} : tr'[q] = tr[q]) /\ tr' = [q \in Ranks |-> tr'[q]]
  BY <1>1, <1>2 DEF TypeOK
<1> HIDE DEF new
<1>6. /\ TypeOK' /\ InPlace' /\ FileIds' /\ EachOnce' /\ (restored \/ phase # "load")' /\ Numbered'
      /\ Loaded' /\ Seeded'
  <2>1. found' = [q \in Ranks |-> found'[q]] /\ wire' = [q \in Ranks |-> wire'[q]]
    BY <1>1, <1>2 DEF TypeOK
  <2>2. tr'[r] = [i \in DOMAIN tr[r] |-> tr'[r][i]]
    BY <1>4, <1>5, <1>20
  <2> QED BY <1>1, <1>3, <1>4, <1>5, <1>20, <2>1, <2>2, TracersStay
<1>7. Departing' /\ OwnerKnown' /\ Queries'
  BY <1>1, <1>3 DEF Departing, OwnerKnown, Queries, Ranks, run
<1>8. Shadowed'
  BY <1>1, <1>3 DEF IInv, Shadowed, Ranks, run
<1>9. LookedUp'
  <2>1. \A q \in Ranks : DOMAIN tr'[q] = DOMAIN tr[q] /\ \A i \in DOMAIN tr[q] : tr'[q][i].pos = tr[q][i].pos
    BY <1>4, <1>5, <1>20
  <2>2. UNCHANGED <<forest, found>>
    BY <1>1
  <2> QED BY <1>3, <2>1, <2>2 DEF IInv, LookedUp, Ranks
<1> QED BY <1>6, <1>7, <1>8, <1>9 DEF IInv

LEMMA UpdateKeepsIInv ==
  ASSUME IInv, Staged', NEW r \in Ranks, Update(r)
  PROVE  IInv'
<1> DEFINE new == Routed(r)
           next == IF migrate THEN "migrate" ELSE After
<1>1. /\ UNCHANGED <<forest, shadow, counter, migrate>> /\ UNCHANGED run
      /\ pc[r] = "update" /\ pc' = [pc EXCEPT ![r] = next]
      /\ tr' = [tr EXCEPT ![r] = new]
      /\ wire' = [wire EXCEPT ![r] = IF migrate THEN Leaving(r) ELSE <<>>]
      /\ found' = [found EXCEPT ![r] = <<>>]
  BY DEF Update, Go, mesh
<1>2. TypeOK /\ forest \in Forests /\ tr[r] \in Seq(Tracer)
  BY DEF IInv, TypeOK
<1>3. /\ phase \in {"advance", "regrid"} /\ pc' = [q \in Ranks |-> pc'[q]]
      /\ pc'[r] = next /\ \A q \in Ranks \ {r} : pc'[q] = pc[q] /\ wire'[q] = wire[q] /\ found'[q] = found[q]
      /\ wire'[r] = IF migrate THEN Leaving(r) ELSE <<>>
      /\ next \in {"migrate", "pack", "rest"}
      /\ migrate => next = "migrate"
      /\ ~migrate => next = IF phase = "advance" THEN "pack" ELSE "rest"
  BY <1>1, <1>2, Where DEF IInv, Within, TypeOK, After
<1> HIDE DEF next
<1>4. new = [i \in DOMAIN tr[r] |-> new[i]]
  BY DEF Routed
<1>5. ASSUME NEW i \in DOMAIN tr[r]
      PROVE  /\ new[i] \in Tracer /\ new[i].id = tr[r][i].id /\ new[i].pos = tr[r][i].pos
             /\ new[i].owner = OwnerIn(forest, tr[r][i].pos) /\ new[i].status = tr[r][i].status
             /\ Sound(new[i]) /\ AtHome(new[i].pos)
  <2>1. tr[r][i] \in Tracer
    BY <1>2
  <2>2. /\ Sound(tr[r][i]) /\ AtHome(tr[r][i].pos)
        /\ found[r][i].rank = OwnerIn(forest, tr[r][i].pos) /\ found[r][i].quad \in Nat
    BY <1>1 DEF IInv, InPlace, LookedUp
  <2>3. found[r][i].rank \in Int
    BY <1>2, <2>2, OwnersExist
  <2>4. new[i] = [tr[r][i] EXCEPT !.owner = found[r][i].rank, !.quad = found[r][i].quad]
    BY DEF Routed
  <2> QED BY <2>1, <2>2, <2>3, <2>4 DEF Tracer, Sound
<1>20. tr'[r] = new /\ (\A q \in Ranks \ {r} : tr'[q] = tr[q]) /\ tr' = [q \in Ranks |-> tr'[q]]
  BY <1>1, <1>2 DEF TypeOK
<1> HIDE DEF new
<1>6. /\ TypeOK' /\ InPlace' /\ FileIds' /\ EachOnce' /\ (restored \/ phase # "load")' /\ Numbered'
      /\ Loaded' /\ Seeded'
  <2>1. found' = [q \in Ranks |-> found'[q]] /\ wire' = [q \in Ranks |-> wire'[q]]
    BY <1>1, <1>2 DEF TypeOK
  <2>2. tr'[r] = [i \in DOMAIN tr[r] |-> tr'[r][i]]
    BY <1>4, <1>5, <1>20
  <2> QED BY <1>1, <1>3, <1>4, <1>5, <1>20, <2>1, <2>2, TracersStay
<1>7. Departing'
  <2>1. ASSUME migrate
        PROVE  /\ DOMAIN wire'[r] = DOMAIN new
               /\ \A i \in DOMAIN new :
                    /\ wire'[r][i].to = OwnerIn(forest, new[i].pos)
                    /\ wire'[r][i].body = tr[r][i] /\ tr[r][i] \in Tracer
    <3>1. wire'[r] = [i \in DOMAIN tr[r] |-> [to |-> found[r][i].rank, body |-> tr[r][i]]]
      BY <1>3, <2>1 DEF Leaving
    <3>2. \A i \in DOMAIN tr[r] : found[r][i].rank = OwnerIn(forest, tr[r][i].pos) /\ tr[r][i] \in Tracer
      BY <1>1, <1>2 DEF IInv, LookedUp
    <3>3. DOMAIN new = DOMAIN tr[r] /\ \A i \in DOMAIN tr[r] : new[i].pos = tr[r][i].pos
      BY <1>4, <1>5
    <3> QED BY <3>1, <3>2, <3>3
  <2>2. \A i \in DOMAIN new : new[i].id = tr[r][i].id /\ new[i].pos = tr[r][i].pos /\ new[i].status = tr[r][i].status
    BY <1>4, <1>5
  <2>3. UNCHANGED forest
    BY <1>1
  <2>4. pc'[r] = "migrate" => migrate
    BY <1>3
  <2>5. Leaves(r)' \/ pc'[r] # "migrate"
    BY <2>1, <2>2, <2>3, <2>4, <1>20 DEF Leaves
  <2>6. \A q \in Ranks \ {r} : pc[q] = "migrate" => Leaves(q)'
    BY <2>3, <1>3, <1>20 DEF IInv, Departing, Leaves
  <2> QED BY <1>3, <2>3, <2>5, <2>6 DEF Departing, Ranks
<1>8. OwnerKnown'
  <2>1. DOMAIN new = DOMAIN tr[r] /\ \A i \in DOMAIN tr[r] : new[i].owner = OwnerIn(forest, new[i].pos)
    BY <1>4, <1>5
  <2>2. UNCHANGED forest /\ UNCHANGED phase
    BY <1>1 DEF run
  <2> QED BY <1>3, <1>20, <2>1, <2>2 DEF IInv, OwnerKnown, Ranks
<1>9. Queries'
  <2>1. UNCHANGED forest /\ UNCHANGED phase
    BY <1>1 DEF run
  <2>2. \A q \in Ranks : pc'[q] \notin {"fulfil", "respond", "push"}
    BY <1>1, <1>3, Where DEF IInv, Within
  <2>3. \A q \in Ranks : pc'[q] = "request" => q # r /\ pc[q] = "request"
    BY <1>3
  <2>4. \A q \in Ranks \ {r} : tr'[q] = tr[q] /\ wire'[q] = wire[q]
    BY <1>3, <1>20
  <2> QED BY <2>1, <2>2, <2>3, <2>4, RequestsStay DEF IInv
<1>10. Shadowed'
  BY <1>1, <1>3 DEF IInv, Shadowed, Ranks, run
<1>11. LookedUp'
  <2>1. UNCHANGED forest
    BY <1>1
  <2>2. \A q \in Ranks \ {r} : tr'[q] = tr[q] /\ found'[q] = found[q]
    BY <1>3, <1>20
  <2> QED BY <1>3, <2>1, <2>2 DEF IInv, LookedUp, Ranks
<1> QED BY <1>6, <1>7, <1>8, <1>9, <1>10, <1>11 DEF IInv

LEMMA DriftKeepsIInv ==
  ASSUME IInv, Staged', Drift
  PROVE  IInv'
<1>1. /\ UNCHANGED <<forest, shadow, tr, counter, found, migrate, wire>> /\ UNCHANGED run
      /\ \A q \in Ranks : pc[q] = "drift"
      /\ pc' = [q \in Ranks |-> "bcs"]
  BY DEF Drift, Enter, All, SetAll, mesh
<1>2. phase = "advance" /\ TypeOK
  <2>1. TypeOK /\ 0 \in Ranks
    BY RanksAreAnInterval DEF IInv, TypeOK
  <2> QED BY <1>1, <2>1, Where DEF IInv
<1>3. /\ TypeOK' /\ InPlace' /\ FileIds' /\ EachOnce' /\ (restored \/ phase # "load")' /\ Numbered'
  <2>1. Restoring => Restoring'
    BY <1>2 DEF Restoring
  <2> QED BY <1>1, <1>2, <2>1, StandingStep DEF TypeOK
<1>4. LookedUp' /\ Departing' /\ OwnerKnown' /\ Queries' /\ Loaded' /\ Seeded'
  BY <1>1, <1>2 DEF LookedUp, Departing, OwnerKnown, Queries, Loaded, Seeded, Ranks, run
<1>5. Shadowed'
  BY <1>1, <1>2 DEF IInv, Shadowed, Ranks, run
<1> QED BY <1>3, <1>4, <1>5 DEF IInv

LEMMA RefreshKeepsIInv ==
  ASSUME IInv, Staged', NEW r \in Ranks, Refresh(r)
  PROVE  IInv'
<1>1. /\ UNCHANGED <<forest, tr, counter, found, migrate, wire>> /\ UNCHANGED run
      /\ pc[r] = "refresh" /\ pc' = [pc EXCEPT ![r] = "width"]
      /\ shadow' = [shadow EXCEPT ![r] = forest[r]]
  BY DEF Refresh, Go
<1>2. TypeOK /\ forest \in Forests
  BY DEF IInv, TypeOK
<1>3. /\ phase = "regrid" /\ pc' = [q \in Ranks |-> pc'[q]] /\ shadow' = [q \in Ranks |-> shadow'[q]]
      /\ shadow'[r] = forest[r]
      /\ \A q \in Ranks : pc[q] \in {"refresh", "width"} /\ pc'[q] \in {"refresh", "width"}
      /\ \A q \in Ranks \ {r} : pc'[q] = pc[q] /\ shadow'[q] = shadow[q]
  BY <1>1, <1>2, Where DEF IInv, Within, TypeOK
<1>4. /\ TypeOK' /\ InPlace' /\ FileIds' /\ EachOnce' /\ (restored \/ phase # "load")' /\ Numbered'
  <2>1. Restoring => Restoring'
    BY <1>3 DEF Restoring
  <2> QED BY <1>1, <1>2, <1>3, <2>1, StandingStep DEF TypeOK
<1>5. LookedUp' /\ Departing' /\ OwnerKnown' /\ Queries' /\ Loaded' /\ Seeded'
  BY <1>1, <1>3 DEF LookedUp, Departing, OwnerKnown, Queries, Loaded, Seeded, Ranks, run
<1>6. Shadowed'
  BY <1>1, <1>3 DEF IInv, Shadowed, Ranks, run
<1> QED BY <1>4, <1>5, <1>6 DEF IInv

(* A flagged tracer is beyond a face where nothing brings it back. *)
LEMMA PositionBcsKeepsIInv ==
  ASSUME IInv, Staged', NEW r \in Ranks, PositionBcs(r)
  PROVE  IInv'
<1> DEFINE new == [i \in DOMAIN tr[r] |-> [tr[r][i] EXCEPT !.pos = Bounded(tr[r][i].pos)]]
<1>1. /\ UNCHANGED <<forest, shadow, counter, migrate, wire, found>> /\ UNCHANGED run
      /\ pc[r] = "bcs" /\ pc' = [pc EXCEPT ![r] = "rest"]
      /\ tr' = [tr EXCEPT ![r] = new]
  BY DEF PositionBcs, Go, mesh
<1>2. TypeOK /\ forest \in Forests /\ tr[r] \in Seq(Tracer)
  BY DEF IInv, TypeOK
<1>3. /\ phase = "advance" /\ pc' = [q \in Ranks |-> pc'[q]]
      /\ \A q \in Ranks : pc[q] \in {"bcs", "rest"} /\ pc'[q] \in {"bcs", "rest"}
      /\ \A q \in Ranks \ {r} : pc'[q] = pc[q]
  BY <1>1, <1>2, Where DEF IInv, Within, TypeOK
<1>4. ASSUME NEW x \in Int
      PROVE  /\ Bounded(x) \in Int /\ AtHome(Bounded(x))
             /\ x \notin Inside /\ AtHome(x) => Bounded(x) = x
  <2>1. Length \in Nat /\ Length > 0
    BY LengthAssumption
  <2>2. x % Length \in Inside
    BY <2>1 DEF Inside
  <2> QED BY <2>1, <2>2 DEF Bounded, AtHome, Inside
<1>5. ASSUME NEW i \in DOMAIN tr[r]
      PROVE  /\ new[i] \in Tracer /\ new[i].id = tr[r][i].id
             /\ Sound(new[i]) /\ AtHome(new[i].pos)
  <2>1. tr[r][i] \in Tracer
    BY <1>2
  <2>2. Sound(tr[r][i]) /\ tr[r][i].pos \in Int
    BY <2>1 DEF IInv, InPlace, Tracer
  <2>3. new[i] = [tr[r][i] EXCEPT !.pos = Bounded(tr[r][i].pos)]
    OBVIOUS
  <2>4. /\ Bounded(tr[r][i].pos) \in Int /\ AtHome(Bounded(tr[r][i].pos))
        /\ tr[r][i].pos \notin Inside /\ AtHome(tr[r][i].pos) => Bounded(tr[r][i].pos) = tr[r][i].pos
    BY <2>2, <1>4
  <2> QED BY <2>1, <2>2, <2>3, <2>4 DEF Tracer, Sound
<1>6. new = [i \in DOMAIN tr[r] |-> new[i]]
  OBVIOUS
<1>7. tr'[r] = new /\ (\A q \in Ranks \ {r} : tr'[q] = tr[q]) /\ tr' = [q \in Ranks |-> tr'[q]]
  BY <1>1, <1>2 DEF TypeOK
<1> HIDE DEF new
<1>8. /\ TypeOK' /\ InPlace' /\ FileIds' /\ EachOnce' /\ (restored \/ phase # "load")' /\ Numbered'
      /\ Loaded' /\ Seeded'
  <2>1. found' = [q \in Ranks |-> found'[q]] /\ wire' = [q \in Ranks |-> wire'[q]]
    BY <1>1, <1>2 DEF TypeOK
  <2>2. tr'[r] = [i \in DOMAIN tr[r] |-> tr'[r][i]]
    BY <1>6, <1>7
  <2> QED BY <1>1, <1>3, <1>5, <1>7, <2>1, <2>2, TracersStay
<1>9. LookedUp' /\ Departing' /\ OwnerKnown' /\ Queries'
  <2>1. UNCHANGED forest
    BY <1>1
  <2> QED BY <1>3, <2>1 DEF LookedUp, Departing, OwnerKnown, Queries, Ranks
<1>10. Shadowed'
  BY <1>1, <1>3 DEF IInv, Shadowed, Ranks, run
<1> QED BY <1>8, <1>9, <1>10 DEF IInv

(* A tracer moves by the velocity at its place, and one in no quadrant by
   none. *)
LEMMA PushKeepsIInv ==
  ASSUME IInv, Staged', NEW r \in Ranks, Push(r)
  PROVE  IInv'
<1> DEFINE new == [i \in DOMAIN tr[r] |-> [tr[r][i] EXCEPT !.pos = Moved(r, i)]]
<1>1. /\ UNCHANGED <<forest, shadow, counter, migrate, found>> /\ UNCHANGED run
      /\ pc[r] = "push" /\ pc' = [pc EXCEPT ![r] = "drift"]
      /\ wire' = [wire EXCEPT ![r] = <<>>]
      /\ tr' = [tr EXCEPT ![r] = new]
  BY DEF Push, Go, mesh
<1>2. TypeOK /\ forest \in Forests /\ tr[r] \in Seq(Tracer)
  BY DEF IInv, TypeOK
<1>3. /\ phase = "advance" /\ pc' = [q \in Ranks |-> pc'[q]]
      /\ \A q \in Ranks : pc[q] \in {"push", "drift"} /\ pc'[q] \in {"push", "drift"}
      /\ pc'[r] = "drift"
      /\ \A q \in Ranks \ {r} : pc'[q] = pc[q] /\ wire'[q] = wire[q]
  BY <1>1, <1>2, Where DEF IInv, Within, TypeOK
<1>4. ASSUME NEW i \in DOMAIN tr[r]
      PROVE  /\ tr[r][i].pos \in Int => Moved(r, i) \in Int
             /\ tr[r][i].pos \notin Inside => Moved(r, i) = tr[r][i].pos
  <2> DEFINE x == tr[r][i].pos
             N == {n \in DOMAIN wire[r] : wire[r][n].body.idx = i}
  <2>1. \A k \in N : wire[r][k].body.value \subseteq {x, Elsewhere}
    <3>1. Received(r)
      BY <1>1, <1>3 DEF IInv, Queries
    <3> QED BY <3>1 DEF Received, Answer
  <2>2. Fetched(r, i) \subseteq {x, Elsewhere}
    BY <2>1 DEF Fetched
  <2>3. Elsewhere \notin Inside
    BY LengthAssumption DEF Elsewhere, Inside
  <2>4. \A y \in Inside : flow[y] \in Int
    BY <1>2, FlowsAssumption DEF TypeOK
  <2> DEFINE read == Fetched(r, i) \cap Inside
  <2>5. read \subseteq {x} /\ read \subseteq Inside /\ (x \notin Inside => read = {})
    BY <2>2, <2>3
  <2>6. Moved(r, i) = IF read = {} THEN x ELSE x + flow[CHOOSE y \in read : TRUE]
    BY DEF Moved
  <2> HIDE DEF read, x
  <2>7. read # {} => (CHOOSE y \in read : TRUE) \in Inside
    BY <2>5
  <2>8. (x \in Int => Moved(r, i) \in Int) /\ (x \notin Inside => Moved(r, i) = x)
    BY <2>4, <2>5, <2>6, <2>7
  <2> QED BY <2>8 DEF x
<1>5. ASSUME NEW i \in DOMAIN tr[r]
      PROVE  new[i] \in Tracer /\ new[i].id = tr[r][i].id /\ Sound(new[i])
  <2>1. tr[r][i] \in Tracer
    BY <1>2
  <2>2. Sound(tr[r][i]) /\ tr[r][i].pos \in Int
    BY <2>1 DEF IInv, InPlace, Tracer
  <2>3. new[i] = [tr[r][i] EXCEPT !.pos = Moved(r, i)]
    OBVIOUS
  <2> QED BY <2>1, <2>2, <2>3, <1>4 DEF Tracer, Sound
<1>6. new = [i \in DOMAIN tr[r] |-> new[i]]
  OBVIOUS
<1>7. tr'[r] = new /\ (\A q \in Ranks \ {r} : tr'[q] = tr[q]) /\ tr' = [q \in Ranks |-> tr'[q]]
  BY <1>1, <1>2 DEF TypeOK
<1> HIDE DEF new
<1>8. /\ TypeOK' /\ InPlace' /\ FileIds' /\ EachOnce' /\ (restored \/ phase # "load")' /\ Numbered'
      /\ Loaded' /\ Seeded'
  <2>1. found' = [q \in Ranks |-> found'[q]] /\ wire' = [q \in Ranks |-> wire'[q]]
    BY <1>1, <1>2 DEF TypeOK
  <2>2. tr'[r] = [i \in DOMAIN tr[r] |-> tr'[r][i]]
    BY <1>6, <1>7
  <2> QED BY <1>1, <1>3, <1>5, <1>7, <2>1, <2>2, TracersStay
<1>9. LookedUp' /\ Departing'
  <2>1. UNCHANGED forest
    BY <1>1
  <2> QED BY <1>3, <2>1 DEF LookedUp, Departing, Ranks
<1>10. OwnerKnown'
  <2>1. UNCHANGED forest /\ UNCHANGED phase
    BY <1>1 DEF run
  <2> QED BY <1>3, <1>7, <2>1 DEF IInv, OwnerKnown, Ranks
<1>11. Queries'
  <2>1. UNCHANGED <<forest, phase, restored>>
    BY <1>1 DEF run
  <2>2. \A q \in Ranks : pc'[q] = "push" => pc[q] = "push" /\ tr'[q] = tr[q] /\ wire'[q] = wire[q]
    BY <1>3, <1>7
  <2>3. ASSUME NEW q \in Ranks, pc'[q] = "push" PROVE IsList(wire'[q]) /\ Received(q)'
    <3>1. IsList(wire[q]) /\ Received(q)
      BY <1>3, <2>2, <2>3 DEF IInv, Queries
    <3> QED BY <2>1, <2>2, <2>3, <3>1 DEF Received, Answer, Fresh, Ranks
  <2> QED BY <1>3, <2>1, <2>3 DEF Queries, Ranks
<1>12. Shadowed'
  BY <1>1, <1>3 DEF IInv, Shadowed, Ranks, run
<1> QED BY <1>8, <1>9, <1>10, <1>11, <1>12 DEF IInv

LEMMA SettledKeepsIInv ==
  ASSUME IInv, UNCHANGED vars
  PROVE  IInv'
<1>1. /\ UNCHANGED <<forest, shadow, tr, counter, found, migrate, wire, pc>> /\ UNCHANGED run
  BY DEF vars, run
<1>2. TypeOK' /\ Staged' /\ InPlace'
  BY <1>1 DEF IInv, run, TypeOK, Staged, Within, Rebalancing, InPlace, Sound, AtHome, Ranks
<1>3. LookedUp' /\ Departing' /\ FileIds' /\ Loaded' /\ Seeded'
  BY <1>1 DEF IInv, run, LookedUp, Departing, Leaves, FileIds, Loaded, HasSlice, Has, Seeded, Ranks
<1>4. EachOnce'
  BY <1>1 DEF IInv, EachOnce, Ranks
<1>5. Numbered' /\ (restored \/ phase # "load")' /\ Shadowed' /\ OwnerKnown'
  BY <1>1 DEF IInv, run, Numbered, Restoring, Shadowed, OwnerKnown, Ranks
<1>6. Queries'
  <2>1. Queries
    BY DEF IInv
  <2>2. UNCHANGED <<forest, tr, wire, pc, phase, restored>>
    BY <1>1 DEF run
  <2>3. ASSUME NEW r \in Ranks
        PROVE  /\ Requesting(r) => Requesting(r)'
               /\ Received(r) => Received(r)'
    <3>1. Requesting(r) => Requesting(r)'
      BY <2>2 DEF Requesting, Asks
    <3>2. Received(r) => Received(r)'
      BY <2>2 DEF Received, Answer, Fresh, Ranks
    <3> QED BY <3>1, <3>2
  <2>4. ASSUME NEW r \in Ranks PROVE Asked(r) => Asked(r)'
    BY <2>2 DEF Asked, Asks, Ranks
  <2>5. ASSUME NEW r \in Ranks PROVE Answered(r) => Answered(r)'
    BY <2>2 DEF Answered, Answer, Fresh, Ranks
  <2>6. ASSUME NEW r \in Ranks, phase = "advance"
        PROVE  /\ pc[r] \in {"request", "fulfil", "respond", "push"} => IsList(wire'[r])
               /\ pc[r] = "request" => Requesting(r)'
               /\ pc[r] = "fulfil"  => Asked(r)'
               /\ pc[r] = "respond" => Answered(r)'
               /\ pc[r] = "push"    => Received(r)'
    BY <2>1, <2>2, <2>3, <2>4, <2>5, <2>6 DEF Queries
  <2> QED BY <2>2, <2>6 DEF Queries, Ranks
<1> QED BY <1>2, <1>3, <1>4, <1>5, <1>6 DEF IInv

LEMMA EvolveKeepsIInv ==
  ASSUME IInv, Staged', Evolve
  PROVE  IInv'
<1> DEFINE next == IF RebalanceEvery > 0 /\ iter % RebalanceEvery = 0 THEN "resolve" ELSE "pack"
<1>1. /\ UNCHANGED <<forest, shadow, tr, counter, found, migrate, wire, boundary, file, job, restored, rescaled>>
      /\ iter' = iter + 1 /\ phase' = "advance" /\ flow' \in Flows
      /\ \A q \in Ranks : pc[q] = "rest"
      /\ pc' = [q \in Ranks |-> next]
  BY DEF Evolve, AtRest, All, SetAll, mesh
<1>2. TypeOK
  BY DEF IInv
<1>3. next \in {"resolve", "pack"} /\ (RebalanceEvery = 1 => next = "resolve")
  BY <1>2 DEF TypeOK
<1> HIDE DEF next
<1>4. \A q \in Ranks : pc'[q] \in {"resolve", "pack"} /\ (RebalanceEvery = 1 => pc'[q] = "resolve")
  BY <1>1, <1>3
<1>5. TypeOK'
  BY <1>1, <1>2 DEF TypeOK, Ranks
<1>6. InPlace'
  BY <1>1 DEF IInv, InPlace, Sound, AtHome, Ranks
<1>7. FileIds' /\ (restored \/ phase # "load")' /\ Loaded' /\ Seeded'
  BY <1>1 DEF IInv, FileIds, Loaded, Seeded
<1>8. EachOnce'
  BY <1>1 DEF IInv, EachOnce, Ranks
<1>9. LookedUp' /\ Departing' /\ Queries'
  BY <1>1, <1>4 DEF LookedUp, Departing, Queries, Ranks
<1>10. OwnerKnown'
  BY <1>1, <1>4 DEF OwnerKnown, Ranks
<1>11. Shadowed'
  BY <1>1 DEF IInv, Shadowed, Ranks
<1>12. Numbered'
  <2>1. ~Restoring
    BY <1>1 DEF Restoring
  <2>2. CASE phase = "start"
    <3>1. \A r \in Ranks : counter[r] = Len(tr[r]) /\ \A i \in DOMAIN tr[r] : tr[r][i].id = <<r, i - 1>>
      BY <1>1, <2>2 DEF IInv, Seeded
    <3>2. \A r \in Ranks : \A i \in DOMAIN tr[r] : i \in Nat /\ i <= Len(tr[r])
      <4>1. \A r \in Ranks : tr[r] \in Seq(Tracer)
        BY <1>2 DEF TypeOK
      <4> QED BY <4>1
    <3>3. \A r \in Ranks : \A i \in DOMAIN tr[r] : tr[r][i].id[2] < counter[tr[r][i].id[1]]
      <4>1. \A r \in Ranks : Len(tr[r]) \in Nat
        <5>1. \A r \in Ranks : tr[r] \in Seq(Tracer)
          BY <1>2 DEF TypeOK
        <5> QED BY <5>1
      <4> QED BY <3>1, <3>2, <4>1
    <3> QED BY <1>1, <3>3 DEF IInv, Numbered, Ranks
  <2>3. CASE phase # "start"
    BY <1>1, <2>1, <2>3 DEF IInv, Numbered, Ranks
  <2> QED BY <2>2, <2>3
<1> QED BY <1>5, <1>6, <1>7, <1>8, <1>9, <1>10, <1>11, <1>12 DEF IInv

LEMMA RegridKeepsIInv ==
  ASSUME IInv, Staged', Regrid
  PROVE  IInv'
<1>1. /\ UNCHANGED <<shadow, tr, counter, found, migrate, wire, iter, flow, boundary, file, job, rescaled>>
      /\ forest' \in Forests /\ Ranks' = Ranks /\ restored' = FALSE
      /\ phase = "advance" /\ phase' = "regrid"
      /\ \A q \in Ranks : pc[q] = "rest"
      /\ pc' = [q \in Ranks |-> "refresh"]
  BY DEF Regrid, AtRest, All, SetAll, Ranks
<1>2. TypeOK'
  <2>1. restored' \in BOOLEAN
    BY <1>1
  <2> QED BY <1>1, <2>1 DEF IInv, TypeOK
<1>3. InPlace'
  BY <1>1 DEF IInv, InPlace, Sound, AtHome
<1>4. FileIds' /\ (restored \/ phase # "load")' /\ Loaded' /\ Seeded'
  BY <1>1 DEF IInv, FileIds, Loaded, Seeded
<1>5. EachOnce'
  BY <1>1 DEF IInv, EachOnce
<1>6. LookedUp' /\ Departing' /\ Queries' /\ OwnerKnown'
  BY <1>1 DEF LookedUp, Departing, Queries, OwnerKnown
<1>7. Shadowed'
  BY <1>1 DEF Shadowed
<1>8. Numbered'
  <2>1. ~Restoring
    BY <1>1 DEF Restoring
  <2> QED BY <1>1, <2>1 DEF IInv, Numbered
<1> QED BY <1>2, <1>3, <1>4, <1>5, <1>6, <1>7, <1>8 DEF IInv

(* A job starts with what the file holds, on as many ranks or others. *)
LEMMA NextJobKeepsIInv ==
  ASSUME IInv, Staged', NextJob
  PROVE  IInv'
<1>1. PICK f \in Forests :
        /\ StartOn(f)
        /\ phase' = IF file = NoFile THEN "start" ELSE "load"
        /\ restored' = (file # NoFile)
        /\ rescaled' = (file # NoFile /\ (rescaled \/ Cardinality(DOMAIN f) # file.size))
  BY DEF NextJob
<1>2. /\ forest' = f /\ Ranks' = DOMAIN f
      /\ shadow' = [r \in DOMAIN f |-> <<>>] /\ tr' = [r \in DOMAIN f |-> <<>>]
      /\ found' = [r \in DOMAIN f |-> <<>>] /\ wire' = [r \in DOMAIN f |-> <<>>]
      /\ counter' = [r \in DOMAIN f |-> 0] /\ pc' = [r \in DOMAIN f |-> "width"]
  BY <1>1 DEF StartOn, Ranks
<1>3. job' = job + 1 /\ iter' = file.iter /\ UNCHANGED <<migrate, flow, boundary, file>>
  BY DEF NextJob
<1>4. TypeOK'
  <2>1. tr' \in [DOMAIN f -> Seq(Tracer)]
    BY <1>2
  <2>2. restored' \in BOOLEAN /\ rescaled' \in BOOLEAN
    BY <1>1
  <2>3. /\ forest' \in Forests /\ iter' \in Nat /\ job' \in Nat /\ flow' \in Flows /\ migrate' \in BOOLEAN
        /\ file'.iter \in Nat /\ file'.tracers \in Seq(Saved)
    BY <1>2, <1>3 DEF IInv, TypeOK
  <2>4. /\ shadow' = [r \in DOMAIN f |-> shadow'[r]] /\ found' = [r \in DOMAIN f |-> found'[r]]
        /\ wire' = [r \in DOMAIN f |-> wire'[r]] /\ pc' = [r \in DOMAIN f |-> pc'[r]]
    BY <1>2
  <2>5. Ranks' = DOMAIN f
    BY <1>2
  <2> QED BY <2>1, <2>2, <2>3, <2>4, <2>5 DEF TypeOK
<1>5. InPlace' /\ FileIds'
  BY <1>2, <1>3 DEF IInv, InPlace, FileIds, Sound, AtHome
<1>6. LookedUp' /\ Departing' /\ Loaded' /\ Seeded' /\ OwnerKnown' /\ Queries'
  BY <1>2 DEF LookedUp, Departing, Loaded, Seeded, OwnerKnown, Queries
<1>7. EachOnce'
  BY <1>2 DEF EachOnce
<1>8. (restored \/ phase # "load")' /\ Shadowed'
  BY <1>1, <1>2 DEF Shadowed
<1>9. Numbered'
  <2>1. ASSUME ~rescaled', file # NoFile
        PROVE  ~rescaled /\ file.size = Cardinality(Ranks) /\ Ranks' = Ranks
    <3>1. ~rescaled /\ Cardinality(DOMAIN f) = file.size
      BY <1>1, <2>1
    <3>2. file.size = Cardinality(Ranks)
      BY <2>1, <3>1 DEF IInv, Numbered
    <3>3. Ranks = 0 .. (file.size - 1) /\ DOMAIN f = 0 .. (file.size - 1)
      BY <3>1, <3>2, RanksAreAnInterval, RanksOfAForest DEF IInv, TypeOK
    <3> QED BY <1>2, <3>1, <3>2, <3>3
  <2>2. ASSUME phase' # "start" PROVE Restoring'
    BY <1>1, <1>2, <2>2, RanksOfAForest DEF Restoring
  <2> QED BY <1>3, <2>1, <2>2 DEF IInv, Numbered
<1> QED BY <1>4, <1>5, <1>6, <1>7, <1>8, <1>9 DEF IInv

LEMMA ExportKeepsIInv ==
  ASSUME IInv, Staged', NEW r \in Ranks, Export(r)
  PROVE  IInv'
<1> DEFINE out == [i \in DOMAIN tr[r] |-> [to |-> OwnerRank(tr[r][i].pos), body |-> tr[r][i]]]
<1>1. /\ UNCHANGED <<forest, shadow, tr, counter, found, migrate>> /\ UNCHANGED run
      /\ pc[r] = "owners" /\ pc' = [pc EXCEPT ![r] = "migrate"]
      /\ wire' = [wire EXCEPT ![r] = out]
  BY DEF Export, Go, mesh
<1>2. TypeOK /\ forest \in Forests /\ tr[r] \in Seq(Tracer)
  BY DEF IInv, TypeOK
<1>3. \A i \in DOMAIN tr[r] : out[i].to = OwnerIn(forest, tr[r][i].pos) /\ out[i].body = tr[r][i] /\ tr[r][i] \in Tracer
  BY <1>2, OwnersExist
<1>4. DOMAIN out = DOMAIN tr[r]
  OBVIOUS
<1> HIDE DEF out
<1>5. /\ phase = "load" /\ pc' = [q \in Ranks |-> pc'[q]] /\ wire' = [q \in Ranks |-> wire'[q]]
      /\ wire'[r] = out
      /\ \A q \in Ranks : pc[q] \in {"owners", "migrate"} /\ pc'[q] \in {"owners", "migrate"}
      /\ \A q \in Ranks \ {r} : pc'[q] = pc[q] /\ wire'[q] = wire[q]
  BY <1>1, <1>2, Where DEF IInv, Within, TypeOK
<1>6. ~Restoring
  BY <1>5 DEF Restoring
<1>7. /\ TypeOK' /\ InPlace' /\ FileIds' /\ EachOnce' /\ (restored \/ phase # "load")' /\ Numbered'
  BY <1>1, <1>2, <1>5, <1>6, StandingStep DEF TypeOK
<1>8. LookedUp' /\ OwnerKnown' /\ Queries' /\ Seeded'
  BY <1>1, <1>5 DEF LookedUp, OwnerKnown, Queries, Seeded, Ranks, run
<1>9. Loaded'
  BY <1>1, <1>5 DEF IInv, Loaded, Ranks, run
<1>10. Shadowed'
  BY <1>1, <1>5 DEF IInv, Shadowed, Ranks, run
<1>11. Departing'
  <2>1. UNCHANGED <<forest, tr>>
    BY <1>1
  <2>2. Leaves(r)'
    BY <1>3, <1>4, <1>5, <2>1 DEF Leaves
  <2>3. \A q \in Ranks \ {r} : pc[q] = "migrate" => Leaves(q)'
    BY <1>5, <2>1 DEF IInv, Departing, Leaves
  <2> QED BY <1>5, <2>1, <2>2, <2>3 DEF Departing, Ranks
<1> QED BY <1>7, <1>8, <1>9, <1>10, <1>11 DEF IInv

(* What a rank reads of the file. *)
LEMMA SliceOfARank ==
  ASSUME forest \in Forests, NEW T, file.tracers \in Seq(T), NEW r \in Ranks
  PROVE  LET n == Len(file.tracers)
             p == Cardinality(Ranks)
         IN /\ SliceCount(n, r, p) \in Nat /\ SliceOffset(n, r, p) \in Nat
            /\ Len(Slice(r)) = SliceCount(n, r, p)
            /\ DOMAIN Slice(r) = 1 .. SliceCount(n, r, p)
            /\ \A i \in DOMAIN Slice(r) : /\ Slice(r)[i] = file.tracers[SliceOffset(n, r, p) + i]
                                         /\ SliceOffset(n, r, p) + i \in DOMAIN file.tracers
            /\ file.tracers = <<>> => SliceCount(n, r, p) = 0
<1> DEFINE n == Len(file.tracers)
           p == Cardinality(Ranks)
           o == SliceOffset(n, r, p)
           c == SliceCount(n, r, p)
<1>1. n \in Nat /\ p \in Nat \ {0} /\ r \in 0 .. (p - 1) /\ r \in Nat
  BY RanksAreAnInterval
<1>2. o \in Nat /\ c \in Nat /\ o + c <= n
  <2> HIDE DEF n, p, o, c
  <2> QED BY <1>1, SlicesApart DEF o, c
<1>3. Slice(r) = SubSeq(file.tracers, o + 1, o + c)
  BY DEF Slice
<1> HIDE DEF o, c, p
<1>4. /\ Len(Slice(r)) = c /\ DOMAIN Slice(r) = 1 .. c
      /\ \A i \in 1 .. c : Slice(r)[i] = file.tracers[o + i] /\ o + i \in DOMAIN file.tracers
  <2> DEFINE s == file.tracers
  <2>1. s \in Seq(T) /\ n = Len(s) /\ DOMAIN s = 1 .. n
    OBVIOUS
  <2> HIDE DEF s, n
  <2>2. /\ o + 1 \in Int /\ o + c \in Int /\ (o + c) - (o + 1) + 1 = c
        /\ o + 1 <= o + c \/ c = 0
        /\ \A i \in o + 1 .. o + c : i \in 1 .. n
    BY <1>1, <1>2
  <2>3. \A i \in o + 1 .. o + c : s[i] \in T
    BY <2>1, <2>2
  <2>4. /\ SubSeq(s, o + 1, o + c) \in Seq(T)
        /\ Len(SubSeq(s, o + 1, o + c)) = c
        /\ \A i \in 1 .. c : SubSeq(s, o + 1, o + c)[i] = s[(o + 1) + i - 1]
    BY <2>2, <2>3, <1>2, SubSeqProperties
  <2>5. DOMAIN SubSeq(s, o + 1, o + c) = 1 .. c
    BY <2>4
  <2>6. \A i \in 1 .. c : (o + 1) + i - 1 = o + i /\ o + i \in 1 .. n
    BY <2>1, <1>1, <1>2
  <2>7. Slice(r) = SubSeq(s, o + 1, o + c)
    BY <1>3 DEF s
  <2> QED BY <2>1, <2>4, <2>5, <2>6, <2>7 DEF s
<1>5. file.tracers = <<>> => n = 0
  OBVIOUS
<1> HIDE DEF n
<1>6. file.tracers = <<>> => c = 0
  BY <1>1, <1>2, <1>5
<1> USE DEF n, p, o, c
<1> QED BY <1>2, <1>4, <1>6

(* Slices of a file without repeated ids have none in common. *)
LEMMA SlicesOnce ==
  ASSUME forest \in Forests, NEW T, file.tracers \in Seq(T), FileIds,
         NEW t,
         \A q \in Ranks :
            LET n == Len(file.tracers)
                p == Cardinality(Ranks)
            IN \/ DOMAIN t[q] = {}
               \/ /\ DOMAIN t[q] = 1 .. SliceCount(n, q, p)
                  /\ \A i \in DOMAIN t[q] : t[q][i].id = file.tracers[SliceOffset(n, q, p) + i].id
  PROVE  \A q, r \in Ranks : \A i \in DOMAIN t[q], k \in DOMAIN t[r] :
            t[q][i].id = t[r][k].id => q = r /\ i = k
<1> DEFINE n == Len(file.tracers)
           p == Cardinality(Ranks)
           o(q) == SliceOffset(n, q, p)
           c(q) == SliceCount(n, q, p)
<1>1. n \in Nat /\ p \in Nat \ {0} /\ Ranks = 0 .. (p - 1) /\ DOMAIN file.tracers = 1 .. n
  BY RanksAreAnInterval
<1>3. ASSUME NEW q \in Ranks, NEW r \in Ranks
      PROVE  /\ q \in Nat /\ r \in Nat
             /\ o(q) \in Nat /\ c(q) \in Nat /\ o(q) + c(q) <= n
             /\ q < r => o(q) + c(q) <= o(r)
  <2> HIDE DEF n, p, o, c
  <2>1. q \in Nat /\ r \in Nat /\ q \in 0 .. (p - 1) /\ q \in 0 .. p /\ r \in 0 .. p
    BY <1>1
  <2>2. o(q) \in Nat /\ c(q) \in Nat
    BY <1>1, <2>1, SlicesApart DEF o, c
  <2>3. o(q) + c(q) <= n
    BY <1>1, <2>1, SlicesApart DEF o, c
  <2>4. q < r => o(q) + c(q) <= o(r)
    BY <1>1, <2>1, SlicesApart DEF o, c
  <2> QED BY <2>1, <2>2, <2>3, <2>4
<1>4. ASSUME NEW q \in Ranks, NEW r \in Ranks, NEW i \in DOMAIN t[q], NEW k \in DOMAIN t[r], t[q][i].id = t[r][k].id
      PROVE  q = r /\ i = k
  <2>1. /\ i \in 1 .. c(q) /\ k \in 1 .. c(r)
        /\ t[q][i].id = file.tracers[o(q) + i].id /\ t[r][k].id = file.tracers[o(r) + k].id
    OBVIOUS
  <2> HIDE DEF o, c, n, p
  <2>2. /\ q \in Nat /\ r \in Nat /\ o(q) \in Nat /\ c(q) \in Nat /\ o(r) \in Nat /\ c(r) \in Nat
        /\ o(q) + c(q) <= n /\ o(r) + c(r) <= n
        /\ q < r => o(q) + c(q) <= o(r)
        /\ r < q => o(r) + c(r) <= o(q)
    BY <1>3
  <2>3. o(q) + i \in 1 .. n /\ o(r) + k \in 1 .. n /\ i \in Nat /\ k \in Nat
    BY <1>1, <2>1, <2>2
  <2>4. file.tracers[o(q) + i].id = file.tracers[o(r) + k].id
    BY <1>4, <2>1
  <2>5. o(q) + i = o(r) + k
    BY <1>1, <2>3, <2>4 DEF FileIds
  <2>6. ~(q < r) /\ ~(r < q)
    BY <2>1, <2>2, <2>3, <2>5
  <2> QED BY <2>2, <2>3, <2>5, <2>6
<1> QED BY <1>4

LEMMA LoadKeepsIInv ==
  ASSUME IInv, Staged', NEW r \in Ranks, Load(r)
  PROVE  IInv'
<1> DEFINE new == [i \in DOMAIN Slice(r) |->
                    [id |-> Slice(r)[i].id, pos |-> Slice(r)[i].pos, status |-> Slice(r)[i].status,
                     owner |-> NoRank, quad |-> NoQuad]]
           next == IF file.tracers = <<>> THEN "rest" ELSE "counters"
           n == Len(file.tracers)
           p == Cardinality(Ranks)
           o(q) == SliceOffset(n, q, p)
           c(q) == SliceCount(n, q, p)
<1>1. /\ UNCHANGED <<forest, shadow, counter, found, migrate, wire>> /\ UNCHANGED run
      /\ pc[r] = "read" /\ pc' = [pc EXCEPT ![r] = next]
      /\ tr' = [tr EXCEPT ![r] = new]
  BY DEF Load, Go, mesh
<1>2. TypeOK /\ forest \in Forests /\ tr[r] \in Seq(Tracer) /\ file.tracers \in Seq(Saved)
  BY DEF IInv, TypeOK
<1>3. /\ phase = "load" /\ pc' = [q \in Ranks |-> pc'[q]]
      /\ \A q \in Ranks : pc[q] \in {"read", "rest", "counters"}
      /\ file.tracers = <<>> => \A q \in Ranks : pc[q] # "counters"
      /\ pc'[r] = next /\ next \in {"rest", "counters"}
      /\ (next = "rest") = (file.tracers = <<>>)
      /\ \A q \in Ranks \ {r} : pc'[q] = pc[q]
  BY <1>1, <1>2, Where DEF IInv, Within, TypeOK
<1>4. /\ c(r) \in Nat /\ DOMAIN Slice(r) = 1 .. c(r)
      /\ \A i \in DOMAIN Slice(r) : Slice(r)[i] = file.tracers[o(r) + i] /\ o(r) + i \in DOMAIN file.tracers
      /\ file.tracers = <<>> => c(r) = 0
  BY <1>2, SliceOfARank
<1>5. ASSUME NEW i \in 1 .. c(r)
      PROVE  LET t == file.tracers[o(r) + i]
             IN  /\ new[i].id = t.id /\ new[i].pos = t.pos /\ new[i].status = t.status
                 /\ new[i] \in Tracer /\ Sound(new[i]) /\ AtHome(new[i].pos)
  <2>1. Slice(r)[i] = file.tracers[o(r) + i] /\ file.tracers[o(r) + i] \in Saved
    BY <1>2, <1>4
  <2>2. Sound(file.tracers[o(r) + i]) /\ AtHome(file.tracers[o(r) + i].pos)
    BY <1>4 DEF IInv, InPlace
  <2>3. new[i] = [id |-> Slice(r)[i].id, pos |-> Slice(r)[i].pos, status |-> Slice(r)[i].status,
                  owner |-> NoRank, quad |-> NoQuad]
    BY <1>4
  <2> HIDE DEF o, new
  <2> QED BY <2>1, <2>2, <2>3 DEF Saved, Tracer, Sound, NoRank, NoQuad
<1>6. new = [i \in 1 .. c(r) |-> new[i]]
  BY <1>4
<1>7. tr'[r] = new /\ (\A q \in Ranks \ {r} : tr'[q] = tr[q]) /\ tr' = [q \in Ranks |-> tr'[q]]
  BY <1>1, <1>2 DEF TypeOK
<1> HIDE DEF new, next, o, c
<1>8. new \in Seq(Tracer) /\ Len(new) = c(r) /\ DOMAIN new = 1 .. c(r)
  BY <1>4, <1>5, <1>6, SequencesOf
<1>9. TypeOK'
  <2>1. tr' \in [Ranks -> Seq(Tracer)]
    BY <1>2, <1>7, <1>8 DEF TypeOK
  <2> HIDE DEF n, p
  <2> QED BY <1>1, <1>2, <1>3, <2>1 DEF TypeOK, run, Ranks
<1>10. InPlace'
  <2>1. UNCHANGED <<forest, boundary, file>>
    BY <1>1 DEF run
  <2>2. \A i \in DOMAIN tr'[r] : Sound(tr'[r][i]) /\ AtHome(tr'[r][i].pos)
    BY <1>5, <1>7, <1>8
  <2>3. \A q \in Ranks \ {r} : \A i \in DOMAIN tr'[q] : Sound(tr'[q][i]) /\ AtHome(tr'[q][i].pos)
    BY <1>3, <1>7 DEF IInv, InPlace
  <2> QED BY <2>1, <2>2, <2>3 DEF IInv, InPlace, Sound, AtHome, Ranks
<1>11. /\ LookedUp' /\ Departing' /\ Seeded' /\ OwnerKnown' /\ Queries'
       /\ FileIds' /\ (restored \/ phase # "load")'
  BY <1>1, <1>3 DEF IInv, LookedUp, Departing, Seeded, OwnerKnown, Queries, FileIds, Ranks, run
<1>12. Shadowed'
  BY <1>1, <1>3 DEF IInv, Shadowed, Ranks, run
<1>13. \A q \in Ranks : \/ tr'[q] = <<>>
                         \/ /\ Len(tr'[q]) = c(q) /\ DOMAIN tr'[q] = 1 .. c(q)
                            /\ \A i \in DOMAIN tr'[q] : /\ tr'[q][i].id = file.tracers[o(q) + i].id
                                                       /\ tr'[q][i].pos = file.tracers[o(q) + i].pos
                                                       /\ tr'[q][i].status = file.tracers[o(q) + i].status
  <2>1. ASSUME NEW q \in Ranks \ {r}, tr[q] # <<>>
        PROVE  /\ Len(tr[q]) = c(q) /\ DOMAIN tr[q] = 1 .. c(q)
               /\ \A i \in DOMAIN tr[q] : /\ tr[q][i].id = file.tracers[o(q) + i].id
                                         /\ tr[q][i].pos = file.tracers[o(q) + i].pos
                                         /\ tr[q][i].status = file.tracers[o(q) + i].status
    <3>1. pc[q] # "read" /\ file.tracers # <<>>
      BY <1>3, <2>1 DEF IInv, Loaded
    <3>2. pc[q] = "counters"
      <4>1. (Within({"read", "rest"}) /\ file.tracers = <<>>) \/ Within({"read", "counters"})
        BY <1>1, Where DEF IInv
      <4> QED BY <3>1, <4>1 DEF Within
    <3>3. HasSlice(q) /\ tr[q] \in Seq(Tracer)
      BY <1>2, <1>3, <3>2 DEF IInv, Loaded, TypeOK
    <3> QED BY <3>3 DEF HasSlice, Has, o, c
  <2> QED BY <1>5, <1>7, <1>8, <2>1
<1>14. EachOnce'
  <2>1. UNCHANGED forest /\ FileIds
    BY <1>1 DEF IInv
  <2>2. \A q \in Ranks : \/ DOMAIN tr'[q] = {}
                         \/ /\ DOMAIN tr'[q] = 1 .. c(q)
                            /\ \A i \in DOMAIN tr'[q] : tr'[q][i].id = file.tracers[o(q) + i].id
    BY <1>13
  <2>3. \A q, s \in Ranks : \A i \in DOMAIN tr'[q], k \in DOMAIN tr'[s] :
            tr'[q][i].id = tr'[s][k].id => q = s /\ i = k
    <3> USE DEF o, c
    <3> QED BY <1>2, <2>1, <2>2, SlicesOnce
  <2> QED BY <2>1, <2>3 DEF EachOnce, Ranks
<1>15. Loaded'
  <2>1. UNCHANGED <<forest, phase, file>>
    BY <1>1 DEF run
  <2>2. \A q \in Ranks \ {r} : /\ pc[q] \in {"width", "read"} => tr[q] = <<>>
                               /\ file.tracers = <<>> => tr[q] = <<>>
                               /\ pc[q] = "counters" => HasSlice(q)
    BY <1>3 DEF IInv, Loaded
  <2>3. \A q \in Ranks \ {r} : /\ pc'[q] \in {"width", "read"} => tr'[q] = <<>>
                               /\ file.tracers = <<>> => tr'[q] = <<>>
                               /\ pc'[q] = "counters" => HasSlice(q)'
    BY <1>3, <1>7, <2>1, <2>2 DEF HasSlice, Has, Ranks
  <2>4. file.tracers = <<>> => tr'[r] = <<>>
    BY <1>4, <1>7, <1>8
  <2>5. HasSlice(r)'
    <3>1. Len(tr'[r]) = c(r)
      BY <1>7, <1>8
    <3>2. \A i \in DOMAIN tr'[r] : /\ tr'[r][i].id = file.tracers[o(r) + i].id
                                 /\ tr'[r][i].pos = file.tracers[o(r) + i].pos
                                 /\ tr'[r][i].status = file.tracers[o(r) + i].status
      BY <1>5, <1>7, <1>8
    <3> QED BY <2>1, <3>1, <3>2 DEF HasSlice, Has, o, c, Ranks
  <2>6. pc'[r] \notin {"width", "read"}
    BY <1>3
  <2> QED BY <2>1, <2>3, <2>4, <2>5, <2>6 DEF Loaded, Ranks
<1>16. Numbered'
  <2>1. UNCHANGED <<forest, counter, phase, file, rescaled>>
    BY <1>1 DEF run
  <2>2. file.tracers # <<>> => Restoring'
    BY <1>3, <2>1 DEF Restoring, Ranks
  <2>3. file.tracers = <<>> => \A q \in Ranks : tr'[q] = <<>>
    BY <1>3, <1>15, <2>1 DEF Loaded, Ranks
  <2> QED BY <2>1, <2>2, <2>3 DEF IInv, Numbered, Ranks
<1> QED BY <1>9, <1>10, <1>11, <1>12, <1>14, <1>15, <1>16 DEF IInv

(* The counters are those saved with the ids, for as many ranks. *)
LEMMA CountersKeepsIInv ==
  ASSUME IInv, Staged', Counters
  PROVE  IInv'
<1>1. /\ UNCHANGED <<forest, shadow, tr, found, migrate, wire>> /\ UNCHANGED run
      /\ \A q \in Ranks : pc[q] = "counters"
      /\ pc' = [q \in Ranks |-> "owners"]
      /\ file.size = Cardinality(Ranks) => counter' = file.counters
  BY DEF Counters, Enter, All, SetAll, mesh
<1>2. TypeOK /\ forest \in Forests
  BY DEF IInv, TypeOK
<1>3. phase = "load" /\ file.tracers # <<>>
  <2>1. 0 \in Ranks
    BY <1>2, RanksAreAnInterval
  <2> QED BY <1>1, <2>1, Where DEF IInv
<1>4. TypeOK'
  BY <1>1, <1>2 DEF TypeOK, run, Ranks
<1>5. InPlace'
  BY <1>1 DEF IInv, InPlace, Sound, AtHome, run, Ranks
<1>6. /\ LookedUp' /\ Departing' /\ Seeded' /\ OwnerKnown' /\ Queries'
      /\ FileIds' /\ (restored \/ phase # "load")'
  BY <1>1, <1>3 DEF IInv, LookedUp, Departing, Seeded, OwnerKnown, Queries, FileIds, Ranks, run
<1>7. EachOnce'
  BY <1>1 DEF IInv, EachOnce, Ranks
<1>8. Shadowed'
  BY <1>1, <1>3 DEF IInv, Shadowed, Ranks, run
<1>9. Loaded'
  BY <1>1, <1>3 DEF IInv, Loaded, Ranks, run
<1>10. Numbered'
  <2>1. UNCHANGED <<forest, tr, phase, file, rescaled>>
    BY <1>1 DEF run
  <2>2. ASSUME ~rescaled
        PROVE  /\ counter' = file.counters
               /\ \A k \in DOMAIN file.tracers :
                    file.tracers[k].id[1] \in Ranks => file.tracers[k].id[2] < file.counters[file.tracers[k].id[1]]
    <3>1. file # NoFile
      BY <1>3 DEF NoFile
    <3> QED BY <1>1, <2>2, <3>1 DEF IInv, Numbered
  <2>3. ASSUME NEW r \in Ranks, NEW i \in DOMAIN tr[r]
        PROVE  \E k \in DOMAIN file.tracers : tr[r][i].id = file.tracers[k].id
    <3> DEFINE n == Len(file.tracers)
               p == Cardinality(Ranks)
    <3>1. HasSlice(r) /\ tr[r] \in Seq(Tracer) /\ file.tracers \in Seq(Saved)
      BY <1>1, <1>2, <1>3 DEF IInv, Loaded, TypeOK
    <3>2. i \in 1 .. SliceCount(n, r, p) /\ tr[r][i].id = file.tracers[SliceOffset(n, r, p) + i].id
      BY <3>1 DEF HasSlice, Has
    <3>3. DOMAIN Slice(r) = 1 .. SliceCount(n, r, p)
          /\ \A k \in DOMAIN Slice(r) : SliceOffset(n, r, p) + k \in DOMAIN file.tracers
      BY <1>2, <3>1, SliceOfARank
    <3> HIDE DEF n, p
    <3> QED BY <3>2, <3>3
  <2>4. ASSUME ~rescaled, NEW r \in Ranks, NEW i \in DOMAIN tr[r], tr[r][i].id[1] \in Ranks
        PROVE  tr[r][i].id[2] < counter'[tr[r][i].id[1]]
    <3>1. PICK k \in DOMAIN file.tracers : tr[r][i].id = file.tracers[k].id
      BY <2>3
    <3> QED BY <2>2, <2>4, <3>1
  <2> QED BY <2>1, <2>4 DEF IInv, Numbered, Ranks
<1> QED BY <1>4, <1>5, <1>6, <1>7, <1>8, <1>9, <1>10 DEF IInv

(* The file has the tracers that the ranks had, with their ids. *)
LEMMA SaveKeepsIInv ==
  ASSUME IInv, Staged', Save
  PROVE  IInv'
<1> DEFINE all == InRankOrder(tr)
           P == Places(tr)
           saved == [i \in DOMAIN all |-> [id |-> all[i].id, pos |-> all[i].pos, status |-> all[i].status]]
<1>1. /\ UNCHANGED <<forest, shadow, tr, counter, found, migrate, wire, pc, iter, flow, boundary, job, restored, rescaled>>
      /\ phase \in {"advance", "regrid"} /\ phase' = "save"
      /\ \A q \in Ranks : pc[q] = "rest"
      /\ file'.size = Cardinality(Ranks) /\ file'.iter = iter
      /\ file'.tracers = saved
      /\ file'.counters = IF all = <<>> THEN <<>> ELSE counter
  BY DEF Save, AtRest, All, mesh
<1>2. TypeOK /\ forest \in Forests /\ DOMAIN tr = Ranks /\ tr \in [Ranks -> Seq(Tracer)]
  BY DEF IInv, TypeOK
<1>3. Lists(tr)
  <2>1. \A r \in Ranks : tr[r] \in Seq(Tracer)
    BY <1>2
  <2>2. \A r \in Ranks : \E n \in Nat : DOMAIN tr[r] = 1 .. n
    BY <2>1
  <2> QED BY <1>2, <2>2, RanksAreAnInterval DEF Lists
<1>4. all = InOrder(tr, P) /\ P \subseteq Places(tr)
  BY DEF InRankOrder
<1>5. all = [k \in 1 .. Cardinality(P) |-> all[k]]
  <2>1. all = [k \in 1 .. Cardinality(P) |-> tr[Nth(P, k)[1]][Nth(P, k)[2]]]
    BY <1>4 DEF InOrder
  <2> HIDE DEF all, P
  <2> QED BY <2>1
<1> HIDE DEF all, P
<1>6. /\ Cardinality(P) \in Nat /\ DOMAIN all = 1 .. Cardinality(P)
      /\ \A k \in DOMAIN all :
           /\ Nth(P, k)[1] \in Ranks /\ Nth(P, k)[2] \in DOMAIN tr[Nth(P, k)[1]]
           /\ all[k] = tr[Nth(P, k)[1]][Nth(P, k)[2]]
      /\ \A k, m \in DOMAIN all : Nth(P, k)[1] = Nth(P, m)[1] /\ Nth(P, k)[2] = Nth(P, m)[2] => k = m
  BY <1>2, <1>3, <1>4, ListOfPlaces
<1>7. \A k \in DOMAIN all : \E r \in Ranks : \E i \in DOMAIN tr[r] : all[k] = tr[r][i]
  BY <1>6
<1>8. /\ DOMAIN saved = DOMAIN all
      /\ \A k \in DOMAIN all : /\ saved[k].id = all[k].id /\ saved[k].pos = all[k].pos
                               /\ saved[k].status = all[k].status
                               /\ saved[k] \in Saved
  <2>1. \A k \in DOMAIN all : all[k] \in Tracer
    <3>1. \A r \in Ranks : \A i \in DOMAIN tr[r] : tr[r][i] \in Tracer
      <4>1. \A r \in Ranks : tr[r] \in Seq(Tracer)
        BY <1>2
      <4> QED BY <4>1
    <3> QED BY <1>7, <3>1
  <2> QED BY <2>1 DEF Tracer, Saved
<1>9. saved = [k \in 1 .. Cardinality(P) |-> saved[k]]
  BY <1>6
<1> HIDE DEF saved
<1>10. saved \in Seq(Saved) /\ (all = <<>> => saved = <<>>)
  <2>1. saved \in Seq(Saved) /\ Len(saved) = Cardinality(P)
    BY <1>6, <1>8, <1>9, SequencesOf
  <2>2. all = <<>> => Cardinality(P) = 0
    BY <1>6
  <2> QED BY <2>1, <2>2
<1>11. TypeOK'
  BY <1>1, <1>2, <1>10 DEF TypeOK, Ranks
<1>12. InPlace'
  <2>1. \A r \in Ranks : \A i \in DOMAIN tr[r] : Sound(tr[r][i]) /\ AtHome(tr[r][i].pos)
    BY <1>1 DEF IInv, InPlace
  <2>2. \A k \in DOMAIN all : Sound(all[k]) /\ AtHome(all[k].pos)
    BY <1>7, <2>1
  <2>3. \A k \in DOMAIN saved : Sound(saved[k]) /\ AtHome(saved[k].pos)
    BY <1>8, <2>2 DEF Sound
  <2>4. UNCHANGED <<forest, tr, pc, boundary>> /\ file'.tracers = saved
    BY <1>1
  <2> QED BY <2>1, <2>3, <2>4 DEF InPlace, Sound, AtHome, Ranks
<1>13. FileIds'
  <2>1. ASSUME NEW k \in DOMAIN all, NEW m \in DOMAIN all, all[k].id = all[m].id PROVE k = m
    <3> DEFINE q == Nth(P, k)[1]
               i == Nth(P, k)[2]
               r == Nth(P, m)[1]
               j == Nth(P, m)[2]
    <3>1. q \in Ranks /\ r \in Ranks /\ i \in DOMAIN tr[q] /\ j \in DOMAIN tr[r] /\ tr[q][i].id = tr[r][j].id
      BY <1>6, <2>1
    <3>2. (q = r /\ i = j) => k = m
      BY <1>6
    <3> HIDE DEF q, i, r, j
    <3> QED BY <3>1, <3>2 DEF IInv, EachOnce
  <2>2. file'.tracers = saved
    BY <1>1
  <2> QED BY <1>8, <2>1, <2>2 DEF FileIds
<1>14. LookedUp' /\ Departing' /\ Loaded' /\ Seeded' /\ OwnerKnown' /\ Queries' /\ (restored \/ phase # "load")'
  BY <1>1 DEF LookedUp, Departing, Loaded, Seeded, OwnerKnown, Queries, Ranks
<1>15. EachOnce'
  BY <1>1 DEF IInv, EachOnce, Ranks
<1>16. Shadowed'
  BY <1>1 DEF IInv, Shadowed, Ranks
<1>17. Numbered'
  <2>1. UNCHANGED <<forest, tr, counter, rescaled>> /\ phase # "start" /\ ~Restoring
    BY <1>1 DEF Restoring
  <2>2. ASSUME ~rescaled
        PROVE  \A r \in Ranks : \A i \in DOMAIN tr[r] :
                 tr[r][i].id[1] \in Ranks => tr[r][i].id[2] < counter[tr[r][i].id[1]]
    BY <2>1, <2>2 DEF IInv, Numbered
  <2>3. ASSUME ~rescaled, NEW k \in DOMAIN saved, saved[k].id[1] \in Ranks
        PROVE  saved[k].id[2] < file'.counters[saved[k].id[1]]
    <3>5. PICK r \in Ranks : \E i \in DOMAIN tr[r] : all[k] = tr[r][i]
      BY <1>7, <1>8
    <3>1. PICK i \in DOMAIN tr[r] : all[k] = tr[r][i]
      BY <3>5
    <3>2. saved[k].id = tr[r][i].id
      BY <1>8, <3>1
    <3>3. all # <<>>
      BY <1>8
    <3>4. file'.counters = counter
      BY <1>1, <3>3
    <3> QED BY <2>2, <2>3, <3>2, <3>4
  <2>4. file'.size = Cardinality(Ranks) /\ file'.tracers = saved
    BY <1>1
  <2> QED BY <2>1, <2>2, <2>3, <2>4 DEF Numbered, Ranks
<1> QED BY <1>11, <1>12, <1>13, <1>14, <1>15, <1>16, <1>17 DEF IInv

(* Compaction leaves a part of the rank's own tracers, and all that are not
   flagged. *)
LEMMA ContainersAreLists ==
  ASSUME TypeOK
  PROVE  Lists(tr) /\ DOMAIN tr = Ranks
<1>1. tr \in [Ranks -> Seq(Tracer)] /\ forest \in Forests
  BY DEF TypeOK
<1>2. \A r \in Ranks : tr[r] \in Seq(Tracer)
  BY <1>1
<1>3. \A r \in Ranks : \E n \in Nat : DOMAIN tr[r] = 1 .. n
  BY <1>2
<1> QED BY <1>1, <1>3, RanksAreAnInterval DEF Lists

LEMMA CompactedIsAPart ==
  ASSUME TypeOK, NEW r \in Ranks
  PROVE  /\ \E n \in Nat : DOMAIN Compacted(r) = 1 .. n
         /\ Compacted(r) = [i \in DOMAIN Compacted(r) |-> Compacted(r)[i]]
         /\ \A i \in DOMAIN Compacted(r) : \E k \in DOMAIN tr[r] : Compacted(r)[i] = tr[r][k]
         /\ (\A i, k \in DOMAIN tr[r] : tr[r][i].id = tr[r][k].id => i = k) =>
              \A i, k \in DOMAIN Compacted(r) : Compacted(r)[i].id = Compacted(r)[k].id => i = k
         /\ \A k \in DOMAIN tr[r] : tr[r][k].status = "default" =>
              \E i \in DOMAIN Compacted(r) : Compacted(r)[i] = tr[r][k]
<1>1. tr[r] \in Seq(Tracer)
  BY DEF TypeOK
<1>2. CASE ~Due(CompactEvery)
  BY <1>1, <1>2 DEF Compacted
<1>3. CASE Due(CompactEvery)
  <2> DEFINE P == Kept(r)
             C == Compacted(r)
  <2>1. C = InOrder(tr, P)
    BY <1>3 DEF Compacted
  <2>2. P \subseteq Places(tr) /\ \A p \in P : p[1] = r
    BY DEF Kept
  <2>3. \A k \in DOMAIN tr[r] : tr[r][k].status = "default" => <<r, k>> \in P
    BY ContainersAreLists, PlacesAreFinite DEF Kept
  <2> HIDE DEF P, C
  <2>4. C = [n \in 1 .. Cardinality(P) |-> C[n]]
    <3>1. C = [n \in 1 .. Cardinality(P) |-> tr[Nth(P, n)[1]][Nth(P, n)[2]]]
      BY <2>1 DEF InOrder
    <3> QED BY <3>1
  <2>5. /\ Cardinality(P) \in Nat /\ DOMAIN C = 1 .. Cardinality(P)
        /\ \A n \in DOMAIN C :
             /\ Nth(P, n) \in P /\ Nth(P, n)[2] \in DOMAIN tr[Nth(P, n)[1]]
             /\ C[n] = tr[Nth(P, n)[1]][Nth(P, n)[2]]
        /\ \A m, n \in DOMAIN C : Nth(P, m)[1] = Nth(P, n)[1] /\ Nth(P, m)[2] = Nth(P, n)[2] => m = n
        /\ \A p \in P : \E n \in DOMAIN C : Nth(P, n) = p /\ C[n] = tr[p[1]][p[2]]
    BY <2>1, <2>2, ContainersAreLists, ListOfPlaces
  <2>6. \A n \in DOMAIN C : Nth(P, n)[1] = r /\ Nth(P, n)[2] \in DOMAIN tr[r] /\ C[n] = tr[r][Nth(P, n)[2]]
    BY <2>2, <2>5
  <2>7. ASSUME \A i, k \in DOMAIN tr[r] : tr[r][i].id = tr[r][k].id => i = k,
               NEW i \in DOMAIN C, NEW k \in DOMAIN C, C[i].id = C[k].id
        PROVE  i = k
    <3>1. Nth(P, i)[2] = Nth(P, k)[2]
      BY <2>6, <2>7
    <3> QED BY <2>5, <2>6, <3>1
  <2>8. ASSUME NEW k \in DOMAIN tr[r], tr[r][k].status = "default"
        PROVE  \E i \in DOMAIN C : C[i] = tr[r][k]
    <3> DEFINE p == <<r, k>>
    <3>1. PICK n \in DOMAIN C : C[n] = tr[p[1]][p[2]]
      BY <2>3, <2>5, <2>8
    <3> QED BY <3>1
  <2>9. \A i \in DOMAIN C : \E k \in DOMAIN tr[r] : C[i] = tr[r][k]
    BY <2>6
  <2>10. C = [i \in DOMAIN C |-> C[i]] /\ \E n \in Nat : DOMAIN C = 1 .. n
    BY <2>4, <2>5
  <2> QED BY <2>7, <2>8, <2>9, <2>10 DEF C
<1> QED BY <1>2, <1>3

LEMMA PackKeepsIInv ==
  ASSUME IInv, Staged', NEW r \in Ranks, Pack(r)
  PROVE  IInv'
<1> DEFINE new == Compacted(r)
           out == [i \in DOMAIN new |-> [to |-> new[i].owner,
                                        body |-> [rank |-> r, idx |-> i, quad |-> new[i].quad, pos |-> new[i].pos]]]
<1>1. TypeOK /\ forest \in Forests /\ tr[r] \in Seq(Tracer)
  BY DEF IInv, TypeOK
<1>2. /\ UNCHANGED <<forest, shadow, counter, found, migrate>> /\ UNCHANGED run
      /\ pc[r] = "pack" /\ pc' = [pc EXCEPT ![r] = "request"]
      /\ tr' = [tr EXCEPT ![r] = new]
  BY DEF Pack, Go, mesh
<1>3. tr'[r] = new /\ (\A q \in Ranks \ {r} : tr'[q] = tr[q]) /\ tr' = [q \in Ranks |-> tr'[q]]
  BY <1>1, <1>2 DEF TypeOK
<1>4. /\ \E n \in Nat : DOMAIN new = 1 .. n
      /\ new = [i \in DOMAIN new |-> new[i]]
      /\ \A i \in DOMAIN new : \E k \in DOMAIN tr[r] : new[i] = tr[r][k]
      /\ \A i, k \in DOMAIN new : new[i].id = new[k].id => i = k
  <2>1. \A i, k \in DOMAIN tr[r] : tr[r][i].id = tr[r][k].id => i = k
    BY DEF IInv, EachOnce
  <2> QED BY <1>1, <2>1, CompactedIsAPart
<1> HIDE DEF new
<1>5. wire' = [wire EXCEPT ![r] = out]
  BY <1>3 DEF Pack
<1>6. /\ DOMAIN out = DOMAIN new
      /\ \A i \in DOMAIN new : /\ out[i].to = new[i].owner
                               /\ out[i].body.rank = r /\ out[i].body.idx = i /\ out[i].body.pos = new[i].pos
  OBVIOUS
<1>7. out = [i \in DOMAIN new |-> out[i]]
  OBVIOUS
<1> HIDE DEF out
<1>8. /\ phase = "advance" /\ pc' = [q \in Ranks |-> pc'[q]] /\ wire' = [q \in Ranks |-> wire'[q]]
      /\ \A q \in Ranks : pc[q] \in {"update", "pack", "request"}
      /\ pc'[r] = "request" /\ wire'[r] = out
      /\ \A q \in Ranks \ {r} : pc'[q] = pc[q] /\ wire'[q] = wire[q]
  BY <1>1, <1>2, <1>5, Where DEF IInv, Within, TypeOK
<1>9. \A q \in Ranks : \A i \in DOMAIN tr'[q] : \E k \in DOMAIN tr[q] : tr'[q][i] = tr[q][k]
  BY <1>3, <1>4
<1>10. TypeOK'
  <2>1. new \in Seq(Tracer)
    <3>1. PICK n \in Nat : DOMAIN new = 1 .. n
      BY <1>4
    <3>2. \A i \in DOMAIN new : new[i] \in Tracer
      BY <1>1, <1>4
    <3> QED BY <1>4, <3>1, <3>2, SequencesOf
  <2>2. tr' \in [Ranks -> Seq(Tracer)]
    BY <1>1, <1>2, <1>3, <2>1 DEF TypeOK
  <2> QED BY <1>1, <1>2, <1>8, <2>2 DEF TypeOK, run, Ranks
<1>11. InPlace'
  <2>1. UNCHANGED <<forest, boundary, file>>
    BY <1>2 DEF run
  <2>2. \A q \in Ranks : \A i \in DOMAIN tr[q] : Sound(tr[q][i]) /\ AtHome(tr[q][i].pos)
    BY <1>8 DEF IInv, InPlace
  <2>3. \A q \in Ranks : \A i \in DOMAIN tr'[q] : Sound(tr'[q][i]) /\ AtHome(tr'[q][i].pos)
    BY <1>9, <2>2
  <2> QED BY <2>1, <2>3 DEF IInv, InPlace, Sound, AtHome, Ranks
<1>12. /\ Departing' /\ Seeded' /\ Loaded' /\ FileIds' /\ (restored \/ phase # "load")'
  BY <1>2, <1>8 DEF IInv, Departing, Seeded, Loaded, FileIds, Ranks, run
<1>13. EachOnce'
  <2>1. ASSUME NEW q \in Ranks, NEW s \in Ranks, NEW i \in DOMAIN tr'[q], NEW k \in DOMAIN tr'[s],
               tr'[q][i].id = tr'[s][k].id
        PROVE  q = s /\ i = k
    <3>1. PICK j \in DOMAIN tr[q] : tr'[q][i] = tr[q][j]
      BY <1>9
    <3>2. PICK l \in DOMAIN tr[s] : tr'[s][k] = tr[s][l]
      BY <1>9
    <3>3. q = s /\ j = l
      BY <2>1, <3>1, <3>2 DEF IInv, EachOnce
    <3>4. CASE q = r
      BY <1>3, <1>4, <2>1, <3>3, <3>4
    <3>5. CASE q # r
      <4>1. tr'[q] = tr[q]
        BY <1>3, <3>5
      <4> QED BY <2>1, <3>3, <4>1 DEF IInv, EachOnce
    <3> QED BY <3>4, <3>5
  <2>2. UNCHANGED forest
    BY <1>2
  <2> QED BY <2>1, <2>2 DEF EachOnce, Ranks
<1>14. Numbered'
  <2>1. UNCHANGED <<forest, counter, phase, file, rescaled>> /\ ~Restoring
    BY <1>2, <1>8 DEF run, Restoring
  <2>2. ASSUME ~rescaled
        PROVE  \A q \in Ranks : \A i \in DOMAIN tr[q] :
                 tr[q][i].id[1] \in Ranks => tr[q][i].id[2] < counter[tr[q][i].id[1]]
    BY <1>8, <2>1, <2>2 DEF IInv, Numbered
  <2>3. ASSUME ~rescaled
        PROVE  \A q \in Ranks : \A i \in DOMAIN tr'[q] :
                 tr'[q][i].id[1] \in Ranks => tr'[q][i].id[2] < counter[tr'[q][i].id[1]]
    BY <1>9, <2>2, <2>3
  <2> QED BY <2>1, <2>3 DEF IInv, Numbered, Ranks
<1>15. Shadowed'
  BY <1>2, <1>8 DEF IInv, Shadowed, Ranks, run
<1>16. LookedUp'
  <2>1. UNCHANGED <<forest, found>>
    BY <1>2
  <2> QED BY <1>3, <1>8, <2>1 DEF IInv, LookedUp, Ranks
<1>17. OwnerKnown'
  <2>1. UNCHANGED <<forest, phase>>
    BY <1>2 DEF run
  <2>2. ASSUME RebalanceEvery = 1
        PROVE  \A q \in Ranks : pc'[q] \in {"pack", "request"} =>
                 \A i \in DOMAIN tr[q] : tr[q][i].owner = OwnerIn(forest, tr[q][i].pos)
    BY <1>2, <1>8, <2>2 DEF IInv, OwnerKnown
  <2>3. ASSUME RebalanceEvery = 1
        PROVE  \A q \in Ranks : pc'[q] \in {"pack", "request"} =>
                 \A i \in DOMAIN tr'[q] : tr'[q][i].owner = OwnerIn(forest, tr'[q][i].pos)
    BY <1>9, <2>2, <2>3
  <2> QED BY <1>8, <2>1, <2>3 DEF OwnerKnown, Ranks
<1>18. Queries'
  <2>1. \A q \in Ranks : pc'[q] \notin {"fulfil", "respond", "push"}
    BY <1>8
  <2>2. UNCHANGED forest /\ UNCHANGED phase
    BY <1>2 DEF run
  <2>3. IsList(wire'[r])
    <3>1. PICK n \in Nat : DOMAIN new = 1 .. n
      BY <1>4
    <3>2. out = [i \in 1 .. n |-> out[i]]
      BY <1>7, <3>1
    <3>3. Len(out) = n
      BY <3>2
    <3> QED BY <1>8, <3>2, <3>3 DEF IsList
  <2>4. Requesting(r)'
    BY <1>3, <1>6, <1>8 DEF Requesting, Asks
  <2> QED BY <1>3, <1>8, <2>1, <2>2, <2>3, <2>4, RequestsStay DEF IInv
<1> QED BY <1>10, <1>11, <1>12, <1>13, <1>14, <1>15, <1>16, <1>17, <1>18 DEF IInv

LEMMA RequestKeepsIInv ==
  ASSUME IInv, Staged', Request
  PROVE  IInv'
<1>1. /\ UNCHANGED <<forest, shadow, tr, counter, found, migrate>> /\ UNCHANGED run
      /\ \A q \in Ranks : pc[q] = "request"
      /\ pc' = [q \in Ranks |-> "fulfil"] /\ wire' = Exchanged
  BY DEF Request, Exchange, All, SetAll, mesh
<1>2. TypeOK /\ forest \in Forests
  BY DEF IInv, TypeOK
<1>3. phase = "advance"
  <2>1. 0 \in Ranks
    BY <1>2, RanksAreAnInterval
  <2> QED BY <1>1, <2>1, Where DEF IInv
<1>4. wire' = [q \in Ranks |-> wire'[q]]
  BY <1>1 DEF Exchanged
<1>5. /\ TypeOK' /\ InPlace' /\ FileIds' /\ EachOnce' /\ (restored \/ phase # "load")' /\ Numbered'
  <2>1. Restoring => Restoring'
    BY <1>3 DEF Restoring
  <2> QED BY <1>1, <1>2, <1>4, <2>1, StandingStep DEF TypeOK
<1>6. LookedUp' /\ Departing' /\ Loaded' /\ Seeded'
  BY <1>1, <1>3 DEF LookedUp, Departing, Loaded, Seeded, Ranks, run
<1>7. Shadowed'
  BY <1>1, <1>3 DEF IInv, Shadowed, Ranks, run
<1>8. OwnerKnown'
  <2>1. UNCHANGED <<forest, tr, phase>>
    BY <1>1 DEF run
  <2> QED BY <1>1, <2>1 DEF IInv, OwnerKnown, Ranks
<1>9. \A q \in Ranks : Requesting(q)
  BY <1>1, <1>3 DEF IInv, Queries
<1>10. \A q \in Ranks : \E n \in Nat : DOMAIN wire[q] = 1 .. n
  <2>1. \A q \in Ranks : IsList(wire[q])
    BY <1>1, <1>3 DEF IInv, Queries
  <2> QED BY <2>1 DEF IsList
<1>11. wire = [q \in Ranks |-> wire[q]]
  BY <1>2 DEF TypeOK
<1>12. ASSUME NEW s \in Ranks PROVE IsList(wire'[s]) /\ Asked(s)'
  <2>1. UNCHANGED <<forest, tr>> /\ wire'[s] = Exchanged[s]
    BY <1>1
  <2>2. IsList(wire'[s])
    <3>1. PICK n \in Nat : DOMAIN Exchanged[s] = 1 .. n /\ Exchanged[s] = [k \in 1 .. n |-> Exchanged[s][k]]
      BY <1>2, <1>10, <1>11, Arrivals
    <3> QED BY <2>1, <3>1 DEF IsList
  <2>3. ASSUME NEW k \in DOMAIN wire'[s]
        PROVE  \E r \in Ranks : \E i \in DOMAIN tr[r] : tr[r][i].owner = s /\ Asks(wire'[s][k], r, i)
    <3>1. k \in DOMAIN Exchanged[s]
      BY <2>1
    <3>2. PICK q \in Ranks : \E j \in DOMAIN wire[q] : wire'[s][k] = wire[q][j] /\ wire[q][j].to = s
      BY <1>2, <1>10, <1>11, <2>1, <3>1, Arrivals
    <3>3. PICK j \in DOMAIN wire[q] : wire'[s][k] = wire[q][j] /\ wire[q][j].to = s
      BY <3>2
    <3>4. j \in DOMAIN tr[q] /\ wire[q][j].to = tr[q][j].owner /\ Asks(wire[q][j], q, j)
      BY <1>9 DEF Requesting
    <3> QED BY <3>3, <3>4
  <2>4. ASSUME NEW r \in Ranks, NEW i \in DOMAIN tr[r], tr[r][i].owner = s
        PROVE  \E k \in DOMAIN wire'[s] : Asks(wire'[s][k], r, i)
    <3>1. i \in DOMAIN wire[r] /\ wire[r][i].to = s /\ Asks(wire[r][i], r, i)
      BY <1>9, <2>4 DEF Requesting
    <3>2. PICK k \in DOMAIN Exchanged[s] : Exchanged[s][k] = wire[r][i]
      BY <1>2, <1>10, <1>11, <3>1, Arrivals
    <3> QED BY <2>1, <3>1, <3>2
  <2> QED BY <2>1, <2>2, <2>3, <2>4 DEF Asked, Asks, Ranks
<1>13. Queries'
  <2>1. UNCHANGED <<forest, phase>> /\ \A q \in Ranks : pc'[q] = "fulfil"
    BY <1>1 DEF run
  <2> QED BY <1>12, <2>1 DEF Queries, Ranks
<1> QED BY <1>5, <1>6, <1>7, <1>8, <1>13 DEF IInv

(* The owner has the quadrant of a place in the domain, so it reads there. *)
LEMMA FulfilKeepsIInv ==
  ASSUME IInv, Staged', NEW r \in Ranks, Fulfil(r)
  PROVE  IInv'
<1> DEFINE answer(e) == [to |-> e.body.rank, body |-> [idx |-> e.body.idx, value |-> Read(r, e.body.quad, e.body.pos)]]
           out == [k \in DOMAIN wire[r] |-> answer(wire[r][k])]
<1>1. TypeOK /\ forest \in Forests
  BY DEF IInv, TypeOK
<1>2. /\ UNCHANGED <<forest, shadow, tr, counter, found, migrate>> /\ UNCHANGED run
      /\ pc[r] = "fulfil" /\ pc' = [pc EXCEPT ![r] = "respond"]
      /\ wire' = [wire EXCEPT ![r] = out]
  BY DEF Fulfil, Go, mesh
<1>3. /\ DOMAIN out = DOMAIN wire[r] /\ out = [k \in DOMAIN wire[r] |-> out[k]]
      /\ \A k \in DOMAIN wire[r] : LET e == wire[r][k]
                                  IN /\ out[k].to = e.body.rank /\ out[k].body.idx = e.body.idx
                                     /\ out[k].body.value = Read(r, e.body.quad, e.body.pos)
  OBVIOUS
<1> HIDE DEF out
<1>4. /\ phase = "advance" /\ pc' = [q \in Ranks |-> pc'[q]] /\ wire' = [q \in Ranks |-> wire'[q]]
      /\ \A q \in Ranks : pc[q] \in {"fulfil", "respond"} /\ pc'[q] \in {"fulfil", "respond"}
      /\ pc'[r] = "respond" /\ wire'[r] = out
      /\ \A q \in Ranks \ {r} : pc'[q] = pc[q] /\ wire'[q] = wire[q]
  BY <1>1, <1>2, Where DEF IInv, Within, TypeOK
<1>5. /\ TypeOK' /\ InPlace' /\ FileIds' /\ EachOnce' /\ (restored \/ phase # "load")' /\ Numbered'
  <2>1. Restoring => Restoring'
    BY <1>4 DEF Restoring
  <2> QED BY <1>1, <1>2, <1>4, <2>1, StandingStep DEF TypeOK
<1>6. LookedUp' /\ Departing' /\ Loaded' /\ Seeded'
  BY <1>2, <1>4 DEF LookedUp, Departing, Loaded, Seeded, Ranks, run
<1>7. Shadowed'
  BY <1>2, <1>4 DEF IInv, Shadowed, Ranks, run
<1>8. OwnerKnown'
  <2>1. UNCHANGED <<forest, tr, phase>>
    BY <1>2 DEF run
  <2> QED BY <1>4, <2>1 DEF IInv, OwnerKnown, Ranks
<1>9. IsList(wire[r]) /\ Asked(r)
  BY <1>2, <1>4 DEF IInv, Queries
<1>10. ASSUME NEW quad, NEW x PROVE Read(r, quad, x) \subseteq {x, Elsewhere}
  BY DEF Read
<1>11. ASSUME ~restored, NEW quad, NEW x \in Inside, OwnerIn(forest, x) = r
       PROVE  Read(r, quad, x) = {x}
  <2>1. shadow[r] = forest[r]
    BY <1>4, <1>11 DEF IInv, Shadowed
  <2>2. QuadAt(forest[r], x) \in DOMAIN forest[r]
    BY <1>1, <1>11, OwnersExist
  <2>3. NoQuad \notin DOMAIN forest[r]
    BY <1>1, QuadrantsOfARank
  <2> DEFINE q == IF quad \in DOMAIN forest[r] /\ Holds(forest[r][quad], x) THEN quad ELSE QuadAt(forest[r], x)
  <2>4. q \in DOMAIN forest[r] /\ q # NoQuad
    BY <2>2, <2>3
  <2>5. Read(r, quad, x) = IF q = NoQuad THEN {} ELSE IF q \in DOMAIN forest[r] /\ forest[r][q] = forest[r][q] THEN {x} ELSE {Elsewhere}
    BY <2>1 DEF Read
  <2> HIDE DEF q
  <2> QED BY <2>4, <2>5
<1>12. Answered(r)'
  <2>1. UNCHANGED <<forest, tr, restored>>
    BY <1>2 DEF run
  <2>2. ASSUME NEW k \in DOMAIN wire[r]
        PROVE  /\ out[k].to \in Ranks /\ out[k].body.idx \in DOMAIN tr[out[k].to]
               /\ Answer(out[k].body.value, tr[out[k].to][out[k].body.idx].pos)
    <3> DEFINE e == wire[r][k]
    <3>1. PICK q \in Ranks : \E i \in DOMAIN tr[q] : tr[q][i].owner = r /\ Asks(e, q, i)
      BY <1>9 DEF Asked
    <3>2. PICK i \in DOMAIN tr[q] : tr[q][i].owner = r /\ Asks(e, q, i)
      BY <3>1
    <3>3. /\ out[k].to = q /\ out[k].body.idx = i
          /\ out[k].body.value = Read(r, e.body.quad, tr[q][i].pos)
      BY <1>3, <3>2 DEF Asks
    <3>4. ASSUME Fresh, tr[q][i].pos \in Inside
          PROVE  Read(r, e.body.quad, tr[q][i].pos) = {tr[q][i].pos}
      <4>1. OwnerIn(forest, tr[q][i].pos) = r
        BY <1>4, <3>2, <3>4 DEF IInv, OwnerKnown, Fresh
      <4> QED BY <1>11, <3>4, <4>1 DEF Fresh
    <3> QED BY <1>10, <3>3, <3>4 DEF Answer
  <2>3. ASSUME NEW q \in Ranks, NEW i \in DOMAIN tr[q], tr[q][i].owner = r
        PROVE  \E k \in DOMAIN out : out[k].to = q /\ out[k].body.idx = i
    <3>1. PICK k \in DOMAIN wire[r] : Asks(wire[r][k], q, i)
      BY <1>9, <2>3 DEF Asked
    <3> QED BY <1>3, <3>1 DEF Asks
  <2>4. wire'[r] = out /\ DOMAIN out = DOMAIN wire[r]
    BY <1>3, <1>4
  <2> QED BY <2>1, <2>2, <2>3, <2>4 DEF Answered, Answer, Fresh, Ranks
<1>13. Queries'
  <2>1. UNCHANGED <<forest, phase, tr, restored>>
    BY <1>2 DEF run
  <2>2. IsList(wire'[r])
    <3>1. PICK n \in Nat : DOMAIN wire[r] = 1 .. n
      BY <1>9 DEF IsList
    <3>2. out = [k \in 1 .. n |-> out[k]]
      BY <1>3, <3>1
    <3>3. Len(out) = n
      BY <3>2
    <3> QED BY <1>4, <3>2, <3>3 DEF IsList
  <2>3. ASSUME NEW q \in Ranks \ {r}
        PROVE  /\ IsList(wire'[q])
               /\ pc[q] = "fulfil" => Asked(q)'
               /\ pc[q] = "respond" => Answered(q)'
    <3>1. /\ IsList(wire[q])
          /\ pc[q] = "fulfil" => Asked(q)
          /\ pc[q] = "respond" => Answered(q)
      BY <1>4 DEF IInv, Queries
    <3>2. wire'[q] = wire[q]
      BY <1>4
    <3>3. Asked(q) => Asked(q)'
      BY <2>1, <3>2 DEF Asked, Asks, Ranks
    <3>4. ASSUME Answered(q) PROVE Answered(q)'
      <4>1. ASSUME NEW k \in DOMAIN wire[q]
            PROVE  /\ wire[q][k].to \in Ranks' /\ wire[q][k].body.idx \in DOMAIN tr'[wire[q][k].to]
                   /\ Answer(wire[q][k].body.value, tr'[wire[q][k].to][wire[q][k].body.idx].pos)
        BY <2>1, <3>4 DEF Answered, Ranks
      <4>2. ASSUME NEW s \in Ranks, NEW i \in DOMAIN tr[s], tr[s][i].owner = q
            PROVE  \E k \in DOMAIN wire[q] : wire[q][k].to = s /\ wire[q][k].body.idx = i
        BY <3>4, <4>2 DEF Answered
      <4>3. ASSUME NEW k \in DOMAIN wire'[q]
            PROVE  /\ wire'[q][k].to \in Ranks' /\ wire'[q][k].body.idx \in DOMAIN tr'[wire'[q][k].to]
                   /\ Answer(wire[q][k].body.value, tr[wire[q][k].to][wire[q][k].body.idx].pos)'
        BY <2>1, <3>2, <4>1 DEF Answer, Fresh
      <4>4. ASSUME NEW s \in Ranks', NEW i \in DOMAIN tr'[s], tr'[s][i].owner = q
            PROVE  \E k \in DOMAIN wire'[q] : wire'[q][k].to = s /\ wire'[q][k].body.idx = i
        BY <2>1, <3>2, <4>2, <4>4 DEF Ranks
      <4> QED BY <4>3, <4>4 DEF Answered
    <3> QED BY <3>1, <3>2, <3>3, <3>4
  <2> QED BY <1>4, <1>12, <2>1, <2>2, <2>3 DEF Queries, Ranks
<1> QED BY <1>5, <1>6, <1>7, <1>8, <1>13 DEF IInv

LEMMA RespondKeepsIInv ==
  ASSUME IInv, Staged', Respond
  PROVE  IInv'
<1>1. /\ UNCHANGED <<forest, shadow, tr, counter, found, migrate>> /\ UNCHANGED run
      /\ \A q \in Ranks : pc[q] = "respond"
      /\ pc' = [q \in Ranks |-> "push"] /\ wire' = Exchanged
  BY DEF Respond, Exchange, All, SetAll, mesh
<1>2. TypeOK /\ forest \in Forests
  BY DEF IInv, TypeOK
<1>3. phase = "advance"
  <2>1. 0 \in Ranks
    BY <1>2, RanksAreAnInterval
  <2> QED BY <1>1, <2>1, Where DEF IInv
<1>4. wire' = [q \in Ranks |-> wire'[q]]
  BY <1>1 DEF Exchanged
<1>5. /\ TypeOK' /\ InPlace' /\ FileIds' /\ EachOnce' /\ (restored \/ phase # "load")' /\ Numbered'
  <2>1. Restoring => Restoring'
    BY <1>3 DEF Restoring
  <2> QED BY <1>1, <1>2, <1>4, <2>1, StandingStep DEF TypeOK
<1>6. LookedUp' /\ Departing' /\ Loaded' /\ Seeded'
  BY <1>1, <1>3 DEF LookedUp, Departing, Loaded, Seeded, Ranks, run
<1>7. Shadowed'
  BY <1>1, <1>3 DEF IInv, Shadowed, Ranks, run
<1>8. OwnerKnown'
  <2>1. UNCHANGED <<forest, tr, phase>>
    BY <1>1 DEF run
  <2> QED BY <1>1, <2>1 DEF IInv, OwnerKnown, Ranks
<1>9. \A q \in Ranks : IsList(wire[q]) /\ Answered(q)
  BY <1>1, <1>3 DEF IInv, Queries
<1>10. \A q \in Ranks : \E n \in Nat : DOMAIN wire[q] = 1 .. n
  BY <1>9 DEF IsList
<1>11. wire = [q \in Ranks |-> wire[q]]
  BY <1>2 DEF TypeOK
<1>12. ASSUME NEW r \in Ranks PROVE IsList(wire'[r]) /\ Received(r)'
  <2>1. UNCHANGED <<forest, tr, restored>> /\ wire'[r] = Exchanged[r]
    BY <1>1 DEF run
  <2>2. IsList(wire'[r])
    <3>1. PICK n \in Nat : DOMAIN Exchanged[r] = 1 .. n /\ Exchanged[r] = [k \in 1 .. n |-> Exchanged[r][k]]
      BY <1>2, <1>10, <1>11, Arrivals
    <3> QED BY <2>1, <3>1 DEF IsList
  <2>3. ASSUME NEW k \in DOMAIN wire'[r]
        PROVE  /\ wire'[r][k].body.idx \in DOMAIN tr[r]
               /\ Answer(wire'[r][k].body.value, tr[r][wire'[r][k].body.idx].pos)
    <3>1. PICK q \in Ranks : \E j \in DOMAIN wire[q] : wire'[r][k] = wire[q][j] /\ wire[q][j].to = r
      BY <1>2, <1>10, <1>11, <2>1, Arrivals
    <3>2. PICK j \in DOMAIN wire[q] : wire'[r][k] = wire[q][j] /\ wire[q][j].to = r
      BY <3>1
    <3>3. wire[q][j].body.idx \in DOMAIN tr[r] /\ Answer(wire[q][j].body.value, tr[r][wire[q][j].body.idx].pos)
      BY <1>9, <3>2 DEF Answered
    <3> QED BY <3>2, <3>3
  <2>4. ASSUME NEW i \in DOMAIN tr[r], tr[r][i].owner \in Ranks
        PROVE  \E k \in DOMAIN wire'[r] : wire'[r][k].body.idx = i
    <3> DEFINE s == tr[r][i].owner
    <3>3. s \in Ranks
      BY <2>4
    <3>1. PICK j \in DOMAIN wire[s] : wire[s][j].to = r /\ wire[s][j].body.idx = i
      BY <1>9, <2>4 DEF Answered
    <3> HIDE DEF s
    <3>2. PICK k \in DOMAIN Exchanged[r] : Exchanged[r][k] = wire[s][j]
      BY <1>2, <1>10, <1>11, <3>3, <3>1, Arrivals
    <3> QED BY <2>1, <3>1, <3>2
  <2> QED BY <2>1, <2>2, <2>3, <2>4 DEF Received, Answer, Fresh, Ranks
<1>13. Queries'
  <2>1. UNCHANGED <<forest, phase>> /\ \A q \in Ranks : pc'[q] = "push"
    BY <1>1 DEF run
  <2> QED BY <1>12, <2>1 DEF Queries, Ranks
<1> QED BY <1>5, <1>6, <1>7, <1>8, <1>13 DEF IInv

(* A migration loses no tracer that has an owner and doubles none. *)
LEMMA MigrateKeepsIInv ==
  ASSUME IInv, Staged', Migrate
  PROVE  IInv'
<1> DEFINE next == IF phase = "advance" THEN "pack" ELSE "rest"
           from(r, k) == Nth(SentTo(r), k)[1]
           place(r, k) == Nth(SentTo(r), k)[2]
<1>1. /\ UNCHANGED <<forest, shadow, counter, found, migrate>> /\ UNCHANGED run
      /\ \A q \in Ranks : pc[q] = "migrate"
      /\ pc' = [q \in Ranks |-> next]
      /\ wire' = None
  BY DEF Migrate, Enter, All, SetAll, mesh, After
<1>2. TypeOK /\ forest \in Forests
  BY DEF IInv, TypeOK
<1>3. phase \in {"load", "advance", "regrid"}
  <2>1. 0 \in Ranks
    BY <1>2, RanksAreAnInterval
  <2> QED BY <1>1, <2>1, Where DEF IInv
<1>4. /\ next \in {"pack", "rest"} /\ \A q \in Ranks : pc'[q] = next
      /\ pc' = [q \in Ranks |-> pc'[q]] /\ wire' = [q \in Ranks |-> wire'[q]]
  BY <1>1 DEF None
<1> HIDE DEF next
<1>5. \A q \in Ranks : Leaves(q)
  BY <1>1 DEF IInv, Departing
<1>6. \A q \in Ranks : \E n \in Nat : DOMAIN wire[q] = 1 .. n
  <2>1. \A q \in Ranks : tr[q] \in Seq(Tracer)
    BY <1>2 DEF TypeOK
  <2>2. \A q \in Ranks : DOMAIN wire[q] = DOMAIN tr[q]
    BY <1>5 DEF Leaves
  <2> QED BY <2>1, <2>2
<1>7. wire = [q \in Ranks |-> wire[q]]
  BY <1>2 DEF TypeOK
<1>8. tr' = [r \in Ranks |-> tr'[r]]
  BY DEF Migrate
<1>9. ASSUME NEW r \in Ranks
      PROVE  /\ DOMAIN tr'[r] = DOMAIN Exchanged[r]
             /\ \E n \in Nat : DOMAIN tr'[r] = 1 .. n
             /\ tr'[r] = [k \in DOMAIN tr'[r] |-> tr'[r][k]]
             /\ \A k \in DOMAIN tr'[r] :
                  tr'[r][k] = [Exchanged[r][k].body EXCEPT !.owner = r, !.quad = FindOwner(r, Exchanged[r][k].body.pos).quad]
  <2>1. tr'[r] = [k \in DOMAIN Exchanged[r] |->
                    [Exchanged[r][k].body EXCEPT !.owner = r, !.quad = FindOwner(r, Exchanged[r][k].body.pos).quad]]
    BY DEF Migrate
  <2>3. PICK n \in Nat : DOMAIN Exchanged[r] = 1 .. n /\ Exchanged[r] = [k \in 1 .. n |-> Exchanged[r][k]]
    BY <1>2, <1>6, <1>7, Arrivals
  <2>2. \E m \in Nat : DOMAIN Exchanged[r] = 1 .. m
    BY <2>3
  <2> QED BY <2>1, <2>2
<1>10. ASSUME NEW r \in Ranks, NEW k \in DOMAIN tr'[r]
       PROVE  /\ from(r, k) \in Ranks /\ place(r, k) \in DOMAIN tr[from(r, k)]
              /\ tr'[r][k] \in Tracer
              /\ tr'[r][k].id = tr[from(r, k)][place(r, k)].id
              /\ tr'[r][k].pos = tr[from(r, k)][place(r, k)].pos
              /\ tr'[r][k].status = tr[from(r, k)][place(r, k)].status
              /\ tr'[r][k].owner = r
              /\ OwnerIn(forest, tr'[r][k].pos) = r
  <2> DEFINE s == from(r, k)
             i == place(r, k)
             e == Exchanged[r][k]
  <2>1. k \in DOMAIN Exchanged[r]
    BY <1>9
  <2>2. s \in Ranks /\ i \in DOMAIN wire[s] /\ e = wire[s][i] /\ e.to = r
    BY <1>2, <1>6, <1>7, <2>1, Arrivals
  <2>3. tr'[r][k] = [e.body EXCEPT !.owner = r, !.quad = FindOwner(r, e.body.pos).quad]
    BY <1>9
  <2> HIDE DEF s, i, e
  <2>4. /\ i \in DOMAIN tr[s] /\ e.to = OwnerIn(forest, tr[s][i].pos) /\ e.body \in Tracer
        /\ e.body.id = tr[s][i].id /\ e.body.pos = tr[s][i].pos /\ e.body.status = tr[s][i].status
    BY <1>5, <2>2 DEF Leaves
  <2>5. \A x : FindOwner(r, x).quad \in Nat
    BY <1>2, QuadrantsOfARank DEF FindOwner, NoQuad
  <2>6. r \in Int
    BY <1>2, RanksAreAnInterval
  <2>7. /\ tr'[r][k] \in Tracer /\ tr'[r][k].id = e.body.id /\ tr'[r][k].pos = e.body.pos
        /\ tr'[r][k].status = e.body.status /\ tr'[r][k].owner = r
    BY <2>3, <2>4, <2>5, <2>6 DEF Tracer
  <2>8. /\ s \in Ranks /\ i \in DOMAIN tr[s] /\ tr'[r][k] \in Tracer /\ tr'[r][k].id = tr[s][i].id
        /\ tr'[r][k].pos = tr[s][i].pos /\ tr'[r][k].status = tr[s][i].status /\ tr'[r][k].owner = r
        /\ OwnerIn(forest, tr'[r][k].pos) = r
    BY <2>2, <2>4, <2>7
  <2> QED BY <2>8 DEF s, i
<1>11. ASSUME NEW r \in Ranks, NEW k \in DOMAIN tr'[r], NEW m \in DOMAIN tr'[r],
              from(r, k) = from(r, m), place(r, k) = place(r, m)
       PROVE  k = m
  <2>1. k \in DOMAIN Exchanged[r] /\ m \in DOMAIN Exchanged[r]
    BY <1>9
  <2> QED BY <1>2, <1>6, <1>7, <1>11, <2>1, Arrivals
<1> HIDE DEF from, place
<1>12. \A r \in Ranks : tr'[r] \in Seq(Tracer)
  <2> TAKE r \in Ranks
  <2>1. PICK n \in Nat : DOMAIN tr'[r] = 1 .. n
    BY <1>9
  <2>2. tr'[r] = [k \in 1 .. n |-> tr'[r][k]]
    BY <1>9, <2>1
  <2>3. \A k \in 1 .. n : tr'[r][k] \in Tracer
    BY <1>10, <2>1
  <2> QED BY <2>2, <2>3, SequencesOf
<1>13. TypeOK'
  <2>1. tr' \in [Ranks -> Seq(Tracer)]
    BY <1>8, <1>12
  <2>2. UNCHANGED <<forest, shadow, counter, found, migrate>> /\ UNCHANGED run
    BY <1>1
  <2> QED BY <1>2, <1>4, <2>1, <2>2 DEF TypeOK, run, Ranks
<1>14. \A r \in Ranks : \A k \in DOMAIN tr'[r] : \E s \in Ranks : \E i \in DOMAIN tr[s] :
          tr'[r][k].id = tr[s][i].id /\ tr'[r][k].pos = tr[s][i].pos /\ tr'[r][k].status = tr[s][i].status
  BY <1>10
<1>15. InPlace'
  <2>1. UNCHANGED <<forest, boundary, file>>
    BY <1>1 DEF run
  <2>2. \A r \in Ranks : \A i \in DOMAIN tr[r] : Sound(tr[r][i]) /\ AtHome(tr[r][i].pos)
    BY <1>1 DEF IInv, InPlace
  <2>3. \A r \in Ranks : \A i \in DOMAIN tr'[r] : Sound(tr'[r][i]) /\ AtHome(tr'[r][i].pos)
    BY <1>14, <2>2 DEF Sound
  <2> QED BY <2>1, <2>3 DEF IInv, InPlace, Sound, AtHome, Ranks
<1>16. EachOnce'
  <2>1. ASSUME NEW q \in Ranks, NEW r \in Ranks, NEW i \in DOMAIN tr'[q], NEW k \in DOMAIN tr'[r],
               tr'[q][i].id = tr'[r][k].id
        PROVE  q = r /\ i = k
    <3>1. from(q, i) = from(r, k) /\ place(q, i) = place(r, k)
      BY <1>10, <2>1 DEF IInv, EachOnce
    <3>2. q = r
      <4>1. tr'[q][i].pos = tr'[r][k].pos
        BY <1>10, <3>1
      <4> QED BY <1>10, <4>1
    <3> QED BY <1>11, <3>1, <3>2
  <2>2. UNCHANGED forest
    BY <1>1
  <2> QED BY <2>1, <2>2 DEF EachOnce, Ranks
<1>17. Numbered'
  <2>1. UNCHANGED <<forest, counter, phase, file, rescaled>> /\ phase # "start" /\ ~Restoring
    BY <1>1, <1>3 DEF run, Restoring
  <2>2. ASSUME ~rescaled
        PROVE  \A q \in Ranks : \A i \in DOMAIN tr[q] :
                 tr[q][i].id[1] \in Ranks => tr[q][i].id[2] < counter[tr[q][i].id[1]]
    BY <2>1, <2>2 DEF IInv, Numbered
  <2>3. ASSUME ~rescaled
        PROVE  \A q \in Ranks : \A i \in DOMAIN tr'[q] :
                 tr'[q][i].id[1] \in Ranks => tr'[q][i].id[2] < counter[tr'[q][i].id[1]]
    BY <1>14, <2>2, <2>3
  <2> QED BY <2>1, <2>3 DEF IInv, Numbered, Ranks
<1>18. /\ LookedUp' /\ Departing' /\ Seeded' /\ Queries' /\ FileIds' /\ (restored \/ phase # "load")'
  BY <1>1, <1>3, <1>4 DEF IInv, LookedUp, Departing, Seeded, Queries, FileIds, Ranks, run
<1>19. Shadowed'
  BY <1>1, <1>3, <1>4 DEF IInv, Shadowed, Ranks, run
<1>20. OwnerKnown'
  <2>1. UNCHANGED forest
    BY <1>1
  <2>2. \A r \in Ranks : \A k \in DOMAIN tr'[r] : tr'[r][k].owner = OwnerIn(forest, tr'[r][k].pos)
    BY <1>10
  <2> QED BY <2>1, <2>2 DEF OwnerKnown, Ranks
<1>21. Loaded'
  <2>1. UNCHANGED <<forest, phase, file>>
    BY <1>1 DEF run
  <2>2. ASSUME phase = "load", file.tracers = <<>>, NEW r \in Ranks PROVE tr'[r] = <<>>
    <3>1. \A q \in Ranks : tr[q] = <<>>
      BY <2>2 DEF IInv, Loaded
    <3>2. DOMAIN tr'[r] = {}
      BY <1>14, <3>1
    <3>3. tr'[r] \in Seq(Tracer)
      BY <1>12
    <3> QED BY <3>2, <3>3, EmptySequence
  <2> QED BY <1>4, <2>1, <2>2 DEF Loaded, Ranks
<1> QED BY <1>13, <1>15, <1>16, <1>17, <1>18, <1>19, <1>20, <1>21 DEF IInv

-----------------------------------------------------------------------------
(* What a step does to the tracers in the domain *)

InFile == \E r \in Ranks : pc[r] = "read"
KeptInside == \A q \in Ranks : \A i \in DOMAIN tr[q] : tr[q][i].pos \in Inside =>
                 \E s \in Ranks : \E k \in DOMAIN tr'[s] : tr'[s][k].id = tr[q][i].id
NoneLost == \A t \in Held : t.pos \in Inside => \E u \in Held' : u.id = t.id

(* The tracers of a family of containers, or of the file. *)
LEMMA HeldOnes ==
  /\ \A q \in Ranks : \A i \in DOMAIN tr[q] : [id |-> tr[q][i].id, pos |-> tr[q][i].pos] \in Held
  /\ InFile => \A k \in DOMAIN file.tracers : [id |-> file.tracers[k].id, pos |-> file.tracers[k].pos] \in Held
  /\ \A t \in Held : \/ \E q \in Ranks : \E i \in DOMAIN tr[q] : t = [id |-> tr[q][i].id, pos |-> tr[q][i].pos]
                     \/ InFile /\ \E k \in DOMAIN file.tracers :
                                    t = [id |-> file.tracers[k].id, pos |-> file.tracers[k].pos]
<1> DEFINE Of(s) == {[id |-> s[i].id, pos |-> s[i].pos] : i \in DOMAIN s}
           S == {tr[r] : r \in Ranks} \cup (IF InFile THEN {file.tracers} ELSE {})
<1>1. Held = UNION {Of(s) : s \in S}
  BY DEF Held, InFile
<1>2. \A q \in Ranks : tr[q] \in S
  OBVIOUS
<1>3. InFile => file.tracers \in S
  OBVIOUS
<1>4. \A s \in S : (\E q \in Ranks : s = tr[q]) \/ (InFile /\ s = file.tracers)
  OBVIOUS
<1> HIDE DEF S
<1>5. \A s \in S : \A i \in DOMAIN s : [id |-> s[i].id, pos |-> s[i].pos] \in Held
  BY <1>1
<1>6. \A t \in Held : \E s \in S : \E i \in DOMAIN s : t = [id |-> s[i].id, pos |-> s[i].pos]
  BY <1>1
<1> QED BY <1>2, <1>3, <1>4, <1>5, <1>6

LEMMA HeldOnesNext ==
  /\ \A q \in Ranks' : \A i \in DOMAIN tr'[q] : [id |-> tr'[q][i].id, pos |-> tr'[q][i].pos] \in Held'
  /\ InFile' => \A k \in DOMAIN file'.tracers : [id |-> file'.tracers[k].id, pos |-> file'.tracers[k].pos] \in Held'
<1> DEFINE Of(s) == {[id |-> s[i].id, pos |-> s[i].pos] : i \in DOMAIN s}
           S == {tr'[r] : r \in Ranks'} \cup (IF InFile' THEN {file'.tracers} ELSE {})
<1>1. Held' = UNION {Of(s) : s \in S}
  BY DEF Held, InFile
<1>2. \A q \in Ranks' : tr'[q] \in S
  OBVIOUS
<1>3. InFile' => file'.tracers \in S
  OBVIOUS
<1> HIDE DEF S
<1>4. \A s \in S : \A i \in DOMAIN s : [id |-> s[i].id, pos |-> s[i].pos] \in Held'
  BY <1>1
<1> QED BY <1>2, <1>3, <1>4

LEMMA HeldIsKept ==
  ASSUME Ranks' = Ranks, KeptInside,
         InFile => \/ InFile' /\ file' = file
                   \/ \A k \in DOMAIN file.tracers : \E s \in Ranks : \E i \in DOMAIN tr'[s] :
                         tr'[s][i].id = file.tracers[k].id
  PROVE  NoneLost
<1> SUFFICES ASSUME NEW t \in Held, t.pos \in Inside PROVE \E u \in Held' : u.id = t.id
  BY DEF NoneLost
<1>1. ASSUME NEW s \in Ranks, NEW i \in DOMAIN tr'[s], tr'[s][i].id = t.id PROVE \E u \in Held' : u.id = t.id
  BY <1>1, HeldOnesNext
<1>2. CASE \E q \in Ranks : \E i \in DOMAIN tr[q] : t = [id |-> tr[q][i].id, pos |-> tr[q][i].pos]
  BY <1>1, <1>2 DEF KeptInside
<1>3. ASSUME InFile, NEW k \in DOMAIN file.tracers, t = [id |-> file.tracers[k].id, pos |-> file.tracers[k].pos]
      PROVE  \E u \in Held' : u.id = t.id
  <2>1. CASE InFile' /\ file' = file
    BY <1>3, <2>1, HeldOnesNext
  <2>2. CASE ~(InFile' /\ file' = file)
    BY <1>1, <1>3, <2>2
  <2> QED BY <2>1, <2>2
<1> QED BY <1>2, <1>3, HeldOnes

(* A step that keeps the ids of a container. *)
LEMMA SameIdsKept ==
  ASSUME \A q \in Ranks : DOMAIN tr'[q] = DOMAIN tr[q] /\ \A i \in DOMAIN tr[q] : tr'[q][i].id = tr[q][i].id
  PROVE  KeptInside
BY DEF KeptInside

LEMMA NothingReadBy ==
  ASSUME IInv, NEW r \in Ranks, pc[r] \notin {"read", "rest", "counters"} \/ phase \notin {"load"}
  PROVE  ~InFile
<1>1. ASSUME NEW q \in Ranks, pc[q] = "read" PROVE FALSE
  <2>1. phase = "load" /\ (Within({"read", "rest"}) \/ Within({"read", "counters"}))
    BY <1>1, Where DEF IInv
  <2> QED BY <2>1 DEF Within
<1> QED BY <1>1 DEF InFile

(* A rank rewrites its tracers where they are. *)
LEMMA RewritingLosesNone ==
  ASSUME IInv, NEW r \in Ranks, Flag(r) \/ Update(r) \/ Push(r) \/ PositionBcs(r)
  PROVE  NoneLost
<1>1. TypeOK /\ tr[r] \in Seq(Tracer)
  BY DEF IInv, TypeOK
<1>2. \A i \in DOMAIN tr[r] : tr[r][i] \in Tracer
  BY <1>1
<1>3. /\ UNCHANGED forest /\ pc[r] \in {"flag", "update", "push", "bcs"}
      /\ \E new : /\ tr' = [tr EXCEPT ![r] = new] /\ DOMAIN new = DOMAIN tr[r]
                  /\ \A i \in DOMAIN tr[r] : new[i].id = tr[r][i].id
  <2>1. CASE Flag(r)
    <3> DEFINE new == [i \in DOMAIN tr[r] |-> IF found[r][i].rank = NoRank THEN [tr[r][i] EXCEPT !.status = "outside"]
                                             ELSE tr[r][i]]
    <3>1. tr' = [tr EXCEPT ![r] = new]
      BY <1>1, <2>1 DEF Flag, TypeOK
    <3>2. DOMAIN new = DOMAIN tr[r] /\ \A i \in DOMAIN tr[r] : new[i].id = tr[r][i].id
      BY <1>2 DEF Tracer
    <3> HIDE DEF new
    <3> QED BY <2>1, <3>1, <3>2 DEF Flag, Go, mesh
  <2>2. CASE Update(r)
    <3> DEFINE new == Routed(r)
    <3>1. tr' = [tr EXCEPT ![r] = new]
      BY <2>2 DEF Update
    <3>2. DOMAIN new = DOMAIN tr[r] /\ \A i \in DOMAIN tr[r] : new[i].id = tr[r][i].id
      BY <1>2 DEF Tracer, Routed
    <3> HIDE DEF new
    <3> QED BY <2>2, <3>1, <3>2 DEF Update, Go, mesh
  <2>3. CASE Push(r)
    <3> DEFINE new == [i \in DOMAIN tr[r] |-> [tr[r][i] EXCEPT !.pos = Moved(r, i)]]
    <3>1. tr' = [tr EXCEPT ![r] = new]
      BY <2>3 DEF Push
    <3>2. DOMAIN new = DOMAIN tr[r] /\ \A i \in DOMAIN tr[r] : new[i].id = tr[r][i].id
      BY <1>2 DEF Tracer
    <3> HIDE DEF new
    <3> QED BY <2>3, <3>1, <3>2 DEF Push, Go, mesh
  <2>4. CASE PositionBcs(r)
    <3> DEFINE new == [i \in DOMAIN tr[r] |-> [tr[r][i] EXCEPT !.pos = Bounded(tr[r][i].pos)]]
    <3>1. tr' = [tr EXCEPT ![r] = new]
      BY <2>4 DEF PositionBcs
    <3>2. DOMAIN new = DOMAIN tr[r] /\ \A i \in DOMAIN tr[r] : new[i].id = tr[r][i].id
      BY <1>2 DEF Tracer
    <3> HIDE DEF new
    <3> QED BY <2>4, <3>1, <3>2 DEF PositionBcs, Go, mesh
  <2> QED BY <2>1, <2>2, <2>3, <2>4
<1>4. \A q \in Ranks : DOMAIN tr'[q] = DOMAIN tr[q] /\ \A i \in DOMAIN tr[q] : tr'[q][i].id = tr[q][i].id
  BY <1>1, <1>3 DEF TypeOK
<1>5. KeptInside /\ ~InFile /\ Ranks' = Ranks
  BY <1>3, <1>4, SameIdsKept, NothingReadBy DEF Ranks
<1> QED BY <1>5, HeldIsKept

(* The last of the ranks to read leaves no tracer in the file: the slices
   cover it. *)
LEMMA LoadLosesNone ==
  ASSUME IInv, NEW r \in Ranks, Load(r), IInv'
  PROVE  NoneLost
<1> DEFINE n == Len(file.tracers)
           p == Cardinality(Ranks)
           o(q) == SliceOffset(n, q, p)
           c(q) == SliceCount(n, q, p)
<1>1. /\ UNCHANGED forest /\ UNCHANGED run /\ pc[r] = "read" /\ phase = "load"
      /\ pc' = [pc EXCEPT ![r] = IF file.tracers = <<>> THEN "rest" ELSE "counters"]
      /\ \E new : tr' = [tr EXCEPT ![r] = new]
  BY Where DEF IInv, Load, Go, mesh
<1>2. TypeOK /\ TypeOK' /\ forest \in Forests /\ Ranks' = Ranks /\ UNCHANGED <<file, phase>>
  BY <1>1 DEF IInv, TypeOK, Ranks, run
<1>3. KeptInside
  <2>1. \A q \in Ranks \ {r} : tr'[q] = tr[q]
    BY <1>1, <1>2 DEF TypeOK
  <2>2. tr[r] = <<>>
    BY <1>1 DEF IInv, Loaded
  <2> QED BY <2>1, <2>2 DEF KeptInside
<1>4. ASSUME ~InFile', NEW k \in DOMAIN file.tracers
      PROVE  \E s \in Ranks : \E i \in DOMAIN tr'[s] : tr'[s][i].id = file.tracers[k].id
  <2>1. file.tracers # <<>>
    BY <1>4
  <2>2. \A q \in Ranks : pc'[q] \in {"read", "counters"}
    <3>1. Within({"read", "counters"})
      BY <1>1, <2>1, Where DEF IInv
    <3> QED BY <1>1, <1>2, <2>1, <3>1 DEF Within, TypeOK
  <2>3. \A q \in Ranks : pc'[q] = "counters"
    BY <1>2, <1>4, <2>2 DEF InFile
  <2>4. \A q \in Ranks : HasSlice(q)'
    BY <1>1, <1>2, <2>3 DEF IInv, Loaded
  <2>5. n \in Nat /\ p \in Nat \ {0} /\ Ranks = 0 .. (p - 1) /\ k \in 1 .. n
    <3>1. file.tracers \in Seq(Saved)
      BY <1>2 DEF TypeOK
    <3> QED BY <1>2, <3>1, RanksAreAnInterval
  <2>6. PICK s \in Ranks : o(s) < k /\ k <= o(s) + c(s)
    <3> HIDE DEF n, p
    <3> QED BY <2>5, SlicesApart
  <2>7. o(s) \in Nat /\ c(s) \in Nat
    <3>1. s \in Nat
      BY <2>5
    <3> HIDE DEF n, p
    <3> QED BY <2>5, <3>1, SlicesApart
  <2>8. tr'[s] \in Seq(Tracer)
    BY <1>2 DEF TypeOK
  <2>9. Len(tr'[s]) = c(s) /\ \A i \in DOMAIN tr'[s] : tr'[s][i].id = file.tracers[o(s) + i].id
    BY <1>2, <2>4 DEF HasSlice, Has, Ranks
  <2> HIDE DEF n, p, o, c
  <2> DEFINE i == k - o(s)
  <2>10. i \in 1 .. c(s) /\ o(s) + i = k
    BY <2>5, <2>6, <2>7
  <2>11. i \in DOMAIN tr'[s]
    BY <2>8, <2>9, <2>10
  <2> QED BY <2>9, <2>10, <2>11
<1> QED BY <1>2, <1>3, <1>4, HeldIsKept

(* Compaction drops only flagged tracers, and those are outside. *)
LEMMA PackLosesNone ==
  ASSUME IInv, NEW r \in Ranks, Pack(r)
  PROVE  NoneLost
<1>1. /\ UNCHANGED forest /\ pc[r] = "pack" /\ tr' = [tr EXCEPT ![r] = Compacted(r)] /\ TypeOK
  BY DEF Pack, Go, mesh, IInv
<1>2. tr'[r] = Compacted(r) /\ \A q \in Ranks \ {r} : tr'[q] = tr[q]
  BY <1>1 DEF TypeOK
<1>3. ASSUME NEW i \in DOMAIN tr[r], tr[r][i].pos \in Inside
      PROVE  \E k \in DOMAIN tr'[r] : tr'[r][k].id = tr[r][i].id
  <2>1. tr[r][i].status = "default"
    BY <1>3 DEF IInv, InPlace, Sound
  <2>2. PICK k \in DOMAIN Compacted(r) : Compacted(r)[k] = tr[r][i]
    BY <1>1, <2>1, CompactedIsAPart
  <2> QED BY <1>2, <2>2
<1>4. KeptInside
  <2>1. ASSUME NEW q \in Ranks, NEW i \in DOMAIN tr[q], tr[q][i].pos \in Inside
        PROVE  \E k \in DOMAIN tr'[q] : tr'[q][k].id = tr[q][i].id
    BY <1>2, <1>3, <2>1
  <2> QED BY <2>1 DEF KeptInside
<1>5. ~InFile /\ Ranks' = Ranks
  BY <1>1, NothingReadBy DEF Ranks
<1> QED BY <1>4, <1>5, HeldIsKept

(* A tracer in the domain has an owner, and arrives there. *)
LEMMA MigrateLosesNone ==
  ASSUME IInv, Migrate
  PROVE  NoneLost
<1>1. UNCHANGED forest /\ (\A q \in Ranks : pc[q] = "migrate") /\ TypeOK /\ forest \in Forests
  BY DEF Migrate, Enter, All, mesh, IInv, TypeOK
<1>2. \A q \in Ranks : Leaves(q)
  BY <1>1 DEF IInv, Departing
<1>3. \A q \in Ranks : \E m \in Nat : DOMAIN wire[q] = 1 .. m
  <2>1. \A q \in Ranks : tr[q] \in Seq(Tracer)
    BY <1>1 DEF TypeOK
  <2>2. \A q \in Ranks : DOMAIN wire[q] = DOMAIN tr[q]
    BY <1>2 DEF Leaves
  <2> QED BY <2>1, <2>2
<1>4. wire = [q \in Ranks |-> wire[q]]
  BY <1>1 DEF TypeOK
<1>5. ASSUME NEW q \in Ranks, NEW i \in DOMAIN tr[q], tr[q][i].pos \in Inside
      PROVE  \E s \in Ranks : \E k \in DOMAIN tr'[s] : tr'[s][k].id = tr[q][i].id
  <2> DEFINE s == OwnerIn(forest, tr[q][i].pos)
  <2>1. s \in Ranks
    <3>1. \A x \in Inside : OwnerIn(forest, x) \in Ranks
      BY <1>1, OwnersExist
    <3> QED BY <1>5, <3>1
  <2>2. i \in DOMAIN wire[q] /\ wire[q][i].to = s /\ wire[q][i].body \in Tracer /\ wire[q][i].body.id = tr[q][i].id
    BY <1>2 DEF Leaves
  <2> HIDE DEF s
  <2>3. PICK k \in DOMAIN Exchanged[s] : Exchanged[s][k] = wire[q][i]
    BY <1>1, <1>3, <1>4, <2>1, <2>2, Arrivals
  <2>4. tr'[s] = [m \in DOMAIN Exchanged[s] |->
                    [Exchanged[s][m].body EXCEPT !.owner = s, !.quad = FindOwner(s, Exchanged[s][m].body.pos).quad]]
    BY <2>1 DEF Migrate
  <2>5. k \in DOMAIN tr'[s]
    BY <2>4
  <2>6. tr'[s][k] = [wire[q][i].body EXCEPT !.owner = s, !.quad = FindOwner(s, wire[q][i].body.pos).quad]
    BY <2>3, <2>4
  <2>7. tr'[s][k].id = tr[q][i].id
    BY <2>2, <2>6 DEF Tracer
  <2> QED BY <2>1, <2>5, <2>7
<1>6. KeptInside /\ ~InFile /\ Ranks' = Ranks
  BY <1>1, <1>5 DEF KeptInside, InFile, Ranks
<1> QED BY <1>6, HeldIsKept

LEMMA StandingLosesNone ==
  ASSUME UNCHANGED tr, Ranks' = Ranks, InFile => InFile' /\ file' = file
  PROVE  NoneLost
<1>1. KeptInside
  BY SameIdsKept
<1> QED BY <1>1, HeldIsKept

LEMMA NextLosesNone ==
  ASSUME IInv, IInv', Next, job' = job
  PROVE  NoneLost
<1>1. ASSUME Collective PROVE NoneLost
  <2>1. CASE Migrate
    BY <2>1, MigrateLosesNone
  <2>2. CASE Collective /\ ~Migrate
    <3>1. UNCHANGED <<tr, forest>> /\ \E place : place # "read" /\ \A q \in Ranks : pc[q] = place
      BY <2>2 DEF Collective, Width, Counters, Reduce, Cull, Request, Respond, Drift, Exchange, Enter, All, mesh
    <3>2. ~InFile /\ Ranks' = Ranks
      BY <3>1 DEF InFile, Ranks
    <3> QED BY <3>1, <3>2, StandingLosesNone
  <2> QED BY <1>1, <2>1, <2>2
<1>2. ASSUME NEW r \in Ranks, RankStep(r) PROVE NoneLost
  <2>1. CASE Seed(r)
    <3>1. UNCHANGED forest /\ pc[r] = "seed" /\ TypeOK /\ \E new : tr' = [tr EXCEPT ![r] = new]
      BY <2>1 DEF Seed, Go, IInv
    <3>2. tr[r] = <<>>
      BY <3>1, Where DEF IInv, Seeded
    <3>3. \A q \in Ranks \ {r} : tr'[q] = tr[q]
      BY <3>1 DEF TypeOK
    <3>4. KeptInside /\ ~InFile /\ Ranks' = Ranks
      BY <3>1, <3>2, <3>3, NothingReadBy DEF KeptInside, Ranks
    <3> QED BY <3>4, HeldIsKept
  <2>2. CASE Load(r)
    BY <2>2, LoadLosesNone
  <2>3. CASE Export(r) \/ Refresh(r) \/ Resolve(r) \/ Fulfil(r)
    <3>1. UNCHANGED <<tr, forest>> /\ pc[r] \in {"owners", "refresh", "resolve", "fulfil"}
      BY <2>3 DEF Export, Refresh, Resolve, Fulfil, Go, mesh
    <3>2. ~InFile /\ Ranks' = Ranks
      BY <3>1, NothingReadBy DEF Ranks
    <3> QED BY <3>1, <3>2, StandingLosesNone
  <2>4. CASE Pack(r)
    BY <2>4, PackLosesNone
  <2> QED BY <1>2, <2>1, <2>2, <2>3, <2>4, RewritingLosesNone DEF RankStep
<1>3. CASE Evolve \/ Save \/ Regrid
  <2>1. UNCHANGED tr /\ Ranks' = Ranks /\ \A q \in Ranks : pc[q] = "rest"
    BY <1>3 DEF Evolve, Save, Regrid, AtRest, All, mesh, Ranks
  <2>2. ~InFile
    BY <2>1 DEF InFile
  <2> QED BY <2>1, <2>2, StandingLosesNone
<1>4. CASE Settled
  <2>1. UNCHANGED <<tr, forest, pc, file>>
    BY <1>4 DEF Settled, vars
  <2> QED BY <2>1, StandingLosesNone DEF InFile, Ranks
<1>5. CASE NextJob
  <2>1. job' = job + 1 /\ job \in Nat
    BY <1>5 DEF NextJob, IInv, TypeOK
  <2> QED BY <2>1
<1> QED BY <1>1, <1>2, <1>3, <1>4, <1>5 DEF Next, Work

-----------------------------------------------------------------------------
(* Theorems *)

LEMMA NextKeepsIInv ==
  ASSUME IInv, [Next]_vars
  PROVE  IInv'
<1>1. CASE UNCHANGED vars
  BY <1>1, SettledKeepsIInv
<1>2. CASE Next
  <2>1. Staged'
    BY <1>2, StagedIsKept DEF IInv, TypeOK
  <2>2. CASE Work
    <3>1. CASE Collective
      BY <2>1, <3>1, WidthKeepsIInv, CountersKeepsIInv, ReduceKeepsIInv, MigrateKeepsIInv,
         RequestKeepsIInv, RespondKeepsIInv, DriftKeepsIInv DEF Collective
    <3>2. ASSUME NEW r \in Ranks, RankStep(r) PROVE IInv'
      BY <2>1, <3>2, SeedKeepsIInv, LoadKeepsIInv, ExportKeepsIInv, RefreshKeepsIInv,
         ResolveKeepsIInv, FlagKeepsIInv, UpdateKeepsIInv, PackKeepsIInv, FulfilKeepsIInv,
         PushKeepsIInv, PositionBcsKeepsIInv DEF RankStep
    <3> QED BY <2>2, <3>1, <3>2 DEF Work
  <2>3. CASE Settled
    BY <2>3, SettledKeepsIInv DEF Settled
  <2> QED BY <1>2, <2>1, <2>2, <2>3, EvolveKeepsIInv, RegridKeepsIInv, SaveKeepsIInv, NextJobKeepsIInv DEF Next
<1> QED BY <1>1, <1>2

(* In every state, the calls of the ranks are in step, tracers and messages
   have their types, flagged tracers are outside, and what is on the way is
   what the receiving rank expects. *)
THEOREM TracersInvariant == Spec => []IInv
<1>1. IInv /\ [Next]_vars => IInv'
  BY NextKeepsIInv
<1> QED BY <1>1, InitIInv, PTL DEF Spec

(* For any number of ranks, any forests and any restarts, no tracer is in two
   containers, nor twice in one. *)
THEOREM EachTracerOnce == Spec => []EachOnce
<1>1. IInv => EachOnce
  BY DEF IInv
<1> QED BY <1>1, TracersInvariant, PTL

(* A rank gives no id again: as long as the number of ranks is the same, its
   next number is above all that carry its tag, on whatever rank they are. *)
THEOREM CountersStayAhead == Spec => []CountersAheadOfSameSize
<1>1. IInv => CountersAheadOfSameSize
  <2> SUFFICES ASSUME IInv, ~rescaled, \A r \in Ranks : pc[r] \notin {"width", "seed", "read", "counters"},
                      NEW r \in Ranks, NEW i \in DOMAIN tr[r], tr[r][i].id[1] \in Ranks
               PROVE  tr[r][i].id[2] < counter[tr[r][i].id[1]]
    BY DEF CountersAheadOfSameSize, CountersAhead
  <2>1. ~Restoring
    BY DEF Restoring
  <2>2. CASE phase = "start"
    <3>1. pc[r] = "rest"
      BY <2>2 DEF IInv, Staged, Within
    <3>2. counter[r] = Len(tr[r]) /\ tr[r][i].id = <<r, i - 1>>
      BY <2>2, <3>1 DEF IInv, Seeded
    <3>3. tr[r] \in Seq(Tracer)
      BY DEF IInv, TypeOK
    <3> QED BY <3>2, <3>3
  <2>3. CASE phase # "start"
    BY <2>1, <2>3 DEF IInv, Numbered
  <2> QED BY <2>2, <2>3
<1> QED BY <1>1, TracersInvariant, PTL

(* With a rebalance in every step (rebalance_every = 1), a tracer in the domain
   moves with the fluid at its place, on any forests, in any job that seeded
   its tracers or has had a regrid: its owner's answer is the only one. *)
THEOREM SampledWithEveryRebalance ==
  ASSUME RebalanceEvery = 1
  PROVE  Spec => []SampledAfterRegrid
<1>1. IInv => SampledAfterRegrid
  <2> SUFFICES ASSUME IInv, ~restored, NEW r \in Ranks, pc[r] = "push",
                      NEW i \in DOMAIN tr[r], tr[r][i].pos \in Inside
               PROVE  Fetched(r, i) = {tr[r][i].pos}
    BY DEF SampledAfterRegrid, Sampled
  <2> DEFINE x == tr[r][i].pos
             N == {n \in DOMAIN wire[r] : wire[r][n].body.idx = i}
  <2>1. phase = "advance" /\ forest \in Forests
    BY Where DEF IInv, TypeOK
  <2>2. Received(r) /\ tr[r][i].owner = OwnerIn(forest, x)
    BY <2>1 DEF IInv, Queries, OwnerKnown
  <2>3. \A n \in N : wire[r][n].body.value = {x}
    BY <2>2 DEF Received, Answer, Fresh
  <2>4. tr[r][i].owner \in Ranks
    <3>1. \A y \in Inside : OwnerIn(forest, y) \in Ranks
      BY <2>1, OwnersExist
    <3> QED BY <2>2, <3>1
  <2>5. \E n : n \in N
    BY <2>2, <2>4 DEF Received
  <2>6. Fetched(r, i) = UNION {wire[r][n].body.value : n \in N}
    BY DEF Fetched
  <2> HIDE DEF N, x
  <2>7. {wire[r][n].body.value : n \in N} = {{x}}
    BY <2>3, <2>5
  <2>8. Fetched(r, i) = {x}
    BY <2>6, <2>7
  <2> QED BY <2>8 DEF x
<1> QED BY <1>1, TracersInvariant, PTL

(* A tracer leaves the containers only from outside the domain: not in a
   compaction, not in a migration, not between the file and the ranks. *)
THEOREM NoneLostInside == Spec => OnlyOutsideIsDropped
<1>1. IInv /\ IInv' /\ [Next]_vars => [job' = job => NoneLost]_vars
  BY NextLosesNone
<1>2. IInv /\ [Next]_vars => IInv'
  BY NextKeepsIInv
<1>3. [job' = job => NoneLost]_vars =>
        [job' = job => \A t \in Held : t.pos \in Inside => \E u \in Held' : u.id = t.id]_vars
  BY DEF NoneLost
<1> QED BY <1>1, <1>2, <1>3, TracersInvariant, PTL DEF Spec, OnlyOutsideIsDropped

=============================================================================
