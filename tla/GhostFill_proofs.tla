-------------------------- MODULE GhostFill_proofs --------------------------
(***************************************************************************)
(* A graph that orders its reads and conflicts (Ordered) fills the ghosts  *)
(* safely in every order its tasks can take, on any mesh and any number of *)
(* ranks. Safe is the inductive invariant: what has finished is closed     *)
(* under what it waited for, and nothing was written from old data.        *)
(***************************************************************************)
EXTENDS GhostFill, GhostCells, FiniteSetTheorems, TLAPS

Closed(order, D) == \A u \in D : order[u] \subseteq D
Safe ==
  /\ mesh \in Meshes
  /\ done \subseteq Tasks[mesh]
  /\ Closed(WaitsFor[mesh], done)
  /\ stale = {}
  /\ waiting \subseteq Ranks(mesh)
  /\ \A r \in waiting : \A t \in Tasks[mesh] : t.rank = r => t \in done

LEMMA WidenedIsClosed ==
  ASSUME NEW order, NEW D \in SUBSET DOMAIN order, Closed(order, D)
  PROVE  /\ DOMAIN Widened(order) = DOMAIN order
         /\ Closed(Widened(order), D)
         /\ \A t \in DOMAIN order : order[t] \subseteq D => Widened(order)[t] \subseteq D
BY DEF Closed, Widened

LEMMA OrdersOfTasks ==
  ASSUME NEW m \in Meshes
  PROVE  /\ DOMAIN WaitsFor[m] = Tasks[m]
         /\ TwoBack[m] = Widened(WaitsFor[m])
         /\ FourBack[m] = Widened(TwoBack[m])
         /\ Upstream[m] = Widened(FourBack[m])
<1>1. DOMAIN Deps[m] = Tasks[m]
  <2>1. CASE m.staggered
    BY <2>1 DEF Deps, StagDepsIn, Tasks
  <2>2. CASE ~m.staggered
    BY <2>2 DEF Deps, DepsIn, Tasks
  <2> QED
    BY <2>1, <2>2
<1> QED
  BY <1>1 DEF WaitsFor, TwoBack, FourBack, Upstream

(* What is upstream of a task whose dependencies have finished has finished. *)
LEMMA UpstreamIsDone ==
  ASSUME Safe, NEW t \in Tasks[mesh], Ready(t)
  PROVE  Upstream[mesh][t] \subseteq done
<1> USE DEF Safe
<1>1. WaitsFor[mesh][t] \subseteq done
  BY DEF Ready
<1>o. /\ DOMAIN WaitsFor[mesh] = Tasks[mesh]
      /\ TwoBack[mesh] = Widened(WaitsFor[mesh])
      /\ FourBack[mesh] = Widened(TwoBack[mesh])
      /\ Upstream[mesh] = Widened(FourBack[mesh])
  BY OrdersOfTasks
<1> HIDE DEF Safe
<1>d. done \in SUBSET DOMAIN WaitsFor[mesh] /\ Closed(WaitsFor[mesh], done)
  BY <1>o DEF Safe
<1>2. /\ DOMAIN TwoBack[mesh] = Tasks[mesh] /\ Closed(TwoBack[mesh], done)
      /\ TwoBack[mesh][t] \subseteq done
  BY <1>1, <1>o, <1>d, WidenedIsClosed
<1>3. /\ DOMAIN FourBack[mesh] = Tasks[mesh] /\ Closed(FourBack[mesh], done)
      /\ FourBack[mesh][t] \subseteq done
  BY <1>2, <1>o, <1>d, WidenedIsClosed
<1> QED
  BY <1>3, <1>o, <1>d, WidenedIsClosed

LEMMA ReadyIsFresh ==
  ASSUME Safe, Ordered[mesh], NEW t \in Tasks[mesh], Ready(t), t.op = "recv" => SendOf(t) \in done
  PROVE  ReadsFresh(t)
<1>1. ReadsOrdered(mesh)
  BY DEF Ordered, Safe
<1>2. Upstream[mesh][t] \subseteq done
  BY UpstreamIsDone
<1>3. ASSUME NEW W \in Sources[mesh][t] PROVE W \cap done # {}
  BY <1>1, <1>2, <1>3 DEF ReadsOrdered
<1> QED
  BY <1>3 DEF ReadsFresh, Safe

(* Effect of a task that may run. *)
LEMMA EffectIsSafe ==
  ASSUME Safe, Ordered[mesh], NEW t \in Tasks[mesh], Ready(t), t.op = "recv" => SendOf(t) \in done, Effect(t)
  PROVE  Safe'
<1>1. ReadsFresh(t)
  BY ReadyIsFresh
<1>2. stale' = {}
  BY <1>1 DEF Effect, Safe
<1>3. Closed(WaitsFor[mesh], done \cup {t})
  BY DEF Safe, Closed, Ready
<1>4. /\ done' = done \cup {t} /\ mesh' = mesh /\ waiting' = waiting
  BY DEF Effect
<1> QED
  BY <1>2, <1>3, <1>4 DEF Safe

LEMMA StepIsSafe ==
  ASSUME \A m \in Meshes : Ordered[m], Safe, [Next]_vars
  PROVE  Safe'
<1>1. Ordered[mesh]
  BY DEF Safe
<1>2. ASSUME NEW r \in Ranks(mesh), Work(r) PROVE Safe'
  <2>1. PICK t \in Tasks[mesh] : Ready(t) /\ (Launch(t) \/ Send(t) \/ Recv(t))
    BY <1>2 DEF Work
  <2>2. Effect(t)
    BY <2>1 DEF Launch, Send, Recv
  <2>3. t.op = "recv" => SendOf(t) \in done
    BY <2>1 DEF Launch, Send, Recv, Kernel
  <2> QED
    BY <1>1, <2>1, <2>2, <2>3, EffectIsSafe
<1>3. ASSUME NEW r \in Ranks(mesh), Leave(r) PROVE Safe'
  BY <1>3 DEF Leave, Safe
<1>4. CASE NextSweep
  BY <1>4 DEF NextSweep, Safe, Closed
<1>5. CASE UNCHANGED vars
  BY <1>5 DEF vars, Safe
<1> QED
  BY <1>2, <1>3, <1>4, <1>5 DEF Next

(* Safe is invariant: however a rank's executor and the devices order the
   tasks of an ordered graph, nothing is written from old data. *)
THEOREM Inductive == (\A m \in Meshes : Ordered[m]) => (Spec => []Safe)
<1> SUFFICES ASSUME \A m \in Meshes : Ordered[m] PROVE Spec => []Safe
  OBVIOUS
<1>1. Init => Safe
  BY DEF Init, Safe, Closed
<1>2. Safe /\ [Next]_vars => Safe'
  BY StepIsSafe
<1> QED
  BY <1>1, <1>2, PTL DEF Spec

(* Every kernel that may start reads cells brought up to date in this sweep. *)
THEOREM ReadsInOrder == (\A m \in Meshes : Ordered[m]) => (Spec => []ReadyReads)
<1> SUFFICES ASSUME \A m \in Meshes : Ordered[m] PROVE Spec => []ReadyReads
  OBVIOUS
<1>1. Safe => ReadyReads
  BY ReadyIsFresh DEF ReadyReads, Runnable, Safe
<1> QED
  BY <1>1, Inductive, PTL

(* No two tasks of a rank that may run at once touch the same cells. *)
THEOREM NoRaces == (\A m \in Meshes : Ordered[m]) => (Spec => []NoRace)
<1> SUFFICES ASSUME \A m \in Meshes : Ordered[m] PROVE Spec => []NoRace
  OBVIOUS
<1>1. ASSUME Safe PROVE NoRace
  <2>1. SUFFICES ASSUME NEW t \in Runnable, NEW u \in Runnable, u \in Conflicts[mesh][t] PROVE FALSE
    BY DEF NoRace
  <2>2. /\ t \in Tasks[mesh] /\ Ready(t) /\ t \notin done
        /\ u \in Tasks[mesh] /\ Ready(u) /\ u \notin done
    BY DEF Runnable
  <2>3. u \in Upstream[mesh][t] \/ t \in Upstream[mesh][u]
    BY <1>1, <2>1, <2>2 DEF Ordered, ConflictsOrdered, Safe
  <2> QED
    BY <1>1, <2>2, <2>3, UpstreamIsDone
<1> QED
  BY <1>1, Inductive, PTL

(* A rank at the barrier has every ghost, from this sweep's data. *)
THEOREM GhostsFilled == (\A m \in Meshes : Ordered[m]) => (Spec => []FilledFresh)
<1> SUFFICES ASSUME \A m \in Meshes : Ordered[m] PROVE Spec => []FilledFresh
  OBVIOUS
<1>1. ASSUME Safe PROVE FilledFresh
  <2>1. SUFFICES ASSUME NEW r \in waiting, NEW W \in GhostSources[mesh][r] PROVE W \cap done # {}
    BY <1>1 DEF FilledFresh, Safe
  <2>2. PICK t \in W \cap Tasks[mesh] : t.rank = r
    BY <1>1 DEF Ordered, GhostsOwned, Safe
  <2> QED
    BY <1>1, <2>2 DEF Safe
<1> QED
  BY <1>1, Inductive, PTL
-----------------------------------------------------------------------------
(***************************************************************************)
(* The cells of one quadrant (GhostCells): on every mesh, with every number *)
(* of cells and ghosts. What a kernel writes is in place (PlaceInv), since *)
(* the two sides of a copy agree by the component of its element (Offset), *)
(* and interpolation leaves the fine faces alone (KernelsInv), since two   *)
(* different elements differ along an axis that keeps their cells apart,   *)
(* or along the one where have_fine_data speaks of the other.              *)
(***************************************************************************)

(* A coarse buffer has half the cells of a view, and no fewer than ghosts. *)
LEMMA Sizes == /\ nx \in Nat /\ ngz \in Nat /\ Half \in Nat /\ ngz \div 2 \in Nat
               /\ ngz = 2 * (ngz \div 2) /\ ngz \div 2 >= 1
               /\ nx = 2 * Half /\ Half >= ngz /\ ngz >= 2
BY CellsAssumption DEF Half

(* The shift of a staggering, and what it adds to the loops. *)
LEMMA Shifts == ASSUME NEW g \in Staggerings, NEW i \in Axis
  PROVE /\ Shift(g, i) \in {0, 1} /\ LoopOff(g) \in {0, 1} /\ Shift(g, i) <= LoopOff(g)
        /\ \A k : GzOff(g, k) \in {0, 1} /\ GzOff(g, k) = (IF k = FACE THEN 0 ELSE LoopOff(g))
BY DEF Shift, LoopOff, GzOff, Staggerings, Axis, Center

(* A slot holds the index Phys names, if the loop of the sender gets there   *)
(* and its interior does.                                                    *)
LEMMA Filled ==
  ASSUME NEW k, NEW c, NEW n, NEW g, NEW i, NEW remote, NEW x,
         Phys(k, c, n, Shift(g, i), x) \in Interior(n, Shift(g, i)),
         Phys(k, c, n, Shift(g, i), x) \in PhysRange(k, c, n, Shift(g, i)),
         x \in Iter(k, c, n, g)
  PROVE  SlotIndex(k, c, n, g, i, remote, x) = Phys(k, c, n, Shift(g, i), x)
BY DEF SlotIndex

(* How far apart two arrays begin, by the component of the element. *)
Offset(c, up, down, level) == CASE c = 1 -> up [] c = -1 -> -down [] OTHER -> level
(* Half a quadrant further, or back. *)
Ahead01(b) == IF b = 1 THEN Half ELSE 0
Back(b) == IF b = 1 THEN -Half ELSE 0
(* copy_op: what a neighbour of the same spacing sends is what the ghost     *)
(* is, counted from where its array begins.                                  *)
LEMMA SamePlaces ==
  ASSUME NEW k, NEW c \in Sign, NEW n \in Nat, n >= ngz, NEW g \in Staggerings, NEW i \in Axis,
         NEW remote, NEW p \in Same(k, c, n, g, i, remote)
  PROVE  p[1] \in Nat /\ p[2] \in Nat /\ p[1] = p[2] + Offset(c, n, n, 0)
<1> DEFINE s == Shift(g, i)
           o == LoopOff(g)
           z == GzOff(g, k)
<1>1. PICK x \in Iter(k, c, n, g) : /\ Ghost(k, c, n, s, x) \in GhostRange(k, c, n, s)
                                    /\ p = <<Ghost(k, c, n, s, x), SlotIndex(k, -c, n, g, i, remote, x)>>
  BY DEF Same
<1>2. s \in {0, 1} /\ o \in {0, 1} /\ s <= o /\ z = (IF k = FACE THEN 0 ELSE o) /\ z \in {0, 1}
  BY Shifts
<1>3. x \in Nat /\ x <= (IF c = 0 THEN n + o - 1 ELSE ngz + z - 1)
  BY <1>1, <1>2, Sizes DEF Iter, Sign
<1>n. /\ c = 1 => -c = -1
      /\ c = -1 => -c = 1
      /\ c = 0 => -c = 0
  OBVIOUS
<1>4. /\ Phys(k, -c, n, s, x) \in Interior(n, s) /\ Phys(k, -c, n, s, x) \in PhysRange(k, -c, n, s)
      /\ Ghost(k, c, n, s, x) = Phys(k, -c, n, s, x) + Offset(c, n, n, 0)
      /\ Ghost(k, c, n, s, x) \in Nat /\ Phys(k, -c, n, s, x) \in Nat
  <2> HIDE DEF s, o, z
  <2> USE <1>1, <1>2, <1>3, Sizes DEF Phys, Ghost, GhostRange, PhysRange, Interior, Offset
  <2>1. CASE c = 0
    BY <2>1, <1>n
  <2>2. CASE c = 1 /\ k = FACE
    BY <2>2, <1>n
  <2>3. CASE c = -1 /\ k = FACE
    BY <2>3, <1>n
  <2>4. CASE c = 1 /\ k # FACE
    BY <2>4, <1>n
  <2>5. CASE c = -1 /\ k # FACE
    BY <2>5, <1>n
  <2> QED BY <2>1, <2>2, <2>3, <2>4, <2>5 DEF Sign
<1>5. x \in Iter(k, -c, n, g)
  BY <1>1 DEF Iter, Sign
<1> QED BY <1>1, <1>4, <1>5, Filled

(* copy_from_cbuf_op: what the fine neighbour in half b sends of its coarse  *)
(* buffer.                                                                   *)
LEMMA FinerPlaces ==
  ASSUME NEW k, NEW c \in Sign, NEW g \in Staggerings, NEW i \in Axis, NEW b \in {0, 1},
         NEW remote, NEW p \in FinerPairs(k, c, g, i, b, remote)
  PROVE  p[1] \in Nat /\ p[2] \in Nat /\ p[1] = p[2] + Offset(c, nx, Half, Ahead01(b))
<1> DEFINE s == Shift(g, i)
           o == LoopOff(g)
           z == GzOff(g, k)
           d(x) == FinerDest(k, c, g, i, b, x)
<1>1. PICK x \in Iter(k, c, Half, g) : /\ d(x) \in FinerRange(k, c, g, i, b, remote)
                                       /\ p = <<d(x), SlotIndex(k, -c, Half, g, i, remote, x)>>
  BY DEF FinerPairs
<1>2. s \in {0, 1} /\ o \in {0, 1} /\ s <= o /\ z = (IF k = FACE THEN 0 ELSE o) /\ z \in {0, 1}
  BY Shifts
<1>3. x \in Nat /\ x <= (IF c = 0 THEN Half + o - 1 ELSE ngz + z - 1)
  BY <1>1, <1>2, Sizes DEF Iter, Sign
<1>d. /\ d(x) = Ghost(k, c, nx, s, IF c = 0 THEN (IF b = 1 THEN x + Half ELSE x) ELSE x)
      /\ c # 0 => d(x) \in GhostRange(k, c, nx, s)
      /\ c = 0 => d(x) \in Int /\ d(x) <= (IF b = 1 THEN ngz + nx + s - 1 ELSE ngz + Half + s - 1)
  <2>1. d(x) = Ghost(k, c, nx, s, IF c = 0 THEN (IF b = 1 THEN x + Half ELSE x) ELSE x)
    BY <1>3, Sizes DEF FinerDest
  <2>2. c # 0 => d(x) \in GhostRange(k, c, nx, s)
    BY <1>1 DEF FinerRange
  <2> HIDE DEF d, s
  <2>3. c = 0 => d(x) \in Int /\ d(x) <= (IF b = 1 THEN ngz + nx + s - 1 ELSE ngz + Half + s - 1)
    BY <1>1, <1>2, Sizes DEF FinerRange, s
  <2> QED BY <2>1, <2>2, <2>3
<1>n. /\ c = 1 => -c = -1
      /\ c = -1 => -c = 1
      /\ c = 0 => -c = 0
  OBVIOUS
<1>4. /\ Phys(k, -c, Half, s, x) \in Interior(Half, s) /\ Phys(k, -c, Half, s, x) \in PhysRange(k, -c, Half, s)
      /\ d(x) = Phys(k, -c, Half, s, x) + Offset(c, nx, Half, Ahead01(b))
      /\ d(x) \in Nat /\ Phys(k, -c, Half, s, x) \in Nat
  <2> HIDE DEF s, o, z, d
  <2> USE <1>d, <1>2, <1>3, Sizes DEF Phys, Ghost, GhostRange, PhysRange, Interior, Offset, Ahead01, Back
  <2>1. CASE c = 0
    BY <2>1, <1>n
  <2>2. CASE c = 1 /\ k = FACE
    BY <2>2, <1>n
  <2>3. CASE c = -1 /\ k = FACE
    BY <2>3, <1>n
  <2>4. CASE c = 1 /\ k # FACE
    BY <2>4, <1>n
  <2>5. CASE c = -1 /\ k # FACE
    BY <2>5, <1>n
  <2> QED BY <2>1, <2>2, <2>3, <2>4, <2>5 DEF Sign
<1>5. x \in Iter(k, -c, Half, g)
  BY <1>1 DEF Iter, Sign
<1> QED BY <1>1, <1>4, <1>5, Filled

(* copy_to_cbuf_op: what the coarse neighbour sends to a fine quadrant       *)
(* against its half b.                                                       *)
LEMMA CoarserPlaces ==
  ASSUME NEW k, NEW c \in Sign, NEW g \in Staggerings, NEW i \in Axis, NEW b \in {0, 1},
         NEW remote, NEW p \in CoarserPairs(k, c, g, i, b, remote)
  PROVE  p[1] \in Nat /\ p[2] \in Nat /\ p[1] = p[2] + Offset(c, Half, nx, Back(b))
<1> DEFINE s == Shift(g, i)
           o == LoopOff(g)
           z == GzOff(g, k)
           d(x) == CoarserDest(k, c, g, i, b, x)
           y(x) == CoarserSlot(c, b, x)
<1>1. PICK x \in CoarserIter(k, c, g) : /\ d(x) \in CoarserRange(k, c, g, i, b)
                                        /\ p = <<d(x), SlotIndex(k, -c, nx, g, i, remote, y(x))>>
  BY DEF CoarserPairs
<1>2. s \in {0, 1} /\ o \in {0, 1} /\ s <= o /\ z = (IF k = FACE THEN 0 ELSE o) /\ z \in {0, 1}
  BY Shifts
<1>3. x \in Nat /\ x <= (IF c = 0 THEN Half + o + ngz + z - 1 ELSE ngz + z - 1)
  BY <1>1, <1>2, Sizes DEF CoarserIter, Iter, Sign
<1>d. /\ d(x) = Ghost(k, c, Half, s, IF c = 0 THEN (IF b = 1 THEN x - ngz ELSE x) ELSE x)
      /\ c # 0 => d(x) \in GhostRange(k, c, Half, s)
      /\ c = 0 => d(x) \in Int /\ d(x) <= (IF b = 1 THEN Half + ngz + s - 1 ELSE Half + 2 * ngz + s - 1)
      /\ y(x) = IF c = 0 THEN (IF b = 1 THEN x + (Half - ngz) ELSE x) ELSE x
  <2>1. d(x) = Ghost(k, c, Half, s, IF c = 0 THEN (IF b = 1 THEN x - ngz ELSE x) ELSE x)
    BY <1>3, Sizes DEF CoarserDest
  <2>2. c # 0 => d(x) \in GhostRange(k, c, Half, s)
    BY <1>1 DEF CoarserRange
  <2>4. y(x) = IF c = 0 THEN (IF b = 1 THEN x + (Half - ngz) ELSE x) ELSE x
    BY <1>3, Sizes DEF CoarserSlot
  <2> HIDE DEF d, s
  <2>3. c = 0 => d(x) \in Int /\ d(x) <= (IF b = 1 THEN Half + ngz + s - 1 ELSE Half + 2 * ngz + s - 1)
    BY <1>1, <1>2, Sizes DEF CoarserRange, s
  <2> QED BY <2>1, <2>2, <2>3, <2>4
<1>n. /\ c = 1 => -c = -1
      /\ c = -1 => -c = 1
      /\ c = 0 => -c = 0
  OBVIOUS
<1>4. /\ Phys(k, -c, nx, s, y(x)) \in Interior(nx, s) /\ Phys(k, -c, nx, s, y(x)) \in PhysRange(k, -c, nx, s)
      /\ d(x) = Phys(k, -c, nx, s, y(x)) + Offset(c, Half, nx, Back(b))
      /\ d(x) \in Nat /\ Phys(k, -c, nx, s, y(x)) \in Nat
      /\ y(x) \in Nat /\ y(x) <= (IF c = 0 THEN nx + o - 1 ELSE ngz + z - 1)
  <2> HIDE DEF s, o, z, d, y
  <2> USE <1>d, <1>2, <1>3, Sizes DEF Phys, Ghost, GhostRange, PhysRange, Interior, Offset, Ahead01, Back
  <2>1. CASE c = 0
    BY <2>1, <1>n
  <2>2. CASE c = 1 /\ k = FACE
    BY <2>2, <1>n
  <2>3. CASE c = -1 /\ k = FACE
    BY <2>3, <1>n
  <2>4. CASE c = 1 /\ k # FACE
    BY <2>4, <1>n
  <2>5. CASE c = -1 /\ k # FACE
    BY <2>5, <1>n
  <2> QED BY <2>1, <2>2, <2>3, <2>4, <2>5 DEF Sign
<1>5. y(x) \in Iter(k, -c, nx, g)
  <2> HIDE DEF y
  <2> QED BY <1>4, <1>2, Sizes DEF Iter, Sign
<1> QED BY <1>1, <1>4, <1>5, Filled
-----------------------------------------------------------------------------
(* The mesh *)

(* Layer's parts, by what they are computed from. *)
LEMMA LayerOf ==
  ASSUME NEW m \in Meshes
  PROVE  LET g == Layer[m]
             w == WithNeighbours(Blank(m))
         IN  /\ g.quads = m.quads /\ w.quads = m.quads
             /\ g.neighbours = [q \in Quads(m) |-> [d \in Dir |-> {CoveredBy(m)[Wrap(m, c)] : c \in Across(m, q, d)}]]
             /\ w.neighbours = g.neighbours
             /\ g.class = [q \in Quads(m) |-> [d \in Dir |-> ClassOf(w, q, d)]]
<1> DEFINE w == WithNeighbours(Blank(m))
<1>1. /\ Blank(m).quads = m.quads /\ Blank(m).len = m.len /\ Blank(m).covered = CoveredBy(m)
      /\ DOMAIN Blank(m) = {"len", "quads", "covered", "phys", "neighbours", "class", "cbuf", "virtual", "ops", "tasks"}
  BY DEF Blank
<1>2. /\ w.quads = m.quads
      /\ w.neighbours = [q \in Quads(m) |-> [d \in Dir |-> {CoveredBy(m)[Wrap(m, c)] : c \in Across(m, q, d)}]]
      /\ DOMAIN w = DOMAIN Blank(m)
  BY <1>1 DEF WithNeighbours, Over, Wrap, Across, Slab, Quads
<1>3. /\ WithClasses(w).quads = m.quads
      /\ WithClasses(w).neighbours = w.neighbours
      /\ WithClasses(w).class = [q \in Quads(m) |-> [d \in Dir |-> ClassOf(w, q, d)]]
  <2> HIDE DEF w
  <2> QED BY <1>1, <1>2 DEF WithClasses, Quads
<1>4. Layer[m] = WithTags(WithClasses(w))
  BY DEF Layer
<1> QED
  <2> HIDE DEF w
  <2>1. Layer[m].quads = m.quads /\ Layer[m].neighbours = w.neighbours /\ Layer[m].class = WithClasses(w).class
    BY <1>3, <1>4 DEF WithTags
  <2> QED BY <1>2, <1>3, <2>1 DEF w

(* The neighbours across an element. *)
LEMMA NeighboursAre ==
  ASSUME NEW m \in Meshes, NEW q \in Quads(m), NEW d \in Dir
  PROVE  Layer[m].neighbours[q][d] = {CoveredBy(m)[Wrap(m, c)] : c \in Across(m, q, d)}
<1>1. Layer[m].neighbours = [p \in Quads(m) |-> [e \in Dir |-> {CoveredBy(m)[Wrap(m, c)] : c \in Across(m, p, e)}]]
  BY LayerOf
<1> QED BY <1>1

(* The components of an element. *)
LEMMA Components == \A d \in Dir : \A i \in Axis : d[i] \in Sign
BY DEF Dir, Place, Axis

(* Of every cell one quadrant. *)
LEMMA Covering ==
  ASSUME NEW m \in Meshes, NEW c \in CellsOf(m)
  PROVE  /\ CoveredBy(m)[c] \in Quads(m) /\ Covers(m, CoveredBy(m)[c], c)
         /\ \A n \in Quads(m) : Covers(m, n, c) => n = CoveredBy(m)[c]
<1>1. \E q \in Quads(m) : Covers(m, q, c) /\ \A n \in Quads(m) : Covers(m, n, c) => n = q
  BY MeshAssumption
<1>2. CoveredBy(m)[c] = CHOOSE q \in Quads(m) : Covers(m, q, c)
  BY DEF CoveredBy
<1> QED BY <1>1, <1>2

(* Positions and sizes, axis by axis. *)
LEMMA Boxes ==
  ASSUME NEW m \in Meshes, NEW q \in Quads(m), NEW i \in Axis
  PROVE  /\ m.len[i] \in Nat /\ m.len[i] >= 1
         /\ m.quads[q].size \in {1, 2} /\ m.quads[q].pos[i] \in Nat
         /\ m.quads[q].size = 2 => m.quads[q].pos[i] % 2 = 0
         /\ m.quads[q].pos[i] + m.quads[q].size <= m.len[i]
<1>1. /\ m.len[i] \in Nat \ {0}
      /\ LET a == m.quads[q].pos[i]  s == m.quads[q].size IN
         s \in {1, 2} /\ a \in Nat /\ a % s = 0 /\ a + s <= m.len[i]
  BY MeshAssumption
<1> QED BY <1>1

(* The cells across an element, and where they are once wrapped. *)
LEMMA Wrapped ==
  ASSUME NEW m \in Meshes, NEW q \in Quads(m), NEW d \in Dir, NEW c \in Across(m, q, d)
  PROVE  /\ Wrap(m, c) \in CellsOf(m)
         /\ \A i \in Axis : /\ Wrap(m, c)[i] = c[i] % m.len[i]
                            /\ c[i] \in Slab(m, q, d, i)
                            /\ d[i] = 0 => /\ Wrap(m, c)[i] = c[i] /\ c[i] \in Nat
                                           /\ m.quads[q].pos[i] <= c[i]
                                           /\ c[i] < m.quads[q].pos[i] + m.quads[q].size
<1>1. \A i \in Axis : c[i] \in Slab(m, q, d, i)
  BY DEF Across, Axis
<1>2. ASSUME NEW i \in Axis
      PROVE  /\ c[i] \in Int /\ c[i] % m.len[i] \in 0 .. m.len[i] - 1
             /\ d[i] = 0 => /\ c[i] % m.len[i] = c[i] /\ c[i] \in Nat
                            /\ m.quads[q].pos[i] <= c[i]
                            /\ c[i] < m.quads[q].pos[i] + m.quads[q].size
  <2>0. d[i] \in {-1, 0, 1} /\ m.quads[q].size \in Nat /\ m.quads[q].pos[i] \in Nat /\ c[i] \in Slab(m, q, d, i)
    BY <1>1, Boxes, Components DEF Sign
  <2>1. c[i] \in Int /\ (d[i] = 0 => m.quads[q].pos[i] <= c[i] /\ c[i] < m.quads[q].pos[i] + m.quads[q].size)
    <3>1. CASE d[i] = 0
      BY <2>0, <3>1 DEF Slab
    <3>2. CASE d[i] = 1
      BY <2>0, <3>2 DEF Slab
    <3>3. CASE d[i] = -1
      BY <2>0, <3>3 DEF Slab
    <3> QED BY <2>0, <3>1, <3>2, <3>3
  <2> DEFINE x == c[i]
             l == m.len[i]
  <2>2. x \in Int /\ l \in Nat /\ l >= 1 /\ (d[i] = 0 => 0 <= x /\ x < l)
    BY <2>1, Boxes
  <2> HIDE DEF x, l
  <2>3. x % l \in 0 .. l - 1 /\ (0 <= x /\ x < l => x % l = x)
    BY <2>2
  <2> QED BY <2>1, <2>2, <2>3 DEF x, l
<1>3. Wrap(m, c) = <<c[1] % m.len[1], c[2] % m.len[2], c[3] % m.len[3]>>
  BY DEF Wrap
<1>4. \A i \in Axis : Wrap(m, c)[i] = c[i] % m.len[i]
  BY <1>3 DEF Axis
<1> QED BY <1>1, <1>2, <1>3, <1>4 DEF CellsOf, Axis

(* A neighbour across d covers a cell there. *)
LEMMA NeighbourCovers ==
  ASSUME NEW m \in Meshes, NEW q \in Quads(m), NEW d \in Dir, NEW n \in Layer[m].neighbours[q][d]
  PROVE  n \in Quads(m) /\ \E c \in Across(m, q, d) : Covers(m, n, Wrap(m, c)) /\ n = CoveredBy(m)[Wrap(m, c)]
BY NeighboursAre, Wrapped, Covering

(* A quadrant of size 2 that covers one cell across an element of another of *)
(* size 2 covers them all.                                                   *)
LEMMA LargeCovers ==
  ASSUME NEW m \in Meshes, NEW q \in Quads(m), NEW d \in Dir, NEW n \in Layer[m].neighbours[q][d],
         m.quads[q].size = 2, m.quads[n].size = 2
  PROVE  Layer[m].neighbours[q][d] = {n} /\ \A i \in Axis : d[i] = 0 => m.quads[n].pos[i] = m.quads[q].pos[i]
<1>1. PICK c \in Across(m, q, d) : Covers(m, n, Wrap(m, c))
  BY NeighbourCovers
<1>0. n \in Quads(m)
  BY NeighbourCovers
<1>2. ASSUME NEW i \in Axis, d[i] = 0 PROVE m.quads[n].pos[i] = m.quads[q].pos[i]
  <2> DEFINE a == m.quads[n].pos[i]
             b == m.quads[q].pos[i]
             x == c[i]
  <2>1. a \in Nat /\ b \in Nat /\ a % 2 = 0 /\ b % 2 = 0
    BY <1>0, Boxes
  <2>2. x \in Nat /\ a <= x /\ x < a + 2 /\ b <= x /\ x < b + 2
    BY <1>1, <1>2, Wrapped DEF Covers
  <2> HIDE DEF a, b, x
  <2>3. a = b
    BY <2>1, <2>2
  <2> QED BY <2>3 DEF a, b
<1>3. ASSUME NEW e \in Across(m, q, d) PROVE CoveredBy(m)[Wrap(m, e)] = n
  <2>1. ASSUME NEW i \in Axis
        PROVE  m.quads[n].pos[i] <= Wrap(m, e)[i] /\ Wrap(m, e)[i] < m.quads[n].pos[i] + m.quads[n].size
    <3>1. CASE d[i] = 0
      BY <1>2, <3>1, Wrapped, Boxes
    <3>2. CASE d[i] # 0
      <4>1. e[i] = c[i]
        <5>1. d[i] \in {-1, 1}
          BY <3>2 DEF Dir, Place, Sign, Axis
        <5>2. e[i] \in Slab(m, q, d, i) /\ c[i] \in Slab(m, q, d, i)
          BY Wrapped
        <5> QED BY <5>1, <5>2 DEF Slab
      <4>2. Wrap(m, e)[i] = Wrap(m, c)[i]
        BY <4>1, Wrapped
      <4> QED BY <1>1, <4>2 DEF Covers
    <3> QED BY <3>1, <3>2
  <2>2. Covers(m, n, Wrap(m, e))
    BY <2>1 DEF Covers
  <2> QED BY <1>0, <2>2, Wrapped, Covering
<1>4. Layer[m].neighbours[q][d] = {CoveredBy(m)[Wrap(m, e)] : e \in Across(m, q, d)}
  BY NeighboursAre
<1> QED BY <1>2, <1>3, <1>4

(* What the class of an element says of the neighbours' sizes. *)
LEMMA ClassesAre ==
  ASSUME NEW m \in Meshes, NEW q \in Quads(m), NEW d \in Dir
  PROVE  LET k == Layer[m].class[q][d]
             N == Layer[m].neighbours[q][d]
         IN  /\ k \in {"virtual", "phys", "coarser", "finer", "same"}
             /\ k = "same" => \A n \in N : m.quads[n].size = m.quads[q].size
             /\ k = "coarser" => \E n \in N : m.quads[n].size > m.quads[q].size
             /\ k = "finer" => \E n \in N : m.quads[q].size > m.quads[n].size
<1> DEFINE w == WithNeighbours(Blank(m))
<1>1. /\ w.quads = m.quads /\ w.neighbours = Layer[m].neighbours
      /\ Layer[m].class = [p \in Quads(m) |-> [e \in Dir |-> ClassOf(w, p, e)]]
  BY LayerOf
<1>2. Layer[m].class[q][d] = ClassOf(w, q, d)
  BY <1>1
<1> HIDE DEF w
<1>3. \A n \in Layer[m].neighbours[q][d] : n \in Quads(m) /\ m.quads[n].size \in {1, 2} /\ m.quads[q].size \in {1, 2}
  BY NeighbourCovers, Boxes DEF Axis
<1>4. \A n \in Layer[m].neighbours[q][d] :
        /\ m.quads[n].size > m.quads[q].size \/ m.quads[q].size > m.quads[n].size
           \/ m.quads[n].size = m.quads[q].size
  BY <1>3
<1> QED BY <1>1, <1>2, <1>4 DEF ClassOf, Coarser

(* A neighbour of the same size is level with the quadrant. *)
LEMMA SameNeighbours ==
  ASSUME NEW m \in Meshes, NEW q \in Quads(m), NEW d \in Dir, Layer[m].class[q][d] = "same",
         NEW n \in Layer[m].neighbours[q][d]
  PROVE  /\ n \in Quads(m) /\ m.quads[n].size = m.quads[q].size
         /\ \A i \in Axis : d[i] = 0 => m.quads[n].pos[i] = m.quads[q].pos[i]
<1>1. n \in Quads(m) /\ m.quads[n].size = m.quads[q].size
  BY ClassesAre, NeighbourCovers
<1>2. CASE m.quads[q].size = 2
  BY <1>1, <1>2, LargeCovers
<1>3. CASE m.quads[q].size = 1
  <2>1. PICK c \in Across(m, q, d) : Covers(m, n, Wrap(m, c))
    BY NeighbourCovers
  <2>2. ASSUME NEW i \in Axis, d[i] = 0 PROVE m.quads[n].pos[i] = m.quads[q].pos[i]
    <3>1. /\ m.quads[n].pos[i] <= c[i] /\ c[i] < m.quads[n].pos[i] + 1
          /\ m.quads[q].pos[i] <= c[i] /\ c[i] < m.quads[q].pos[i] + 1 /\ c[i] \in Nat
      BY <1>1, <1>3, <2>1, <2>2, Wrapped DEF Covers
    <3> QED BY <1>1, <3>1, Boxes
  <2> QED BY <1>1, <2>2
<1>4. m.quads[q].size \in {1, 2}
  BY Boxes DEF Axis
<1> QED BY <1>2, <1>3, <1>4

(* A finer one is in the half of it that Half01 names. *)
LEMMA FinerNeighbours ==
  ASSUME NEW m \in Meshes, NEW q \in Quads(m), NEW d \in Dir, Layer[m].class[q][d] = "finer",
         NEW n \in Layer[m].neighbours[q][d]
  PROVE  /\ n \in Quads(m) /\ m.quads[q].size = 2 /\ m.quads[n].size = 1
         /\ \A i \in Axis : d[i] = 0 => /\ Half01(m, n, q, i) \in {0, 1}
                                        /\ m.quads[n].pos[i] - m.quads[q].pos[i] = Half01(m, n, q, i)
<1>1. n \in Quads(m)
  BY NeighbourCovers
<1>2. PICK f \in Layer[m].neighbours[q][d] : m.quads[q].size > m.quads[f].size
  BY ClassesAre
<1>3. m.quads[q].size = 2 /\ m.quads[f].size = 1 /\ m.quads[n].size \in {1, 2}
  <2>1. f \in Quads(m)
    BY NeighbourCovers
  <2> QED BY <1>1, <1>2, <2>1, Boxes DEF Axis
<1>4. m.quads[n].size = 1
  BY <1>3, LargeCovers
<1>5. PICK c \in Across(m, q, d) : Covers(m, n, Wrap(m, c))
  BY NeighbourCovers
<1>6. ASSUME NEW i \in Axis, d[i] = 0
      PROVE  /\ Half01(m, n, q, i) \in {0, 1}
             /\ m.quads[n].pos[i] - m.quads[q].pos[i] = Half01(m, n, q, i)
  <2> DEFINE a == m.quads[n].pos[i]
             b == m.quads[q].pos[i]
             x == c[i]
  <2>1. a <= x /\ x < a + 1 /\ b <= x /\ x < b + 2 /\ x \in Nat /\ a \in Nat /\ b \in Nat
    BY <1>1, <1>3, <1>4, <1>5, <1>6, Wrapped, Boxes DEF Covers
  <2>2. Half01(m, n, q, i) = (a - b) % 2
    BY DEF Half01
  <2> HIDE DEF a, b, x
  <2>3. a - b \in {0, 1}
    BY <2>1
  <2>4. Half01(m, n, q, i) \in {0, 1} /\ a - b = Half01(m, n, q, i)
    BY <2>2, <2>3
  <2> QED BY <2>4 DEF a, b
<1> QED BY <1>1, <1>3, <1>4, <1>6

(* And of a coarser one the quadrant is in such a half. *)
LEMMA CoarserNeighbours ==
  ASSUME NEW m \in Meshes, NEW q \in Quads(m), NEW d \in Dir, Layer[m].class[q][d] = "coarser",
         NEW n \in Layer[m].neighbours[q][d]
  PROVE  /\ n \in Quads(m) /\ m.quads[q].size = 1 /\ m.quads[n].size = 2
         /\ \A i \in Axis : d[i] = 0 => /\ Half01(m, q, n, i) \in {0, 1}
                                        /\ m.quads[n].pos[i] - m.quads[q].pos[i] = -Half01(m, q, n, i)
<1>1. n \in Quads(m)
  BY NeighbourCovers
<1>2. PICK f \in Layer[m].neighbours[q][d] : m.quads[f].size > m.quads[q].size
  BY ClassesAre
<1>3. m.quads[q].size = 1 /\ m.quads[f].size = 2
  <2>1. f \in Quads(m)
    BY NeighbourCovers
  <2> QED BY <1>1, <1>2, <2>1, Boxes DEF Axis
<1>4. n = f
  <2>1. PICK c \in Across(m, q, d) : n = CoveredBy(m)[Wrap(m, c)]
    BY NeighbourCovers
  <2>2. PICK e \in Across(m, q, d) : f = CoveredBy(m)[Wrap(m, e)]
    BY NeighbourCovers
  <2>3. ASSUME NEW i \in Axis PROVE e[i] = c[i]
    <3>1. /\ d[i] \in {-1, 0, 1} /\ m.quads[q].pos[i] \in Nat
          /\ c[i] \in Slab(m, q, d, i) /\ e[i] \in Slab(m, q, d, i)
      BY Wrapped, Boxes, Components DEF Sign
    <3> DEFINE p == m.quads[q].pos[i]
    <3>2. Slab(m, q, d, i) = CASE d[i] = 1 -> {p + 1} [] d[i] = -1 -> {p - 1} [] OTHER -> p .. (p + 1 - 1)
      BY <1>3 DEF Slab
    <3> HIDE DEF p
    <3>3. p \in Nat /\ p .. (p + 1 - 1) = {p}
      BY <3>1 DEF p
    <3> QED BY <3>1, <3>2, <3>3
  <2>4. Wrap(m, e) = Wrap(m, c)
    BY <2>3 DEF Wrap, Axis
  <2> QED BY <2>1, <2>2, <2>4
<1>5. PICK c \in Across(m, q, d) : Covers(m, n, Wrap(m, c))
  BY NeighbourCovers
<1>6. ASSUME NEW i \in Axis, d[i] = 0
      PROVE  /\ Half01(m, q, n, i) \in {0, 1}
             /\ m.quads[n].pos[i] - m.quads[q].pos[i] = -Half01(m, q, n, i)
  <2> DEFINE a == m.quads[n].pos[i]
             b == m.quads[q].pos[i]
             x == c[i]
  <2>1. a <= x /\ x < a + 2 /\ b <= x /\ x < b + 1 /\ x \in Nat /\ a \in Nat /\ b \in Nat
    BY <1>1, <1>3, <1>4, <1>5, <1>6, Wrapped, Boxes DEF Covers
  <2>2. Half01(m, q, n, i) = (b - a) % 2
    BY DEF Half01
  <2> HIDE DEF a, b, x
  <2>3. b - a \in {0, 1}
    BY <2>1
  <2>4. Half01(m, q, n, i) \in {0, 1} /\ a - b = -Half01(m, q, n, i)
    BY <2>1, <2>2, <2>3
  <2> QED BY <2>4 DEF a, b
<1> QED BY <1>1, <1>3, <1>4, <1>6
-----------------------------------------------------------------------------
(* The boxes hold data of their own place. *)
InPlace(box) == \A i \in Axis : \A p \in box.axes[i] : p[1] = p[2]

(* Pairs that are off by where the neighbour's array begins are in place *)
(* once moved there.                                                     *)
LEMMA MovedPlaces ==
  ASSUME NEW pairs, NEW by, \A p \in pairs : p[2] \in Nat /\ p[1] = p[2] + by
  PROVE  \A p \in Moved(pairs, by) : p[1] = p[2]
BY DEF Moved, None

(* Copies and messages of the same spacing are in place: of the view, and *)
(* of the coarse buffer of a fine quadrant.                               *)
LEMMA SameInPlace ==
  ASSUME NEW m \in Meshes, NEW q \in Quads(m), NEW d \in Dir, Layer[m].class[q][d] = "same",
         NEW n \in Layer[m].neighbours[q][d], NEW s \in Staggerings, NEW by,
         NEW cells \in {nx, Half}, cells = Half => m.quads[q].size = 1
  PROVE  InPlace(At(by, SameBoxOf(Layer[m], q, d, n, cells, s)))
<1> DEFINE g == Layer[m]
           b(i) == (cells \div g.quads[q].size) * Begins(g, q, n, d, i)
           pairs(i) == Same(Kind(d), d[i], cells, s, i, Remote(g, q, n))
<1>1. cells \in Nat /\ cells >= ngz
  BY Sizes
<1>2. ASSUME NEW i \in Axis PROVE b(i) = Offset(d[i], cells, cells, 0)
  <2>1. g.quads = m.quads
    BY LayerOf
  <2>2. /\ d[i] \in {-1, 0, 1}
        /\ m.quads[n].size = m.quads[q].size /\ m.quads[q].size \in {1, 2}
        /\ d[i] = 0 => m.quads[n].pos[i] = m.quads[q].pos[i] /\ m.quads[n].pos[i] \in Nat
    BY SameNeighbours, Boxes, Components DEF Sign
  <2>3. Begins(g, q, n, d, i) = CASE d[i] = 1 -> m.quads[q].size [] d[i] = -1 -> -m.quads[q].size [] OTHER -> 0
    BY <2>1, <2>2 DEF Begins
  <2>4. (cells \div m.quads[q].size) * m.quads[q].size = cells
    <3>1. CASE m.quads[q].size = 1
      BY <3>1, <1>1
    <3>2. CASE m.quads[q].size = 2
      <4>1. cells = nx
        BY <3>2, Sizes
      <4>2. nx \div 2 = Half
        BY DEF Half
      <4> QED BY <3>2, <4>1, <4>2, Sizes
    <3> QED BY <2>2, <3>1, <3>2
  <2> HIDE DEF g
  <2> DEFINE z == m.quads[q].size
             k == cells \div z
  <2>5. k \in Int
    BY <1>1, <2>2
  <2>6. /\ k * z = cells /\ k * (-z) = -cells /\ k * 0 = 0
    <3>1. k * z = cells
      BY <2>4
    <3> HIDE DEF k
    <3>2. CASE z = 1
      BY <3>1, <3>2, <2>5, <1>1
    <3>3. CASE z = 2
      BY <3>1, <3>3, <2>5, <1>1
    <3> QED BY <3>1, <3>2, <3>3, <2>2
  <2>7. b(i) = k * Begins(g, q, n, d, i)
    BY <2>1
  <2> HIDE DEF b, k, z
  <2>8. Begins(g, q, n, d, i) = CASE d[i] = 1 -> z [] d[i] = -1 -> -z [] OTHER -> 0
    BY <2>3 DEF z
  <2>9. CASE d[i] = 1
    BY <2>6, <2>7, <2>8, <2>9 DEF Offset
  <2>10. CASE d[i] = -1
    BY <2>6, <2>7, <2>8, <2>10 DEF Offset
  <2>11. CASE d[i] = 0
    BY <2>6, <2>7, <2>8, <2>11 DEF Offset
  <2> QED BY <2>2, <2>9, <2>10, <2>11
<1>3. ASSUME NEW i \in Axis PROVE \A p \in Moved(pairs(i), b(i)) : p[1] = p[2]
  <2>1. \A p \in pairs(i) : p[1] \in Nat /\ p[2] \in Nat /\ p[1] = p[2] + Offset(d[i], cells, cells, 0)
    BY <1>1, SamePlaces, Components
  <2> HIDE DEF pairs, b
  <2> QED BY <1>2, <2>1, MovedPlaces
<1>4. SameBoxOf(g, q, d, n, cells, s) = [i \in Axis |-> Moved(pairs(i), b(i))]
  BY DEF SameBoxOf
<1> HIDE DEF pairs, b, g
<1>5. InPlace(At(by, SameBoxOf(g, q, d, n, cells, s)))
  BY <1>3, <1>4 DEF InPlace, At
<1> QED BY <1>5 DEF g

(* What comes from finer neighbours is in place. *)
LEMMA FinerInPlace ==
  ASSUME NEW m \in Meshes, NEW q \in Quads(m), NEW d \in Dir, Layer[m].class[q][d] = "finer",
         NEW n \in Layer[m].neighbours[q][d], NEW s \in Staggerings, NEW by
  PROVE  InPlace(At(by, FinerBox(Layer[m], q, d, n, s)))
<1> DEFINE g == Layer[m]
           h(i) == Half01(g, n, q, i)
           b(i) == Half * Begins(g, q, n, d, i)
           pairs(i) == FinerPairs(Kind(d), d[i], s, i, h(i), Remote(g, q, n))
<1>1. ASSUME NEW i \in Axis PROVE \A p \in Moved(pairs(i), b(i)) : p[1] = p[2]
  <2>1. g.quads = m.quads
    BY LayerOf
  <2>2. /\ d[i] \in {-1, 0, 1}
        /\ m.quads[q].size = 2 /\ m.quads[n].size = 1
        /\ d[i] = 0 => h(i) \in {0, 1} /\ m.quads[n].pos[i] - m.quads[q].pos[i] = h(i)
    BY <2>1, FinerNeighbours, Components DEF Sign, Half01
  <2>3. Begins(g, q, n, d, i) = CASE d[i] = 1 -> 2 [] d[i] = -1 -> -1 [] OTHER -> h(i)
    BY <2>1, <2>2 DEF Begins
  <2>c. \E c \in {0, 1} : /\ pairs(i) = FinerPairs(Kind(d), d[i], s, i, c, Remote(g, q, n))
                          /\ d[i] = 0 => c = h(i)
    <3>1. CASE d[i] = 0
      BY <2>2, <3>1
    <3>2. CASE d[i] # 0
      BY <3>2 DEF FinerPairs, FinerRange, FinerDest
    <3> QED BY <3>1, <3>2
  <2>4. PICK c \in {0, 1} : /\ pairs(i) = FinerPairs(Kind(d), d[i], s, i, c, Remote(g, q, n))
                            /\ d[i] = 0 => c = h(i)
    BY <2>c
  <2> HIDE DEF pairs, g, h
  <2>5. \A p \in pairs(i) : p[1] \in Nat /\ p[2] \in Nat /\ p[1] = p[2] + Offset(d[i], nx, Half, Ahead01(c))
    <3> DEFINE z == d[i]
               P == FinerPairs(Kind(d), z, s, i, c, Remote(g, q, n))
    <3>0. z \in Sign
      BY Components
    <3> HIDE DEF z
    <3>1. ASSUME NEW p \in P PROVE p[1] \in Nat /\ p[2] \in Nat /\ p[1] = p[2] + Offset(z, nx, Half, Ahead01(c))
      BY <3>0, FinerPlaces
    <3> HIDE DEF P
    <3> QED BY <2>4, <3>1 DEF z, P
  <2>6. b(i) = Offset(d[i], nx, Half, Ahead01(c))
    BY <2>2, <2>3, <2>4, Sizes DEF Offset, Ahead01, Back
  <2> HIDE DEF b
  <2> QED BY <2>5, <2>6, MovedPlaces
<1>4. FinerBox(g, q, d, n, s) = [i \in Axis |-> Moved(pairs(i), b(i))]
  BY DEF FinerBox
<1> HIDE DEF pairs, b, g
<1>5. InPlace(At(by, FinerBox(g, q, d, n, s)))
  BY <1>1, <1>4 DEF InPlace, At
<1> QED BY <1>5 DEF g

(* What comes from coarser neighbours is in place. *)
LEMMA CoarserInPlace ==
  ASSUME NEW m \in Meshes, NEW q \in Quads(m), NEW d \in Dir, Layer[m].class[q][d] = "coarser",
         NEW n \in Layer[m].neighbours[q][d], NEW s \in Staggerings, NEW by
  PROVE  InPlace(At(by, CoarserBox(Layer[m], q, d, n, s)))
<1> DEFINE g == Layer[m]
           h(i) == Half01(g, q, n, i)
           b(i) == Half * Begins(g, q, n, d, i)
           pairs(i) == CoarserPairs(Kind(d), d[i], s, i, h(i), Remote(g, q, n))
<1>1. ASSUME NEW i \in Axis PROVE \A p \in Moved(pairs(i), b(i)) : p[1] = p[2]
  <2>1. g.quads = m.quads
    BY LayerOf
  <2>2. /\ d[i] \in {-1, 0, 1}
        /\ m.quads[q].size = 1 /\ m.quads[n].size = 2
        /\ d[i] = 0 => h(i) \in {0, 1} /\ m.quads[n].pos[i] - m.quads[q].pos[i] = -h(i)
    BY <2>1, CoarserNeighbours, Components DEF Sign, Half01
  <2>3. Begins(g, q, n, d, i) = CASE d[i] = 1 -> 1 [] d[i] = -1 -> -2 [] OTHER -> -h(i)
    BY <2>1, <2>2 DEF Begins
  <2>c. \E c \in {0, 1} : /\ pairs(i) = CoarserPairs(Kind(d), d[i], s, i, c, Remote(g, q, n))
                          /\ d[i] = 0 => c = h(i)
    <3>1. CASE d[i] = 0
      BY <2>2, <3>1
    <3>2. CASE d[i] # 0
      BY <3>2 DEF CoarserPairs, CoarserRange, CoarserDest, CoarserSlot
    <3> QED BY <3>1, <3>2
  <2>4. PICK c \in {0, 1} : /\ pairs(i) = CoarserPairs(Kind(d), d[i], s, i, c, Remote(g, q, n))
                            /\ d[i] = 0 => c = h(i)
    BY <2>c
  <2> HIDE DEF pairs, g, h
  <2>5. \A p \in pairs(i) : p[1] \in Nat /\ p[2] \in Nat /\ p[1] = p[2] + Offset(d[i], Half, nx, Back(c))
    <3> DEFINE z == d[i]
               P == CoarserPairs(Kind(d), z, s, i, c, Remote(g, q, n))
    <3>0. z \in Sign
      BY Components
    <3> HIDE DEF z
    <3>1. ASSUME NEW p \in P PROVE p[1] \in Nat /\ p[2] \in Nat /\ p[1] = p[2] + Offset(z, Half, nx, Back(c))
      BY <3>0, CoarserPlaces
    <3> HIDE DEF P
    <3> QED BY <2>4, <3>1 DEF z, P
  <2>6. b(i) = Offset(d[i], Half, nx, Back(c))
    BY <2>2, <2>3, <2>4, Sizes DEF Offset, Ahead01, Back
  <2> HIDE DEF b
  <2> QED BY <2>5, <2>6, MovedPlaces
<1>4. CoarserBox(g, q, d, n, s) = [i \in Axis |-> Moved(pairs(i), b(i))]
  BY DEF CoarserBox
<1> HIDE DEF pairs, b, g
<1>5. InPlace(At(by, CoarserBox(g, q, d, n, s)))
  BY <1>1, <1>4 DEF InPlace, At
<1> QED BY <1>5 DEF g

(* A plain box is in place. *)
LEMMA PlainInPlace == \A I, by : InPlace(At(by, [i \in Axis |-> Plain(I[i])]))
BY DEF InPlace, At, Plain

(* CopyAll fills both arrays in place. *)
LEMMA CopiedInPlace ==
  ASSUME NEW m \in Meshes, NEW q \in Quads(m), NEW s \in Staggerings
  PROVE  /\ \A b \in Copied(Layer[m], q, s) : InPlace(b)
         /\ \A b \in CopiedToCbuf(Layer[m], q, s) : InPlace(b)
<1> DEFINE g == Layer[m]
<1>1. \A n \in {nx, Half} : InPlace(At("own", Own(n, s)))
  <2>1. ASSUME NEW n \in {nx, Half} PROVE Own(n, s) = [i \in Axis |-> Plain([j \in Axis |-> Interior(n, Shift(s, j))][i])]
    BY DEF Own
  <2> QED BY <2>1, PlainInPlace
<1>2. ASSUME NEW d \in Dir, g.class[q][d] = "same", NEW n \in g.neighbours[q][d]
      PROVE  InPlace(At("same", SameBoxOf(g, q, d, n, nx, s)))
  BY <1>2, SameInPlace, Sizes
<1>3. ASSUME NEW d \in Dir, g.class[q][d] = "finer", NEW n \in g.neighbours[q][d]
      PROVE  InPlace(At("finer", FinerBox(g, q, d, n, s)))
  BY <1>3, FinerInPlace
<1>4. ASSUME NEW d \in Dir, PeerToPeer(g, q, d), NEW n \in g.neighbours[q][d]
      PROVE  InPlace(At("same", SameBoxOf(g, q, d, n, Half, s)))
  <2>1. PICK c \in Dir : g.class[q][c] = "coarser"
    BY <1>4 DEF PeerToPeer
  <2>2. m.quads[q].size = 1
    <3>1. PICK k \in g.neighbours[q][c] : TRUE
      BY <2>1, ClassesAre
    <3> QED BY <2>1, <3>1, CoarserNeighbours
  <2>3. g.class[q][d] = "same"
    BY <1>4 DEF PeerToPeer
  <2> QED BY <2>2, <2>3, SameInPlace
<1>5. ASSUME NEW d \in Dir, g.class[q][d] = "coarser", NEW n \in g.neighbours[q][d]
      PROVE  InPlace(At("coarser", CoarserBox(g, q, d, n, s)))
  BY <1>5, CoarserInPlace
<1> HIDE DEF g
<1>6. \A b \in Copied(g, q, s) : InPlace(b)
  BY <1>1, <1>2, <1>3 DEF Copied
<1>7. \A b \in CopiedToCbuf(g, q, s) : InPlace(b)
  BY <1>1, <1>4, <1>5 DEF CopiedToCbuf
<1> QED BY <1>6, <1>7 DEF g

(* The boundary kernels write in place. *)
LEMMA WallsInPlace == \A g, q, D, n, s : \A b \in WallsOf(g, q, D, n, s) : InPlace(b)
<1> SUFFICES ASSUME NEW g, NEW q, NEW D, NEW n, NEW s, NEW d \in D
             PROVE  InPlace(At("wall", [i \in Axis |-> Plain(WallRange(g, q, d, i, n, s))]))
  BY DEF WallsOf
<1> DEFINE I == [j \in Axis |-> WallRange(g, q, d, j, n, s)]
<1>1. [i \in Axis |-> Plain(WallRange(g, q, d, i, n, s))] = [i \in Axis |-> Plain(I[i])]
  OBVIOUS
<1> HIDE DEF I
<1> QED BY <1>1, PlainInPlace

(* So does interpolation. *)
LEMMA ProlongedInPlace ==
  \A g, q, D, s : \A b \in {At("prolonged", ProlongedBox(g, q, d, s)) : d \in D} : InPlace(b)
<1> SUFFICES ASSUME NEW g, NEW q, NEW D, NEW d \in D, NEW s PROVE InPlace(At("prolonged", ProlongedBox(g, q, d, s)))
  OBVIOUS
<1> DEFINE I == [i \in Axis |-> IF i = s THEN {p[1] : p \in Planes1(g, q, d, i)} \cup Planes2(d, i) ELSE FineCells(d, i)]
<1>1. ProlongedBox(g, q, d, s) = [i \in Axis |-> Plain(I[i])]
  BY DEF ProlongedBox
<1> HIDE DEF I
<1> QED BY <1>1, PlainInPlace

(* The quadrant and its staggering never change, and every box is in place. *)
PlaceInv == /\ tree \in Meshes /\ quad \in Quads(tree) /\ stag \in Staggerings
            /\ \A b \in view \cup cbuf : InPlace(b)

(* On every mesh and with every number of cells and ghosts: what a kernel
   writes to a cell, out of a local array or a message, are data of that very
   place of the mesh (compute_indices, cbuf_to_view_offsets,
   view_to_cbuf_offsets). *)
THEOREM EveryCellInPlace == CellSpec => []SamePlace
<1>1. CellInit => PlaceInv
  BY DEF CellInit, PlaceInv
<1>2. ASSUME PlaceInv, [CellNext]_cellVars PROVE PlaceInv'
  <2> USE DEF PlaceInv
  <2>1. CASE CopyAll
    BY <1>2, <2>1, CopiedInPlace DEF CopyAll, Here
  <2>2. CASE EarlyWalls
    BY <1>2, <2>2, WallsInPlace DEF EarlyWalls
  <2>3. CASE ProlongAll
    <3> DEFINE B == {At("prolonged", ProlongedBox(Here, quad, d, stag)) : d \in ProlongedHere}
    <3>1. \A b \in B : InPlace(b)
      BY ProlongedInPlace
    <3>2. view' = view \cup B
      BY <2>3 DEF ProlongAll
    <3> HIDE DEF B
    <3> QED BY <1>2, <2>3, <3>1, <3>2 DEF ProlongAll
  <2>4. CASE LateWalls
    BY <1>2, <2>4, WallsInPlace DEF LateWalls
  <2>5. CASE UNCHANGED cellVars
    BY <1>2, <2>5 DEF cellVars
  <2> QED BY <1>2, <2>1, <2>2, <2>3, <2>4, <2>5 DEF CellNext
<1>3. PlaceInv => SamePlace
  BY DEF PlaceInv, SamePlace, InPlace
<1> QED BY <1>1, <1>2, <1>3, PTL DEF CellSpec
-----------------------------------------------------------------------------
(* Interpolated cells, and those the quadrant or a same neighbour holds. *)

(* What a box of the view is, by its kernel. *)
KernelsInv ==
  /\ stag \in Staggerings
  /\ \A b \in view :
       /\ b.by = "prolonged" => \E d \in Dir : /\ Here.class[quad][d] \in {"coarser", "virtual"}
                                              /\ b = At("prolonged", ProlongedBox(Here, quad, d, stag))
       /\ b.by = "own" => b = At("own", Own(nx, stag))
       /\ b.by = "same" => \E e \in Dir : \E n \in Here.neighbours[quad][e] :
                             /\ Here.class[quad][e] = "same"
                             /\ b = At("same", SameBoxOf(Here, quad, e, n, nx, stag))

(* The cells of component c, in an array shifted by s. *)
Region(c, s) == CASE c = 1  -> nx + ngz .. nx + 2 * ngz + s - 1
                  [] c = -1 -> 0 .. ngz + s - 1
                  [] OTHER  -> Interior(nx, s)

(* What a plain box writes. *)
LEMMA WrittenPlain ==
  ASSUME NEW by, NEW axes, NEW i, NEW I, axes[i] = Plain(I)
  PROVE  Written(At(by, axes), i) = I
<1>1. Written(At(by, axes), i) = {p[1] : p \in Plain(I)}
  BY DEF Written, At
<1>2. {p[1] : p \in Plain(I)} = I
  <2>1. \A j \in I : <<j, j>> \in Plain(I) /\ <<j, j>>[1] = j
    BY DEF Plain
  <2>2. \A p \in Plain(I) : p[1] \in I
    BY DEF Plain
  <2> QED BY <2>1, <2>2
<1> QED BY <1>1, <1>2

(* A same neighbour's box stays in its element's cells. *)
LEMMA SameWrites ==
  ASSUME NEW g, NEW q, NEW e \in Dir, NEW n, NEW s \in Staggerings, NEW i \in Axis
  PROVE  Written(At("same", SameBoxOf(g, q, e, n, nx, s)), i) \subseteq Region(e[i], Shift(s, i))
<1> DEFINE k == Kind(e)
           c == e[i]
           r == Remote(g, q, n)
           by == (nx \div g.quads[q].size) * Begins(g, q, n, e, i)
           t == Shift(s, i)
<1>1. Written(At("same", SameBoxOf(g, q, e, n, nx, s)), i) = {p[1] : p \in Moved(Same(k, c, nx, s, i, r), by)}
  BY DEF Written, At, SameBoxOf
<1> HIDE DEF k, r, by
<1>2. {p[1] : p \in Moved(Same(k, c, nx, s, i, r), by)} \subseteq
        {Ghost(k, c, nx, t, x) : x \in {y \in Iter(k, c, nx, s) : Ghost(k, c, nx, t, y) \in GhostRange(k, c, nx, t)}}
  BY DEF Moved, Same
<1>3. ASSUME NEW x \in Iter(k, c, nx, s), Ghost(k, c, nx, t, x) \in GhostRange(k, c, nx, t)
      PROVE  Ghost(k, c, nx, t, x) \in Region(c, t)
  <2>1. /\ t \in {0, 1} /\ LoopOff(s) \in {0, 1} /\ t <= LoopOff(s)
        /\ GzOff(s, k) \in {0, 1} /\ GzOff(s, k) = (IF k = FACE THEN 0 ELSE LoopOff(s))
    BY Shifts
  <2>2. c \in {-1, 0, 1}
    BY Components DEF Sign
  <2> HIDE DEF c, t
  <2>3. x \in Nat /\ x <= (IF c = 0 THEN nx + LoopOff(s) - 1 ELSE ngz + GzOff(s, k) - 1)
    BY <2>1, <2>2, Sizes DEF Iter
  <2>4. CASE c = 0
    BY <1>3, <2>1, <2>3, <2>4, Sizes DEF Ghost, GhostRange, Region, Interior
  <2>5. CASE c = 1
    BY <1>3, <2>1, <2>3, <2>5, Sizes DEF Ghost, GhostRange, Region, Interior
  <2>6. CASE c = -1
    BY <1>3, <2>1, <2>3, <2>6, Sizes DEF Ghost, GhostRange, Region, Interior
  <2> QED BY <2>2, <2>4, <2>5, <2>6
<1> HIDE DEF c, t
<1>4. {p[1] : p \in Moved(Same(k, c, nx, s, i, r), by)} \subseteq Region(c, t)
  BY <1>2, <1>3
<1> QED BY <1>1, <1>4 DEF c, t

(* The quadrant's own cells. *)
LEMMA OwnWrites ==
  ASSUME NEW s \in Staggerings, NEW i \in Axis
  PROVE  Written(At("own", Own(nx, s)), i) \subseteq Region(0, Shift(s, i))
<1>1. Written(At("own", Own(nx, s)), i) = Interior(nx, Shift(s, i))
  <2>1. Own(nx, s)[i] = Plain(Interior(nx, Shift(s, i)))
    BY DEF Own
  <2> QED BY <2>1, WrittenPlain
<1>2. Region(0, Shift(s, i)) = Interior(nx, Shift(s, i))
  BY DEF Region
<1> QED BY <1>1, <1>2

(* Fine, by its component. *)
LEMMA FineIs ==
  ASSUME NEW k, NEW c \in Sign, NEW x \in Steps(c)
  PROVE  /\ x \in Nat /\ x <= (IF c = 0 THEN Half - 1 ELSE ngz \div 2 - 1)
         /\ Fine(k, c, x) = First(c) + 2 * x /\ First(c) + 2 * x <= Last(c)
         /\ Fine(k, c, x) \in Nat /\ First(c) \in Nat /\ Last(c) \in Nat
<1>1. c \in {-1, 0, 1}
  BY DEF Sign
<1>2. x \in Nat /\ x <= (IF c = 0 THEN Half - 1 ELSE ngz \div 2 - 1)
  BY <1>1, Sizes DEF Steps
<1> QED BY <1>1, <1>2, Sizes DEF Fine, Ghost, First, Last

(* Regions, by their ends. *)
LEMMA RegionIs ==
  ASSUME NEW c \in Sign
  PROVE  \A w \in Nat : /\ w \in Region(c, 1) <=> First(c) <= w /\ w <= Last(c) + 2
                        /\ w \in Region(c, 0) <=> First(c) <= w /\ w <= Last(c) + 1
<1>1. c \in {-1, 0, 1}
  BY DEF Sign
<1>2. CASE c = 1
  BY <1>2, Sizes DEF First, Last, Region, Interior
<1>3. CASE c = -1
  BY <1>3, Sizes DEF First, Last, Region, Interior
<1>4. CASE c = 0
  BY <1>4, Sizes DEF First, Last, Region, Interior
<1> QED BY <1>1, <1>2, <1>3, <1>4

(* Along the other axes interpolation stays in its component's cells. *)
LEMMA ProlongedWrites ==
  ASSUME NEW g, NEW q, NEW d \in Dir, NEW s \in Staggerings, NEW i \in Axis, i # s
  PROVE  Written(At("prolonged", ProlongedBox(g, q, d, s)), i) \subseteq Region(d[i], 0)
<1> DEFINE k == Kind(d)
           c == d[i]
<1>1. Written(At("prolonged", ProlongedBox(g, q, d, s)), i) = UNION {{Fine(k, c, x), Fine(k, c, x) + 1} : x \in Steps(c)}
  <2>1. ProlongedBox(g, q, d, s)[i] = Plain(FineCells(d, i))
    BY DEF ProlongedBox
  <2> QED BY <2>1, WrittenPlain DEF FineCells
<1>2. ASSUME NEW x \in Steps(c) PROVE Fine(k, c, x) \in Region(c, 0) /\ Fine(k, c, x) + 1 \in Region(c, 0)
  <2>2. c \in Sign
    BY Components
  <2> HIDE DEF c, k
  <2> QED BY <2>2, FineIs, RegionIs
<1> QED BY <1>1, <1>2

(* Along its own axis a staggered interpolation also fills the plane at the *)
(* end of its cells, and leaves out the planes of both ends that have fine  *)
(* data.                                                                    *)
LEMMA PlanesWrite ==
  ASSUME NEW g, NEW q, NEW d \in Dir, NEW s \in Axis,
         NEW w \in Written(At("prolonged", ProlongedBox(g, q, d, s)), s)
  PROVE  /\ w \in Nat /\ First(d[s]) <= w /\ w <= Last(d[s]) + 2
         /\ HasFine(g, q, d, s, -1) => w # First(d[s])
         /\ HasFine(g, q, d, s, 1) => w # Last(d[s]) + 2
<1> DEFINE k == Kind(d)
           c == d[s]
           at == {<<Fine(k, c, x), Coarse(k, c, x)>> : x \in Steps(c)}
<1>1. w \in {p[1] : p \in Planes1(g, q, d, s)} \/ w \in Planes2(d, s)
  <2> DEFINE P == {p[1] : p \in Planes1(g, q, d, s)}
             R == Planes2(d, s)
             B == ProlongedBox(g, q, d, s)
  <2>1. B[s] = Plain(P \cup R)
    BY DEF ProlongedBox
  <2> HIDE DEF P, R, B
  <2>2. Written(At("prolonged", B), s) = P \cup R
    BY <2>1, WrittenPlain
  <2> QED BY <2>2 DEF P, R, B
<1>2. c \in Sign
  BY Components
<1>p. Planes1(g, q, d, s) = {p \in at : ~(p[1] = First(c) /\ HasFine(g, q, d, s, -1))}
                              \cup {<<p[1] + 2, p[2] + 1>> : p \in {r \in at : r[1] = Last(c) /\ ~HasFine(g, q, d, s, 1)}}
  BY DEF Planes1
<1> HIDE DEF k, c
<1>3. CASE w \in Planes2(d, s)
  <2>1. PICK x \in Steps(c) : w = Fine(k, c, x) + 1
    BY <1>3 DEF Planes2, k, c
  <2>2. Fine(k, c, x) = First(c) + 2 * x /\ Fine(k, c, x) <= Last(c)
        /\ First(c) \in Nat /\ Last(c) \in Nat /\ x \in Nat
    BY <1>2, FineIs
  <2>3. w \in Nat /\ First(c) < w /\ w < Last(c) + 2
    BY <2>1, <2>2
  <2> QED BY <2>2, <2>3 DEF c
<1>4. CASE w \in {p[1] : p \in Planes1(g, q, d, s)}
  <2>1. PICK p \in Planes1(g, q, d, s) : w = p[1]
    BY <1>4
  <2>2. CASE p \in at /\ ~(p[1] = First(c) /\ HasFine(g, q, d, s, -1))
    <3>1. PICK x \in Steps(c) : p = <<Fine(k, c, x), Coarse(k, c, x)>>
      BY <2>2
    <3>2. w = Fine(k, c, x)
      BY <2>1, <3>1
    <3>3. w = First(c) + 2 * x /\ w <= Last(c) /\ First(c) \in Nat /\ Last(c) \in Nat /\ x \in Nat
      BY <1>2, <3>2, FineIs
    <3> QED BY <2>1, <2>2, <3>3 DEF c
  <2>3. CASE p \in {<<r[1] + 2, r[2] + 1>> : r \in {r \in at : r[1] = Last(c) /\ ~HasFine(g, q, d, s, 1)}}
    <3>1. PICK r \in at : p = <<r[1] + 2, r[2] + 1>> /\ r[1] = Last(c) /\ ~HasFine(g, q, d, s, 1)
      BY <2>3
    <3>2. w = Last(c) + 2
      BY <2>1, <3>1
    <3>3. PICK x \in Steps(c) : r[1] = Fine(k, c, x)
      <4>1. PICK x \in Steps(c) : r = <<Fine(k, c, x), Coarse(k, c, x)>>
        BY <3>1
      <4> QED BY <4>1
    <3>4. First(c) <= Last(c) /\ First(c) \in Nat /\ Last(c) \in Nat
      BY <1>2, FineIs
    <3> QED BY <3>1, <3>2, <3>4 DEF c
  <2> QED BY <1>p, <2>1, <2>2, <2>3
<1> QED BY <1>1, <1>3, <1>4

(* Two elements that differ along one axis only. *)
LEMMA OneAxis ==
  ASSUME NEW d \in Place, NEW e \in Place, NEW s \in Axis, \A j \in Axis \ {s} : e[j] = d[j]
  PROVE  e = [d EXCEPT ![s] = e[s]]
<1>1. d = <<d[1], d[2], d[3]>> /\ e = <<e[1], e[2], e[3]>>
  BY DEF Place
<1>2. CASE s = 1
  BY <1>1, <1>2 DEF Axis
<1>3. CASE s = 2
  BY <1>1, <1>3 DEF Axis
<1>4. CASE s = 3
  BY <1>1, <1>4 DEF Axis
<1> QED BY <1>2, <1>3, <1>4 DEF Axis

(* Planes of component a, without an end that component b holds.            *)
LEMMA PlanesApart ==
  ASSUME NEW a \in Sign, NEW b \in Sign, a # b,
         NEW w \in Nat, First(a) <= w, w <= Last(a) + 2,
         a = 0 /\ b = -1 => w # First(a), a = 0 /\ b = 1 => w # Last(a) + 2,
         b = 0 /\ a = 1 => w # First(a), b = 0 /\ a = -1 => w # Last(a) + 2
  PROVE  w \notin Region(b, 1)
<1>1. w \in Region(b, 1) <=> First(b) <= w /\ w <= Last(b) + 2
  BY RegionIs
<1>2. a \in {-1, 0, 1} /\ b \in {-1, 0, 1}
  BY DEF Sign
<1> QED BY <1>1, <1>2, Sizes DEF First, Last

(* Boxes that some axis keeps apart, and a box in the cells of element e. *)
Disjoint(b, f) == \E i \in Axis : Written(b, i) \cap Written(f, i) = {}
Inside(f, e, s) == \A i \in Axis : Written(f, i) \subseteq Region(e[i], Shift(s, i))
(* Interpolated cells of d and cells of the component of another element e  *)
(* that is the quadrant or a same neighbour: some axis tells them apart.    *)
LEMMA Apart ==
  ASSUME NEW g, NEW q, NEW d \in Dir, NEW e \in Place, e # d, e = Zero \/ g.class[q][e] = "same",
         NEW s \in Staggerings, NEW f, Inside(f, e, s)
  PROVE  Disjoint(At("prolonged", ProlongedBox(g, q, d, s)), f)
<1> DEFINE W(i) == Written(At("prolonged", ProlongedBox(g, q, d, s)), i)
<1>0. d \in Place /\ \A i \in Axis : d[i] \in Sign /\ e[i] \in Sign
  BY DEF Dir, Place, Axis
<1>1. CASE \E i \in Axis \ {s} : d[i] # e[i]
  <2>1. PICK i \in Axis \ {s} : d[i] # e[i]
    BY <1>1
  <2>2. W(i) \subseteq Region(d[i], 0)
    BY <2>1, ProlongedWrites
  <2>3. Written(f, i) \subseteq Region(e[i], 0)
    BY <2>1 DEF Shift, Inside
  <2>4. Region(d[i], 0) \cap Region(e[i], 0) = {}
    <3> DEFINE a == d[i]
               b == e[i]
    <3>1. a \in {-1, 0, 1} /\ b \in {-1, 0, 1} /\ a # b
      BY <1>0, <2>1 DEF Sign
    <3> HIDE DEF a, b
    <3>2. Region(a, 0) \cap Region(b, 0) = {}
      <4>1. /\ \A w \in Region(-1, 0) : w \in Int /\ w < ngz
            /\ \A w \in Region(0, 0) : w \in Int /\ ngz <= w /\ w < nx + ngz
            /\ \A w \in Region(1, 0) : w \in Int /\ nx + ngz <= w
        BY Sizes DEF Region, Interior
      <4> QED BY <3>1, <4>1, Sizes
    <3> QED BY <3>2 DEF a, b
  <2> HIDE DEF W
  <2> QED BY <2>1, <2>2, <2>3, <2>4 DEF W, Disjoint
<1>2. CASE \A i \in Axis \ {s} : d[i] = e[i]
  <2>1. s \in Axis
    <3>1. ASSUME s \notin Axis PROVE d = e
      <4>1. d = <<d[1], d[2], d[3]>> /\ e = <<e[1], e[2], e[3]>>
        BY <1>0 DEF Place
      <4>2. d[1] = e[1] /\ d[2] = e[2] /\ d[3] = e[3]
        BY <1>2, <3>1 DEF Axis
      <4> QED BY <4>1, <4>2
    <3> QED BY <3>1
  <2>2. e = [d EXCEPT ![s] = e[s]]
    BY <1>0, <1>2, <2>1, OneAxis
  <2>3. d[s] # e[s]
    <3>1. d = [e EXCEPT ![s] = d[s]]
      BY <1>0, <1>2, <2>1, OneAxis
    <3>2. d = <<d[1], d[2], d[3]>> /\ e = <<e[1], e[2], e[3]>>
      BY <1>0 DEF Place
    <3>3. ASSUME d[s] = e[s] PROVE d[1] = e[1] /\ d[2] = e[2] /\ d[3] = e[3]
      BY <1>2, <3>3 DEF Axis
    <3> QED BY <3>2, <3>3
  <2>4. Written(f, s) \subseteq Region(e[s], 1)
    BY <2>1 DEF Shift, Inside
  <2>5. /\ d[s] = 0 => HasFine(g, q, d, s, e[s])
        /\ e[s] = 0 => HasFine(g, q, d, s, -d[s])
    <3>1. ASSUME d[s] = 0 PROVE HasFine(g, q, d, s, e[s])
      <4>1. EndElement(d, s, e[s]) = e
        BY <2>2, <3>1 DEF EndElement
      <4> QED BY <2>3, <3>1, <4>1 DEF HasFine
    <3>2. ASSUME e[s] = 0 PROVE HasFine(g, q, d, s, -d[s])
      <4>1. d[s] # 0
        BY <2>3, <3>2
      <4>2. EndElement(d, s, -d[s]) = e
        BY <2>2, <3>2, <4>1 DEF EndElement
      <4>3. d[s] # -d[s]
        BY <1>0, <2>1, <4>1 DEF Sign
      <4> QED BY <4>2, <4>3 DEF HasFine
    <3> QED BY <3>1, <3>2
  <2>6. ASSUME NEW w \in Written(At("prolonged", ProlongedBox(g, q, d, s)), s) PROVE w \notin Written(f, s)
    <3>1. d[s] \in Sign /\ e[s] \in Sign
      BY <1>0, <2>1
    <3>2. /\ w \in Nat /\ First(d[s]) <= w /\ w <= Last(d[s]) + 2
          /\ HasFine(g, q, d, s, -1) => w # First(d[s])
          /\ HasFine(g, q, d, s, 1) => w # Last(d[s]) + 2
      BY <2>1, PlanesWrite
    <3>3. /\ d[s] = 0 /\ e[s] = -1 => w # First(d[s])
          /\ d[s] = 0 /\ e[s] = 1 => w # Last(d[s]) + 2
          /\ e[s] = 0 /\ d[s] = 1 => w # First(d[s])
          /\ e[s] = 0 /\ d[s] = -1 => w # Last(d[s]) + 2
      <4>1. /\ d[s] = 1 => -d[s] = -1
            /\ d[s] = -1 => -d[s] = 1
        OBVIOUS
      <4> QED BY <2>5, <3>2, <4>1, Zenon
    <3>4. w \notin Region(e[s], 1)
      BY <2>3, <3>1, <3>2, <3>3, PlanesApart
    <3> QED BY <2>4, <3>4
  <2> QED BY <2>1, <2>6 DEF Disjoint
<1> QED BY <1>1, <1>2

(* Interpolation leaves alone what is as fine as the quadrant. *)
LEMMA KernelsApart == KernelsInv => FineKept
<1> SUFFICES ASSUME KernelsInv, NEW b \in view, b.by = "prolonged", NEW f \in view, f.by \in {"own", "same"}
             PROVE  \E i \in Axis : Written(b, i) \cap Written(f, i) = {}
  BY DEF FineKept, FineBoxes
<1>1. PICK d \in Dir : /\ Here.class[quad][d] \in {"coarser", "virtual"}
                       /\ b = At("prolonged", ProlongedBox(Here, quad, d, stag))
  BY DEF KernelsInv
<1>2. PICK e \in Place : /\ e # d /\ (e = Zero \/ Here.class[quad][e] = "same")
                         /\ \A i \in Axis : Written(f, i) \subseteq Region(e[i], Shift(stag, i))
  <2>1. CASE f.by = "own"
    <3>1. Zero \in Place /\ Zero # d /\ \A i \in Axis : Zero[i] = 0
      BY DEF Zero, Place, Sign, Dir, Axis
    <3>2. f = At("own", Own(nx, stag)) /\ stag \in Staggerings
      BY <2>1 DEF KernelsInv
    <3> QED BY <3>1, <3>2, OwnWrites
  <2>2. CASE f.by = "same"
    <3>1. PICK e \in Dir : \E n \in Here.neighbours[quad][e] :
                             /\ Here.class[quad][e] = "same"
                             /\ f = At("same", SameBoxOf(Here, quad, e, n, nx, stag))
      BY <2>2 DEF KernelsInv
    <3>2. stag \in Staggerings
      BY DEF KernelsInv
    <3>3. \A i \in Axis : Written(f, i) \subseteq Region(e[i], Shift(stag, i))
      BY <3>1, <3>2, SameWrites
    <3>4. e # d /\ e \in Place
      BY <1>1, <3>1 DEF Dir
    <3> QED BY <3>1, <3>3, <3>4
  <2> QED BY <2>1, <2>2
<1>3. stag \in Staggerings /\ e # d /\ (e = Zero \/ Here.class[quad][e] = "same")
  BY <1>2 DEF KernelsInv
<1>4. Inside(f, e, stag)
  BY <1>2 DEF Inside
<1>5. Disjoint(At("prolonged", ProlongedBox(Here, quad, d, stag)), f)
  BY <1>3, <1>4, Apart
<1> QED BY <1>1, <1>5 DEF Disjoint

(* What the boundary kernels write is theirs. *)
LEMMA WallsAre == \A g, q, D, n, s : \A b \in WallsOf(g, q, D, n, s) : b.by = "wall"
BY DEF WallsOf, At

(* On every mesh, for every quadrant and staggering: interpolation never
   replaces a face that the quadrant or a neighbour of its level holds
   (have_fine_data of div_free_prolong_op). *)
THEOREM NoFineReplaced == CellSpec => []FineKept
<1>1. CellInit => KernelsInv
  BY DEF CellInit, KernelsInv
<1>2. ASSUME KernelsInv, [CellNext]_cellVars PROVE KernelsInv'
  <2>1. CASE CopyAll
    <3>1. UNCHANGED <<tree, quad, stag>> /\ Here' = Here /\ view' = Copied(Here, quad, stag)
      BY <2>1 DEF CopyAll, Here
    <3>2. \A b \in Copied(Here, quad, stag) :
            \/ b = At("own", Own(nx, stag))
            \/ \E e \in Dir : \E n \in Here.neighbours[quad][e] :
                   Here.class[quad][e] = "same" /\ b = At("same", SameBoxOf(Here, quad, e, n, nx, stag))
            \/ \E e \in Dir : \E n \in Here.neighbours[quad][e] : b = At("finer", FinerBox(Here, quad, e, n, stag))
      BY DEF Copied
    <3>3. \A by, axes : At(by, axes).by = by
      BY DEF At
    <3> QED BY <1>2, <3>1, <3>2, <3>3 DEF KernelsInv
  <2>2. CASE EarlyWalls
    <3>1. UNCHANGED <<tree, quad, stag>> /\ Here' = Here /\ \A b \in view' : b \in view \/ b.by = "wall"
      BY <2>2, WallsAre DEF EarlyWalls, Here
    <3> QED BY <1>2, <3>1 DEF KernelsInv
  <2>3. CASE ProlongAll
    <3> DEFINE B == {At("prolonged", ProlongedBox(Here, quad, d, stag)) : d \in ProlongedHere}
    <3>0. \A b \in B : /\ b.by = "prolonged"
                       /\ \E d \in ProlongedHere : b = At("prolonged", ProlongedBox(Here, quad, d, stag))
      BY DEF At
    <3>1. UNCHANGED <<tree, quad, stag>> /\ Here' = Here /\ view' = view \cup B
      BY <2>3 DEF ProlongAll, Here
    <3> HIDE DEF B
    <3>2. \A d \in ProlongedHere : d \in Dir /\ Here.class[quad][d] \in {"coarser", "virtual"}
      BY DEF ProlongedHere, Prolonged
    <3> QED BY <1>2, <3>0, <3>1, <3>2 DEF KernelsInv
  <2>4. CASE LateWalls
    <3>1. UNCHANGED <<tree, quad, stag>> /\ Here' = Here /\ \A b \in view' : b \in view \/ b.by = "wall"
      BY <2>4, WallsAre DEF LateWalls, Here
    <3> QED BY <1>2, <3>1 DEF KernelsInv
  <2>5. CASE UNCHANGED cellVars
    BY <1>2, <2>5 DEF cellVars, KernelsInv, Here
  <2> QED BY <1>2, <2>1, <2>2, <2>3, <2>4, <2>5 DEF CellNext
<1> QED BY <1>1, <1>2, KernelsApart, PTL DEF CellSpec
-----------------------------------------------------------------------------
(* No cell is left out: a box for every point.  A kernel writes the cells of *)
(* its element and, staggered, a plane more.                                 *)

(* Beyond's cells, as numbers. *)
LEMMA BeyondIs ==
  ASSUME NEW c \in Sign, NEW n \in Nat, NEW t \in {0, 1}, NEW j \in Beyond(c, n, t)
  PROVE  /\ j \in Nat
         /\ c = 1 => n + t + ngz <= j /\ j <= n + t + 2 * ngz - 1
         /\ c = -1 => j <= ngz - 1
         /\ c = 0 => ngz <= j /\ j <= n + t + ngz - 1
<1>1. c \in {-1, 0, 1}
  BY DEF Sign
<1>2. CASE c = 1
  BY <1>2, Sizes DEF Beyond
<1>3. CASE c = -1
  BY <1>3, Sizes DEF Beyond
<1>4. CASE c = 0
  BY <1>4, Sizes DEF Beyond, Interior
<1> QED BY <1>1, <1>2, <1>3, <1>4

(* What a ghost index is written by: the slot before it. *)
LEMMA SameFills ==
  ASSUME NEW k, NEW c \in Sign, NEW n \in Nat, NEW g \in Staggerings, NEW i \in Axis, NEW r,
         NEW j, \/ j \in Beyond(c, n, Shift(g, i))
                \/ k # FACE /\ Shift(g, i) = 1 /\ c = -1 /\ j = ngz
                \/ k # FACE /\ Shift(g, i) = 1 /\ c = 1 /\ j = n + ngz
  PROVE  \E p \in Same(k, c, n, g, i, r) : p[1] = j
<1> DEFINE s == Shift(g, i)
           o == LoopOff(g)
           z == GzOff(g, k)
<1>1. s \in {0, 1} /\ o \in {0, 1} /\ s <= o /\ z = (IF k = FACE THEN 0 ELSE o) /\ z \in {0, 1}
  BY Shifts
<1>0. ASSUME NEW x \in Iter(k, c, n, g), Ghost(k, c, n, s, x) = j, j \in GhostRange(k, c, n, s)
      PROVE  \E p \in Same(k, c, n, g, i, r) : p[1] = j
  <2> DEFINE p == <<Ghost(k, c, n, s, x), SlotIndex(k, -c, n, g, i, r, x)>>
  <2>1. p \in Same(k, c, n, g, i, r)
    BY <1>0 DEF Same
  <2>2. p[1] = j
    BY <1>0
  <2> QED BY <2>1, <2>2
<1> DEFINE goal == \E p \in Same(k, c, n, g, i, r) : p[1] = j
<1> SUFFICES goal
  OBVIOUS
<1> HIDE DEF s, o, z, goal
<1>2. c \in {-1, 0, 1} /\ ngz \in Nat /\ ngz >= 1
  BY Sizes DEF Sign
<1>j. /\ c = 0 => j \in Nat /\ ngz <= j /\ j <= n + s + ngz - 1
      /\ c = -1 => j \in Nat /\ j <= (IF k # FACE /\ s = 1 THEN ngz ELSE ngz - 1)
      /\ c = 1 => j \in Nat /\ j <= n + s + 2 * ngz - 1 /\ (IF k # FACE /\ s = 1 THEN n + ngz ELSE n + s + ngz) <= j
  <2>1. CASE j \in Beyond(c, n, s)
    BY <1>1, <1>2, <2>1, BeyondIs
  <2>2. CASE j \notin Beyond(c, n, s)
    BY <1>1, <1>2, <2>2 DEF s
  <2> QED BY <2>1, <2>2
<1>3. Iter(k, c, n, g) = IF c = 0 THEN 0 .. n + o - 1 ELSE 0 .. ngz + z - 1
  BY DEF Iter, o, z
<1>4. CASE c = 0
  <2> DEFINE x == j - ngz
  <2>1. x \in 0 .. n + o - 1
    BY <1>1, <1>2, <1>j, <1>4
  <2>2. Ghost(k, c, n, s, x) = j /\ j \in GhostRange(k, c, n, s)
    BY <1>1, <1>2, <1>j, <1>4 DEF Ghost, GhostRange, Interior
  <2> QED BY <1>0, <1>3, <1>4, <2>1, <2>2 DEF goal, s
<1>5. CASE c = -1
  <2>1. j \in 0 .. ngz + z - 1
    BY <1>1, <1>2, <1>j, <1>5
  <2>2. Ghost(k, c, n, s, j) = j /\ j \in GhostRange(k, c, n, s)
    BY <1>1, <1>2, <1>j, <1>5 DEF Ghost, GhostRange
  <2> QED BY <1>0, <1>3, <1>5, <2>1, <2>2 DEF goal, s
<1>6. CASE c = 1
  <2> DEFINE x == j - (n + ngz + (IF k = FACE THEN s ELSE 0))
  <2>1. x \in 0 .. ngz + z - 1
    BY <1>1, <1>2, <1>j, <1>6
  <2>2. Ghost(k, c, n, s, x) = j /\ j \in GhostRange(k, c, n, s)
    BY <1>1, <1>2, <1>j, <1>6 DEF Ghost, GhostRange
  <2> QED BY <1>0, <1>3, <1>6, <2>1, <2>2 DEF goal, s
<1> QED BY <1>2, <1>4, <1>5, <1>6

(* The halves of the finer neighbours, between them. *)
FinerHalf(c, s, j) == IF c = 0 /\ j >= ngz + Half + s THEN 1 ELSE 0
(* What the two halves write along an axis. *)
LEMMA FinerFills ==
  ASSUME NEW k, NEW c \in Sign, NEW g \in Staggerings, NEW i \in Axis, NEW r,
         NEW j \in Beyond(c, nx, Shift(g, i)), NEW b, c = 0 => b = FinerHalf(c, Shift(g, i), j)
  PROVE  \E p \in FinerPairs(k, c, g, i, b, r) : p[1] = j
<1> DEFINE s == Shift(g, i)
           o == LoopOff(g)
           z == GzOff(g, k)
<1>1. s \in {0, 1} /\ o \in {0, 1} /\ s <= o /\ z = (IF k = FACE THEN 0 ELSE o) /\ z \in {0, 1}
  BY Shifts
<1>0. ASSUME NEW x \in Iter(k, c, Half, g), FinerDest(k, c, g, i, b, x) = j, j \in FinerRange(k, c, g, i, b, r)
      PROVE  \E p \in FinerPairs(k, c, g, i, b, r) : p[1] = j
  <2> DEFINE p == <<FinerDest(k, c, g, i, b, x), SlotIndex(k, -c, Half, g, i, r, x)>>
  <2>1. p \in FinerPairs(k, c, g, i, b, r)
    BY <1>0 DEF FinerPairs
  <2>2. p[1] = j
    BY <1>0
  <2> QED BY <2>1, <2>2
<1> DEFINE goal == \E p \in FinerPairs(k, c, g, i, b, r) : p[1] = j
<1> SUFFICES goal
  OBVIOUS
<1>2. c \in {-1, 0, 1}
  BY DEF Sign
<1>d. \A x : FinerDest(k, c, g, i, b, x) = Ghost(k, c, nx, s, IF c = 0 THEN x + b * Half ELSE x)
  BY DEF FinerDest
<1>r. FinerRange(k, c, g, i, b, r) = IF c # 0 THEN GhostRange(k, c, nx, s)
         ELSE IF b = 1 THEN ngz + Half + (IF r THEN 0 ELSE s) .. ngz + nx + s - 1
         ELSE ngz .. ngz + Half + s - 1
  BY DEF FinerRange
<1>b. c = 0 => b = IF j >= ngz + Half + s THEN 1 ELSE 0
  BY DEF FinerHalf
<1>3. Iter(k, c, Half, g) = IF c = 0 THEN 0 .. Half + o - 1 ELSE 0 .. ngz + z - 1
  BY DEF Iter
<1>j. j \in Beyond(c, nx, s)
  OBVIOUS
<1> HIDE DEF s, o, z, goal
<1>k. /\ c = 0 => j \in Nat /\ ngz <= j /\ j <= nx + s + ngz - 1
      /\ c = -1 => j \in Nat /\ j <= ngz - 1
      /\ c = 1 => j \in Nat /\ j <= nx + s + 2 * ngz - 1 /\ nx + s + ngz <= j
  BY <1>1, <1>2, <1>j, Sizes, BeyondIs
<1>4. CASE c = 0 /\ j >= ngz + Half + s
  <2> DEFINE x == j - ngz - Half
  <2>1. x \in 0 .. Half + o - 1
    BY <1>1, <1>k, <1>4, Sizes
  <2>2. b = 1 /\ x + b * Half = j - ngz
    BY <1>b, <1>k, <1>4, Sizes
  <2>3. FinerDest(k, c, g, i, b, x) = j
    BY <1>4, <1>d, <1>k, <2>2, Sizes DEF Ghost
  <2>4. j \in FinerRange(k, c, g, i, b, r)
    BY <1>1, <1>4, <1>r, <1>k, <2>2, Sizes
  <2> QED BY <1>0, <1>3, <1>4, <2>1, <2>3, <2>4 DEF goal
<1>5. CASE c = 0 /\ ~(j >= ngz + Half + s)
  <2> DEFINE x == j - ngz
  <2>1. x \in 0 .. Half + o - 1
    BY <1>1, <1>k, <1>5, Sizes
  <2>2. b = 0 /\ x + b * Half = j - ngz
    BY <1>b, <1>k, <1>5, Sizes
  <2>3. FinerDest(k, c, g, i, b, x) = j
    BY <1>5, <1>d, <1>k, <2>2, Sizes DEF Ghost
  <2>4. j \in FinerRange(k, c, g, i, b, r)
    BY <1>1, <1>5, <1>r, <1>k, <2>2, Sizes
  <2> QED BY <1>0, <1>3, <1>5, <2>1, <2>3, <2>4 DEF goal
<1>6. CASE c = -1
  <2>1. j \in 0 .. ngz + z - 1
    BY <1>1, <1>k, <1>6, Sizes
  <2>2. FinerDest(k, c, g, i, b, j) = j
    BY <1>6, <1>d, <1>k DEF Ghost
  <2>3. j \in FinerRange(k, c, g, i, b, r)
    <3>1. c # 0
      BY <1>6
    <3>2. FinerRange(k, c, g, i, b, r) = GhostRange(k, c, nx, s)
      BY <1>r, <3>1
    <3>3. j \in GhostRange(k, c, nx, s)
      BY <1>1, <1>6, <1>k, Sizes DEF GhostRange
    <3> QED BY <3>2, <3>3
  <2> QED BY <1>0, <1>3, <1>6, <2>1, <2>2, <2>3 DEF goal
<1>7. CASE c = 1
  <2> DEFINE x == j - (nx + ngz + (IF k = FACE THEN s ELSE 0))
  <2>1. x \in 0 .. ngz + z - 1
    BY <1>1, <1>k, <1>7, Sizes
  <2>2. FinerDest(k, c, g, i, b, x) = j
    <3>1. FinerDest(k, c, g, i, b, x) = Ghost(k, c, nx, s, x)
      BY <1>7, <1>d
    <3> QED BY <1>1, <1>7, <1>k, <3>1, Sizes DEF Ghost
  <2>3. j \in FinerRange(k, c, g, i, b, r)
    <3>1. c # 0
      BY <1>7
    <3>2. FinerRange(k, c, g, i, b, r) = GhostRange(k, c, nx, s)
      BY <1>r, <3>1
    <3>3. j \in GhostRange(k, c, nx, s)
      BY <1>1, <1>7, <1>k, Sizes DEF GhostRange
    <3> QED BY <3>2, <3>3
  <2> QED BY <1>0, <1>3, <1>7, <2>1, <2>2, <2>3 DEF goal
<1> QED BY <1>2, <1>4, <1>5, <1>6, <1>7

(* Points, one after another. *)
Holds(b, j) == \A i \in Axis : j[i] \in Written(b, i)
(* Boxes that hold every point of a product cover it. *)
LEMMA PointsCover ==
  ASSUME NEW B, NEW I, \A j : (\A i \in Axis : j[i] \in I[i]) => \E b \in B : Holds(b, j)
  PROVE  Cover(B, I)
<1> DEFINE through == [i \in Axis |-> {{b \in B : j \in Written(b, i)} : j \in I[i]}]
<1> SUFFICES ASSUME NEW b1 \in through[1], NEW b2 \in through[2], NEW b3 \in through[3]
             PROVE  b1 \cap b2 \cap b3 # {}
  BY DEF Cover
<1>1. 1 \in Axis /\ 2 \in Axis /\ 3 \in Axis
  BY DEF Axis
<1>2. PICK j1 \in I[1] : b1 = {b \in B : j1 \in Written(b, 1)}
  BY <1>1
<1>3. PICK j2 \in I[2] : b2 = {b \in B : j2 \in Written(b, 2)}
  BY <1>1
<1>4. PICK j3 \in I[3] : b3 = {b \in B : j3 \in Written(b, 3)}
  BY <1>1
<1> HIDE DEF through
<1> DEFINE j == <<j1, j2, j3>>
<1>5. \A i \in Axis : j[i] \in I[i]
  BY DEF Axis
<1>j. j[1] = j1 /\ j[2] = j2 /\ j[3] = j3
  OBVIOUS
<1> HIDE DEF j
<1>6. PICK b \in B : Holds(b, j)
  BY <1>5
<1> QED BY <1>1, <1>2, <1>3, <1>4, <1>6, <1>j DEF Holds

(* Where the data come from changes nothing of where they go. *)
LEMMA MovedFirst ==
  ASSUME NEW pairs, NEW by, NEW p \in pairs
  PROVE  \E r \in Moved(pairs, by) : r[1] = p[1]
<1> DEFINE r == <<p[1], IF p[2] = None THEN None ELSE p[2] + by>>
<1>1. r \in Moved(pairs, by) /\ r[1] = p[1]
  BY DEF Moved
<1> QED BY <1>1

(* The element a cell of an array belongs to, along one axis. *)
Component(j, t) == IF j < ngz THEN -1 ELSE IF j >= nx + t + ngz THEN 1 ELSE 0
LEMMA ComponentOf ==
  ASSUME NEW t \in {0, 1}, NEW j \in 0 .. nx + t + 2 * ngz - 1
  PROVE  Component(j, t) \in Sign /\ j \in Beyond(Component(j, t), nx, t)
BY Sizes DEF Component, Sign, Beyond, Interior

(* Point j is one of element e's cells, in an array of n. *)
InElement(j, e, n, s) == \A i \in Axis : j[i] \in Beyond(e[i], n, Shift(s, i))

(* A quadrant's own box holds its interior. *)
LEMMA OwnCovers ==
  ASSUME NEW n, NEW s \in Staggerings, NEW j, InElement(j, Zero, n, s)
  PROVE  Holds(At("own", Own(n, s)), j)
<1>1. ASSUME NEW i \in Axis PROVE j[i] \in Written(At("own", Own(n, s)), i)
  <2>1. Own(n, s)[i] = Plain(Interior(n, Shift(s, i)))
    BY DEF Own
  <2>2. Written(At("own", Own(n, s)), i) = Interior(n, Shift(s, i))
    BY <2>1, WrittenPlain
  <2>3. Zero[i] = 0 /\ j[i] \in Beyond(Zero[i], n, Shift(s, i))
    BY DEF InElement, Zero, Axis
  <2> QED BY <2>2, <2>3 DEF Beyond
<1> QED BY <1>1 DEF Holds

(* The message or copy of a neighbour e of the same level fills e's cells,  *)
(* and, staggered, of an edge or corner the plane between e and what is     *)
(* before it.                                                               *)
LEMMA SameCovers ==
  ASSUME NEW g, NEW q, NEW e \in Dir, NEW n, NEW cells \in Nat, NEW s \in Staggerings, NEW j,
         \A i \in Axis : \/ j[i] \in Beyond(e[i], cells, Shift(s, i))
                         \/ Kind(e) # FACE /\ Shift(s, i) = 1 /\ e[i] = -1 /\ j[i] = ngz
                         \/ Kind(e) # FACE /\ Shift(s, i) = 1 /\ e[i] = 1 /\ j[i] = cells + ngz
  PROVE  Holds(At("same", SameBoxOf(g, q, e, n, cells, s)), j)
<1>1. ASSUME NEW i \in Axis PROVE j[i] \in Written(At("same", SameBoxOf(g, q, e, n, cells, s)), i)
  <2> DEFINE c == e[i]
             x == j[i]
             k == Kind(e)
             r == Remote(g, q, n)
             P == Same(k, c, cells, s, i, r)
             by == (cells \div g.quads[q].size) * Begins(g, q, n, e, i)
  <2>1. Written(At("same", SameBoxOf(g, q, e, n, cells, s)), i) = {p[1] : p \in Moved(P, by)}
    BY DEF Written, At, SameBoxOf
  <2>2. c \in Sign
    BY Components
  <2>3. \/ x \in Beyond(c, cells, Shift(s, i))
        \/ k # FACE /\ Shift(s, i) = 1 /\ c = -1 /\ x = ngz
        \/ k # FACE /\ Shift(s, i) = 1 /\ c = 1 /\ x = cells + ngz
    OBVIOUS
  <2> HIDE DEF c, x, k, r, by
  <2>4. PICK p \in P : p[1] = x
    BY <2>2, <2>3, SameFills
  <2> HIDE DEF P
  <2>5. \E z \in Moved(P, by) : z[1] = p[1]
    BY MovedFirst
  <2> QED BY <2>1, <2>4, <2>5 DEF x
<1> QED BY <1>1 DEF Holds

(* The finer neighbours across e fill its cells between them. *)
LEMMA FinerCovers ==
  ASSUME NEW m \in Meshes, NEW q \in Quads(m), NEW e \in Dir, Layer[m].class[q][e] = "finer",
         NEW s \in Staggerings, NEW j, InElement(j, e, nx, s)
  PROVE  \E n \in Layer[m].neighbours[q][e] : Holds(At("finer", FinerBox(Layer[m], q, e, n, s)), j)
<1> DEFINE g == Layer[m]
           h(i) == FinerHalf(e[i], Shift(s, i), j[i])
           x(i) == m.quads[q].pos[i] + (CASE e[i] = 1 -> 2 [] e[i] = -1 -> -1 [] OTHER -> h(i))
           c == <<x(1), x(2), x(3)>>
<1>1. m.quads[q].size = 2
  <2>1. PICK n \in g.neighbours[q][e] : TRUE
    BY ClassesAre
  <2> QED BY <2>1, FinerNeighbours
<1>2. ASSUME NEW i \in Axis PROVE x(i) \in Slab(m, q, e, i)
  <2>1. e[i] \in {-1, 0, 1} /\ m.quads[q].pos[i] \in Nat /\ h(i) \in {0, 1}
    BY Components, Boxes DEF Sign, FinerHalf
  <2> HIDE DEF h
  <2> QED BY <1>1, <2>1 DEF Slab
<1>3. c \in Across(m, q, e)
  BY <1>2 DEF Across, Axis
<1>x. \A i \in Axis : c[i] = x(i)
  BY DEF Axis
<1> HIDE DEF c
<1> DEFINE n == CoveredBy(m)[Wrap(m, c)]
<1>4. n \in g.neighbours[q][e]
  BY <1>3, NeighboursAre
<1>5. Covers(m, n, Wrap(m, c))
  BY <1>3, Wrapped, Covering
<1> HIDE DEF n
<1>6. n \in Quads(m) /\ m.quads[n].size = 1
  BY <1>4, FinerNeighbours
<1>7. ASSUME NEW i \in Axis, e[i] = 0 PROVE Half01(g, n, q, i) = h(i)
  <2>1. Wrap(m, c)[i] = m.quads[q].pos[i] + h(i)
    BY <1>3, <1>7, <1>x, Wrapped
  <2>2. m.quads[n].pos[i] <= Wrap(m, c)[i] /\ Wrap(m, c)[i] < m.quads[n].pos[i] + 1
    BY <1>5, <1>6 DEF Covers
  <2>3. m.quads[n].pos[i] - m.quads[q].pos[i] = Half01(m, n, q, i) /\ Half01(m, n, q, i) \in {0, 1}
    BY <1>4, <1>7, FinerNeighbours
  <2>4. m.quads[n].pos[i] \in Nat /\ m.quads[q].pos[i] \in Nat /\ h(i) \in {0, 1}
    BY <1>6, Boxes DEF FinerHalf
  <2>5. Half01(g, n, q, i) = Half01(m, n, q, i)
    BY LayerOf DEF Half01
  <2> HIDE DEF h, g
  <2> QED BY <2>1, <2>2, <2>3, <2>4, <2>5
<1>8. ASSUME NEW i \in Axis PROVE j[i] \in Written(At("finer", FinerBox(g, q, e, n, s)), i)
  <2> DEFINE b == Half01(g, n, q, i)
             a == e[i]
             y == j[i]
             P == FinerPairs(Kind(e), a, s, i, b, Remote(g, q, n))
             by == Half * Begins(g, q, n, e, i)
  <2>1. Written(At("finer", FinerBox(g, q, e, n, s)), i) = {p[1] : p \in Moved(P, by)}
    BY DEF Written, At, FinerBox
  <2>2. a \in Sign /\ y \in Beyond(a, nx, Shift(s, i)) /\ (a = 0 => b = FinerHalf(a, Shift(s, i), y))
    BY <1>7, Components DEF InElement
  <2> HIDE DEF a, y, b, by
  <2>4. PICK p \in P : p[1] = y
    BY <2>2, FinerFills
  <2> HIDE DEF P
  <2>5. PICK r \in Moved(P, by) : r[1] = p[1]
    BY MovedFirst
  <2> QED BY <2>1, <2>4, <2>5 DEF y
<1> QED BY <1>4, <1>8 DEF Holds

(* The boundary kernel of an element fills it. *)
LEMMA WallCovers ==
  ASSUME NEW g, NEW q, NEW e \in Dir, NEW s \in Staggerings, NEW j, InElement(j, e, nx, s)
  PROVE  Holds(At("wall", [i \in Axis |-> Plain(WallRange(g, q, e, i, nx, s))]), j)
<1>1. ASSUME NEW i \in Axis
      PROVE  j[i] \in Written(At("wall", [k \in Axis |-> Plain(WallRange(g, q, e, k, nx, s))]), i)
  <2> DEFINE A == [k \in Axis |-> Plain(WallRange(g, q, e, k, nx, s))]
  <2>1. A[i] = Plain(WallRange(g, q, e, i, nx, s))
    OBVIOUS
  <2> HIDE DEF A
  <2>2. Written(At("wall", A), i) = WallRange(g, q, e, i, nx, s)
    BY <2>1, WrittenPlain
  <2>3. nx # Half
    BY Sizes
  <2>4. WallRange(g, q, e, i, nx, s) = Beyond(e[i], nx, Shift(s, i))
    BY <2>3 DEF WallRange
  <2> QED BY <2>2, <2>4 DEF InElement, A
<1> QED BY <1>1 DEF Holds

(* Steps reach every second cell, from the first to the last. *)
LEMMA StepsReach ==
  ASSUME NEW k, NEW c \in Sign, NEW w \in Nat, First(c) <= w, w <= Last(c), (w - First(c)) % 2 = 0
  PROVE  \E x \in Steps(c) : Fine(k, c, x) = w
<1> DEFINE x == (w - First(c)) \div 2
<1>1. First(c) \in Nat /\ Last(c) = First(c) + 2 * ((IF c = 0 THEN Half ELSE ngz \div 2) - 1)
  BY Sizes DEF First, Last, Sign
<1>2. x \in 0 .. (IF c = 0 THEN Half ELSE ngz \div 2) - 1 /\ First(c) + 2 * x = w
  <2> DEFINE a == First(c)
             n == IF c = 0 THEN Half ELSE ngz \div 2
  <2>1. a \in Nat /\ n \in Nat /\ a <= w /\ w <= a + 2 * (n - 1) /\ (w - a) % 2 = 0
    BY <1>1, Sizes
  <2> HIDE DEF a, n
  <2>2. (w - a) \div 2 \in 0 .. n - 1 /\ a + 2 * ((w - a) \div 2) = w
    BY <2>1
  <2> QED BY <2>2 DEF a, n
<1>3. x \in Steps(c)
  BY <1>2 DEF Steps
<1> HIDE DEF x
<1>4. Fine(k, c, x) = First(c) + 2 * x
  BY <1>3, FineIs
<1> QED BY <1>2, <1>3, <1>4

(* Where an element's cells are, by the first and last index. *)
LEMMA BeyondFrom ==
  ASSUME NEW c \in Sign, NEW t \in {0, 1}, NEW j \in Beyond(c, nx, t)
  PROVE  /\ j \in Nat /\ First(c) \in Nat /\ Last(c) \in Nat /\ First(c) <= Last(c)
         /\ Last(c) % 2 = First(c) % 2
         /\ First(c) <= j /\ j <= Last(c) + 1 + t
         /\ t = 1 /\ c = 1 => j # First(c)
         /\ c = -1 => j # Last(c) + 2
         /\ c = 0 => First(c) = ngz /\ Last(c) + 2 = nx + ngz
<1>1. nx \in Nat /\ c \in {-1, 0, 1}
  BY Sizes DEF Sign
<1>2. /\ j \in Nat
      /\ c = 1 => nx + t + ngz <= j /\ j <= nx + t + 2 * ngz - 1
      /\ c = -1 => j <= ngz - 1
      /\ c = 0 => ngz <= j /\ j <= nx + t + ngz - 1
  BY <1>1, BeyondIs
<1>3. CASE c = 1
  <2>1. First(c) = nx + ngz /\ Last(c) = nx + 2 * ngz - 2
    BY <1>3 DEF First, Last
  <2>2. (nx + 2 * ngz - 2) % 2 = 0 /\ (nx + ngz) % 2 = 0
    BY CellsAssumption
  <2> QED BY <1>2, <1>3, <2>1, <2>2, Sizes
<1>4. CASE c = -1
  BY <1>2, <1>4, Sizes DEF First, Last
<1>5. CASE c = 0
  BY <1>2, <1>5, Sizes DEF First, Last
<1> QED BY <1>1, <1>3, <1>4, <1>5

(* The cells that interpolation fills along an axis. *)
LEMMA FineCellsAre ==
  ASSUME NEW d \in Dir, NEW i \in Axis, NEW w \in Beyond(d[i], nx, 0)
  PROVE  w \in FineCells(d, i)
<1> DEFINE c == d[i]
           k == Kind(d)
<1>2. FineCells(d, i) = UNION {{Fine(k, c, x), Fine(k, c, x) + 1} : x \in Steps(c)}
  BY DEF FineCells
<1>3. c \in Sign /\ w \in Beyond(c, nx, 0)
  BY Components
<1> HIDE DEF c, k
<1>4. /\ w \in Nat /\ First(c) \in Nat /\ Last(c) \in Nat /\ First(c) <= w /\ w <= Last(c) + 1
      /\ Last(c) % 2 = First(c) % 2 /\ First(c) <= Last(c)
  BY <1>3, BeyondFrom
<1> DEFINE f == First(c)
           l == Last(c)
<1>5. \/ w <= l /\ (w - f) % 2 = 0
      \/ w - 1 \in Nat /\ f <= w - 1 /\ w - 1 <= l /\ (w - 1 - f) % 2 = 0
  <2> HIDE DEF f, l
  <2>1. f \in Nat /\ l \in Nat /\ f <= w /\ w <= l + 1 /\ l % 2 = f % 2 /\ f <= l /\ w \in Nat
    BY <1>4 DEF f, l
  <2> QED BY <2>1
<1>6. CASE w <= l /\ (w - f) % 2 = 0
  <2>1. PICK x \in Steps(c) : Fine(k, c, x) = w
    BY <1>3, <1>4, <1>6, StepsReach
  <2> QED BY <1>2, <2>1
<1>7. CASE w - 1 \in Nat /\ f <= w - 1 /\ w - 1 <= l /\ (w - 1 - f) % 2 = 0
  <2> DEFINE v == w - 1
  <2>0. v \in Nat /\ f <= v /\ v <= l /\ (v - f) % 2 = 0 /\ v + 1 = w
    BY <1>4, <1>7
  <2> HIDE DEF v
  <2>1. PICK x \in Steps(c) : Fine(k, c, x) = v
    BY <1>3, <2>0, StepsReach
  <2> QED BY <1>2, <2>0, <2>1
<1> QED BY <1>5, <1>6, <1>7

(* Two axes are not one. *)
LEMMA OneMember ==
  ASSUME NEW N \in SUBSET Axis, NEW a \in N, NEW b \in N, a # b
  PROVE  Cardinality(N) # 1
<1>1. IsFiniteSet(1 .. 3)
  BY FS_Interval, 1 \in Int, 3 \in Int
<1>2. IsFiniteSet(N)
  BY <1>1, FS_Subset DEF Axis
<1> QED BY <1>2, FS_Singleton

(* Interpolation fills the cells of an element, but for the planes that have *)
(* fine data.                                                               *)
LEMMA ProlongedCovers ==
  ASSUME NEW g, NEW q, NEW d \in Dir, NEW s \in Staggerings, NEW j, InElement(j, d, nx, s),
         s \in Axis /\ d[s] = 0 => /\ ~(j[s] = ngz /\ HasFine(g, q, d, s, -1))
                                   /\ ~(j[s] = nx + ngz /\ HasFine(g, q, d, s, 1))
  PROVE  Holds(At("prolonged", ProlongedBox(g, q, d, s)), j)
<1> DEFINE A == ProlongedBox(g, q, d, s)
<1>1. ASSUME NEW i \in Axis, i # s PROVE j[i] \in Written(At("prolonged", A), i)
  <2>1. A[i] = Plain(FineCells(d, i))
    BY <1>1 DEF ProlongedBox
  <2>2. j[i] \in Beyond(d[i], nx, 0)
    BY <1>1 DEF InElement, Shift
  <2> HIDE DEF A
  <2> QED BY <2>1, <2>2, FineCellsAre, WrittenPlain
<1>2. ASSUME s \in Axis PROVE j[s] \in Written(At("prolonged", A), s)
  <2> DEFINE c == d[s]
             k == Kind(d)
             w == j[s]
             at == {<<Fine(k, c, x), Coarse(k, c, x)>> : x \in Steps(c)}
             P == {p[1] : p \in Planes1(g, q, d, s)}
             R == Planes2(d, s)
             low == HasFine(g, q, d, s, -1)
             high == HasFine(g, q, d, s, 1)
  <2>1. Written(At("prolonged", A), s) = P \cup R
    <3>1. A[s] = Plain(P \cup R)
      BY <1>2 DEF ProlongedBox
    <3> HIDE DEF P, R, A
    <3> QED BY <3>1, WrittenPlain
  <2>2. c \in Sign /\ w \in Beyond(c, nx, 1)
    BY <1>2, Components DEF InElement, Shift
  <2>3. Planes1(g, q, d, s) = {p \in at : ~(p[1] = First(c) /\ low)}
          \cup {<<p[1] + 2, p[2] + 1>> : p \in {r \in at : r[1] = Last(c) /\ ~high}}
    BY DEF Planes1
  <2>4. R = {Fine(k, c, x) + 1 : x \in Steps(c)}
    BY DEF Planes2
  <2>5. /\ c = -1 => ~low
        /\ c = 1 => ~high
        /\ c = 0 => ~(w = ngz /\ low) /\ ~(w = nx + ngz /\ high)
    BY <1>2 DEF HasFine
  <2> HIDE DEF A, R, c, k, w, low, high
  <2>6. /\ w \in Nat /\ First(c) \in Nat /\ Last(c) \in Nat /\ First(c) <= w /\ w <= Last(c) + 2
        /\ Last(c) % 2 = First(c) % 2 /\ First(c) <= Last(c)
        /\ c = 1 => w # First(c)
        /\ c = -1 => w # Last(c) + 2
        /\ c = 0 => First(c) = ngz /\ Last(c) + 2 = nx + ngz
    BY <2>2, BeyondFrom
  <2>7. /\ w = First(c) => ~low
        /\ w = Last(c) + 2 => ~high
    BY <2>2, <2>5, <2>6 DEF Sign
  <2> DEFINE f == First(c)
             l == Last(c)
  <2>8. \/ w <= l /\ (w - f) % 2 = 0
        \/ w - 1 \in Nat /\ f <= w - 1 /\ w - 1 <= l /\ (w - 1 - f) % 2 = 0
        \/ w = l + 2
    <3> HIDE DEF f, l
    <3>1. f \in Nat /\ l \in Nat /\ f <= w /\ w <= l + 2 /\ l % 2 = f % 2 /\ f <= l /\ w \in Nat
      BY <2>6 DEF f, l
    <3> QED BY <3>1
  <2>9. CASE w <= l /\ (w - f) % 2 = 0
    <3>1. PICK x \in Steps(c) : Fine(k, c, x) = w
      BY <2>2, <2>6, <2>9, StepsReach
    <3> DEFINE p == <<Fine(k, c, x), Coarse(k, c, x)>>
    <3>2. p \in at /\ p[1] = w
      BY <3>1
    <3>3. p \in Planes1(g, q, d, s)
      BY <2>3, <2>7, <3>2
    <3> QED BY <2>1, <3>2, <3>3 DEF w
  <2>10. CASE w - 1 \in Nat /\ f <= w - 1 /\ w - 1 <= l /\ (w - 1 - f) % 2 = 0
    <3> DEFINE v == w - 1
    <3>0. v \in Nat /\ f <= v /\ v <= l /\ (v - f) % 2 = 0 /\ v + 1 = w
      BY <2>6, <2>10
    <3> HIDE DEF v
    <3>1. PICK x \in Steps(c) : Fine(k, c, x) = v
      BY <2>2, <3>0, StepsReach
    <3> QED BY <2>1, <2>4, <3>0, <3>1 DEF w
  <2>11. CASE w = l + 2
    <3>1. PICK x \in Steps(c) : Fine(k, c, x) = l
      <4>1. l \in Nat /\ First(c) <= l /\ l <= Last(c) /\ (l - First(c)) % 2 = 0
        <5> DEFINE z == First(c)
        <5>1. l \in Nat /\ z \in Nat /\ z <= l /\ l % 2 = z % 2
          BY <2>6
        <5>2. (l - z) % 2 = 0
          <6> HIDE DEF z, l
          <6> QED BY <5>1
        <5>3. l <= Last(c)
          BY <2>6
        <5> HIDE DEF l
        <5> QED BY <5>1, <5>2, <5>3 DEF z
      <4> HIDE DEF l
      <4> QED BY <2>2, <4>1, StepsReach
    <3> DEFINE r == <<Fine(k, c, x), Coarse(k, c, x)>>
               p == <<r[1] + 2, r[2] + 1>>
    <3>2. r \in at /\ r[1] = l /\ ~high
      BY <2>7, <2>11, <3>1
    <3>3. p \in Planes1(g, q, d, s)
      BY <2>3, <3>2
    <3>4. p[1] = w
      BY <2>11, <3>2
    <3> QED BY <2>1, <3>3, <3>4 DEF w
  <2> QED BY <2>8, <2>9, <2>10, <2>11
<1>3. ASSUME NEW i \in Axis PROVE j[i] \in Written(At("prolonged", A), i)
  BY <1>1, <1>2, <1>3
<1> QED BY <1>3 DEF Holds

(* Every element has a neighbour, if only beyond a wall. *)
LEMMA SomeNeighbour ==
  ASSUME NEW m \in Meshes, NEW q \in Quads(m), NEW d \in Dir
  PROVE  \E n \in Layer[m].neighbours[q][d] : TRUE
<1> DEFINE x(i) == m.quads[q].pos[i] + (CASE d[i] = 1 -> m.quads[q].size [] d[i] = -1 -> -1 [] OTHER -> 0)
           c == <<x(1), x(2), x(3)>>
<1>1. ASSUME NEW i \in Axis PROVE x(i) \in Slab(m, q, d, i)
  <2>1. d[i] \in {-1, 0, 1} /\ m.quads[q].pos[i] \in Nat /\ m.quads[q].size \in {1, 2}
    BY Components, Boxes DEF Sign
  <2> QED BY <2>1 DEF Slab
<1>2. c \in Across(m, q, d)
  BY <1>1 DEF Across, Axis
<1> HIDE DEF c
<1> QED BY <1>2, NeighboursAre

(* What each step has filled stays filled. *)
StepsInv ==
  /\ tree \in Meshes /\ quad \in Quads(tree) /\ stag \in Staggerings
  /\ step # "copy" => Copied(Here, quad, stag) \subseteq view
  /\ step \notin {"copy", "walls"} => WallsOf(Here, quad, Boundary \ Late, nx, stag) \subseteq view
  /\ step \in {"late walls", "filled"} =>
       {At("prolonged", ProlongedBox(Here, quad, d, stag)) : d \in ProlongedHere} \subseteq view
  /\ step = "filled" => WallsOf(Here, quad, Late, nx, stag) \subseteq view

(* When a sweep ends, a box of the view holds any point of any element. *)
LEMMA PointFilled ==
  ASSUME StepsInv, step = "filled", NEW j, NEW e \in Place, InElement(j, e, nx, stag)
  PROVE  \E b \in view \cup Excused : Holds(b, j)
<1> DEFINE g == Here
<1>0. tree \in Meshes /\ quad \in Quads(tree) /\ stag \in Staggerings /\ g = Layer[tree]
  BY DEF StepsInv, Here
<1>1. /\ Copied(g, quad, stag) \subseteq view
      /\ WallsOf(g, quad, Boundary \ Late, nx, stag) \subseteq view /\ WallsOf(g, quad, Late, nx, stag) \subseteq view
      /\ \A d \in ProlongedHere : At("prolonged", ProlongedBox(g, quad, d, stag)) \in view
  BY DEF StepsInv
<1>2. CASE e = Zero
  <2>1. At("own", Own(nx, stag)) \in Copied(g, quad, stag)
    BY DEF Copied
  <2> QED BY <1>0, <1>1, <1>2, <2>1, OwnCovers
<1>same. ASSUME NEW d \in Dir, g.class[quad][d] = "same"
         PROVE  \E n : At("same", SameBoxOf(g, quad, d, n, nx, stag)) \in view
  <2>1. PICK n \in g.neighbours[quad][d] : TRUE
    BY <1>0, SomeNeighbour
  <2>2. At("same", SameBoxOf(g, quad, d, n, nx, stag)) \in Copied(g, quad, stag)
    BY <1>same, <2>1 DEF Copied
  <2> QED BY <1>1, <2>2
<1>3. CASE e \in Dir /\ g.class[quad][e] = "same"
  <2>1. PICK n : At("same", SameBoxOf(g, quad, e, n, nx, stag)) \in view
    BY <1>3, <1>same
  <2>2. Holds(At("same", SameBoxOf(g, quad, e, n, nx, stag)), j)
    BY <1>0, <1>3, Sizes, SameCovers DEF InElement
  <2> QED BY <2>1, <2>2
<1>4. CASE e \in Dir /\ g.class[quad][e] = "finer"
  <2>1. PICK n \in g.neighbours[quad][e] : Holds(At("finer", FinerBox(g, quad, e, n, stag)), j)
    BY <1>0, <1>4, FinerCovers
  <2>2. At("finer", FinerBox(g, quad, e, n, stag)) \in Copied(g, quad, stag)
    BY <1>4, <2>1 DEF Copied
  <2> QED BY <1>1, <2>1, <2>2
<1>5. CASE e \in Dir /\ g.class[quad][e] = "phys"
  <2> DEFINE b == At("wall", [i \in Axis |-> Plain(WallRange(g, quad, e, i, nx, stag))])
  <2>1. e \in Boundary
    BY <1>5 DEF Boundary
  <2>2. b \in WallsOf(g, quad, Boundary \ Late, nx, stag) \/ b \in WallsOf(g, quad, Late, nx, stag)
    BY <2>1 DEF WallsOf
  <2>3. Holds(b, j)
    BY <1>0, <1>5, WallCovers
  <2> HIDE DEF b
  <2> QED BY <1>1, <2>2, <2>3
<1>6. CASE e \in Dir /\ g.class[quad][e] \in {"coarser", "virtual"}
  <2>0. e \in ProlongedHere
    BY <1>6 DEF ProlongedHere, Prolonged
  <2>1. CASE ~\E side \in {-1, 1} : /\ stag \in Axis /\ e[stag] = 0 /\ HasFine(g, quad, e, stag, side)
                                    /\ j[stag] = (IF side = -1 THEN ngz ELSE nx + ngz)
    <3>1. stag \in Axis /\ e[stag] = 0 => /\ ~(j[stag] = ngz /\ HasFine(g, quad, e, stag, -1))
                                          /\ ~(j[stag] = nx + ngz /\ HasFine(g, quad, e, stag, 1))
      BY <2>1
    <3>2. Holds(At("prolonged", ProlongedBox(g, quad, e, stag)), j)
      BY <1>0, <1>6, <3>1, ProlongedCovers
    <3> QED BY <1>1, <2>0, <3>2
  <2>2. ASSUME NEW side \in {-1, 1}, stag \in Axis, e[stag] = 0, HasFine(g, quad, e, stag, side),
               j[stag] = (IF side = -1 THEN ngz ELSE nx + ngz)
        PROVE  \E b \in view \cup Excused : Holds(b, j)
    <3> DEFINE f == EndElement(e, stag, side)
    <3>1. /\ f = [e EXCEPT ![stag] = side] /\ f \in Dir /\ f[stag] = side
          /\ \A i \in Axis \ {stag} : f[i] = e[i]
          /\ Kind(f) # FACE
      <4>1. f = [e EXCEPT ![stag] = side]
        BY <2>2 DEF EndElement
      <4>2. e = <<e[1], e[2], e[3]>> /\ e[1] \in Sign /\ e[2] \in Sign /\ e[3] \in Sign
        BY DEF Place
      <4>3. f \in Dir
        <5>1. stag = 1 \/ stag = 2 \/ stag = 3
          BY <2>2 DEF Axis
        <5>2. f = <<f[1], f[2], f[3]>> /\ f[1] \in Sign /\ f[2] \in Sign /\ f[3] \in Sign /\ f[stag] # 0
          BY <4>1, <4>2, <5>1 DEF Sign
        <5> QED BY <5>1, <5>2 DEF Dir, Place, Zero
      <4>4. f[stag] = side /\ \A i \in Axis \ {stag} : f[i] = e[i]
        <5>1. DOMAIN e = Axis
          BY <4>2 DEF Axis
        <5> QED BY <2>2, <4>1, <5>1
      <4>5. PICK k \in Axis : e[k] # 0
        BY <1>6, <4>2 DEF Dir, Zero, Axis
      <4>6. Kind(f) # FACE
        <5> DEFINE N == {i \in Axis : f[i] # 0}
        <5>1. stag \in N /\ k \in N /\ k # stag
          BY <2>2, <4>4, <4>5
        <5>2. ASSUME Cardinality(N) = 1 PROVE FALSE
          BY <5>1, <5>2, OneMember
        <5> QED BY <5>2 DEF Kind, FACE
      <4> QED BY <4>1, <4>3, <4>4, <4>6
    <3>2. f # Zero /\ g.class[quad][f] \in {"same", "phys"}
      BY <2>2, <3>1 DEF HasFine, Dir
    <3> HIDE DEF f
    <3>3. Shift(stag, stag) = 1 /\ \A i \in Axis : i # stag => Shift(stag, i) = 0
      BY DEF Shift
    <3>4. CASE g.class[quad][f] = "same"
      <4>1. PICK n : At("same", SameBoxOf(g, quad, f, n, nx, stag)) \in view
        BY <3>1, <3>4, <1>same
      <4>2. ASSUME NEW i \in Axis
            PROVE  \/ j[i] \in Beyond(f[i], nx, Shift(stag, i))
                   \/ Kind(f) # FACE /\ Shift(stag, i) = 1 /\ f[i] = -1 /\ j[i] = ngz
                   \/ Kind(f) # FACE /\ Shift(stag, i) = 1 /\ f[i] = 1 /\ j[i] = nx + ngz
        <5>1. CASE i # stag
          BY <3>1, <5>1 DEF InElement
        <5>2. CASE i = stag
          BY <2>2, <3>1, <3>3, <5>2
        <5> QED BY <5>1, <5>2
      <4>3. Holds(At("same", SameBoxOf(g, quad, f, n, nx, stag)), j)
        <5> HIDE DEF g
        <5>1. stag \in Staggerings /\ f \in Dir
          BY <1>0, <3>1
        <5> QED BY <4>2, <5>1, Sizes, SameCovers
      <4> QED BY <4>1, <4>3
    <3>5. CASE g.class[quad][f] = "phys"
      <4> DEFINE I == TakenAsFine(e, stag, side)
                 b == [by |-> "nobody", axes |-> [i \in Axis |-> Plain(I[i])]]
      <4>1. stag # Center
        BY <2>2 DEF Axis, Center
      <4>2. I \in TakenAs(e, {"phys"})
        <5>1. ThereIs(EndElement(e, stag, side)) = g.class[quad][f]
          BY <3>2 DEF ThereIs, f
        <5> QED BY <2>2, <3>5, <4>1, <5>1 DEF TakenAs
      <4>3. I \in NeverFine
        BY <2>0, <2>2, <4>2 DEF NeverFine
      <4>4. b \in Excused
        BY <4>3 DEF Excused
      <4>5. ASSUME NEW i \in Axis PROVE j[i] \in I[i]
        <5>1. CASE i = stag
          <6>1. First(e[stag]) = ngz /\ Last(e[stag]) + 2 = nx + ngz
            BY <2>2, Sizes DEF First, Last
          <6>2. I[i] = {IF side = -1 THEN First(e[stag]) ELSE Last(e[stag]) + 2}
            BY <5>1 DEF TakenAsFine
          <6> QED BY <2>2, <5>1, <6>1, <6>2
        <5>2. CASE i # stag
          <6>1. j[i] \in Beyond(e[i], nx, 0)
            BY <3>3, <5>2 DEF InElement
          <6>2. I[i] = FineCells(e, i)
            BY <5>2 DEF TakenAsFine
          <6> QED BY <1>6, <6>1, <6>2, FineCellsAre
        <5> QED BY <5>1, <5>2
      <4>6. ASSUME NEW i \in Axis PROVE Written(b, i) = I[i]
        <5> DEFINE A == [k \in Axis |-> Plain(I[k])]
        <5>1. A[i] = Plain(I[i]) /\ b = At("nobody", A)
          BY DEF At
        <5> HIDE DEF A, I, b
        <5> QED BY <5>1, WrittenPlain
      <4> HIDE DEF b, I
      <4> QED BY <4>4, <4>5, <4>6 DEF Holds
    <3> QED BY <3>2, <3>4, <3>5
  <2> QED BY <2>1, <2>2
<1>7. e \in Dir => g.class[quad][e] \in {"virtual", "phys", "coarser", "finer", "same"}
  BY <1>0, ClassesAre
<1> QED BY <1>2, <1>3, <1>4, <1>5, <1>6, <1>7 DEF Dir

(* StepsInv is inductive. *)
LEMMA StepsKept == CellSpec => []StepsInv
<1>1. CellInit => StepsInv
  BY DEF CellInit, StepsInv
<1>2. ASSUME StepsInv, [CellNext]_cellVars PROVE StepsInv'
  <2>1. CASE CopyAll
    BY <1>2, <2>1 DEF CopyAll, StepsInv, Here
  <2>2. CASE EarlyWalls
    BY <1>2, <2>2 DEF EarlyWalls, StepsInv, Here, Boundary, Late
  <2>3. CASE ProlongAll
    BY <1>2, <2>3 DEF ProlongAll, StepsInv, Here, Boundary, Late, ProlongedHere
  <2>4. CASE LateWalls
    BY <1>2, <2>4 DEF LateWalls, StepsInv, Here, Boundary, Late, ProlongedHere
  <2>5. CASE UNCHANGED cellVars
    BY <1>2, <2>5 DEF cellVars, StepsInv, Here, Boundary, Late, ProlongedHere
  <2> QED BY <1>2, <2>1, <2>2, <2>3, <2>4, <2>5 DEF CellNext
<1> QED BY <1>1, <1>2, PTL DEF CellSpec

(* On every mesh, for every quadrant and staggering, and with any even number
   of ghosts: when a sweep ends every cell of the quadrant's array has been
   filled, but for the planes that interpolation takes for fine at a wall. *)
THEOREM NoCellLeftOut == CellSpec => []NothingLeftOut
<1>1. StepsInv => NothingLeftOut
  <2> SUFFICES ASSUME StepsInv, step = "filled",
                      NEW j, \A i \in Axis : j[i] \in Whole[i]
               PROVE  \E b \in view \cup Excused : Holds(b, j)
    BY PointsCover DEF NothingLeftOut
  <2> DEFINE t(i) == Shift(stag, i)
             c(i) == Component(j[i], t(i))
             e == <<c(1), c(2), c(3)>>
  <2>1. \A i \in Axis : t(i) \in {0, 1} /\ j[i] \in 0 .. nx + t(i) + 2 * ngz - 1
    BY Shifts DEF StepsInv, Whole
  <2>2. \A i \in Axis : c(i) \in Sign /\ j[i] \in Beyond(c(i), nx, t(i))
    <3> HIDE DEF t
    <3> QED BY <2>1, ComponentOf
  <2>3. e \in Place /\ \A i \in Axis : e[i] = c(i)
    BY <2>2 DEF Place, Axis
  <2> HIDE DEF c, e
  <2>4. InElement(j, e, nx, stag)
    BY <2>2, <2>3 DEF InElement
  <2> QED BY <2>3, <2>4, PointFilled
<1> QED BY <1>1, StepsKept, PTL

-----------------------------------------------------------------------------
(* No stencil is empty: what the coarse buffer holds, and what interpolation *)
(* reads of it.                                                              *)

(* The physical axes of an element, and its class. *)
LEMMA PhysOf ==
  ASSUME NEW m \in Meshes, NEW q \in Quads(m)
  PROVE  LET w == WithNeighbours(Blank(m))
         IN  /\ \A d \in Dir : Layer[m].phys[q][d] = PhysAxes(m, q, d) /\ w.phys[q][d] = PhysAxes(m, q, d)
             /\ \A d \in Dir : Layer[m].class[q][d] = ClassOf(w, q, d)
             /\ \A d, e : SameBox(w, q, d, e) = SameBox(m, q, d, e)
<1> DEFINE w == WithNeighbours(Blank(m))
<1>1. /\ Blank(m).phys = [p \in Quads(m) |-> [d \in Dir |-> PhysAxes(m, p, d)]]
      /\ DOMAIN Blank(m) = {"len", "quads", "covered", "phys", "neighbours", "class", "cbuf", "virtual", "ops", "tasks"}
  BY DEF Blank
<1>2. w.phys = Blank(m).phys
  BY <1>1 DEF WithNeighbours
<1>3. WithTags(WithClasses(w)).phys = w.phys
  <2>1. DOMAIN w = DOMAIN Blank(m)
    BY DEF WithNeighbours
  <2> HIDE DEF w
  <2>2. WithClasses(w).phys = w.phys /\ DOMAIN WithClasses(w) = DOMAIN w
    BY <1>1, <2>1 DEF WithClasses
  <2> DEFINE v == WithClasses(w)
  <2> HIDE DEF v
  <2>3. WithTags(v).phys = v.phys
    BY <1>1, <2>1, <2>2 DEF WithTags, v
  <2> QED BY <2>2, <2>3 DEF v
<1>4. Layer[m].phys = w.phys
  BY <1>3 DEF Layer
<1>5. /\ w.quads = m.quads
      /\ Layer[m].class = [p \in Quads(m) |-> [e \in Dir |-> ClassOf(w, p, e)]]
  BY LayerOf
<1> HIDE DEF w
<1>6. \A d, e : SameBox(w, q, d, e) = SameBox(m, q, d, e)
  BY <1>5 DEF SameBox, Across, Slab
<1> QED BY <1>1, <1>2, <1>4, <1>5, <1>6 DEF w

(* Whether an axis is physical depends on that component alone. *)
LEMMA PhysByAxis ==
  ASSUME NEW m, NEW q, NEW d \in Dir, NEW e \in Dir, NEW i \in Axis, d[i] = e[i]
  PROVE  i \in PhysAxes(m, q, d) <=> i \in PhysAxes(m, q, e)
BY DEF PhysAxes, Slab

(* An element without some of its components. *)
LEMMA WithoutIs ==
  ASSUME NEW d \in Place, NEW A
  PROVE  /\ Without(d, A) \in Place
         /\ \A i \in Axis : Without(d, A)[i] = IF i \in A THEN 0 ELSE d[i]
BY DEF Without, Place, Sign, Axis

(* Elements, by their components. *)
LEMMA PlaceIs ==
  /\ \A d \in Place : \A i \in Axis : d[i] \in Sign
  /\ \A d, e \in Place : (\A i \in Axis : d[i] = e[i]) => d = e
  /\ \A d \in Place : d \in Dir <=> \E i \in Axis : d[i] # 0
  /\ Zero \in Place /\ \A i \in Axis : Zero[i] = 0
  /\ \A d \in Dir : d \in Place
<1>1. \A d \in Place : d = <<d[1], d[2], d[3]>> /\ d[1] \in Sign /\ d[2] \in Sign /\ d[3] \in Sign
  BY DEF Place
<1>2. \A d, e \in Place : (\A i \in Axis : d[i] = e[i]) => d = e
  BY <1>1 DEF Axis
<1>3. Zero \in Place /\ \A i \in Axis : Zero[i] = 0
  BY DEF Zero, Place, Sign, Axis
<1> QED BY <1>1, <1>2, <1>3 DEF Dir, Axis

(* The one cell across an element of a quadrant of size 1. *)
CellAt(m, q, d, i) == m.quads[q].pos[i] + d[i]
LEMMA SmallAcross ==
  ASSUME NEW m \in Meshes, NEW q \in Quads(m), m.quads[q].size = 1, NEW d \in Dir
  PROVE  /\ \A c \in Across(m, q, d) : \A i \in Axis : c[i] = CellAt(m, q, d, i)
         /\ \E c \in Across(m, q, d) : \A i \in Axis : c[i] = CellAt(m, q, d, i)
<1>1. ASSUME NEW i \in Axis PROVE Slab(m, q, d, i) = {CellAt(m, q, d, i)}
  <2> DEFINE p == m.quads[q].pos[i]
             a == d[i]
  <2>1. a \in {-1, 0, 1} /\ p \in Nat
    BY Components, Boxes DEF Sign
  <2>2. Slab(m, q, d, i) = CASE a = 1 -> {p + 1} [] a = -1 -> {p - 1} [] OTHER -> p .. (p + 1 - 1)
    BY DEF Slab
  <2>3. CellAt(m, q, d, i) = p + a
    BY DEF CellAt
  <2> HIDE DEF p, a
  <2>4. p .. (p + 1 - 1) = {p}
    BY <2>1
  <2> QED BY <2>1, <2>2, <2>3, <2>4
<1> DEFINE x(i) == CellAt(m, q, d, i)
<1>2. Across(m, q, d) = {x(1)} \X {x(2)} \X {x(3)}
  BY <1>1 DEF Across, Axis
<1> HIDE DEF x
<1>3. /\ \A c \in Across(m, q, d) : c[1] = x(1) /\ c[2] = x(2) /\ c[3] = x(3)
      /\ <<x(1), x(2), x(3)>> \in Across(m, q, d)
  BY <1>2
<1> QED BY <1>3 DEF x, Axis

(* Two such elements in one box of coarse cells. *)
LEMMA SmallBoxes ==
  ASSUME NEW m \in Meshes, NEW q \in Quads(m), m.quads[q].size = 1, NEW d \in Dir, NEW e \in Dir
  PROVE  SameBox(m, q, d, e) <=> \A i \in Axis : CellAt(m, q, d, i) \div 2 = CellAt(m, q, e, i) \div 2
<1>1. /\ \A c \in Across(m, q, d) : \A i \in Axis : c[i] = CellAt(m, q, d, i)
      /\ \E c \in Across(m, q, d) : \A i \in Axis : c[i] = CellAt(m, q, d, i)
  BY SmallAcross
<1>2. /\ \A c \in Across(m, q, e) : \A i \in Axis : c[i] = CellAt(m, q, e, i)
      /\ \E c \in Across(m, q, e) : \A i \in Axis : c[i] = CellAt(m, q, e, i)
  BY SmallAcross
<1> QED BY <1>1, <1>2 DEF SameBox

(* Next to a coarser neighbour of element d, or of one it is in the middle *)
(* of, in the same box, there is an element with a descriptor.             *)
Covered(m, q, d, c) == /\ c \in Dir /\ Within(c, d) /\ c # d
                       /\ SameBox(m, q, c, d)
                       /\ \E n \in Layer[m].neighbours[q][c] : m.quads[n].size > m.quads[q].size
(* An element's class, by what the mesh has there. *)
LEMMA VirtualIs ==
  ASSUME NEW m \in Meshes, NEW q \in Quads(m), NEW d \in Dir
  PROVE  /\ Layer[m].class[q][d] = "virtual" <=> \E c : Covered(m, q, Without(d, PhysAxes(m, q, d)), c)
         /\ Layer[m].class[q][d] = "coarser" =>
              PhysAxes(m, q, d) = {} /\ \E n \in Layer[m].neighbours[q][d] : m.quads[n].size > m.quads[q].size
         /\ (/\ Layer[m].class[q][d] # "virtual" /\ PhysAxes(m, q, d) = {}
             /\ \E n \in Layer[m].neighbours[q][d] : m.quads[n].size > m.quads[q].size)
              => Layer[m].class[q][d] = "coarser"
         /\ Layer[m].class[q][d] # "virtual" /\ PhysAxes(m, q, d) # {} => Layer[m].class[q][d] = "phys"
<1> DEFINE w == WithNeighbours(Blank(m))
<1>1. /\ w.phys[q][d] = PhysAxes(m, q, d) /\ Layer[m].class[q][d] = ClassOf(w, q, d)
      /\ \A e, f : SameBox(w, q, e, f) = SameBox(m, q, e, f)
  BY PhysOf
<1>2. w.quads = m.quads /\ w.neighbours = Layer[m].neighbours
  BY LayerOf
<1> HIDE DEF w
<1>3. Virtual(w, q, d) <=> \E c : Covered(m, q, Without(d, PhysAxes(m, q, d)), c)
  BY <1>1, <1>2 DEF Virtual, Covered, Coarser
<1> QED BY <1>1, <1>2, <1>3 DEF ClassOf, Coarser

(* Only a quadrant of size 1 has virtual elements. *)
LEMMA CoveredIsSmall ==
  ASSUME NEW m \in Meshes, NEW q \in Quads(m), NEW d, NEW c, Covered(m, q, d, c)
  PROVE  m.quads[q].size = 1
<1>1. PICK n \in Layer[m].neighbours[q][c] : m.quads[n].size > m.quads[q].size
  BY DEF Covered
<1>2. n \in Quads(m)
  BY <1>1, NeighbourCovers DEF Covered
<1>3. m.quads[n].size \in {1, 2} /\ m.quads[q].size \in {1, 2}
  BY <1>2, Boxes DEF Axis
<1> QED BY <1>1, <1>3

(* An element without physical axes has none in the elements within it. *)
LEMMA InnerWithin ==
  ASSUME NEW m, NEW q, NEW d \in Dir, NEW c \in Dir, Within(c, d), PhysAxes(m, q, d) = {}
  PROVE  PhysAxes(m, q, c) = {}
<1>1. ASSUME NEW i \in PhysAxes(m, q, c) PROVE FALSE
  <2>1. i \in Axis /\ c[i] # 0
    BY <1>1 DEF PhysAxes
  <2>2. d[i] = c[i]
    BY <2>1 DEF Within
  <2> QED BY <1>1, <2>1, <2>2, PhysByAxis
<1> QED BY <1>1

(* Nor is any left when they are taken away. *)
LEMMA WithoutPhys ==
  ASSUME NEW m, NEW q, NEW d \in Dir, Without(d, PhysAxes(m, q, d)) \in Dir
  PROVE  /\ PhysAxes(m, q, Without(d, PhysAxes(m, q, d))) = {}
         /\ PhysAxes(m, q, d) = {} => Without(d, PhysAxes(m, q, d)) = d
<1> DEFINE e == Without(d, PhysAxes(m, q, d))
<1>1. \A i \in Axis : e[i] = IF i \in PhysAxes(m, q, d) THEN 0 ELSE d[i]
  BY WithoutIs, PlaceIs
<1>e. e \in Place /\ d \in Place
  BY WithoutIs, PlaceIs
<1> HIDE DEF e
<1>2. ASSUME NEW i \in PhysAxes(m, q, e) PROVE FALSE
  <2>1. i \in Axis /\ e[i] # 0
    BY <1>2 DEF PhysAxes
  <2>2. d[i] = e[i] /\ i \notin PhysAxes(m, q, d)
    BY <1>1, <2>1
  <2> QED BY <1>2, <2>1, <2>2, PhysByAxis DEF e
<1>3. PhysAxes(m, q, d) = {} => e = d
  BY <1>1, <1>e, PlaceIs
<1> QED BY <1>2, <1>3 DEF e

(* Under every virtual element there is one with a coarser neighbour in the  *)
(* same box.                                                                *)
LEMMA Root ==
  ASSUME NEW m \in Meshes, NEW q \in Quads(m), NEW d \in Dir, Layer[m].class[q][d] = "virtual"
  PROVE  \E c \in Dir : /\ Layer[m].class[q][c] = "coarser"
                        /\ Covered(m, q, Without(d, PhysAxes(m, q, d)), c)
<1> DEFINE d0 == Without(d, PhysAxes(m, q, d))
<1>1. PICK e1 : Covered(m, q, d0, e1)
  BY VirtualIs
<1>d. d0 \in Place /\ e1 \in Dir /\ e1 # d0 /\ Within(e1, d0)
  BY <1>1, WithoutIs, PlaceIs DEF Covered
<1>0. d0 \in Dir
  BY <1>d, PlaceIs DEF Within
<1>2. PhysAxes(m, q, d0) = {}
  BY <1>0, WithoutPhys
<1>3. m.quads[q].size = 1
  BY <1>1, CoveredIsSmall
<1> HIDE DEF d0
<1>step. ASSUME NEW e \in Dir, Covered(m, q, d0, e), Layer[m].class[q][e] # "coarser"
         PROVE  \E f : Covered(m, q, e, f) /\ Covered(m, q, d0, f)
  <2>1. PhysAxes(m, q, e) = {}
    BY <1>0, <1>2, <1>step, InnerWithin DEF Covered
  <2>2. Layer[m].class[q][e] = "virtual"
    BY <2>1, <1>step, VirtualIs DEF Covered
  <2>3. Without(e, PhysAxes(m, q, e)) = e
    <3>1. Without(e, PhysAxes(m, q, e)) \in Place /\ e \in Place
          /\ \A i \in Axis : Without(e, PhysAxes(m, q, e))[i] = e[i]
      BY <2>1, WithoutIs, PlaceIs
    <3> QED BY <3>1, PlaceIs
  <2>4. PICK f : Covered(m, q, e, f)
    BY <2>2, <2>3, VirtualIs
  <2>5. Within(f, d0) /\ f # d0 /\ f \in Dir
    <3>1. Within(f, e) /\ Within(e, d0) /\ f # e /\ e # d0 /\ f \in Dir
      BY <1>step, <2>4 DEF Covered
    <3>2. Within(f, d0)
      BY <3>1 DEF Within
    <3>3. PICK i \in Axis : e[i] # d0[i]
      BY <1>d, <3>1, PlaceIs
    <3>4. f[i] = 0 /\ d0[i] # 0
      BY <3>1, <3>3 DEF Within
    <3> QED BY <3>1, <3>2, <3>4
  <2>6. SameBox(m, q, f, d0)
    <3>1. SameBox(m, q, f, e) /\ SameBox(m, q, e, d0)
      BY <1>step, <2>4 DEF Covered
    <3> QED BY <1>0, <1>3, <2>5, <3>1, SmallBoxes
  <2> QED BY <2>4, <2>5, <2>6 DEF Covered
<1>less. ASSUME NEW e \in Dir, NEW f \in Dir, Covered(m, q, e, f)
         PROVE  \E i \in Axis : e[i] # 0 /\ f[i] = 0 /\ \A k \in Axis : f[k] # 0 => e[k] # 0
  <2>1. PICK i \in Axis : e[i] # f[i]
    BY <1>less, PlaceIs DEF Covered
  <2> QED BY <1>less, <2>1 DEF Covered, Within
<1>4. ASSUME \A c \in Dir : Covered(m, q, d0, c) => Layer[m].class[q][c] # "coarser" PROVE FALSE
  <2>1. PICK e2 : Covered(m, q, e1, e2) /\ Covered(m, q, d0, e2)
    BY <1>1, <1>d, <1>4, <1>step
  <2>2. e2 \in Dir
    BY <2>1 DEF Covered
  <2>3. PICK e3 : Covered(m, q, e2, e3)
    BY <2>1, <2>2, <1>4, <1>step
  <2>4. e3 \in Dir
    BY <2>3 DEF Covered
  <2>5. PICK i1 \in Axis : d0[i1] # 0 /\ e1[i1] = 0 /\ \A k \in Axis : e1[k] # 0 => d0[k] # 0
    BY <1>0, <1>1, <1>d, <1>less
  <2>6. PICK i2 \in Axis : e1[i2] # 0 /\ e2[i2] = 0 /\ \A k \in Axis : e2[k] # 0 => e1[k] # 0
    BY <1>d, <2>1, <2>2, <1>less
  <2>7. PICK i3 \in Axis : e2[i3] # 0 /\ e3[i3] = 0 /\ \A k \in Axis : e3[k] # 0 => e2[k] # 0
    BY <2>2, <2>3, <2>4, <1>less
  <2>8. PICK i4 \in Axis : e3[i4] # 0
    BY <2>4, PlaceIs
  <2>9. i1 # i2 /\ i1 # i3 /\ i1 # i4 /\ i2 # i3 /\ i2 # i4 /\ i3 # i4
    BY <2>5, <2>6, <2>7, <2>8
  <2> QED BY <2>9 DEF Axis
<1> QED BY <1>4 DEF d0, Covered

(* What a coarser neighbour across c sends to the coarse buffer: the cells of *)
(* c, and along it those of the virtual elements beside it, on the side of   *)
(* the neighbour's other half.                                               *)
LEMMA CoarserFills ==
  ASSUME NEW k, NEW c \in Sign, NEW e \in Sign, NEW g \in Staggerings, NEW i \in Axis, NEW r,
         NEW b, NEW j \in Beyond(e, Half, Shift(g, i)),
         \/ c = e /\ (c = 0 => b \in {0, 1})
         \/ c = 0 /\ e = 1 /\ b = 0
         \/ c = 0 /\ e = -1 /\ b = 1
  PROVE  \E p \in CoarserPairs(k, c, g, i, b, r) : p[1] = j
<1> DEFINE s == Shift(g, i)
           o == LoopOff(g)
           z == GzOff(g, k)
<1>1. s \in {0, 1} /\ o \in {0, 1} /\ s <= o /\ z = (IF k = FACE THEN 0 ELSE o) /\ z \in {0, 1}
  BY Shifts
<1>0. ASSUME NEW x \in CoarserIter(k, c, g), CoarserDest(k, c, g, i, b, x) = j, j \in CoarserRange(k, c, g, i, b)
      PROVE  \E p \in CoarserPairs(k, c, g, i, b, r) : p[1] = j
  <2> DEFINE p == <<CoarserDest(k, c, g, i, b, x), SlotIndex(k, -c, nx, g, i, r, CoarserSlot(c, b, x))>>
  <2>1. p \in CoarserPairs(k, c, g, i, b, r)
    BY <1>0 DEF CoarserPairs
  <2>2. p[1] = j
    BY <1>0
  <2> QED BY <2>1, <2>2
<1> DEFINE goal == \E p \in CoarserPairs(k, c, g, i, b, r) : p[1] = j
<1> SUFFICES goal
  OBVIOUS
<1>2. c \in {-1, 0, 1} /\ e \in {-1, 0, 1}
  BY DEF Sign
<1>d. \A x : CoarserDest(k, c, g, i, b, x) = Ghost(k, c, Half, s, IF c = 0 THEN x - b * ngz ELSE x)
  BY DEF CoarserDest
<1>r. CoarserRange(k, c, g, i, b) = IF c # 0 THEN GhostRange(k, c, Half, s)
         ELSE IF b = 1 THEN 0 .. Half + ngz + s - 1
         ELSE ngz .. Half + 2 * ngz + s - 1
  BY DEF CoarserRange
<1>3. CoarserIter(k, c, g) = IF c = 0 THEN 0 .. Half + o + ngz + z - 1 ELSE 0 .. ngz + z - 1
  BY DEF CoarserIter, Iter
<1>j. j \in Beyond(e, Half, s)
  OBVIOUS
<1> HIDE DEF s, o, z, goal
<1>h. Half \in Nat
  BY Sizes
<1>k. /\ j \in Nat
      /\ e = 0 => ngz <= j /\ j <= Half + s + ngz - 1
      /\ e = -1 => j <= ngz - 1
      /\ e = 1 => j <= Half + s + 2 * ngz - 1 /\ Half + s + ngz <= j
  BY <1>1, <1>h, <1>j, BeyondIs
<1>4. CASE c = 0 /\ b = 1
  <2>0. e # 1
    BY <1>4
  <2>1. j \in CoarserIter(k, c, g)
    BY <1>1, <1>2, <1>3, <1>k, <1>4, <2>0, Sizes
  <2>2. CoarserDest(k, c, g, i, b, j) = j
    <3>1. CoarserDest(k, c, g, i, b, j) = Ghost(k, 0, Half, s, j - ngz)
      BY <1>4, <1>d, Sizes
    <3> QED BY <3>1, <1>k, Sizes DEF Ghost
  <2>3. j \in CoarserRange(k, c, g, i, b)
    <3>1. CoarserRange(k, c, g, i, b) = 0 .. Half + ngz + s - 1
      BY <1>r, <1>4
    <3> QED BY <1>1, <1>2, <1>k, <2>0, <3>1, Sizes
  <2> QED BY <1>0, <2>1, <2>2, <2>3 DEF goal
<1>5. CASE c = 0 /\ b = 0
  <2>0. e # -1
    BY <1>5
  <2> DEFINE x == j - ngz
  <2>1. x \in CoarserIter(k, c, g)
    BY <1>1, <1>2, <1>3, <1>k, <1>5, <2>0, Sizes
  <2>2. CoarserDest(k, c, g, i, b, x) = j
    <3>1. CoarserDest(k, c, g, i, b, x) = Ghost(k, 0, Half, s, j - ngz)
      BY <1>5, <1>d, <1>k, Sizes
    <3> QED BY <3>1, <1>k, Sizes DEF Ghost
  <2>3. j \in CoarserRange(k, c, g, i, b)
    <3>1. CoarserRange(k, c, g, i, b) = ngz .. Half + 2 * ngz + s - 1
      BY <1>r, <1>5
    <3> QED BY <1>1, <1>2, <1>k, <2>0, <3>1, Sizes
  <2> HIDE DEF x
  <2> QED BY <1>0, <2>1, <2>2, <2>3 DEF goal
<1>6. CASE c = -1
  <2>0. e = -1
    BY <1>6
  <2>1. j \in CoarserIter(k, c, g)
    BY <1>1, <1>3, <1>k, <1>6, <2>0, Sizes
  <2>2. CoarserDest(k, c, g, i, b, j) = j
    BY <1>6, <1>d, <1>k DEF Ghost
  <2>3. j \in CoarserRange(k, c, g, i, b)
    <3>1. CoarserRange(k, c, g, i, b) = GhostRange(k, -1, Half, s)
      BY <1>r, <1>6
    <3>2. GhostRange(k, -1, Half, s) = IF k # FACE THEN 0 .. ngz + s - 1 ELSE 0 .. Half + s + 2 * ngz - 1
      BY DEF GhostRange
    <3> QED BY <1>1, <1>k, <2>0, <3>1, <3>2, Sizes
  <2> QED BY <1>0, <2>1, <2>2, <2>3 DEF goal
<1>7. CASE c = 1
  <2>0. e = 1
    BY <1>7
  <2> DEFINE x == j - (Half + ngz + (IF k = FACE THEN s ELSE 0))
  <2>1. x \in CoarserIter(k, c, g)
    BY <1>1, <1>3, <1>k, <1>7, <2>0, Sizes
  <2>2. CoarserDest(k, c, g, i, b, x) = j
    <3>1. CoarserDest(k, c, g, i, b, x) = Ghost(k, 1, Half, s, x)
      BY <1>7, <1>d
    <3> QED BY <1>1, <1>k, <3>1, Sizes DEF Ghost
  <2>3. j \in CoarserRange(k, c, g, i, b)
    <3>1. CoarserRange(k, c, g, i, b) = GhostRange(k, 1, Half, s)
      BY <1>r, <1>7
    <3> QED BY <1>1, <1>k, <2>0, <3>1, Sizes DEF GhostRange
  <2> HIDE DEF x
  <2> QED BY <1>0, <2>1, <2>2, <2>3 DEF goal
<1>8. c = 0 => b \in {0, 1}
  OBVIOUS
<1> QED BY <1>2, <1>4, <1>5, <1>6, <1>7, <1>8

(* So a coarser neighbour across c fills c's cells and those of the virtual *)
(* elements in the same box.                                                *)
LEMMA CoarserCovers ==
  ASSUME NEW m \in Meshes, NEW q \in Quads(m), NEW c \in Dir, Layer[m].class[q][c] = "coarser",
         NEW n \in Layer[m].neighbours[q][c], NEW e \in Dir, Within(c, e), SameBox(m, q, c, e),
         NEW s \in Staggerings, NEW j, InElement(j, e, Half, s)
  PROVE  Holds(At("coarser", CoarserBox(Layer[m], q, c, n, s)), j)
<1> DEFINE g == Layer[m]
<1>1. ASSUME NEW i \in Axis PROVE j[i] \in Written(At("coarser", CoarserBox(g, q, c, n, s)), i)
  <2> DEFINE b == Half01(g, q, n, i)
             a == c[i]
             f == e[i]
             y == j[i]
             k == Kind(c)
             r == Remote(g, q, n)
             P == CoarserPairs(k, a, s, i, b, r)
             by == Half * Begins(g, q, n, c, i)
             x == m.quads[q].pos[i]
             v == m.quads[n].pos[i]
  <2>1. Written(At("coarser", CoarserBox(g, q, c, n, s)), i) = {p[1] : p \in Moved(P, by)}
    BY DEF Written, At, CoarserBox
  <2>2. a \in Sign /\ f \in Sign /\ y \in Beyond(f, Half, Shift(s, i)) /\ a \in {0, f}
    BY Components DEF InElement, Within
  <2>3. /\ n \in Quads(m) /\ m.quads[q].size = 1 /\ m.quads[n].size = 2
        /\ a = 0 => b \in {0, 1} /\ v - x = -b
    <3>1. b = Half01(m, q, n, i)
      BY LayerOf DEF Half01
    <3> QED BY <3>1, CoarserNeighbours
  <2>4. x \in Nat /\ v \in Nat /\ v % 2 = 0
    BY <2>3, Boxes
  <2>5. (x + a) \div 2 = (x + f) \div 2
    BY <2>3, SmallBoxes DEF CellAt
  <2> HIDE DEF b, a, f, y, k, r, by, x, v
  <2>6. \/ a = f /\ (a = 0 => b \in {0, 1})
        \/ a = 0 /\ f = 1 /\ b = 0
        \/ a = 0 /\ f = -1 /\ b = 1
    <3>1. CASE a = f
      BY <2>3, <3>1
    <3>2. CASE a = 0 /\ f = 1
      <4>1. x % 2 = 0 /\ b \in {0, 1} /\ v - x = -b
        BY <2>3, <2>4, <2>5, <3>2
      <4> QED BY <2>4, <3>2, <4>1
    <3>3. CASE a = 0 /\ f = -1
      <4>1. x % 2 = 1 /\ b \in {0, 1} /\ v - x = -b
        BY <2>3, <2>4, <2>5, <3>3
      <4> QED BY <2>4, <3>3, <4>1
    <3> QED BY <2>2, <3>1, <3>2, <3>3 DEF Sign
  <2>7. PICK p \in P : p[1] = y
    BY <2>2, <2>6, CoarserFills
  <2> HIDE DEF P
  <2>8. \E z \in Moved(P, by) : z[1] = p[1]
    BY MovedFirst
  <2> QED BY <2>1, <2>7, <2>8 DEF y
<1> QED BY <1>1 DEF Holds

(* A boundary kernel of the coarse buffer, with the corners of an edge that  *)
(* is on one domain face.                                                   *)
LEMMA CbufWallCovers ==
  ASSUME NEW g, NEW q, NEW e \in Dir, NEW s \in Staggerings, NEW j,
         \A i \in Axis : \/ j[i] \in Beyond(e[i], Half, Shift(s, i))
                         \/ /\ Kind(e) = EDGE /\ BcType(g, q, e) = FACE /\ e[i] = 0
                            /\ j[i] \in 0 .. Half + Shift(s, i) + 2 * ngz - 1
  PROVE  Holds(At("wall", [i \in Axis |-> Plain(WallRange(g, q, e, i, Half, s))]), j)
<1>1. ASSUME NEW i \in Axis
      PROVE  j[i] \in Written(At("wall", [k \in Axis |-> Plain(WallRange(g, q, e, k, Half, s))]), i)
  <2> DEFINE A == [k \in Axis |-> Plain(WallRange(g, q, e, k, Half, s))]
  <2>1. A[i] = Plain(WallRange(g, q, e, i, Half, s))
    OBVIOUS
  <2> HIDE DEF A
  <2>2. Written(At("wall", A), i) = WallRange(g, q, e, i, Half, s)
    BY <2>1, WrittenPlain
  <2>3. e[i] = 0 => Beyond(e[i], Half, Shift(s, i)) \subseteq 0 .. Half + Shift(s, i) + 2 * ngz - 1
    <3> DEFINE t == Shift(s, i)
               c == e[i]
    <3>1. t \in {0, 1} /\ Half \in Nat /\ ngz \in Nat
      BY Shifts, Sizes
    <3> HIDE DEF t, c
    <3>2. c = 0 => Beyond(c, Half, t) = ngz .. Half + t + ngz - 1
      BY DEF Beyond, Interior
    <3>3. ngz .. Half + t + ngz - 1 \subseteq 0 .. Half + t + 2 * ngz - 1
      BY <3>1
    <3>4. c = 0 => Beyond(c, Half, t) \subseteq 0 .. Half + t + 2 * ngz - 1
      BY <3>2, <3>3
    <3> QED BY <3>4 DEF t, c
  <2>4. j[i] \in WallRange(g, q, e, i, Half, s)
    BY <2>3 DEF WallRange
  <2> QED BY <2>2, <2>4 DEF A
<1> QED BY <1>1 DEF Holds

(* Sets of one and of two. *)
LEMMA TwoMembers ==
  ASSUME NEW a, NEW b, a # b
  PROVE  Cardinality({a, b}) = 2 /\ Cardinality({a}) = 1
<1>1. IsFiniteSet({a}) /\ Cardinality({a}) = 1
  BY FS_Singleton
<1>2. Cardinality({a} \cup {b}) = Cardinality({a}) + 1
  BY <1>1, FS_AddElement
<1>3. {a} \cup {b} = {a, b}
  OBVIOUS
<1> QED BY <1>1, <1>2, <1>3

(* A boundary corner whose other two axes lie in a coarser neighbour's box is *)
(* virtual; the boundary edge below it is not, and its kernel in the coarse   *)
(* buffer goes on into the corner.                                            *)
LEMMA WallBelow ==
  ASSUME NEW m \in Meshes, NEW q \in Quads(m), NEW e \in Dir, Layer[m].class[q][e] = "virtual",
         PhysAxes(m, q, e) # {}
  PROVE  \E w \in Dir, b \in Axis :
           /\ w[b] = 0 /\ \A i \in Axis \ {b} : w[i] = e[i]
           /\ Kind(w) = EDGE /\ BcType(Layer[m], q, w) = FACE
           /\ Layer[m].class[q][w] = "phys"
<1> DEFINE g == Layer[m]
           P == PhysAxes(m, q, e)
           e0 == Without(e, P)
<1>1. PICK c \in Dir : Covered(m, q, e0, c)
  BY Root
<1>2. PICK a \in P : TRUE
  OBVIOUS
<1>3. a \in Axis /\ e[a] # 0
  BY DEF PhysAxes
<1>4. e0 \in Place /\ \A i \in Axis : e0[i] = IF i \in P THEN 0 ELSE e[i]
  BY WithoutIs, PlaceIs
<1>5. PICK b \in Axis : c[b] # e0[b]
  BY <1>1, <1>4, PlaceIs DEF Covered
<1>6. c[b] = 0 /\ e0[b] # 0 /\ \A i \in Axis : c[i] # 0 => e0[i] # 0
  BY <1>1, <1>5 DEF Covered, Within
<1>7. PICK f \in Axis : c[f] # 0
  BY PlaceIs
<1> HIDE DEF P, e0
<1>8. a # b /\ a # f /\ b # f /\ e0[f] # 0
  BY <1>2, <1>3, <1>4, <1>6, <1>7
<1>9. Axis = {a, b, f} /\ P = {a} /\ e[b] # 0 /\ e[f] # 0
  <2>1. Axis = {a, b, f}
    BY <1>3, <1>8 DEF Axis
  <2>2. b \notin P /\ f \notin P /\ e[b] # 0 /\ e[f] # 0
    BY <1>4, <1>6, <1>8
  <2>3. P \subseteq Axis
    BY DEF P, PhysAxes
  <2> QED BY <1>2, <2>1, <2>2, <2>3
<1> DEFINE w == Without(e, {b})
<1>10. w \in Place /\ w[b] = 0 /\ w[a] = e[a] /\ w[f] = e[f]
  BY <1>3, <1>8, WithoutIs, PlaceIs
<1> HIDE DEF w
<1>11. w \in Dir
  BY <1>3, <1>10, PlaceIs
<1>12. Kind(w) = EDGE
  <2>1. {i \in Axis : w[i] # 0} = {a, f}
    BY <1>3, <1>8, <1>9, <1>10
  <2>2. Kind(w) = Cardinality({i \in Axis : w[i] # 0})
    BY DEF Kind
  <2>3. Cardinality({a, f}) = 2
    BY <1>8, TwoMembers
  <2> QED BY <2>1, <2>2, <2>3 DEF EDGE
<1>13. PhysAxes(m, q, w) = {a}
  <2>1. a \in PhysAxes(m, q, w)
    BY <1>2, <1>3, <1>10, <1>11, PhysByAxis DEF P
  <2>2. f \notin PhysAxes(m, q, w)
    BY <1>8, <1>9, <1>10, <1>11, PhysByAxis DEF P
  <2>3. b \notin PhysAxes(m, q, w) /\ PhysAxes(m, q, w) \subseteq Axis
    BY <1>10 DEF PhysAxes
  <2> QED BY <1>9, <2>1, <2>2, <2>3
<1>14. BcType(g, q, w) = FACE
  <2>1. g.phys[q][w] = {a}
    BY <1>11, <1>13, PhysOf
  <2> QED BY <1>8, <2>1, TwoMembers DEF BcType, FACE
<1>15. g.class[q][w] = "phys"
  <2>1. ASSUME NEW v, Covered(m, q, Without(w, {a}), v) PROVE FALSE
    <3> DEFINE w0 == Without(w, {a})
    <3>1. w0 \in Place /\ w0[a] = 0 /\ w0[b] = 0
      BY <1>3, <1>8, <1>10, WithoutIs
    <3>2. v \in Dir /\ v # w0 /\ Within(v, w0)
      BY <2>1 DEF Covered
    <3> HIDE DEF w0
    <3>3. v[a] = 0 /\ v[b] = 0 /\ v[f] \in {0, w0[f]}
      BY <1>3, <1>8, <3>1, <3>2 DEF Within
    <3>4. PICK h \in Axis : v[h] # 0
      BY <3>2, PlaceIs
    <3>5. v[f] # 0
      BY <1>9, <3>3, <3>4
    <3>6. \A i \in Axis : v[i] = w0[i]
      BY <1>9, <3>1, <3>3, <3>5
    <3> QED BY <3>1, <3>2, <3>6, PlaceIs
  <2>2. g.class[q][w] # "virtual"
    BY <1>11, <1>13, <2>1, VirtualIs
  <2> QED BY <1>11, <1>13, <2>2, VirtualIs
<1>16. \A i \in Axis \ {b} : w[i] = e[i]
  BY <1>9, <1>10
<1> QED BY <1>5, <1>10, <1>11, <1>12, <1>14, <1>15, <1>16

(* Whatever coarse data, peer or wall: the coarse buffer is filled wherever   *)
(* an interpolation is near.                                                  *)
LEMMA CbufFilled ==
  ASSUME NEW m \in Meshes, NEW q \in Quads(m), NEW d \in Dir, Prolonged(Layer[m], q, d),
         NEW e \in Near[d], NEW s \in Staggerings, NEW j, InElement(j, e, Half, s)
  PROVE  \E b \in CopiedToCbuf(Layer[m], q, s) \cup WallsOf(Layer[m], q, InCbuf(Layer[m], q), Half, s) : Holds(b, j)
<1> DEFINE g == Layer[m]
<1>0. e \in Place /\ \A i \in Axis : d[i] # 0 => e[i] \in {0, d[i]}
  BY DEF Near
<1>1. PICK c \in Dir : g.class[q][c] = "coarser" /\ \A i \in Axis : c[i] # 0 => c[i] = d[i]
  <2>1. CASE g.class[q][d] = "coarser"
    BY <2>1
  <2>2. CASE g.class[q][d] = "virtual"
    <3>1. PICK c \in Dir : /\ g.class[q][c] = "coarser"
                           /\ Covered(m, q, Without(d, PhysAxes(m, q, d)), c)
      BY <2>2, Root
    <3>2. \A i \in Axis : c[i] # 0 => c[i] = d[i]
      BY <3>1, WithoutIs, PlaceIs DEF Covered, Within
    <3> QED BY <3>1, <3>2
  <2> QED BY <2>1, <2>2 DEF Prolonged
<1>2. NeedsCbuf(g, q)
  BY <1>1 DEF NeedsCbuf
<1>3. e \in Near[c] \/ e \notin Dir
  BY <1>0, <1>1 DEF Near
<1>size. m.quads[q].size = 1
  <2>1. PICK n \in g.neighbours[q][c] : TRUE
    BY SomeNeighbour
  <2> QED BY <1>1, <2>1, CoarserNeighbours
<1>4. CASE e = Zero
  <2>1. At("own", Own(Half, s)) \in CopiedToCbuf(g, q, s)
    BY <1>2 DEF CopiedToCbuf
  <2> QED BY <1>4, <2>1, OwnCovers
<1>5. CASE e \in Dir /\ g.class[q][e] = "same"
  <2>1. PICK n \in g.neighbours[q][e] : TRUE
    BY <1>5, SomeNeighbour
  <2>2. PeerToPeer(g, q, e)
    BY <1>1, <1>3, <1>5 DEF PeerToPeer
  <2>3. At("same", SameBoxOf(g, q, e, n, Half, s)) \in CopiedToCbuf(g, q, s)
    BY <1>2, <1>5, <2>1, <2>2 DEF CopiedToCbuf
  <2>4. Holds(At("same", SameBoxOf(g, q, e, n, Half, s)), j)
    BY <1>5, Sizes, SameCovers DEF InElement
  <2> QED BY <2>3, <2>4
<1>6. ASSUME NEW f \in Dir, g.class[q][f] = "coarser", e \in Dir, Within(f, e), SameBox(m, q, f, e)
      PROVE  \E b \in CopiedToCbuf(g, q, s) : Holds(b, j)
  <2>1. PICK n \in g.neighbours[q][f] : TRUE
    BY SomeNeighbour
  <2>2. At("coarser", CoarserBox(g, q, f, n, s)) \in CopiedToCbuf(g, q, s)
    BY <1>2, <1>6, <2>1 DEF CopiedToCbuf
  <2> QED BY <1>6, <2>1, <2>2, CoarserCovers
<1>7. CASE e \in Dir /\ g.class[q][e] = "coarser"
  <2>1. Within(e, e)
    BY DEF Within
  <2>2. SameBox(m, q, e, e)
    BY <1>7, <1>size, SmallBoxes
  <2> QED BY <1>6, <1>7, <2>1, <2>2
<1>8. CASE e \in Dir /\ g.class[q][e] = "finer"
  <2>1. PICK n \in g.neighbours[q][e] : TRUE
    BY <1>8, SomeNeighbour
  <2> QED BY <1>8, <1>size, <2>1, FinerNeighbours
<1>9. ASSUME NEW w \in Dir, g.class[q][w] = "phys", \A i \in Axis : w[i] \in {0, e[i]},
             \A i \in Axis : \/ w[i] = e[i]
                             \/ Kind(w) = EDGE /\ BcType(g, q, w) = FACE /\ w[i] = 0
      PROVE  \E b \in WallsOf(g, q, InCbuf(g, q), Half, s) : Holds(b, j)
  <2>1. w \in Near[d]
    <3>1. w \in Place /\ \A i \in Axis : d[i] # 0 => w[i] \in {0, d[i]}
      BY <1>0, <1>9, PlaceIs
    <3> QED BY <3>1 DEF Near
  <2>2. w \in InCbuf(g, q)
    BY <1>9, <2>1 DEF InCbuf
  <2> DEFINE box == At("wall", [i \in Axis |-> Plain(WallRange(g, q, w, i, Half, s))])
  <2>3. box \in WallsOf(g, q, InCbuf(g, q), Half, s)
    BY <2>2 DEF WallsOf
  <2>4. ASSUME NEW i \in Axis
        PROVE  \/ j[i] \in Beyond(w[i], Half, Shift(s, i))
               \/ /\ Kind(w) = EDGE /\ BcType(g, q, w) = FACE /\ w[i] = 0
                  /\ j[i] \in 0 .. Half + Shift(s, i) + 2 * ngz - 1
    <3>1. CASE w[i] = e[i]
      BY <3>1 DEF InElement
    <3>2. CASE Kind(w) = EDGE /\ BcType(g, q, w) = FACE /\ w[i] = 0
      <4> DEFINE t == Shift(s, i)
                 x == j[i]
                 v == e[i]
      <4>1. t \in {0, 1} /\ Half \in Nat /\ ngz \in Nat /\ v \in Sign /\ x \in Beyond(v, Half, t) /\ v \in {-1, 0, 1}
        BY <1>0, Shifts, Sizes, PlaceIs DEF InElement, Sign
      <4> HIDE DEF t, x, v
      <4>2. /\ x \in Nat
            /\ v = 1 => x <= Half + t + 2 * ngz - 1
            /\ v = -1 => x <= ngz - 1
            /\ v = 0 => x <= Half + t + ngz - 1
        BY <4>1, BeyondIs
      <4>3. x \in 0 .. Half + t + 2 * ngz - 1
        BY <4>1, <4>2
      <4> QED BY <3>2, <4>3 DEF t, x
    <3> QED BY <1>9, <3>1, <3>2
  <2>5. Holds(box, j)
    <3> HIDE DEF g
    <3>1. Holds(At("wall", [i \in Axis |-> Plain(WallRange(g, q, w, i, Half, s))]), j)
      BY <2>4, CbufWallCovers
    <3> QED BY <3>1
  <2> HIDE DEF box
  <2> QED BY <2>3, <2>5
<1>10. CASE e \in Dir /\ g.class[q][e] = "phys"
  BY <1>9, <1>10
<1>11. CASE e \in Dir /\ g.class[q][e] = "virtual" /\ PhysAxes(m, q, e) = {}
  <2>1. PICK f \in Dir : g.class[q][f] = "coarser" /\ Covered(m, q, e, f)
    <3>1. Without(e, PhysAxes(m, q, e)) = e
      <4>1. Without(e, {}) \in Place /\ \A i \in Axis : Without(e, {})[i] = e[i]
        BY <1>0, WithoutIs
      <4> QED BY <1>0, <1>11, <4>1, PlaceIs
    <3> QED BY <1>11, <3>1, Root
  <2> QED BY <1>6, <1>11, <2>1 DEF Covered
<1>12. CASE e \in Dir /\ g.class[q][e] = "virtual" /\ PhysAxes(m, q, e) # {}
  <2>1. PICK w \in Dir, b \in Axis :
          /\ w[b] = 0 /\ \A i \in Axis \ {b} : w[i] = e[i]
          /\ Kind(w) = EDGE /\ BcType(g, q, w) = FACE
          /\ g.class[q][w] = "phys"
    BY <1>12, WallBelow
  <2> QED BY <1>9, <2>1
<1>13. e \in Dir => g.class[q][e] \in {"virtual", "phys", "coarser", "finer", "same"}
  BY ClassesAre
<1> QED BY <1>0, <1>4, <1>5, <1>7, <1>8, <1>10, <1>11, <1>12, <1>13 DEF Dir

(* The indices of the coarse buffer an interpolation reads along an axis are *)
(* its element's, or the interior's; along the element they may go past it.  *)
LEMMA ReadNear ==
  ASSUME NEW c \in Sign, NEW t \in {0, 1}, NEW y \in Int,
         c = 1 => ngz <= y /\ y <= Half + t + 2 * ngz - 1,
         c = -1 => 0 <= y /\ y <= Half + t + ngz - 1,
         c = 0 => 0 <= y /\ y <= Half + t + 2 * ngz - 1
  PROVE  \E f \in Sign : y \in Beyond(f, Half, t) /\ (c # 0 => f \in {0, c})
<1>1. Half \in Nat /\ ngz \in Nat /\ c \in {-1, 0, 1}
  BY Sizes DEF Sign
<1>2. CASE y < ngz
  <2>1. y \in 0 .. ngz - 1 /\ c # 1
    BY <1>1, <1>2
  <2>2. y \in Beyond(-1, Half, t)
    BY <2>1 DEF Beyond
  <2> QED BY <1>1, <2>1, <2>2 DEF Sign
<1>3. CASE ngz <= y /\ y <= Half + t + ngz - 1
  <2>1. y \in Beyond(0, Half, t)
    BY <1>1, <1>3 DEF Beyond, Interior
  <2> QED BY <2>1 DEF Sign
<1>4. CASE Half + t + ngz - 1 < y
  <2>1. y \in Half + t + ngz .. Half + t + 2 * ngz - 1 /\ c # -1
    BY <1>1, <1>4
  <2>2. y \in Beyond(1, Half, t)
    BY <2>1 DEF Beyond
  <2> QED BY <1>1, <2>1, <2>2 DEF Sign
<1> QED BY <1>1, <1>2, <1>3, <1>4

(* Coarse, by its component. *)
LEMMA CoarseIs ==
  ASSUME NEW k, NEW c \in Sign, NEW x \in Steps(c)
  PROVE  LET y == Coarse(k, c, x) IN
         /\ y \in Int
         /\ c = 1 => Half + ngz <= y /\ y <= Half + ngz + ngz \div 2 - 1
         /\ c = -1 => ngz \div 2 <= y /\ y <= ngz - 1
         /\ c = 0 => ngz <= y /\ y <= Half + ngz - 1
<1>1. c \in {-1, 0, 1}
  BY DEF Sign
<1>2. x \in Nat /\ x <= (IF c = 0 THEN Half - 1 ELSE ngz \div 2 - 1)
  BY FineIs
<1> DEFINE h == ngz \div 2
<1>3. h \in Nat /\ ngz = 2 * h /\ Half \in Nat
  BY Sizes
<1>4. Coarse(k, c, x) = Ghost(k, c, Half, 0, x) + (IF c = -1 THEN h ELSE 0)
  BY DEF Coarse
<1>5. Ghost(k, c, Half, 0, x) = CASE c = 1 -> Half + ngz + x [] c = -1 -> x [] OTHER -> ngz + x
  BY <1>2, <1>3, Sizes DEF Ghost
<1> HIDE DEF h
<1>6. CASE c = 1
  BY <1>2, <1>3, <1>4, <1>5, <1>6 DEF h
<1>7. CASE c = -1
  BY <1>2, <1>3, <1>4, <1>5, <1>7 DEF h
<1>8. CASE c = 0
  BY <1>2, <1>3, <1>4, <1>5, <1>8 DEF h
<1> QED BY <1>1, <1>6, <1>7, <1>8

(* A reach of r cells needs 2r ghosts. *)
LEMMA ReachNear ==
  ASSUME NEW d \in Dir, NEW i \in Axis, NEW r \in Nat, 2 * r <= ngz, NEW t \in {0, 1}, NEW y \in CoarseCells(d, i, r)
  PROVE  \E f \in Sign : y \in Beyond(f, Half, t) /\ (d[i] # 0 => f \in {0, d[i]})
<1> DEFINE c == d[i]
           k == Kind(d)
<1>1. PICK x \in Steps(c) : y \in Coarse(k, c, x) - r .. Coarse(k, c, x) + r
  BY DEF CoarseCells
<1>2. c \in Sign
  BY Components
<1> HIDE DEF c, k
<1> DEFINE z == Coarse(k, c, x)
           h == ngz \div 2
<1>3. /\ z \in Int
      /\ c = 1 => Half + ngz <= z /\ z <= Half + ngz + h - 1
      /\ c = -1 => h <= z /\ z <= ngz - 1
      /\ c = 0 => ngz <= z /\ z <= Half + ngz - 1
  BY <1>2, CoarseIs
<1>4. h \in Nat /\ ngz = 2 * h /\ Half \in Nat /\ Half >= ngz /\ r <= h
  BY Sizes
<1>5. y \in Int /\ z - r <= y /\ y <= z + r
  BY <1>1, <1>3
<1> HIDE DEF z, h
<1>6. /\ c = 1 => ngz <= y /\ y <= Half + t + 2 * ngz - 1
      /\ c = -1 => 0 <= y /\ y <= Half + t + ngz - 1
      /\ c = 0 => 0 <= y /\ y <= Half + t + 2 * ngz - 1
  BY <1>3, <1>4, <1>5
<1>7. \E f \in Sign : y \in Beyond(f, Half, t) /\ (c # 0 => f \in {0, c})
  BY <1>2, <1>5, <1>6, ReadNear
<1> QED BY <1>7 DEF c

(* And the planes across its own axis that a staggered one reads. *)
LEMMA PlaneNear ==
  ASSUME NEW g, NEW q, NEW d \in Dir, NEW i \in Axis, NEW p \in Planes1(g, q, d, i)
  PROVE  \E f \in Sign : p[2] \in Beyond(f, Half, 1) /\ (d[i] # 0 => f \in {0, d[i]})
<1> DEFINE c == d[i]
           k == Kind(d)
           at == {<<Fine(k, c, x), Coarse(k, c, x)>> : x \in Steps(c)}
<1>1. c \in Sign
  BY Components
<1>2. \/ p \in at
      \/ \E r \in at : p = <<r[1] + 2, r[2] + 1>>
  BY DEF Planes1
<1> HIDE DEF c, k
<1>3. PICK x \in Steps(c) : p[2] = Coarse(k, c, x) \/ p[2] = Coarse(k, c, x) + 1
  BY <1>2
<1> DEFINE z == Coarse(k, c, x)
           h == ngz \div 2
           y == p[2]
<1>4. /\ z \in Int
      /\ c = 1 => Half + ngz <= z /\ z <= Half + ngz + h - 1
      /\ c = -1 => h <= z /\ z <= ngz - 1
      /\ c = 0 => ngz <= z /\ z <= Half + ngz - 1
  BY <1>1, CoarseIs
<1>5. h \in Nat /\ ngz = 2 * h /\ Half \in Nat /\ Half >= ngz /\ h >= 1
  BY Sizes
<1>6. y = z \/ y = z + 1
  BY <1>3
<1> HIDE DEF z, h, y
<1>7. /\ y \in Int
      /\ c = 1 => ngz <= y /\ y <= Half + 1 + 2 * ngz - 1
      /\ c = -1 => 0 <= y /\ y <= Half + 1 + ngz - 1
      /\ c = 0 => 0 <= y /\ y <= Half + 1 + 2 * ngz - 1
  BY <1>4, <1>5, <1>6
<1>8. \E f \in Sign : y \in Beyond(f, Half, 1) /\ (c # 0 => f \in {0, c})
  BY <1>1, <1>7, ReadNear
<1> QED BY <1>8 DEF c, y

(* So what it reads is near the element. *)
LEMMA StencilNear ==
  ASSUME ngz >= 4, NEW g, NEW q, NEW d \in Dir, NEW s \in Staggerings, NEW I \in Stencils(g, q, d, s),
         NEW j, \A i \in Axis : j[i] \in I[i]
  PROVE  \E e \in Near[d] : InElement(j, e, Half, s)
<1> DEFINE ok(i, f) == j[i] \in Beyond(f, Half, Shift(s, i)) /\ (d[i] # 0 => f \in {0, d[i]})
<1>1. ASSUME NEW i \in Axis PROVE \E f \in Sign : ok(i, f)
  <2>1. CASE s = Center
    <3>1. I[i] = CoarseCells(d, i, 2)
      BY <2>1 DEF Stencils
    <3>2. j[i] \in CoarseCells(d, i, 2) /\ Shift(s, i) \in {0, 1} /\ 2 \in Nat /\ 2 * 2 <= ngz
      BY <3>1, Shifts, Sizes
    <3> QED BY <3>2, ReachNear
  <2>2. CASE s # Center
    <3>1. PICK along \in Axis \ {s} :
             I = [a \in Axis |-> IF a = s THEN {p[2] : p \in Planes1(g, q, d, s)}
                                 ELSE CoarseCells(d, a, IF a = along THEN 1 ELSE 0)]
      BY <2>2 DEF Stencils
    <3>2. CASE i = s
      <4>1. Shift(s, i) = 1
        BY <3>2 DEF Shift
      <4>2. PICK p \in Planes1(g, q, d, i) : j[i] = p[2]
        BY <3>1, <3>2
      <4> QED BY <4>1, <4>2, PlaneNear
    <3>3. CASE i # s
      <4> DEFINE r == IF i = along THEN 1 ELSE 0
      <4>1. j[i] \in CoarseCells(d, i, r) /\ r \in {0, 1}
        BY <3>1, <3>3
      <4>2. r \in Nat /\ 2 * r <= ngz /\ Shift(s, i) \in {0, 1}
        <5> HIDE DEF r
        <5> QED BY <4>1, Shifts, Sizes
      <4> HIDE DEF r
      <4> QED BY <4>1, <4>2, ReachNear
    <3> QED BY <3>2, <3>3
  <2> QED BY <2>1, <2>2
<1>2. PICK f1 \in Sign : ok(1, f1)
  BY <1>1, 1 \in Axis DEF Axis
<1>3. PICK f2 \in Sign : ok(2, f2)
  BY <1>1, 2 \in Axis DEF Axis
<1>4. PICK f3 \in Sign : ok(3, f3)
  BY <1>1, 3 \in Axis DEF Axis
<1> DEFINE e == <<f1, f2, f3>>
<1>5. e \in Place /\ \A i \in Axis : ok(i, e[i])
  <2>1. e \in Place
    BY DEF Place
  <2>2. e[1] = f1 /\ e[2] = f2 /\ e[3] = f3
    OBVIOUS
  <2> HIDE DEF e, ok
  <2> QED BY <1>2, <1>3, <1>4, <2>1, <2>2 DEF Axis
<1> HIDE DEF e
<1> QED BY <1>5 DEF Near, InElement

(* Converse of FineCellsAre. *)
LEMMA FineCellsIn ==
  ASSUME NEW d \in Dir, NEW i \in Axis, NEW w \in FineCells(d, i)
  PROVE  w \in Beyond(d[i], nx, 0)
<1> DEFINE c == d[i]
           k == Kind(d)
<1>1. PICK x \in Steps(c) : w = Fine(k, c, x) \/ w = Fine(k, c, x) + 1
  BY DEF FineCells
<1>2. c \in Sign
  BY Components
<1> HIDE DEF c, k
<1>3. Fine(k, c, x) = First(c) + 2 * x /\ First(c) + 2 * x <= Last(c) /\ x \in Nat /\ First(c) \in Nat /\ Last(c) \in Nat
  BY <1>2, FineIs
<1>4. w \in Nat /\ First(c) <= w /\ w <= Last(c) + 1
  BY <1>1, <1>3
<1>5. c \in {-1, 0, 1} /\ nx \in Nat /\ ngz \in Nat
  BY <1>2, Sizes DEF Sign
<1>6. ASSUME c = 1 PROVE w \in Beyond(c, nx, 0)
  BY <1>4, <1>5, <1>6 DEF First, Last, Beyond
<1>7. ASSUME c = -1 PROVE w \in Beyond(c, nx, 0)
  BY <1>4, <1>5, <1>7 DEF First, Last, Beyond
<1>8. ASSUME c = 0 PROVE w \in Beyond(c, nx, 0)
  BY <1>4, <1>5, <1>8 DEF First, Last, Beyond, Interior
<1>9. w \in Beyond(c, nx, 0)
  BY <1>5, <1>6, <1>7, <1>8
<1> QED BY <1>9 DEF c

(* The element at an end of another, along the staggered axis. *)
LEMMA EndIs ==
  ASSUME NEW d \in Dir, NEW s \in Axis, NEW side \in {-1, 1}
  PROVE  LET f == EndElement(d, s, side) IN
         /\ f \in Place /\ f[s] = (IF d[s] = 0 THEN side ELSE 0)
         /\ \A i \in Axis \ {s} : f[i] = d[i]
         /\ d[s] = 0 => f # Zero /\ Kind(f) # FACE
<1> DEFINE f == EndElement(d, s, side)
           v == IF d[s] = 0 THEN side ELSE 0
<1>1. f = [d EXCEPT ![s] = v]
  BY DEF EndElement
<1>2. d = <<d[1], d[2], d[3]>> /\ d[1] \in Sign /\ d[2] \in Sign /\ d[3] \in Sign /\ v \in Sign
  BY DEF Place, Dir, Sign
<1>3. s = 1 \/ s = 2 \/ s = 3
  BY DEF Axis
<1> HIDE DEF v
<1>4. f = <<f[1], f[2], f[3]>> /\ f[1] \in Sign /\ f[2] \in Sign /\ f[3] \in Sign /\ f[s] = v
  BY <1>1, <1>2, <1>3
<1>5. \A i \in Axis \ {s} : f[i] = d[i]
  <2>1. DOMAIN d = Axis
    BY <1>2 DEF Axis
  <2> QED BY <1>1, <2>1
<1>6. f \in Place
  BY <1>4 DEF Place
<1> HIDE DEF f
<1>7. ASSUME d[s] = 0 PROVE f # Zero /\ Kind(f) # FACE
  <2>1. f[s] # 0
    BY <1>4, <1>7 DEF v
  <2>2. PICK k \in Axis : d[k] # 0
    BY PlaceIs
  <2> DEFINE N == {i \in Axis : f[i] # 0}
  <2>3. s \in N /\ k \in N /\ k # s
    BY <1>5, <1>7, <2>1, <2>2
  <2>4. ASSUME Cardinality(N) = 1 PROVE FALSE
    BY <2>3, <2>4, OneMember
  <2>5. f # Zero
    BY <2>1, PlaceIs
  <2>6. Kind(f) = Cardinality(N)
    BY DEF Kind
  <2> HIDE DEF N
  <2> QED BY <2>4, <2>5, <2>6 DEF FACE
<1> QED BY <1>4, <1>5, <1>6, <1>7 DEF f, v

(* A plane that interpolation takes for fine because of the quadrant's own   *)
(* cells, or a neighbour's of the same level, is theirs.                     *)
LEMMA TakenIsFine ==
  ASSUME NEW m \in Meshes, NEW q \in Quads(m), NEW d \in Dir, NEW s \in Axis, NEW side \in {-1, 1},
         HasFine(Layer[m], q, d, s, side),
         \/ EndElement(d, s, side) = Zero
         \/ Layer[m].class[q][EndElement(d, s, side)] = "same",
         NEW j, \A i \in Axis : j[i] \in TakenAsFine(d, s, side)[i]
  PROVE  \E b \in Copied(Layer[m], q, s) : b.by \in {"own", "same"} /\ Holds(b, j)
<1> DEFINE g == Layer[m]
           f == EndElement(d, s, side)
<1>1. /\ f \in Place /\ f[s] = (IF d[s] = 0 THEN side ELSE 0)
      /\ \A i \in Axis \ {s} : f[i] = d[i]
      /\ d[s] = 0 => f # Zero /\ Kind(f) # FACE
  BY EndIs
<1>2. d[s] # side /\ s \in Staggerings
  BY DEF HasFine, Staggerings
<1>3. j[s] = IF side = -1 THEN First(d[s]) ELSE Last(d[s]) + 2
  BY DEF TakenAsFine
<1>4. ASSUME NEW i \in Axis, i # s PROVE j[i] \in Beyond(f[i], nx, 0)
  <2>1. TakenAsFine(d, s, side)[i] = FineCells(d, i)
    BY <1>4 DEF TakenAsFine
  <2>2. f[i] = d[i]
    BY <1>1, <1>4
  <2> HIDE DEF f
  <2> QED BY <2>1, <2>2, FineCellsIn
<1>5. Shift(s, s) = 1 /\ \A i \in Axis : i # s => Shift(s, i) = 0
  BY DEF Shift
<1>c. d[s] \in {-1, 0, 1}
  BY Components DEF Sign
<1>6. /\ d[s] # 0 => j[s] \in Beyond(f[s], nx, 1)
      /\ d[s] = 0 => \/ f[s] = -1 /\ j[s] = ngz
                     \/ f[s] = 1 /\ j[s] = nx + ngz
  <2> DEFINE c == d[s]
             y == j[s]
             v == f[s]
  <2>1. /\ c \in {-1, 0, 1} /\ c # side /\ v = (IF c = 0 THEN side ELSE 0)
        /\ y = IF side = -1 THEN First(c) ELSE Last(c) + 2
    BY <1>1, <1>2, <1>3, <1>c
  <2> HIDE DEF c, y, v, f
  <2>2. CASE c = 0
    BY <2>1, <2>2, Sizes DEF First, Last, c, y, v
  <2>3. CASE c = 1
    <3>1. y = nx + ngz /\ v = 0
      BY <2>1, <2>3 DEF First
    <3> QED BY <2>3, <3>1, Sizes DEF Beyond, Interior, c, y, v
  <2>4. CASE c = -1
    <3>1. y = ngz /\ v = 0
      BY <2>1, <2>4, Sizes DEF Last
    <3> QED BY <2>4, <3>1, Sizes DEF Beyond, Interior, c, y, v
  <2> QED BY <2>1, <2>2, <2>3, <2>4
<1> HIDE DEF f
<1>7. CASE f = Zero
  <2>1. d[s] # 0
    BY <1>1, <1>7
  <2>2. InElement(j, Zero, nx, s)
    BY <1>4, <1>5, <1>6, <1>7, <2>1 DEF InElement
  <2>3. At("own", Own(nx, s)) \in Copied(g, q, s) /\ At("own", Own(nx, s)).by = "own"
    BY DEF Copied, At
  <2> QED BY <1>2, <2>2, <2>3, OwnCovers
<1>8. CASE f # Zero /\ g.class[q][f] = "same"
  <2>1. f \in Dir
    BY <1>1, <1>8 DEF Dir
  <2>2. PICK n \in g.neighbours[q][f] : TRUE
    BY <2>1, SomeNeighbour
  <2> DEFINE b == At("same", SameBoxOf(g, q, f, n, nx, s))
  <2>3. b \in Copied(g, q, s) /\ b.by = "same"
    <3>1. b \in Copied(g, q, s)
      BY <1>8, <2>1, <2>2 DEF Copied
    <3> QED BY <3>1 DEF At
  <2>4. ASSUME NEW i \in Axis
        PROVE  \/ j[i] \in Beyond(f[i], nx, Shift(s, i))
               \/ Kind(f) # FACE /\ Shift(s, i) = 1 /\ f[i] = -1 /\ j[i] = ngz
               \/ Kind(f) # FACE /\ Shift(s, i) = 1 /\ f[i] = 1 /\ j[i] = nx + ngz
    BY <1>1, <1>4, <1>5, <1>6
  <2>5. Holds(b, j)
    <3> HIDE DEF g
    <3> QED BY <1>2, <2>1, <2>4, Sizes, SameCovers
  <2> HIDE DEF b
  <2> QED BY <2>3, <2>5
<1> QED BY <1>7, <1>8 DEF f

(* And of the coarse buffer, until interpolation reads it. *)
BufferInv ==
  /\ step \in {"walls", "prolong"} => CopiedToCbuf(Here, quad, stag) \subseteq cbuf
  /\ step = "prolong" => WallsOf(Here, quad, InCbuf(Here, quad), Half, stag) \subseteq cbuf

(* With both invariants, what an interpolation is to read is there. *)
LEMMA StencilsRead ==
  ASSUME ngz >= 4, StepsInv, BufferInv
  PROVE  StencilsFilled
<1> SUFFICES ASSUME step = "prolong", NEW d \in ProlongedHere
             PROVE  /\ \A I \in Stencils(Here, quad, d, stag) : Cover(cbuf, I)
                    /\ \A I \in TakenAs(d, {"own", "same"}) : Cover(FineBoxes, I)
  BY DEF StencilsFilled
<1> DEFINE g == Here
<1>0. /\ tree \in Meshes /\ quad \in Quads(tree) /\ stag \in Staggerings /\ g = Layer[tree]
      /\ d \in Dir /\ Prolonged(g, quad, d)
  BY DEF StepsInv, Here, ProlongedHere
<1>1. /\ Copied(g, quad, stag) \subseteq view
      /\ CopiedToCbuf(g, quad, stag) \cup WallsOf(g, quad, InCbuf(g, quad), Half, stag) \subseteq cbuf
  BY DEF StepsInv, BufferInv
<1>2. ASSUME NEW I \in Stencils(g, quad, d, stag) PROVE Cover(cbuf, I)
  <2> SUFFICES ASSUME NEW j, \A i \in Axis : j[i] \in I[i]
               PROVE  \E b \in cbuf : Holds(b, j)
    BY PointsCover
  <2>1. PICK e \in Near[d] : InElement(j, e, Half, stag)
    BY <1>0, <1>2, StencilNear
  <2>2. PICK b \in CopiedToCbuf(Layer[tree], quad, stag)
                   \cup WallsOf(Layer[tree], quad, InCbuf(Layer[tree], quad), Half, stag) : Holds(b, j)
    BY <1>0, <2>1, CbufFilled
  <2> QED BY <1>0, <1>1, <2>2
<1>3. ASSUME NEW I \in TakenAs(d, {"own", "same"}) PROVE Cover(FineBoxes, I)
  <2> SUFFICES ASSUME NEW j, \A i \in Axis : j[i] \in I[i]
               PROVE  \E b \in FineBoxes : Holds(b, j)
    BY PointsCover
  <2>1. stag \in Axis
    BY <1>0, <1>3 DEF TakenAs, Staggerings
  <2>2. PICK side \in {-1, 1} : /\ HasFine(g, quad, d, stag, side)
                                /\ ThereIs(EndElement(d, stag, side)) \in {"own", "same"}
                                /\ I = TakenAsFine(d, stag, side)
    BY <1>3, <2>1 DEF TakenAs, Axis, Center
  <2> DEFINE f == EndElement(d, stag, side)
  <2>3. f = Zero \/ g.class[quad][f] = "same"
    <3>1. CASE f = Zero
      BY <3>1
    <3>2. CASE f # Zero
      <4>1. ThereIs(f) = g.class[quad][f]
        BY <3>2 DEF ThereIs
      <4>2. f \in Dir
        BY <1>0, <2>1, <3>2, EndIs DEF Dir
      <4>3. g.class[quad][f] \in {"virtual", "phys", "coarser", "finer", "same"}
        BY <1>0, <4>2, ClassesAre
      <4> QED BY <2>2, <4>1, <4>3
    <3> QED BY <3>1, <3>2
  <2>4. PICK b \in Copied(Layer[tree], quad, stag) : b.by \in {"own", "same"} /\ Holds(b, j)
    <3> HIDE DEF g
    <3> QED BY <1>0, <2>1, <2>2, <2>3, TakenIsFine
  <2>5. b \in view
    BY <1>0, <1>1, <2>4
  <2> QED BY <2>4, <2>5 DEF FineBoxes
<1> QED BY <1>2, <1>3

(* On every mesh, for every quadrant and staggering, and with any even number
   of ghosts from four: what an interpolation is about to read of the coarse
   buffer, and of the fine data it relies on, has been filled. *)
THEOREM NoStencilEmpty == ngz >= 4 => (CellSpec => []StencilsFilled)
<1> SUFFICES ASSUME ngz >= 4 PROVE CellSpec => []StencilsFilled
  OBVIOUS
<1>0. CellSpec => []StepsInv
  BY StepsKept
<1>1. CellInit => BufferInv
  BY DEF CellInit, BufferInv
<1>2. BufferInv /\ [CellNext]_cellVars => BufferInv'
  <2> SUFFICES ASSUME BufferInv, [CellNext]_cellVars PROVE BufferInv'
    OBVIOUS
  <2>1. CASE CopyAll
    BY <2>1 DEF CopyAll, BufferInv, Here
  <2>2. CASE EarlyWalls
    BY <2>2 DEF EarlyWalls, BufferInv, Here
  <2>3. CASE ProlongAll
    BY <2>3 DEF ProlongAll, BufferInv, Here
  <2>4. CASE LateWalls
    BY <2>4 DEF LateWalls, BufferInv, Here
  <2>5. CASE UNCHANGED cellVars
    BY <2>5 DEF cellVars, BufferInv, Here
  <2> QED BY <2>1, <2>2, <2>3, <2>4, <2>5 DEF CellNext
<1>3. StepsInv /\ BufferInv => StencilsFilled
  BY StencilsRead
<1> QED BY <1>0, <1>1, <1>2, <1>3, PTL DEF CellSpec

(* Whatever the mesh, the quadrant and the staggering, with an even number of
   ghosts from four: every cell of the ghosts, and of the coarse buffer
   wherever an interpolation reads it, is filled, with data of its own place. *)
THEOREM EveryCellFilled == ngz >= 4 => (CellSpec => []CellsFilled)
<1>1. SamePlace /\ StencilsFilled /\ NothingLeftOut => CellsFilled
  BY DEF CellsFilled
<1> QED BY <1>1, EveryCellInPlace, NoCellLeftOut, NoStencilEmpty, PTL
=============================================================================
