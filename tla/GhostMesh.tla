----------------------------- MODULE GhostMesh -----------------------------
(***************************************************************************)
(* What amr_ghosts knows of the mesh before it builds the task graph: for  *)
(* every local quadrant its 6 faces, 12 edges and 8 corners, each physical *)
(* or internal, with a neighbour that is coarser, as fine or finer.        *)
(*                                                                         *)
(* An element is named by its direction d in {-1,0,1}^3; its kind (1 FACE, *)
(* 2 EDGE, 3 CORNER) is the number of axes it leaves the quadrant along.   *)
(* A quadrant is a box of unit cells, of size 1 or 2: two refinement       *)
(* levels, the coarse boxes at even positions (p4est's alignment).         *)
(***************************************************************************)
EXTENDS Integers, FiniteSets, Sequences

CONSTANT Meshes   \* [len : cells per axis, periodic : axis -> BOOLEAN,
                  \*  quads : sequence of [pos, size, rank], and for the ghost
                  \*  graphs staggered : BOOLEAN, which of the two it is]

Axis  == 1 .. 3
Sign  == {-1, 0, 1}
Zero  == <<0, 0, 0>>
Place == {<<a, b, c>> : a \in Sign, b \in Sign, c \in Sign}   \* a quadrant's interior and its elements
Dir   == Place \ {Zero}
FACE   == 1
EDGE   == 2
CORNER == 3

Kind(d)     == Cardinality({i \in Axis : d[i] # 0})
Opposite(d) == <<-d[1], -d[2], -d[3]>>
(* e keeps some of d's components: a face or edge that touches element d *)
Within(e, d) == \A i \in Axis : e[i] \in {0, d[i]}
Without(d, A) == <<IF 1 \in A THEN 0 ELSE d[1], IF 2 \in A THEN 0 ELSE d[2],
                   IF 3 \in A THEN 0 ELSE d[3]>>

Quads(m) == DOMAIN m.quads
(* Quadrant q covers cell c. *)
Covers(m, q, c) == \A i \in Axis : m.quads[q].pos[i] <= c[i] /\ c[i] < m.quads[q].pos[i] + m.quads[q].size
CellsOf(m) == (0 .. m.len[1] - 1) \X (0 .. m.len[2] - 1) \X (0 .. m.len[3] - 1)
(* The quadrants of p4est's forest: of two levels, in the domain, aligned, *)
(* and of every cell one.                                                  *)
ASSUME MeshAssumption == \A m \in Meshes :
  /\ \A i \in Axis : m.len[i] \in Nat \ {0} /\ m.periodic[i] \in BOOLEAN
  /\ \A q \in Quads(m), i \in Axis :
       LET a == m.quads[q].pos[i]  s == m.quads[q].size IN
       s \in {1, 2} /\ a \in Nat /\ a % s = 0 /\ a + s <= m.len[i]
  /\ \A c \in CellsOf(m) : \E q \in Quads(m) : Covers(m, q, c) /\ \A n \in Quads(m) : Covers(m, n, c) => n = q
Ranks(m) == {m.quads[q].rank : q \in Quads(m)}
Mine(m, r) == {q \in Quads(m) : m.quads[q].rank = r}
Rank(m, q) == m.quads[q].rank

(* The cells just across element d of q, before periodic wrapping. *)
Slab(m, q, d, i) == LET p == m.quads[q].pos[i] IN
                    CASE d[i] = 1  -> {p + m.quads[q].size}
                      [] d[i] = -1 -> {p - 1}
                      [] OTHER     -> p .. (p + m.quads[q].size - 1)
Across(m, q, d) == Slab(m, q, d, 1) \X Slab(m, q, d, 2) \X Slab(m, q, d, 3)
Wrap(m, c) == <<c[1] % m.len[1], c[2] % m.len[2], c[3] % m.len[3]>>

(* The axes along which d leaves a domain that is not periodic: the nonzero
   components of data.phys.dir; their number is the type of the boundary
   condition. *)
PhysAxes(m, q, d) == {i \in Axis : /\ d[i] # 0
                                   /\ ~m.periodic[i]
                                   /\ Slab(m, q, d, i) \cap (0 .. m.len[i] - 1) = {}}
CoveredBy(m) == [c \in CellsOf(m) |-> CHOOSE q \in Quads(m) : Covers(m, q, c)]
Over(g, C) == {g.covered[Wrap(g, c)] : c \in C}

(***************************************************************************)
(* update() fills the descriptors of the ghost layer step by step, from    *)
(* zero-initialised ones; g is the ghost layer of a mesh, at some step.    *)
(***************************************************************************)
Blank(m) == [len |-> m.len, quads |-> m.quads, covered |-> CoveredBy(m),
             phys |-> [q \in Quads(m) |-> [d \in Dir |-> PhysAxes(m, q, d)]],
             neighbours |-> <<>>,   \* of each quadrant across each element
             class |-> <<>>,        \* "phys", "virtual", or the level difference
             cbuf |-> <<>>,         \* the boundary elements tagged for the coarse buffers
             virtual |-> <<>>,      \* the virtual elements against each coarser one
             ops |-> <<>>,          \* the boundary kernels each element is in
             tasks |-> {}]          \* task_list
WithNeighbours(g) ==
  [g EXCEPT !.neighbours = [q \in Quads(g) |-> [d \in Dir |-> Over(g, Across(g, q, d))]]]
BcType(g, q, d) == Cardinality(g.phys[q][d])

Coarser(g, q, n) == g.quads[n].size > g.quads[q].size
(* Elements d and e of a fine quadrant lie against the same coarse box. *)
SameBox(g, q, d, e) == \E c \in Across(g, q, d), b \in Across(g, q, e) :
                         \A i \in Axis : c[i] \div 2 = b[i] \div 2

(* "virtual" (filled = false in the code): p4est reports no side for an edge
   or corner in the middle of a coarser neighbour's face or edge, so no
   descriptor is filled for it. *)
Virtual(g, q, d) == LET d0 == Without(d, g.phys[q][d]) IN
                    \E e \in Dir : /\ Within(e, d0) /\ e # d0
                                   /\ \E n \in g.neighbours[q][e] : Coarser(g, q, n)
                                   /\ SameBox(g, q, e, d0)
ClassOf(g, q, d) ==
  IF Virtual(g, q, d) THEN "virtual"
  ELSE IF g.phys[q][d] # {} THEN "phys"
  ELSE IF \E n \in g.neighbours[q][d] : Coarser(g, q, n) THEN "coarser"
  ELSE IF \E n \in g.neighbours[q][d] : Coarser(g, n, q) THEN "finer" ELSE "same"
WithClasses(g) == [g EXCEPT !.class = [q \in Quads(g) |-> [d \in Dir |-> ClassOf(g, q, d)]]]

(* amr_ghosts_impl_t::build_coarse_buffers: who gets a coarse buffer. *)
NeedsCbuf(g, q) == \E d \in Dir : g.class[q][d] = "coarser"

(* get_{face,edge,corner}_prolong_dependencies: the elements (and the
   interior, Zero) whose coarse-buffer cells prolonging d interpolates. *)
Near == [d \in Dir |-> {e \in Place : \A i \in Axis : d[i] # 0 => e[i] \in {0, d[i]}}]

(* Mutant: only elements p4est reports a coarser neighbour for. *)
ProlongedReported(g, q, d) == g.class[q][d] = "coarser"
(* prolong_kernels: elements filled by interpolation. *)
Prolonged(g, q, d) == g.class[q][d] \in {"coarser", "virtual"}
(* Mutant: only around coarser faces, not around coarser edges and corners. *)
PeerToPeerFaces(g, q, d) == /\ g.class[q][d] = "same"
                            /\ \E c \in Dir : /\ Kind(c) = FACE /\ g.class[q][c] = "coarser"
                                              /\ d \in Near[c]
(* cbuf_p2p_*_kernels: same-level ghosts that a prolongation reads, so that
   the coarse buffers of the two sides must exchange them too. *)
PeerToPeer(g, q, d) == /\ g.class[q][d] = "same"
                       /\ \E c \in Dir : g.class[q][c] = "coarser" /\ d \in Near[c]
(* tag_bcs_in_cbuf: boundary elements that a prolongation reads. *)
InCbuf(g, q) == {d \in Dir : /\ g.class[q][d] = "phys"
                             /\ \E c \in Dir : Prolonged(g, q, c) /\ d \in Near[c]}
(* The virtual elements of q against the box of its coarser element d. *)
VirtualIn(g, q, d) == {v \in Dir : /\ g.class[q][v] = "virtual" /\ g.phys[q][v] = {}
                                   /\ Within(d, v) /\ SameBox(g, q, d, v)}
WithTags(g) == [g EXCEPT !.cbuf    = [q \in Quads(g) |-> InCbuf(g, q)],
                         !.virtual = [q \in Quads(g) |-> [d \in Dir |-> VirtualIn(g, q, d)]]]

(* insert_phys_bc_tasks, pre-pass: the boundary face with all its edges and
   corners of FACE type goes to one fused kernel if none is in a coarse buffer. *)
FaceUnder(g, q, d) == Without(d, Axis \ g.phys[q][d])
Fused(g, q, d) ==
  /\ g.class[q][d] = "phys" /\ BcType(g, q, d) = FACE
  /\ LET f == FaceUnder(g, q, d) IN
     \A e \in Dir : Within(f, e) /\ BcType(g, q, e) = FACE => e \notin g.cbuf[q]
(* unpack_dependencies: a corner on a domain edge waits for the second
   boundary pass if one of its edges does. *)
Deferred(g, q, d) == /\ g.class[q][d] = "phys" /\ Kind(d) = CORNER /\ BcType(g, q, d) = EDGE
                     /\ \E e \in Dir : Kind(e) = EDGE /\ Within(e, d) /\ e \in g.cbuf[q]
=============================================================================
