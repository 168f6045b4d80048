----------------------------- MODULE GhostCells -----------------------------
(***************************************************************************)
(* One sweep of ghost filling as one quadrant sees it, cell by cell, for   *)
(* each staggering: copies, messages and the restriction, then the domain  *)
(* boundaries in the coarse buffer, interpolation from it, and the domain  *)
(* boundaries of the quadrant.  That the kernels come in such an order is  *)
(* GhostFill's subject; here it is whether they cover, between them, the   *)
(* cells they must and no other.                                           *)
(***************************************************************************)
EXTENDS GhostIndices

VARIABLES
  tree,     \* the mesh
  quad,     \* the quadrant
  stag,     \* the staggering
  view,     \* what is filled of the quadrant's array: boxes, each with its kernel
  cbuf,     \* and of its coarse buffer
  step      \* "copy", "walls", "prolong", "late walls" or "filled"

cellVars == <<tree, quad, stag, view, cbuf, step>>

Layer == [m \in Meshes |-> WithTags(WithClasses(WithNeighbours(Blank(m))))]
At(by, axes) == [by |-> by, axes |-> axes]
-----------------------------------------------------------------------------
(* Where neighbour n's array begins in the lattice of q's, in quadrants of *)
(* unit size; and the half of the larger that the smaller is against.      *)
Begins(g, q, n, d, i) == CASE d[i] = 1  -> g.quads[q].size
                           [] d[i] = -1 -> -g.quads[n].size
                           [] OTHER     -> g.quads[n].pos[i] - g.quads[q].pos[i]
Half01(g, small, large, i) == (g.quads[small].pos[i] - g.quads[large].pos[i]) % 2
Moved(pairs, by) == {<<p[1], IF p[2] = None THEN None ELSE p[2] + by>> : p \in pairs}
Remote(g, q, n) == g.quads[q].rank # g.quads[n].rank

(* The box that neighbour n of q across d fills. *)
SameBoxOf(g, q, d, n, cells, s) == [i \in Axis |->
  Moved(Same(Kind(d), d[i], cells, s, i, Remote(g, q, n)), (cells \div g.quads[q].size) * Begins(g, q, n, d, i))]
FinerBox(g, q, d, n, s) == [i \in Axis |->
  Moved(FinerPairs(Kind(d), d[i], s, i, Half01(g, n, q, i), Remote(g, q, n)), Half * Begins(g, q, n, d, i))]
CoarserBox(g, q, d, n, s) == [i \in Axis |->
  Moved(CoarserPairs(Kind(d), d[i], s, i, Half01(g, q, n, i), Remote(g, q, n)), Half * Begins(g, q, n, d, i))]
Own(n, s) == [i \in Axis |-> Plain(Interior(n, Shift(s, i)))]

Copied(g, q, s) ==
  {At("own", Own(nx, s))}
  \cup (UNION {{At("same", SameBoxOf(g, q, d, n, nx, s)) : n \in g.neighbours[q][d]} : d \in {e \in Dir : g.class[q][e] = "same"}})
  \cup (UNION {{At("finer", FinerBox(g, q, d, n, s)) : n \in g.neighbours[q][d]} : d \in {e \in Dir : g.class[q][e] = "finer"}})
CopiedToCbuf(g, q, s) ==
  IF ~NeedsCbuf(g, q) THEN {}
  ELSE {At("own", Own(Half, s))}   \* restrict_op, div_free_restrict_op
       \cup (UNION {{At("same", SameBoxOf(g, q, d, n, Half, s)) : n \in g.neighbours[q][d]} : d \in {e \in Dir : PeerToPeer(g, q, e)}})
       \cup (UNION {{At("coarser", CoarserBox(g, q, d, n, s)) : n \in g.neighbours[q][d]} : d \in {e \in Dir : g.class[q][e] = "coarser"}})
WallsOf(g, q, D, n, s) == {At("wall", [i \in Axis |-> Plain(WallRange(g, q, d, i, n, s))]) : d \in D}
-----------------------------------------------------------------------------
(* have_fine_data of element d, at the lower (-1) or upper (1) end of axis  *)
(* a: of a face, edge or corner the end towards the quadrant looks across   *)
(* it, the other ends at the next element.  A descriptor of a physical      *)
(* element has its level_diff as constructed, SAME.                         *)
EndElement(d, a, side) == [d EXCEPT ![a] = IF d[a] = 0 THEN side ELSE 0]
(* Mutant: of an end towards the quadrant it is never looked up. *)
HasFineAlong(g, q, d, a, side) == d[a] = 0 /\ g.class[q][EndElement(d, a, side)] \in {"same", "phys"}
HasFine(g, q, d, a, side) ==
  /\ d[a] # side
  /\ LET e == EndElement(d, a, side) IN e = Zero \/ g.class[q][e] \in {"same", "phys"}

(* The planes across a that phase 1 of div_free_prolong_op fills of element *)
(* d, each with the plane of the coarse buffer it is read from, and those   *)
(* of phase 2, between two of them.                                         *)
Planes1(g, q, d, a) ==
  LET k == Kind(d)
      at == {<<Fine(k, d[a], x), Coarse(k, d[a], x)>> : x \in Steps(d[a])}
  IN  {p \in at : ~(p[1] = First(d[a]) /\ HasFine(g, q, d, a, -1))}
      \cup {<<p[1] + 2, p[2] + 1>> : p \in {r \in at : r[1] = Last(d[a]) /\ ~HasFine(g, q, d, a, 1)}}
Planes2(d, a) == {Fine(Kind(d), d[a], x) + 1 : x \in Steps(d[a])}
FineCells(d, i)   == UNION {{Fine(Kind(d), d[i], x), Fine(Kind(d), d[i], x) + 1} : x \in Steps(d[i])}

ProlongedBox(g, q, d, s) == [i \in Axis |->
  Plain(IF i = s THEN {p[1] : p \in Planes1(g, q, d, i)} \cup Planes2(d, i) ELSE FineCells(d, i))]
(* What it reads: of a centred variable the widest stencil, of a staggered *)
(* one a plane at a time, a cell further along one of its axes.            *)
CoarseCells(d, i, r) == UNION {Coarse(Kind(d), d[i], x) - r .. Coarse(Kind(d), d[i], x) + r : x \in Steps(d[i])}
Stencils(g, q, d, s) ==
  IF s = Center THEN {[i \in Axis |-> CoarseCells(d, i, 2)]}
  ELSE {[i \in Axis |-> IF i = s THEN {p[2] : p \in Planes1(g, q, d, s)}
                        ELSE CoarseCells(d, i, IF i = along THEN 1 ELSE 0)] : along \in Axis \ {s}}
(* And a plane across s it takes for filled: phase 2 reads it from the view. *)
TakenAsFine(d, s, side) ==
  [i \in Axis |-> IF i # s THEN FineCells(d, i) ELSE {IF side = -1 THEN First(d[s]) ELSE Last(d[s]) + 2}]
-----------------------------------------------------------------------------
CellInit == /\ tree \in Meshes
            /\ quad \in Quads(tree)
            /\ stag \in Staggerings
            /\ view = {} /\ cbuf = {}
            /\ step = "copy"

Here == Layer[tree]
ProlongedHere == {d \in Dir : Prolonged(Here, quad, d)}
Boundary == {d \in Dir : Here.class[quad][d] = "phys"}
Late == {d \in Boundary : d \in InCbuf(Here, quad) \/ Deferred(Here, quad, d)}

CopyAll == /\ step = "copy" /\ step' = "walls"
           /\ view' = Copied(Here, quad, stag)
           /\ cbuf' = CopiedToCbuf(Here, quad, stag)
           /\ UNCHANGED <<tree, quad, stag>>
(* insert_phys_bc_tasks: of the view, but for what waits for interpolation, *)
(* and of the coarse buffer.                                                *)
EarlyWalls == /\ step = "walls" /\ step' = "prolong"
              /\ view' = view \cup WallsOf(Here, quad, Boundary \ Late, nx, stag)
              /\ cbuf' = cbuf \cup WallsOf(Here, quad, InCbuf(Here, quad), Half, stag)
              /\ UNCHANGED <<tree, quad, stag>>
ProlongAll == /\ step = "prolong" /\ step' = "late walls"
              /\ view' = view \cup {At("prolonged", ProlongedBox(Here, quad, d, stag)) : d \in ProlongedHere}
              /\ UNCHANGED <<tree, quad, stag, cbuf>>
(* insert_deferred_phys_bc_tasks *)
LateWalls == /\ step = "late walls" /\ step' = "filled"
             /\ view' = view \cup WallsOf(Here, quad, Late, nx, stag)
             /\ UNCHANGED <<tree, quad, stag, cbuf>>
CellNext == CopyAll \/ EarlyWalls \/ ProlongAll \/ LateWalls
CellSpec == CellInit /\ [][CellNext]_cellVars
-----------------------------------------------------------------------------
(***************************************************************************)
(* Properties                                                              *)
(***************************************************************************)
Written(b, i) == {p[1] : p \in b.axes[i]}
(* The boxes B cover the product of I[1], I[2] and I[3]. *)
Cover(B, I) == LET through == [i \in Axis |-> {{b \in B : j \in Written(b, i)} : j \in I[i]}] IN
  \A b1 \in through[1] : \A b2 \in through[2] : \A b3 \in through[3] : b1 \cap b2 \cap b3 # {}
Whole == [i \in Axis |-> 0 .. nx + Shift(stag, i) + 2 * ngz - 1]
FineBoxes == {b \in view : b.by \in {"own", "same"}}
(* The planes that interpolation of d takes for fine, because of what is    *)
(* there; on a domain boundary nobody fills them (FineDataIsFine).          *)
ThereIs(e) == IF e = Zero THEN "own" ELSE Here.class[quad][e]
TakenAs(d, classes) ==
  IF stag = Center THEN {}
  ELSE {TakenAsFine(d, stag, side) : side \in {t \in {-1, 1} :
          HasFine(Here, quad, d, stag, t) /\ ThereIs(EndElement(d, stag, t)) \in classes}}
NeverFine == UNION {TakenAs(d, {"phys"}) : d \in {e \in ProlongedHere : stag # Center => e[stag] = 0}}
Excused   == {[by |-> "nobody", axes |-> [i \in Axis |-> Plain(I[i])]] : I \in NeverFine}

SamePlace == \A b \in view \cup cbuf : \A i \in Axis : \A p \in b.axes[i] : p[1] = p[2]
StencilsFilled == step = "prolong" => \A d \in ProlongedHere :
  /\ \A I \in Stencils(Here, quad, d, stag) : Cover(cbuf, I)
  /\ \A I \in TakenAs(d, {"own", "same"}) : Cover(FineBoxes, I)
NothingLeftOut == step = "filled" => Cover(view \cup Excused, Whole)

(* Whatever its neighbours and its staggering, the kernels between them     *)
(* leave no cell of a quadrant's ghosts out, and of its coarse buffer none  *)
(* in the widest stencil that interpolation reads; and what fills a cell,   *)
(* out of a local array or a message, are data of that very place of the    *)
(* mesh: the index arithmetic of the two sides and of the two spacings      *)
(* agree (compute_indices, cbuf_to_view_offsets, view_to_cbuf_offsets).     *)
CellsFilled == SamePlace /\ StencilsFilled /\ NothingLeftOut

(* Interpolation never replaces a face that a neighbour of the same level   *)
(* or the quadrant itself holds: the two sides of it would no longer agree, *)
(* and div B not vanish (have_fine_data).                                   *)
FineKept == \A b \in {c \in view : c.by = "prolonged"} : \A f \in FineBoxes :
              \E i \in Axis : Written(b, i) \cap Written(f, i) = {}

(* The faces that interpolation leaves alone as having fine data ("-> lower *)
(* x face has fine data ?", prolongation_kernels.hh:125) do have some when  *)
(* the sweep ends, those on a domain boundary included.                     *)
FineDataIsFine == step = "filled" => \A d \in ProlongedHere :
  \A I \in TakenAs(d, {"own", "same", "phys"}) : Cover(view, I)
=============================================================================
