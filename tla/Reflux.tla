------------------------------- MODULE Reflux -------------------------------
(***************************************************************************)
(* Which fluxes and electric fields (EMFs) quadrants share across faces    *)
(* and edges, who sends them to whom, and how every rank makes its copies  *)
(* agree: the refluxing descriptors and buffers of amr_ghosts and          *)
(* evolution/refluxing.cpp.                                                *)
(*                                                                         *)
(* Faces are numbered 0..5 and edges 0..11 as by p4est. A quadrant has nx  *)
(* cells per axis; <<a, at>> is the flux through, or the EMF along, axis a *)
(* stored at the indices at (of cells along a for an EMF, of nodes across  *)
(* it). Only what lies on a quadrant's boundary is kept. A value is the    *)
(* set of the <<quadrant, place>> it is the average of, so that the        *)
(* average of values with the same number of terms is their union.         *)
(***************************************************************************)
EXTENDS GhostMesh

(* Quadrants are numbered along p4est's curve, ranks by MPI. *)
ASSUME NumbersAssumption ==
  \A m \in Meshes : /\ IsFiniteSet(Quads(m)) /\ Quads(m) = 1 .. Cardinality(Quads(m))
                    /\ Ranks(m) \subseteq Nat

nx     == 4
Cell   == 0 .. nx - 1
Half   == 0 .. (nx \div 2) - 1
Face   == 0 .. 5
Child  == 0 .. 3              \* the children across a face, in z-order
Others == <<<<2, 3>>, <<1, 3>>, <<1, 2>>>>   \* other_dirs

FaceAxis(f) == f \div 2 + 1
OppositeFace(f) == IF f % 2 = 0 THEN f + 1 ELSE f - 1
EdgeAxis(e) == e \div 4 + 1
(* Indices x along axis a, y and z along its other axes. *)
At(a, x, y, z) == [i \in Axis |-> CASE i = a            -> x
                                    [] i = Others[a][1] -> y
                                    [] OTHER            -> z]
OnFace(f, i, j) == At(FaceAxis(f), nx * (f % 2), i, j)
OnEdge(e, i)    == At(EdgeAxis(e), i, nx * (e % 2), nx * ((e \div 2) % 2))

FluxPlaces == {<<FaceAxis(f), OnFace(f, i, j)>> : f \in Face, i \in Cell, j \in Cell}
EmfPlaces  == {<<a, At(a, i, y, z)>> : a \in Axis, i \in Cell, y \in {0, nx}, z \in 0 .. nx}
                \cup {<<a, At(a, i, y, z)>> : a \in Axis, i \in Cell, y \in 0 .. nx, z \in {0, nx}}

(***************************************************************************)
(* Descriptors, registered by p4est's iteration over faces and edges.      *)
(***************************************************************************)
Inside(g, c)    == \A i \in Axis : g.periodic[i] \/ c[i] \in 0 .. g.len[i] - 1
Covering(g, c)  == g.covered[Wrap(g, c)]
Size(g, q)      == g.quads[q].size
CellAcross(g, q, f, b) ==
  LET a == FaceAxis(f)  p == g.quads[q].pos IN
  At(a, p[a] + (IF f % 2 = 1 THEN Size(g, q) ELSE -1), p[Others[a][1]] + (b % 2), p[Others[a][2]] + b \div 2)
AcrossFace(g, q, f, b) == Covering(g, CellAcross(g, q, f, b))

(* Faces p4est reports with one side only. *)
BoundaryFaces(g) == {x \in Quads(g) \X Face : ~Inside(g, CellAcross(g, x[1], x[2], 0))}
(* register_refluxing_face: a coarse face and the four fine quadrants across. *)
HangingFaces(g) ==
  {[coarse |-> x[1], face |-> x[2], fine |-> [b \in Child |-> AcrossFace(g, x[1], x[2], b)]] :
     x \in {y \in Quads(g) \X Face : /\ Inside(g, CellAcross(g, y[1], y[2], 0))
                                     /\ Size(g, AcrossFace(g, y[1], y[2], 0)) < Size(g, y[1])}}
(* register_refluxing_coarse_face: two quadrants of one level share a face. *)
LevelFaces(g) ==
  {[quads |-> <<x[1], AcrossFace(g, x[1], x[2], 0)>>, faces |-> <<x[2], OppositeFace(x[2])>>] :
     x \in {y \in Quads(g) \X {1, 3, 5} : /\ Inside(g, CellAcross(g, y[1], y[2], 0))
                                          /\ Size(g, AcrossFace(g, y[1], y[2], 0)) = Size(g, y[1])}}

(* The sides of an edge: the quadrants that have it as their edge number
   edge, two along it on a fine side; shifted is the axis along which it is
   in the middle of a coarse side's face, else 0. *)
Side(edge, quads, shifted) == [edge |-> edge, quads |-> quads, shifted |-> shifted]
Fine(side) == Len(side.quads) = 2
QuadsOf(d) == UNION {{s.quads[c] : c \in DOMAIN s.quads} : s \in d}

(* The line of length n (a box of size n) from p along axis a. *)
CellBeside(a, p, b, k) == At(a, p[a] + k, p[Others[a][1]] - (b % 2), p[Others[a][2]] - b \div 2)
SidesOf(g, a, p, n) ==
  {LET q(k) == Covering(g, CellBeside(a, p, b, k)) IN
   Side(4 * (a - 1) + b, IF Size(g, q(0)) < n THEN <<q(0), q(1)>> ELSE <<q(0)>>, 0) :
     b \in {c \in Child : Inside(g, CellBeside(a, p, c, 0))}}
Nodes(g, a, i) == 0 .. (IF i = a \/ g.periodic[i] THEN g.len[i] - 1 ELSE g.len[i])
LinesAlong(g, a) == Nodes(g, a, 1) \X Nodes(g, a, 2) \X Nodes(g, a, 3)
LargestAt(g, a, p) ==
  LET sizes == {Size(g, Covering(g, CellBeside(a, p, b, 0))) :
                  b \in {c \in Child : Inside(g, CellBeside(a, p, c, 0))}} IN
  IF 2 \in sizes THEN 2 ELSE 1
(* grace_iterate_edges: p4est visits the edges of the largest quadrants
   around a line; an edge inside one of their faces is not visited, and one
   with a single side needs no descriptor. *)
VisitedEdges(g) ==
  {d \in {SidesOf(g, x[1], x[2], LargestAt(g, x[1], x[2])) :
            x \in {y \in UNION {{a} \X LinesAlong(g, a) : a \in Axis} :
                     LargestAt(g, y[1], y[2]) = 2 => \A i \in Axis : y[2][i] % 2 = 0}} :
     Cardinality(d) > 1}
(* register_refluxing_edges: the two lines in the middle of a coarse face. *)
MiddleEdges(g) ==
  UNION {{LET fa == FaceAxis(d.face)  a == Others[fa][k]  b == Others[fa][3 - k]
              (* of a quadrant with face f: its edge along a at the given end of b *)
              edge(f, end) == CHOOSE e \in 4 * (a - 1) .. 4 * (a - 1) + 3 :
                                LET p == OnEdge(e, 0) IN p[fa] = nx * (f % 2) /\ p[b] = nx * end
              child(end, c) == IF k = 1 THEN c + 2 * end ELSE end + 2 * c IN
          {Side(edge(d.face, 0), <<d.coarse>>, b)}
            \cup {Side(edge(OppositeFace(d.face), 1 - end),
                       <<d.fine[child(end, 0)], d.fine[child(end, 1)]>>, 0) : end \in {0, 1}} :
            k \in {1, 2}} : d \in HangingFaces(g)}
IsHanging(d) == \E s \in d : Fine(s)
HangingEdges(g) == {d \in VisitedEdges(g) : IsHanging(d)} \cup MiddleEdges(g)
LevelEdges(g)   == {d \in VisitedEdges(g) : ~IsHanging(d)}

(***************************************************************************)
(* Messages (build_reflux_buffers). Both ends sort the same keys, a fine   *)
(* or equal quadrant and a face or edge of it, and a key's place in that   *)
(* order is its slot in the buffer. A quadrant's number stands for its     *)
(* local index on its owner and for its ghost index elsewhere: both follow *)
(* p4est's order.                                                          *)
(***************************************************************************)
Kinds == {"flux", "emf_face", "emf_level_face", "emf_edge", "emf_level_edge"}

(* Mutant: the key is the face of the rank that makes it. *)
KeyFaceOwn(r, s, theirs, ours) == ours
(* Of the two numbers of a face, rank r and its peer s use the lower rank's. *)
KeyFace(r, s, theirs, ours) == IF s < r THEN theirs ELSE ours

Sending(quad, elem, key) == [quad |-> quad, elem |-> elem, key |-> key]
FaceSends(g, r, s) ==
  {Sending(x[1].fine[x[2]], OppositeFace(x[1].face),
           <<x[1].fine[x[2]], KeyFace(r, s, x[1].face, OppositeFace(x[1].face))>>) :
     x \in {y \in HangingFaces(g) \X Child : Rank(g, y[1].coarse) = s /\ Rank(g, y[1].fine[y[2]]) = r}}
FaceDue(g, r, s) ==
  {<<x[1].fine[x[2]], KeyFace(r, s, OppositeFace(x[1].face), x[1].face)>> :
     x \in {y \in HangingFaces(g) \X Child : Rank(g, y[1].coarse) = r /\ Rank(g, y[1].fine[y[2]]) = s}}
(* Sides n and 3 - n of a face: n is s's, the other r's. *)
Between(g, r, s) == {y \in LevelFaces(g) \X {1, 2} : /\ Rank(g, y[1].quads[y[2]]) = s
                                                     /\ Rank(g, y[1].quads[3 - y[2]]) = r}
LevelFaceKey(r, s, d, n) == KeyFace(r, s, d.faces[n], d.faces[3 - n])
LevelFaceSends(g, r, s) ==
  {Sending(x[1].quads[3 - x[2]], x[1].faces[3 - x[2]],
           <<x[1].quads[3 - x[2]], LevelFaceKey(r, s, x[1], x[2])>>) : x \in Between(g, r, s)}
LevelFaceDue(g, r, s) == {<<x[1].quads[x[2]], LevelFaceKey(r, s, x[1], x[2])>> : x \in Between(g, r, s)}

OwnerOf(g, side) == {Rank(g, side.quads[c]) : c \in DOMAIN side.quads}
Owned(g, sides, r) ==
  UNION {{<<s.quads[c], s.edge>> : c \in {n \in DOMAIN s.quads : Rank(g, s.quads[n]) = r}} : s \in sides}
KnownTo(g, D, r) == {d \in D : r \in UNION {OwnerOf(g, s) : s \in d}}
FineSides(d) == {s \in d : Fine(s)}
(* Mutant: fine values go only to the coarse sides of an edge. *)
EdgeSendsToCoarse(g, r, s) ==
  {Sending(k[1], k[2], k) : k \in UNION {Owned(g, FineSides(d), r) :
     d \in {e \in HangingEdges(g) : \E t \in e \ FineSides(e) : s \in OwnerOf(g, t)}}}
(* The fine values of an edge go to every rank that has a side of it, the
   values of an edge between quadrants of one level to every other side's. *)
EdgeSends(g, r, s) ==
  {Sending(k[1], k[2], k) : k \in UNION {Owned(g, FineSides(d), r) : d \in KnownTo(g, HangingEdges(g), s)}}
EdgeDue(g, r, s) == UNION {Owned(g, FineSides(d), s) : d \in KnownTo(g, HangingEdges(g), r)}
LevelEdgeSends(g, r, s) ==
  {Sending(k[1], k[2], k) : k \in UNION {Owned(g, d, r) : d \in KnownTo(g, LevelEdges(g), s)}}
LevelEdgeDue(g, r, s) == UNION {Owned(g, d, s) : d \in KnownTo(g, LevelEdges(g), r)}

Peerwise(g, K(_, _)) == [r \in Ranks(g) |-> [s \in Ranks(g) |-> IF r = s THEN {} ELSE K(r, s)]]
SendLists(g) ==
  [kind \in Kinds |-> Peerwise(g, LAMBDA r, s :
     CASE kind \in {"flux", "emf_face"} -> FaceSends(g, r, s)
       [] kind = "emf_level_face"       -> LevelFaceSends(g, r, s)
       [] kind = "emf_edge"             -> EdgeSends(g, r, s)
       [] kind = "emf_level_edge"       -> LevelEdgeSends(g, r, s))]
DueLists(g) ==
  [kind \in Kinds |-> Peerwise(g, LAMBDA r, s :
     CASE kind \in {"flux", "emf_face"} -> FaceDue(g, r, s)
       [] kind = "emf_level_face"       -> LevelFaceDue(g, r, s)
       [] kind = "emf_edge"             -> EdgeDue(g, r, s)
       [] kind = "emf_level_edge"       -> LevelEdgeDue(g, r, s))]

(* The places of a side's edge on its quadrants; i counts along the edge. *)
PlaceOn(s, i) == LET at == OnEdge(s.edge, i) IN
                 <<EdgeAxis(s.edge), IF s.shifted = 0 THEN at ELSE [at EXCEPT ![s.shifted] = nx \div 2]>>
Start(p) == <<p[1], [p[2] EXCEPT ![p[1]] = 0]>>
(* By the place where an edge of q starts: <<the edge, q's side, which of the
   side's quadrants q is>>. *)
SidesAt(D, q) ==
  LET here == {x \in UNION {{d} \X d \X {1, 2} : d \in D} :
                 x[3] \in DOMAIN x[2].quads /\ x[2].quads[x[3]] = q} IN
  [p \in {PlaceOn(x[2], 0) : x \in here} |-> {x \in here : PlaceOn(x[2], 0) = p}]

(* What amr_ghosts holds for refluxing, descriptors sorted by quadrant. *)
Layer(m) == [len |-> m.len, periodic |-> m.periodic, quads |-> m.quads, covered |-> CoveredBy(m)]
WithReflux(g) ==
  LET faces == HangingFaces(g)  level == LevelFaces(g)
      edges == HangingEdges(g)  levelEdges == LevelEdges(g) IN
  [quads      |-> g.quads, sends |-> SendLists(g), due |-> DueLists(g), boundary |-> BoundaryFaces(g),
   hanging    |-> [q \in Quads(g) |-> {d \in faces : d.coarse = q}],
   level      |-> [q \in Quads(g) |-> {d \in level : q \in {d.quads[1], d.quads[2]}}],
   edges      |-> [q \in Quads(g) |-> SidesAt(edges, q)],
   levelEdges |-> [q \in Quads(g) |-> SidesAt(levelEdges, q)]]
RefluxOf == [m \in Meshes |-> WithReflux(Layer(m))]

(***************************************************************************)
(* reflux_fill_flux_buffers, reflux_fill_emf_buffers: what is sent.        *)
(***************************************************************************)
RawFluxes(m) == [q \in Quads(m) |-> [p \in FluxPlaces |-> {<<q, p>>}]]
RawEmfs(m)   == [q \in Quads(m) |-> [p \in EmfPlaces |-> {<<q, p>>}]]

(* Mutant: the two cells along one axis only. *)
AveragedFluxHalf(flux, q, f, i, j) ==
  UNION {flux[q][<<FaceAxis(f), OnFace(f, 2 * i + b, 2 * j)>>] : b \in {0, 1}}
(* The four fine fluxes on a coarse cell's face. *)
AveragedFlux(flux, q, f, i, j) ==
  UNION {flux[q][<<FaceAxis(f), OnFace(f, 2 * i + (b % 2), 2 * j + b \div 2)>>] : b \in Child}
Along(f, k) == Others[FaceAxis(f)][k]
OnFaceEmf(emf, q, f, k, i, j) == emf[q][<<Along(f, k), OnFace(f, i, j)>>]
(* The two fine EMFs on a coarse cell's edge, along the face's axis k. *)
AveragedEmf(emf, q, f, k, i, j) ==
  OnFaceEmf(emf, q, f, k, 2 * i, 2 * j)
    \cup OnFaceEmf(emf, q, f, k, 2 * i + 2 - k, 2 * j + k - 1)
OnEdgeEmf(emf, q, e, i) == emf[q][<<EdgeAxis(e), OnEdge(e, i)>>]

Contents(kind, array, q, elem) ==
  CASE kind = "flux"           -> [x \in Half \X Half |-> AveragedFlux(array, q, elem, x[1], x[2])]
    [] kind = "emf_face"       -> [x \in {1, 2} \X Half \X Half |-> AveragedEmf(array, q, elem, x[1], x[2], x[3])]
    [] kind = "emf_level_face" -> [x \in {1, 2} \X Cell \X Cell |-> OnFaceEmf(array, q, elem, x[1], x[2], x[3])]
    [] OTHER                   -> [i \in Cell |-> OnEdgeEmf(array, q, elem, i)]

Before(k, l) == k[1] < l[1] \/ (k[1] = l[1] /\ k[2] < l[2])
Slot(K, k)   == Cardinality({l \in K : Before(l, k)}) + 1
Message(kind, array, S) ==
  LET K == {x.key : x \in S} IN
  [n \in 1 .. Cardinality(K) |-> LET x == CHOOSE y \in S : Slot(K, y.key) = n IN
                                 Contents(kind, array, x.quad, x.elem)]
Posted(g, kind, array, r) == [s \in Ranks(g) |-> Message(kind, array, g.sends[kind][r][s])]
(* What r finds in its receive buffer under a key of another rank's quadrant. *)
Received(g, mail, kind, r, key) ==
  LET s == Rank(g, key[1]) IN mail[kind][s][r][Slot(g.due[kind][r][s], key)]
(* MPI_Waitall returns: the peers have posted the other ends. *)
Completed(g, mail, kind, r) ==
  \A s \in Ranks(g) :
     /\ g.due[kind][r][s] # {} => s \in DOMAIN mail[kind] /\ mail[kind][s][r] # <<>>
     /\ g.sends[kind][r][s] # {} => s \in DOMAIN mail[kind] /\ g.due[kind][s][r] # {}

(***************************************************************************)
(* reflux_correct_fluxes, reflux_correct_emfs, on rank r.                  *)
(***************************************************************************)
(* What a kernel leaves at a place it writes the values W to; {} stands for
   the outcome of a race. *)
Written(W, old) == IF W = {} THEN old ELSE IF Cardinality(W) = 1 THEN CHOOSE v \in W : TRUE ELSE {}
Kernel(g, r, array, W(_, _)) ==
  [q \in Quads(g) |-> IF Rank(g, q) # r THEN array[q]
                      ELSE [p \in DOMAIN array[q] |-> Written(W(q, p), array[q][p])]]

LiesOn(f, p) == p[2][FaceAxis(f)] = nx * (f % 2)
I(f, p) == p[2][Others[FaceAxis(f)][1]]
J(f, p) == p[2][Others[FaceAxis(f)][2]]
ChildAt(i, j) == (IF 2 * i >= nx THEN 1 ELSE 0) + (IF 2 * j >= nx THEN 2 ELSE 0)
Mid == nx \div 2
FineKey(g, r, d, b) == <<d.fine[b], KeyFace(r, Rank(g, d.fine[b]), OppositeFace(d.face), d.face)>>

FineFlux(g, flux, mail, r, d, i, j) ==
  LET q == d.fine[ChildAt(i, j)] IN
  IF Rank(g, q) = r THEN AveragedFlux(flux, q, OppositeFace(d.face), i % Mid, j % Mid)
  ELSE Received(g, mail, "flux", r, FineKey(g, r, d, ChildAt(i, j)))[<<i % Mid, j % Mid>>]
CorrectedFluxes(g, flux, mail, r) ==
  Kernel(g, r, flux, LAMBDA q, p :
    {FineFlux(g, flux, mail, r, d, I(d.face, p), J(d.face, p)) :
       d \in {e \in g.hanging[q] : FaceAxis(e.face) = p[1] /\ LiesOn(e.face, p)}})

(* The face f has the EMF p along its axis k; Across is p's index across. *)
Runs(f, p) == FaceAxis(f) # p[1] /\ LiesOn(f, p)
Number(f, p) == IF Others[FaceAxis(f)][1] = p[1] THEN 1 ELSE 2
AcrossIndex(f, p) == p[2][Others[FaceAxis(f)][3 - Number(f, p)]]
FineEmf(g, emf, mail, r, d, k, i, j) ==
  LET q == d.fine[ChildAt(i, j)] IN
  IF Rank(g, q) = r THEN AveragedEmf(emf, q, OppositeFace(d.face), k, i % Mid, j % Mid)
  ELSE Received(g, mail, "emf_face", r, FineKey(g, r, d, ChildAt(i, j)))[<<k, i % Mid, j % Mid>>]
(* On a coarse face, but for its edges and the lines through its middle. *)
AfterHangingFaces(g, emf, mail, r) ==
  Kernel(g, r, emf, LAMBDA q, p :
    {FineEmf(g, emf, mail, r, d, Number(d.face, p), I(d.face, p), J(d.face, p)) :
       d \in {e \in g.hanging[q] : Runs(e.face, p) /\ AcrossIndex(e.face, p) \in Cell \ {0, Mid}}})

LevelEmf(g, emf, mail, r, d, n, k, i, j) ==
  LET q == d.quads[n] IN
  IF Rank(g, q) = r THEN OnFaceEmf(emf, q, d.faces[n], k, i, j)
  ELSE Received(g, mail, "emf_level_face", r, <<q, LevelFaceKey(r, Rank(g, q), d, n)>>)[<<k, i, j>>]
(* Both sides of a face between quadrants of one level take their average. *)
AfterLevelFaces(g, emf, mail, r) ==
  Kernel(g, r, emf, LAMBDA q, p :
    {LET d == x[1]  f == d.faces[x[2]] IN
     LevelEmf(g, emf, mail, r, d, 1, Number(f, p), I(f, p), J(f, p))
       \cup LevelEmf(g, emf, mail, r, d, 2, Number(f, p), I(f, p), J(f, p)) :
       x \in {y \in g.level[q] \X {1, 2} :
                /\ y[1].quads[y[2]] = q /\ Runs(y[1].faces[y[2]], p)
                /\ AcrossIndex(y[1].faces[y[2]], p) \in Cell \ {0}}})

(* Every side of an edge takes the value of the side with the lowest edge
   number, among the fine ones if there are any. *)
Lowest(sides) == CHOOSE s \in sides : \A t \in sides : s.edge <= t.edge
EdgeEmf(g, emf, mail, kind, r, s, c, i) ==
  LET q == s.quads[c] IN
  IF Rank(g, q) = r THEN OnEdgeEmf(emf, q, s.edge, i)
  ELSE Received(g, mail, kind, r, <<q, s.edge>>)[i]
SidesWith(E, p) == IF Start(p) \in DOMAIN E THEN E[Start(p)] ELSE {}
CorrectedEdge(g, emf, mail, r, d, s, c, i) ==
  LET low == Lowest(FineSides(d)) IN
  IF Fine(s) THEN EdgeEmf(g, emf, mail, "emf_edge", r, low, c, i)
  ELSE LET h == IF 2 * i >= nx THEN 2 ELSE 1 IN
       EdgeEmf(g, emf, mail, "emf_edge", r, low, h, (2 * i) % nx)
         \cup EdgeEmf(g, emf, mail, "emf_edge", r, low, h, ((2 * i) % nx) + 1)
AfterHangingEdges(g, emf, mail, r) ==
  Kernel(g, r, emf, LAMBDA q, p :
    {CorrectedEdge(g, emf, mail, r, x[1], x[2], x[3], p[2][p[1]]) : x \in SidesWith(g.edges[q], p)})
AfterLevelEdges(g, emf, mail, r) ==
  Kernel(g, r, emf, LAMBDA q, p :
    {EdgeEmf(g, emf, mail, "emf_level_edge", r, Lowest(x[1]), 1, p[2][p[1]]) :
       x \in SidesWith(g.levelEdges[q], p)})

CorrectedEmfs(g, emf, mail, r) ==
  LET faces == AfterHangingFaces(g, emf, mail, r)
      level == AfterLevelFaces(g, faces, mail, r)
      edges == AfterHangingEdges(g, level, mail, r)
  IN AfterLevelEdges(g, edges, mail, r)

(***************************************************************************)
(* The same places, by geometry: for the properties.                       *)
(***************************************************************************)
(* The indices of quadrant n along axis i that lie at x, in units of a fine
   cell: two if the quadrant meets itself there. *)
IndicesAt(g, n, i, x) ==
  LET L == nx * g.len[i]
      y == x - nx * g.quads[n].pos[i]
      z == IF g.periodic[i] THEN y % L ELSE y
      k == z \div Size(g, n) IN
  IF z % Size(g, n) # 0 \/ k \notin 0 .. nx THEN {}
  ELSE IF g.periodic[i] /\ k = 0 /\ nx * Size(g, n) = L THEN {0, nx} ELSE {k}
(* An EMF of q and the places of n that lie on it: one if n is of q's level,
   the two halves if it is finer. *)
SharedEmfPlaces(g) ==
  LET on(n, q, p, half) ==
        LET hits(i) == IndicesAt(g, n, i, nx * g.quads[q].pos[i] + p[2][i] * Size(g, q)
                                            + (IF i = p[1] THEN half ELSE 0)) IN
        {<<p[1], h>> : h \in hits(1) \X hits(2) \X hits(3)} \cap EmfPlaces
      places(q, n, p) == IF Size(g, q) = Size(g, n) THEN {{h} : h \in on(n, q, p, 0)}
                         ELSE {{h, k} : h \in on(n, q, p, 0), k \in on(n, q, p, 1)} IN
  UNION {{<<x[1], x[3], x[2], H>> : H \in places(x[1], x[2], x[3])} :
           x \in {y \in Quads(g) \X Quads(g) \X EmfPlaces : Size(g, y[1]) >= Size(g, y[2])}}
SharedOf == [m \in Meshes |-> SharedEmfPlaces(Layer(m))]
=============================================================================
