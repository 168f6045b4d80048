----------------------------- MODULE RegridMesh -----------------------------
(***************************************************************************)
(* The forest of a regrid and the data on it. A leaf is named by its path: *)
(* its tree, then the number of each child on the way down (p4est's        *)
(* z-order: bit a of the number is the child's half along axis a). A rank  *)
(* has a sequence of leaves [path, flag, min], the quadrants with their    *)
(* user data.                                                              *)
(*                                                                         *)
(* The data of a leaf are numbers for which restriction adds and           *)
(* prolongation splits: cell (the cell-centred state), face[a, s] (the     *)
(* flux through the face on side s of axis a), mid[a] (the flux through    *)
(* the leaf's middle plane, for all the faces inside it).                  *)
(***************************************************************************)
EXTENDS Integers, Sequences, FiniteSets, SequencesExt, FiniteSetsExt

CONSTANTS Dim,       \* number of axes (GRACE_NSPACEDIM)
          Brick,     \* the place of each tree, as in p4est's brick connectivity
          MaxLevel   \* max_refinement_level

Axes      == 0 .. (Dim - 1)
Children  == 0 .. (2 ^ Dim - 1)      \* 0 .. P4EST_CHILDREN-1
NChildren == 2 ^ Dim
NSubfaces == 2 ^ (Dim - 1)           \* the fine faces on a coarse one
Faces     == Axes \X {0, 1}          \* <<axis, side>>, iface = 2*axis + side
Opposite(f) == <<f[1], 1 - f[2]>>

Paths    == {<<t>> \o c : t \in DOMAIN Brick, c \in UNION {[1 .. n -> Children] : n \in 0 .. MaxLevel}}
Level(p) == Len(p) - 1
Parent(p) == Front(p)
Bit(c, a) == (c \div 2 ^ a) % 2
Corner(p, a) == Brick[p[1]][a] * 2 ^ MaxLevel
                + MapThenSumSet(LAMBDA k : Bit(p[k + 1], a) * 2 ^ (MaxLevel - k), 1 .. Level(p))
Box == [p \in Paths |-> [at |-> [a \in Axes |-> Corner(p, a)], size |-> 2 ^ (MaxLevel - Level(p))]]
Meets(p, q, a, gap) == /\ Box[p].at[a] < Box[q].at[a] + Box[q].size + gap
                       /\ Box[q].at[a] < Box[p].at[a] + Box[p].size + gap
(* <<p, f, q>>: q lies across face f of p; <<p, q>>: they touch somewhere. *)
Across == {t \in Paths \X Faces \X Paths :
             LET a == t[2][1]
                 low  == IF t[2][2] = 0 THEN t[3] ELSE t[1]
                 high == IF t[2][2] = 0 THEN t[1] ELSE t[3]
             IN /\ Box[high].at[a] = Box[low].at[a] + Box[low].size
                /\ \A b \in Axes \ {a} : Meets(t[1], t[3], b, 0)}
Touching == {t \in Paths \X Paths : \A a \in Axes : Meets(t[1], t[2], a, 1)}

(* A child's number with the bit of axis a taken out: the place of its face on
   a coarse one (ic). *)
SubIndex(c, a) == (c % 2 ^ a) + (c \div 2 ^ (a + 1)) * 2 ^ a

-----------------------------------------------------------------------------
(* Quadrant user data (amr_flags.hh). *)
Flags == {"DEFAULT", "REFINE", "COARSEN", "NEED_PROLONGATION", "NEED_RESTRICTION"}
Leaf(p, flag, min) == [path |-> p, flag |-> flag, min |-> min]

(* set_quadrant_flag, one quadrant out and its children in. *)
Split(l) ==
  [c \in 1 .. NChildren |->
     Leaf(Append(l.path, c - 1),
          IF l.flag = "NEED_RESTRICTION" THEN "DEFAULT" ELSE "NEED_PROLONGATION", l.min)]
(* Mutant: the parent's minimum level starts again at 0. *)
MergedFree(family) ==
  Leaf(Parent(family[1].path),
       IF Last(family).flag = "NEED_PROLONGATION" THEN "DEFAULT" ELSE "NEED_RESTRICTION", 0)
(* set_quadrant_flag, a family out and its parent in. *)
Merged(family) ==
  Leaf(Parent(family[1].path),
       IF Last(family).flag = "NEED_PROLONGATION" THEN "DEFAULT" ELSE "NEED_RESTRICTION",
       Max({family[c].min : c \in DOMAIN family}))

(* evaluate_criterion's host loop. *)
Evaluated(l, criterion) ==
  [l EXCEPT !.flag = CASE criterion = "REFINE" -> "REFINE"
                       [] criterion = "COARSEN" /\ Level(l.path) - 1 >= l.min -> "COARSEN"
                       [] OTHER -> "DEFAULT"]

(* refine_cback under p4est_refine_ext's limit on the level. *)
Refined(leaves) ==
  FlattenSeq([i \in DOMAIN leaves |->
     IF leaves[i].flag = "REFINE" /\ Level(leaves[i].path) < MaxLevel
     THEN Split(leaves[i]) ELSE <<leaves[i]>>])

(* p4est_coarsen_ext passes whole families of this rank to coarsen_cback. *)
Family(leaves, i) ==
  /\ i + NChildren - 1 <= Len(leaves)
  /\ Level(leaves[i].path) > 0
  /\ \A c \in Children : leaves[i + c].path = Append(Parent(leaves[i].path), c)
Coarsenable(leaves) ==
  {i \in DOMAIN leaves : Family(leaves, i) /\ \A c \in Children : leaves[i + c].flag = "COARSEN"}
Coarsened(leaves) ==
  LET heads == Coarsenable(leaves)
  IN FlattenSeq([i \in DOMAIN leaves |->
        IF i \in heads THEN <<Merged(SubSeq(leaves, i, i + NChildren - 1))>>
        ELSE IF \E h \in heads : h < i /\ i < h + NChildren THEN <<>>
        ELSE <<leaves[i]>>])

PathsOf(forest) == UNION {{forest[r][i].path : i \in DOMAIN forest[r]} : r \in DOMAIN forest}
(* p4est_balance_ext(P4EST_CONNECT_FULL): split every leaf that touches one
   more than a level finer, until none does; each split is one call of
   set_quadrant_flag. *)
TooCoarse(paths) == {p \in paths : \E q \in paths : <<p, q>> \in Touching /\ Level(q) > Level(p) + 1}
BalancedPaths(paths) ==
  FoldLeft(LAMBDA ps, k : (ps \ TooCoarse(ps)) \cup {Append(p, c) : p \in TooCoarse(ps), c \in Children},
           paths, [k \in 1 .. 2 * MaxLevel |-> k])
SplitDown(leaf, paths) ==
  FoldLeft(LAMBDA ls, k : FlattenSeq([i \in DOMAIN ls |->
                             IF ls[i].path \in paths THEN <<ls[i]>> ELSE Split(ls[i])]),
           <<leaf>>, [k \in 1 .. MaxLevel |-> k])
Balanced(forest) ==
  LET paths == BalancedPaths(PathsOf(forest))
  IN [r \in DOMAIN forest |-> FlattenSeq([i \in DOMAIN forest[r] |-> SplitDown(forest[r][i], paths)])]

TwoToOne(forest) == TooCoarse(PathsOf(forest)) = {}
Count(forest) == MapThenSumSet(LAMBDA r : Len(forest[r]), DOMAIN forest)
GlobalLeaves(forest, n) == FlattenSeq([r \in 1 .. n |-> forest[r - 1]])

-----------------------------------------------------------------------------
(* Prolongation gives part k of n of a coarse value: the parts add up to it,
   and differ from the fine values it was restricted from. *)
Part(v, k, n) == IF k = 0 THEN v - (n - 1) * (v \div n) ELSE v \div n

UNSET == -1000
Unset == [cell |-> UNSET, face |-> [f \in Faces |-> UNSET], mid |-> [a \in Axes |-> UNSET]]

(* Restriction: the cells of the children, the fine faces on each face and in
   the middle plane (make_restrict, make_div_free_restrict). *)
Restricted(kids) ==
  LET On(f) == MapThenSumSet(LAMBDA c : kids[c + 1].face[f], {c \in Children : Bit(c, f[1]) = f[2]})
      In(a) == MapThenSumSet(LAMBDA c : kids[c + 1].face[<<a, 1>>], {c \in Children : Bit(c, a) = 0})
  IN [cell |-> MapThenSumSet(LAMBDA c : kids[c + 1].cell, Children),
      face |-> [f \in Faces |-> On(f)], mid |-> [a \in Axes |-> In(a)]]
(* Phase 1 of the divergence-free prolongation: the fine face f of child c
   from the coarse face it lies on. *)
FromCoarse(d, c, f) ==
  Part(IF Bit(c, f[1]) = f[2] THEN d.face[f] ELSE d.mid[f[1]], SubIndex(c, f[1]), NSubfaces)
(* Phase 2: the faces inside a child from those around it, the copied ones
   among them. *)
Middle(face) ==
  [a \in Axes |-> IF \E s \in {0, 1} : face[<<a, s>>] = UNSET THEN UNSET
                  ELSE (face[<<a, 0>>] + face[<<a, 1>>]) \div 2]

(* The data of a mesh that was filled from the same fields everywhere: an
   uneven number for each unit cell and each unit face. *)
Units(p, A) == {x \in [Axes -> 0 .. Max({Box[q].at[a] : q \in Paths, a \in Axes}) + 1] :
                  \A a \in Axes : IF a \in A THEN x[a] = Box[p].at[a]
                                  ELSE Box[p].at[a] <= x[a] /\ x[a] < Box[p].at[a] + Box[p].size}
Noise(x, k) == 1 + ((MapThenSumSet(LAMBDA a : (5 * a + 3) * x[a] * x[a] + x[a], Axes) + 7 * k) % 17)
Flux(p, a, plane) ==
  MapThenSumSet(LAMBDA x : Noise([x EXCEPT ![a] = plane], a + 1), Units(p, {a}))
Filled(p) ==
  [cell |-> MapThenSumSet(LAMBDA x : Noise(x, 0), Units(p, {})),
   face |-> [f \in Faces |-> Flux(p, f[1], Box[p].at[f[1]] + f[2] * Box[p].size)],
   mid  |-> [a \in Axes |-> Flux(p, a, Box[p].at[a] + Box[p].size \div 2)]]
=============================================================================
