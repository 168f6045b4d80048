------------------------------ MODULE MCRegrid ------------------------------
(* Small meshes for Regrid: a row of two trees, three levels, two ranks, and
   criteria that follow a feature. *)
EXTENDS Regrid

MCBrick == <<[a \in 0 .. 1 |-> 0], [a \in 0 .. 1 |-> IF a = 0 THEN 1 ELSE 0]>>

Kids(p) == [c \in 1 .. 4 |-> Append(p, c - 1)]
Uniform == Kids(<<1>>) \o Kids(<<2>>)
(* The quadrant of the first tree that touches the second is refined. *)
Stepped == <<<<1, 0>>>> \o Kids(<<1, 1>>) \o <<<<1, 2>>, <<1, 3>>>> \o Kids(<<2>>)
MinOfMesh(leaves, M(_)) == [p \in {leaves[i] : i \in DOMAIN leaves} |-> M(p)]
MCMeshes == {[leaves |-> Uniform, min |-> MinOfMesh(Uniform, LAMBDA p : 0)],
             [leaves |-> Uniform, min |-> MinOfMesh(Uniform, Level)],
             [leaves |-> Stepped, min |-> MinOfMesh(Stepped, LAMBDA p : 0)]}

(* A feature at a unit cell: the leaf over it is refined, leaves further than
   d cells away coarsened. *)
Gap(p, x) == Max({Max({0, Box[p].at[a] - x[a], x[a] - (Box[p].at[a] + Box[p].size - 1)}) : a \in Axes})
Feature(paths, x, d) ==
  [p \in paths |-> IF Gap(p, x) = 0 THEN "REFINE" ELSE IF Gap(p, x) > d THEN "COARSEN" ELSE "KEEP"]
Point(i, j) == [a \in Axes |-> IF a = 0 THEN i ELSE j]
MCCriteria(paths) == {Feature(paths, x, d) : x \in {Point(0, 0), Point(3, 1), Point(4, 1)}, d \in {0, 2}}
                     \cup {[p \in paths |-> "COARSEN"]}
=============================================================================
