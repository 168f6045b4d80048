---------------------------- MODULE GhostExamples ----------------------------
(***************************************************************************)
(* Meshes for GhostFill and GhostCells: two refinement levels at most,     *)
(* every quadrant of the fine level in a family of eight, as p4est's.      *)
(***************************************************************************)
EXTENDS Integers, Sequences

Box(pos, size, rank) == [pos |-> pos, size |-> size, rank |-> rank]
(* The eight children of the coarse box at p. *)
Family(p, rank) == [k \in 1 .. 8 |->
  Box(<<p[1] + ((k - 1) % 2), p[2] + (((k - 1) \div 2) % 2), p[3] + ((k - 1) \div 4)>>, 1, rank)]
MeshOf(len, periodic, quads) == [len |-> len, periodic |-> periodic, quads |-> quads, staggered |-> FALSE]
Staggered(m) == [m EXCEPT !.staggered = TRUE]

(* One rank: a refined and a coarse box, a physical boundary at both ends of z. *)
FloorAndCeiling == MeshOf(<<4, 2, 2>>, <<TRUE, TRUE, FALSE>>,
                          Family(<<0, 0, 0>>, 0) \o <<Box(<<2, 0, 0>>, 2, 0)>>)
(* Two ranks, one quadrant each, physical boundaries but in x. *)
TwoRanks == MeshOf(<<2, 1, 1>>, <<TRUE, FALSE, FALSE>>, <<Box(<<0, 0, 0>>, 1, 0), Box(<<1, 0, 0>>, 1, 1)>>)
(* Two ranks across a level jump, no boundary. *)
LevelJump == MeshOf(<<4, 2, 2>>, <<TRUE, TRUE, TRUE>>,
                    Family(<<0, 0, 0>>, 0) \o <<Box(<<2, 0, 0>>, 2, 1)>>)
(* One rank: three refined boxes around a coarse one, in a box with four and
   with six walls. *)
Quarters(rank, other) == Family(<<0, 0, 0>>, rank) \o Family(<<2, 0, 0>>, other)
                           \o Family(<<0, 2, 0>>, other) \o <<Box(<<2, 2, 0>>, 2, other)>>
FourWalls == MeshOf(<<4, 4, 2>>, <<FALSE, FALSE, TRUE>>, Quarters(0, 0))
SixWalls  == MeshOf(<<4, 4, 2>>, <<FALSE, FALSE, FALSE>>, Quarters(0, 0))
(* One rank: a refined and a coarse box in a channel along x. *)
Channel == MeshOf(<<4, 2, 2>>, <<TRUE, FALSE, FALSE>>,
                  Family(<<0, 0, 0>>, 0) \o <<Box(<<2, 0, 0>>, 2, 0)>>)
SmallMeshes == {FloorAndCeiling, TwoRanks, LevelJump, FourWalls, SixWalls, Channel}

(* Two ranks: refined boxes of both beside a coarse one, so that the ranks
   exchange coarse buffers too. With one stream, the default. *)
RefinedPeers == MeshOf(<<4, 4, 2>>, <<TRUE, TRUE, TRUE>>, Quarters(0, 1))
(* Three ranks: a refined box, coarse ones of the second rank across its faces
   along x and y, and of the third across the others, its edges and corners. *)
FacePeers == MeshOf(<<4, 4, 4>>, <<TRUE, TRUE, TRUE>>,
                    Family(<<0, 0, 0>>, 0)
                      \o <<Box(<<2, 0, 0>>, 2, 1), Box(<<0, 2, 0>>, 2, 1), Box(<<2, 2, 0>>, 2, 2), Box(<<0, 0, 2>>, 2, 2),
                           Box(<<2, 0, 2>>, 2, 2), Box(<<0, 2, 2>>, 2, 2), Box(<<2, 2, 2>>, 2, 2)>>)
=============================================================================
