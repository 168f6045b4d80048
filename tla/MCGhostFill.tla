---------------------------- MODULE MCGhostFill ----------------------------
(***************************************************************************)
(* The sweeps of the task graphs, and the cells of each quadrant, each     *)
(* checked while the other rests.  What they have in common is the mesh    *)
(* and what GhostMesh makes of it.                                         *)
(***************************************************************************)
EXTENDS GhostFill, GhostCells, GhostExamples

Centres    == SmallMeshes \cup {RefinedPeers}
MCMeshes   == Centres \cup {Staggered(LevelJump)}
PeerMeshes == {Staggered(FacePeers)}
MCStreams  == [m \in Meshes |-> IF m = RefinedPeers THEN 1 ELSE 4]

CellsRest == /\ tree = mesh /\ quad = 1 /\ stag = Center
             /\ view = {} /\ cbuf = {}
             /\ step = "rest"
(* Every rank is at the barrier. *)
SweepsRest == /\ mesh = tree
              /\ done = Tasks[mesh] /\ stale = {}
              /\ waiting = Ranks(mesh)

MCVars == <<vars, cellVars>>
(* Of the face-staggered graphs only GraphOrdered is checked: it is all the
   proofs of GhostFill_proofs need to carry over to the sweeps. *)
MCInit == \/ Init /\ ~mesh.staggered /\ CellsRest
          \/ CellInit /\ ~tree.staggered /\ SweepsRest
          \/ tree \in Meshes /\ tree.staggered /\ SweepsRest /\ CellsRest
MCNext == \/ ~mesh.staggered /\ step = "rest" /\ Next /\ UNCHANGED cellVars
          \/ CellNext /\ UNCHANGED vars
(* Some rank that can go on does: less than GhostFill's Fairness asks. *)
MCSpec == MCInit /\ [][MCNext]_MCVars /\ WF_MCVars(MCNext)
=============================================================================
