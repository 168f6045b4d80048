----------------------------- MODULE MCTimeStep -----------------------------
(***************************************************************************)
(* Meshes and schemes for TimeStep; and two operations of a substep that   *)
(* it does not open, the first-order correction of fluxes on a row of two  *)
(* blocks and the inversion of a cell.  Each is checked while the others   *)
(* rest: what they have in common are the fluxes and cells of a block, and *)
(* the flag the inversion's dry run returns, which FirstOrder leaves       *)
(* arbitrary.                                                              *)
(***************************************************************************)
EXTENDS TimeStep, FirstOrder, ConservsToPrims

Box(pos, size, rank) == [pos |-> pos, size |-> size, rank |-> rank]
(* The eight children of the coarse box at p. *)
Family(p, rank) == [k \in 1 .. 8 |->
  Box(<<p[1] + ((k - 1) % 2), p[2] + (((k - 1) \div 2) % 2), p[3] + ((k - 1) \div 4)>>, 1, rank)]
MeshOf(len, periodic, quads) == [len |-> len, periodic |-> periodic, quads |-> quads]

(* One quadrant for each of two ranks, walls but in x. *)
TwoRanks == MeshOf(<<2, 1, 1>>, <<TRUE, FALSE, FALSE>>, <<Box(<<0, 0, 0>>, 1, 0), Box(<<1, 0, 0>>, 1, 1)>>)
(* A refined box of one rank beside a coarse one of another, walls in z. *)
Walled == MeshOf(<<4, 2, 2>>, <<TRUE, TRUE, FALSE>>, Family(<<0, 0, 0>>, 0) \o <<Box(<<2, 0, 0>>, 2, 1)>>)
(* Refined boxes of two ranks across an edge from each other, coarse ones of
   the first between. *)
Checkers == MeshOf(<<4, 4, 2>>, <<TRUE, TRUE, TRUE>>,
                   Family(<<0, 0, 0>>, 0) \o <<Box(<<2, 0, 0>>, 2, 0), Box(<<0, 2, 0>>, 2, 0)>>
                     \o Family(<<2, 2, 0>>, 1))

MCMeshes == {TwoRanks, Walled, Checkers}
MCCases  == [mesh : {TwoRanks}, scheme : DOMAIN Schemes] \cup [mesh : {Walled, Checkers}, scheme : {"euler"}]
(* For OutflowIsWhatLeft. *)
WallCases == [mesh : {TwoRanks}, scheme : DOMAIN Schemes]
(* The four equations of state, with the entropy backup as the parameters
   have it by default, and the tabulated one without. *)
MCBuilds ==
  {[ideal |-> e = 1, ye |-> e >= 3, muons |-> e = 4, backup |-> TRUE] : e \in 1 .. 4}
  \cup {[ideal |-> FALSE, ye |-> TRUE, muons |-> FALSE, backup |-> FALSE]}

(* Between two steps. *)
StepRests ==
  /\ job = [mesh |-> TwoRanks, scheme |-> "euler"]
  /\ pc = Len(Programs["euler"]) + 1
  /\ inner = [b \in Buffers |-> Y] /\ ghost = inner /\ aux = <<Y, Y>> /\ evals = <<>>
  /\ doing = [r \in Procs |-> "compute"]
  /\ flux = NoValues(TwoRanks) /\ emf = flux /\ used = [flux |-> flux, emf |-> flux]
  /\ mail = NoMail /\ outflow = [r \in Procs |-> Zeros]
RowRests == RowInit /\ ~ m1_active /\ ~ magnetised
CallRests ==
  /\ build = CHOOSE b \in Builds : TRUE
  /\ lenient = FALSE /\ excised = FALSE
  /\ dens = -1 /\ stage = "guard"
  /\ call = [c \in Calls |-> NewCall]

(* Which of the three runs. *)
VARIABLE turn
MCVars == <<vars, rowVars, callVars, turn>>
MCInit == \/ turn = "step" /\ Init /\ RowRests /\ CallRests
          \/ turn = "row" /\ StepRests /\ RowInit /\ CallRests
          \/ turn = "call" /\ StepRests /\ RowRests /\ CallInit
StepTurn == turn = "step" /\ Next /\ UNCHANGED <<rowVars, callVars, turn>>
RowTurn  == turn = "row" /\ RowNext /\ UNCHANGED <<vars, callVars, turn>>
CallTurn == turn = "call" /\ CallNext /\ UNCHANGED <<vars, rowVars, turn>>
MCNext   == StepTurn \/ RowTurn \/ CallTurn
MCSpec   == MCInit /\ [][MCNext]_MCVars /\ WF_vars(StepTurn)
=============================================================================
