----------------------------- MODULE FirstOrder -----------------------------
(***************************************************************************)
(* The first-order flux correction (FOFC) of one substep, on a periodic    *)
(* row of two blocks of N cells which may live on two ranks: fluxes at the *)
(* faces of the cells and of one ghost cell on either side, a dry run of   *)
(* the update that flags cells, tags of their faces, the list of the       *)
(* tagged faces, and the first-order fluxes that replace those of the      *)
(* list.  Each block does all of it for itself: nothing is communicated.   *)
(*                                                                         *)
(* Block b's cell i is cell (b * N + i) of the row, its face i is the lower*)
(* face of that cell; the indices count from ngz.  Whether the update of a *)
(* cell is acceptable is an arbitrary choice, but the same one wherever the*)
(* cell's update is computed from the same data.                           *)
(***************************************************************************)
EXTENDS Integers, FiniteSets

CONSTANTS N,          \* cells of a block
          MaxBad      \* bound: the updates of cells that are spoilt in a substep

ASSUME RowAssumption == N \in Nat \ {0} /\ MaxBad \in Nat

VARIABLES m1_active, magnetised, phase, bad, faceFlux, tags, list

rowVars == <<m1_active, magnetised, phase, bad, faceFlux, tags, list>>

Blocks == 0 .. 1
Systems == {"hydro", "m1"}
Row == 0 .. 2 * N - 1
Phases == {"fluxes", "flag", "compact", "apply", "add"}

InRow(b, i) == (b * N + i) % (2 * N)

(* Mutant: the flags are not widened. *)
InteriorCells == 0 .. N - 1

(* The loops: fluxes are widened by one face on either side, the flags by  *)
(* one cell; the electric field at the nodes is not widened.               *)
FluxFaces == -1 .. N + 1
FlagCells == -1 .. N
EmfNodes == 0 .. N

RowTypeOK ==
    /\ m1_active \in BOOLEAN
    /\ magnetised \in BOOLEAN
    /\ phase \in Phases
    /\ bad \in [Systems -> SUBSET Row]
    /\ faceFlux \in [Systems -> [Blocks -> [FluxFaces -> {"none", "high", "first"}]]]
    /\ tags \in [Blocks -> [FluxFaces -> SUBSET Systems]]
    /\ list \in [Blocks -> SUBSET FluxFaces]

RowInit ==
    /\ m1_active \in BOOLEAN
    /\ magnetised \in BOOLEAN
    /\ phase = "fluxes"
    /\ bad = [s \in Systems |-> {}]
    /\ faceFlux = [s \in Systems |-> [b \in Blocks |-> [f \in FluxFaces |-> "none"]]]
    /\ tags = [b \in Blocks |-> [f \in FluxFaces |-> {}]]
    /\ list = [b \in Blocks |-> {}]

--------------------------------------------------------------------------------
Evolves(s) == s = "hydro" \/ m1_active

(* compute_fluxes: the high-order fluxes, the radiation's only once it is  *)
(* evolved.                                                                *)
Fluxes ==
    /\ phase = "fluxes"
    /\ phase' = "flag"
    /\ faceFlux' = [s \in Systems |->
                  IF Evolves(s) THEN [b \in Blocks |-> [f \in FluxFaces |-> "high"]]
                  ELSE faceFlux[s]]
    /\ UNCHANGED <<m1_active, magnetised, bad, tags, list>>

(* The tentative magnetic field of a cell is computed from the electric    *)
(* field at its two nodes.  Where one was not computed the dry run reads   *)
(* what the array holds, and its verdict may be any.                       *)
Misled(s, i) == s = "hydro" /\ magnetised /\ ~ {i, i + 1} \subseteq EmfNodes

(* The cells a block flags: its own and one ghost on either side, the ghost*)
(* being the neighbour's cell.                                             *)
Flagged(s, b, spoilt, misread) ==
    {i \in FlagCells : IF Misled(s, i) THEN <<b, i>> \in misread
                       ELSE InRow(b, i) \in spoilt[s]}

(* A flagged cell tags its two faces with the bit of its system.           *)
Tagged(s, b, f, spoilt, misread) ==
    \E i \in Flagged(s, b, spoilt, misread) : f \in {i, i + 1}

(* The updates that can be spoilt together.                                *)
Spoils ==
    {c \in [Systems -> SUBSET Row] : Cardinality(c["hydro"]) + Cardinality(c["m1"]) <= MaxBad}

(* Tags and counters are reset each time before any is set.                *)
Flag ==
    /\ phase = "flag"
    /\ phase' = "compact"
    /\ \E spoilt \in Spoils,
          misread \in IF magnetised THEN SUBSET (Blocks \X {-1, N}) ELSE {{}} :
         /\ bad' = spoilt
         /\ tags' = [b \in Blocks |-> [f \in FluxFaces |->
                        {s \in Systems : Tagged(s, b, f, spoilt, misread)}]]
    /\ list' = [b \in Blocks |-> {}]
    /\ UNCHANGED <<m1_active, magnetised, faceFlux>>

(* The tagged faces of the block itself are listed, whatever their bits.   *)
Compact ==
    /\ phase = "compact"
    /\ phase' = "apply"
    /\ list' = [b \in Blocks |-> {f \in FlagCells : f >= 0 /\ tags[b][f] # {}}]
    /\ UNCHANGED <<m1_active, magnetised, bad, faceFlux, tags>>

(* apply_fofc_correction: donor cells and a diffusive solver at the listed *)
(* faces, for the systems whose bit the face carries.                      *)
Replaced(s, b, f) == f \in list[b] /\ s \in tags[b][f] /\ Evolves(s)

Apply ==
    /\ phase = "apply"
    /\ phase' = "add"
    /\ faceFlux' = [s \in Systems |-> [b \in Blocks |-> [f \in FluxFaces |->
                  IF Replaced(s, b, f) THEN "first" ELSE faceFlux[s][b][f]]]]
    /\ UNCHANGED <<m1_active, magnetised, bad, tags, list>>

(* The fluxes are added and the next substep begins, perhaps of a step in  *)
(* which the radiation was switched on.  It is never switched off.  (bad is*)
(* what a property compares with: it ends with the substep.)               *)
Add ==
    /\ phase = "add"
    /\ phase' = "fluxes"
    /\ m1_active' \in {m1_active, TRUE}
    /\ bad' = [s \in Systems |-> {}]
    /\ UNCHANGED <<magnetised, faceFlux, tags, list>>

RowNext == Fluxes \/ Flag \/ Compact \/ Apply \/ Add

RowSpec == RowInit /\ [][RowNext]_rowVars

--------------------------------------------------------------------------------
(* The two blocks share the faces at the ends of each: the row loses and   *)
(* gains nothing there only if both add the same flux.  The comment of     *)
(* flag_fofc_cells says so: both sides flag the same cells and rewrite the *)
(* face with the same flux.                                                *)
SharedFacesIdentical ==
    phase = "add" =>
        \A s \in Systems, b \in Blocks :
            Evolves(s) => faceFlux[s][b][N] = faceFlux[s][1 - b][0]

(* The fluxes that are added are first-order at the faces of the cells a   *)
(* system's update spoils, in this substep and for this system, and        *)
(* high-order at every other face; a system that is not evolved has none   *)
(* replaced.  As neither block tells the other which cells it flagged, this*)
(* is what makes them agree on the faces they share, save those of the     *)
(* cells a magnetic field makes a block misread.                           *)
FallbackIsExact ==
    phase = "add" =>
        \A s \in Systems, b \in Blocks, f \in 0 .. N :
            LET spoilt == {InRow(b, f - 1), InRow(b, f)} \cap bad[s] # {}
                doubtful == magnetised /\ s = "hydro" /\ f \in {0, N}
            IN IF Evolves(s)
                 THEN ~ doubtful => faceFlux[s][b][f] = (IF spoilt THEN "first" ELSE "high")
                 ELSE faceFlux[s][b][f] # "first"

(* Where a block's verdict on the cells of a face may be any. *)
Doubtful(s, f) == magnetised /\ s = "hydro" /\ f \in {0, N}
Spoilt(s, b, f) == {InRow(b, f - 1), InRow(b, f)} \cap bad[s] # {}

(* The inductive invariant: what each pass leaves for the next.  The fluxes*)
(* of a system that is not evolved yet were never replaced.                *)
FallbackInv ==
    /\ RowTypeOK
    /\ \A s \in Systems, b \in Blocks, f \in FluxFaces :
         IF Evolves(s)
           THEN phase \in {"flag", "compact", "apply"} => faceFlux[s][b][f] = "high"
           ELSE faceFlux[s][b][f] # "first"
    /\ phase \in {"compact", "apply"} =>
         \A s \in Systems, b \in Blocks, f \in 0 .. N :
           ~ Doubtful(s, f) => (s \in tags[b][f] <=> Spoilt(s, b, f))
    /\ phase = "apply" =>
         \A b \in Blocks : list[b] = {f \in 0 .. N : tags[b][f] # {}}
    /\ FallbackIsExact
===============================================================================
