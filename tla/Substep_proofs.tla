--------------------------- MODULE Substep_proofs ---------------------------
(***************************************************************************)
(* The first-order correction of fluxes, for blocks of any size and any    *)
(* number of spoilt cells; the inversion of a cell whose dry run decides   *)
(* it, for every choice of Builds; the fluxes with which coarse and fine   *)
(* quadrants advance, for every mesh of two levels on any number of ranks; *)
(* and the states that the evaluations of a step read, for every scheme.   *)
(***************************************************************************)
EXTENDS TimeStep, FirstOrder, ConservsToPrims, FiniteSetTheorems, SequenceTheorems, TLAPS

-----------------------------------------------------------------------------
(* The correction *)

(* The sets of indices, as numbers. *)
LEMMA Indices ==
  /\ N \in Nat /\ N >= 1
  /\ \A f \in FluxFaces : f \in Int /\ -1 <= f /\ f <= N + 1
  /\ \A f \in 0 .. N : f \in Int /\ f \in FluxFaces /\ f \in FlagCells /\ f - 1 \in FlagCells
  /\ \A i \in FlagCells : i \in Int /\ -1 <= i /\ i <= N
  /\ \A i \in Int : i \in EmfNodes <=> 0 <= i /\ i <= N
BY RowAssumption DEF FluxFaces, FlagCells, EmfNodes

(* A face of the block itself is tagged for the cells on its two sides,    *)
(* each flagged for itself or as the neighbour's.                          *)
LEMMA TagsFollow ==
  ASSUME NEW s \in Systems, NEW b \in Blocks, NEW f \in 0 .. N, NEW spoilt, NEW misread,
         ~ Doubtful(s, f)
  PROVE  Tagged(s, b, f, spoilt, misread) <=> {InRow(b, f - 1), InRow(b, f)} \cap spoilt[s] # {}
<1>1. f \in Int /\ f \in FlagCells /\ f - 1 \in FlagCells
  BY Indices
<1>2. ~ Misled(s, f) /\ ~ Misled(s, f - 1)
  <2>1. CASE ~ (s = "hydro" /\ magnetised)
    BY <2>1 DEF Misled
  <2>2. CASE s = "hydro" /\ magnetised
    <3>1. f # 0 /\ f # N
      BY <2>2 DEF Doubtful
    <3>2. {f, f + 1} \subseteq EmfNodes /\ {f - 1, (f - 1) + 1} \subseteq EmfNodes
      BY <1>1, <3>1, Indices
    <3>3. QED
      BY <3>2 DEF Misled
  <2>3. QED
    BY <2>1, <2>2
<1>3. \A i \in FlagCells : f \in {i, i + 1} <=> i = f \/ i = f - 1
  BY <1>1, Indices
<1>4. Tagged(s, b, f, spoilt, misread) <=>
        f \in Flagged(s, b, spoilt, misread) \/ f - 1 \in Flagged(s, b, spoilt, misread)
  BY <1>1, <1>3 DEF Tagged, Flagged
<1>5. /\ f \in Flagged(s, b, spoilt, misread) <=> InRow(b, f) \in spoilt[s]
      /\ f - 1 \in Flagged(s, b, spoilt, misread) <=> InRow(b, f - 1) \in spoilt[s]
  BY <1>1, <1>2 DEF Flagged
<1>6. QED
  BY <1>4, <1>5

(* FallbackInv and each of the passes. *)
LEMMA FluxesStep == FallbackInv /\ Fluxes => FallbackInv'
<1> SUFFICES ASSUME FallbackInv, Fluxes PROVE FallbackInv'
  OBVIOUS
<1>1. /\ phase' = "flag" /\ UNCHANGED <<m1_active, magnetised, bad, tags, list>>
      /\ \A s \in Systems : Evolves(s)' = Evolves(s)
  BY DEF Fluxes, Evolves
<1>2. \A s \in Systems, b \in Blocks, f \in FluxFaces :
        faceFlux'[s][b][f] = IF Evolves(s) THEN "high" ELSE faceFlux[s][b][f]
  BY DEF Fluxes
<1>3. faceFlux' \in [Systems -> [Blocks -> [FluxFaces -> {"none", "high", "first"}]]]
  BY DEF Fluxes, FallbackInv, RowTypeOK
<1>4. RowTypeOK'
  BY <1>1, <1>3 DEF FallbackInv, RowTypeOK, Phases
<1>5. QED
  BY <1>1, <1>2, <1>4 DEF FallbackInv, FallbackIsExact, Evolves

(* The verdict on a cell, and the tags of its faces. *)
LEMMA FlagStep == FallbackInv /\ Flag => FallbackInv'
<1> SUFFICES ASSUME FallbackInv, Flag PROVE FallbackInv'
  OBVIOUS
<1>1. PICK spoilt \in Spoils, misread \in IF magnetised THEN SUBSET (Blocks \X {-1, N}) ELSE {{}} :
        /\ bad' = spoilt
        /\ tags' = [b \in Blocks |-> [f \in FluxFaces |->
                       {s \in Systems : Tagged(s, b, f, spoilt, misread)}]]
  BY DEF Flag
<1>2. /\ phase = "flag" /\ phase' = "compact" /\ list' = [b \in Blocks |-> {}]
      /\ UNCHANGED <<m1_active, magnetised, faceFlux>>
  BY DEF Flag
<1>3. RowTypeOK'
  <2>1. spoilt \in [Systems -> SUBSET Row]
    BY DEF Spoils
  <2>2. tags' \in [Blocks -> [FluxFaces -> SUBSET Systems]]
    BY <1>1
  <2>3. list' \in [Blocks -> SUBSET FluxFaces]
    BY <1>2
  <2>4. QED
    BY <1>1, <1>2, <2>1, <2>2, <2>3 DEF FallbackInv, RowTypeOK, Phases
<1>4. ASSUME NEW s \in Systems, NEW b \in Blocks, NEW f \in 0 .. N, ~ Doubtful(s, f)
      PROVE  s \in tags'[b][f] <=> {InRow(b, f - 1), InRow(b, f)} \cap bad'[s] # {}
  <2>1. s \in tags'[b][f] <=> Tagged(s, b, f, spoilt, misread)
    BY <1>1, Indices
  <2>2. QED
    BY <1>1, <1>4, <2>1, TagsFollow
<1>5. QED
  BY <1>2, <1>3, <1>4 DEF FallbackInv, FallbackIsExact, Evolves, Doubtful, Spoilt

(* The list of the tagged faces. *)
LEMMA CompactStep == FallbackInv /\ Compact => FallbackInv'
<1> SUFFICES ASSUME FallbackInv, Compact PROVE FallbackInv'
  OBVIOUS
<1>1. /\ phase = "compact" /\ phase' = "apply" /\ UNCHANGED <<m1_active, magnetised, bad, faceFlux, tags>>
  BY DEF Compact
<1>2. \A b \in Blocks : list'[b] = {f \in 0 .. N : tags[b][f] # {}}
  <2>1. \A f : f \in FlagCells /\ f >= 0 <=> f \in 0 .. N
    BY Indices DEF FlagCells
  <2>2. \A b \in Blocks : list'[b] = {f \in FlagCells : f >= 0 /\ tags[b][f] # {}}
    BY DEF Compact
  <2>3. QED
    BY <2>1, <2>2
<1>3. RowTypeOK'
  <2>1. list' \in [Blocks -> SUBSET FluxFaces]
    BY <1>2, Indices DEF Compact
  <2>2. QED
    BY <1>1, <2>1 DEF FallbackInv, RowTypeOK, Phases
<1>4. QED
  BY <1>1, <1>2, <1>3 DEF FallbackInv, FallbackIsExact, Evolves, Doubtful, Spoilt

(* The replaced fluxes. *)
LEMMA ApplyStep == FallbackInv /\ Apply => FallbackInv'
<1> SUFFICES ASSUME FallbackInv, Apply PROVE FallbackInv'
  OBVIOUS
<1>1. phase = "apply" /\ phase' = "add" /\ UNCHANGED <<m1_active, magnetised, bad, tags, list>>
  BY DEF Apply
<1>2. \A s \in Systems, b \in Blocks, f \in FluxFaces :
        faceFlux'[s][b][f] = IF Replaced(s, b, f) THEN "first" ELSE faceFlux[s][b][f]
  BY DEF Apply
<1>3. RowTypeOK'
  <2>1. faceFlux' \in [Systems -> [Blocks -> [FluxFaces -> {"none", "high", "first"}]]]
    BY DEF Apply, FallbackInv, RowTypeOK
  <2>2. QED
    BY <1>1, <2>1 DEF FallbackInv, RowTypeOK, Phases
<1>4. ASSUME NEW s \in Systems, NEW b \in Blocks, NEW f \in 0 .. N, Evolves(s), ~ Doubtful(s, f)
      PROVE  faceFlux'[s][b][f] = IF Spoilt(s, b, f) THEN "first" ELSE "high"
  <2>1. f \in FluxFaces /\ faceFlux[s][b][f] = "high"
    BY <1>1, <1>4, Indices DEF FallbackInv
  <2>2. Replaced(s, b, f) <=> Spoilt(s, b, f)
    <3>1. s \in tags[b][f] <=> Spoilt(s, b, f)
      BY <1>1, <1>4 DEF FallbackInv
    <3>2. list[b] = {h \in 0 .. N : tags[b][h] # {}}
      BY <1>1 DEF FallbackInv
    <3>3. QED
      BY <1>4, <3>1, <3>2 DEF Replaced
  <2>3. QED
    BY <1>2, <2>1, <2>2
<1>5. ASSUME NEW s \in Systems, NEW b \in Blocks, NEW f \in FluxFaces, ~ Evolves(s)
      PROVE  faceFlux'[s][b][f] # "first"
  BY <1>2, <1>5 DEF Replaced, FallbackInv
<1>6. FallbackIsExact'
  BY <1>1, <1>4, <1>5, Indices DEF FallbackIsExact, Evolves, Doubtful, Spoilt, InRow
<1>7. QED
  BY <1>1, <1>3, <1>5, <1>6 DEF FallbackInv, Evolves

(* A system switched on now was not replaced before. *)
LEMMA AddStep == FallbackInv /\ Add => FallbackInv'
<1> SUFFICES ASSUME FallbackInv, Add PROVE FallbackInv'
  OBVIOUS
<1>1. /\ phase' = "fluxes" /\ UNCHANGED <<magnetised, faceFlux, tags, list>>
      /\ m1_active' \in {m1_active, TRUE} /\ bad' = [s \in Systems |-> {}]
  BY DEF Add
<1>2. RowTypeOK'
  BY <1>1 DEF FallbackInv, RowTypeOK, Phases
<1>3. \A s \in Systems : ~ Evolves(s)' => ~ Evolves(s)
  BY <1>1 DEF Evolves, FallbackInv, RowTypeOK
<1>4. QED
  BY <1>1, <1>2, <1>3 DEF FallbackInv, FallbackIsExact, Evolves

(* Each pass leaves what the next needs, for blocks of any size. *)
LEMMA FallbackInductive == RowSpec => []FallbackInv
<1>1. RowInit => FallbackInv
  <2> SUFFICES ASSUME RowInit PROVE FallbackInv
    OBVIOUS
  <2>1. RowTypeOK
    BY DEF RowInit, RowTypeOK, Phases, Systems
  <2>2. QED
    BY <2>1 DEF RowInit, FallbackInv, FallbackIsExact
<1>2. FallbackInv /\ UNCHANGED rowVars => FallbackInv'
  BY DEF rowVars, FallbackInv, RowTypeOK, FallbackIsExact, Evolves, Doubtful, Spoilt, InRow
<1>3. FallbackInv /\ [RowNext]_rowVars => FallbackInv'
  BY <1>2, FluxesStep, FlagStep, CompactStep, ApplyStep, AddStep DEF RowNext
<1>4. QED
  BY <1>1, <1>3, PTL DEF RowSpec

(* The fluxes a substep adds are first-order at the faces of the cells     *)
(* whose update it would spoil and high-order everywhere else, system by   *)
(* system, for blocks of any size and any set of spoilt cells.             *)
THEOREM FallbackExact == RowSpec => []FallbackIsExact
<1>1. FallbackInv => FallbackIsExact
  BY DEF FallbackInv
<1>2. QED
  BY <1>1, FallbackInductive, PTL

(* The last face of a block and the first of the other are between the     *)
(* same two cells of the row.                                              *)
LEMMA SameCells ==
  ASSUME NEW b \in Blocks
  PROVE  InRow(b, N - 1) = InRow(1 - b, 0 - 1) /\ InRow(b, N) = InRow(1 - b, 0)
<1>1. N \in Nat /\ N >= 1
  BY RowAssumption
<1>2. CASE b = 0
  BY <1>1, <1>2 DEF InRow
<1>3. CASE b = 1
  <2>1. InRow(1, N - 1) = (2 * N - 1) % (2 * N) /\ InRow(1, N) = (2 * N) % (2 * N)
    BY <1>1 DEF InRow
  <2>2. InRow(0, 0 - 1) = (-1) % (2 * N) /\ InRow(0, 0) = 0 % (2 * N)
    BY <1>1 DEF InRow
  <2> DEFINE m == 2 * N
  <2>3. m \in Nat /\ m >= 2
    BY <1>1
  <2> HIDE DEF m
  <2>4. (m - 1) % m = m - 1 /\ m % m = 0 /\ (-1) % m = m - 1 /\ 0 % m = 0
    BY <2>3
  <2>5. QED
    BY <1>3, <2>1, <2>2, <2>4 DEF m
<1>4. QED
  BY <1>2, <1>3 DEF Blocks

(* Without a magnetic field the comment of flag_fofc_cells holds: though   *)
(* neither block tells the other anything, both give the faces they share  *)
(* the same flux, for blocks of any size.                                  *)
THEOREM UnmagnetisedFacesAgree == RowSpec => [](~ magnetised => SharedFacesIdentical)
<1>1. FallbackInv => (~ magnetised => SharedFacesIdentical)
  <2> SUFFICES ASSUME FallbackInv, ~ magnetised, phase = "add",
                      NEW s \in Systems, NEW b \in Blocks, Evolves(s)
               PROVE  faceFlux[s][b][N] = faceFlux[s][1 - b][0]
    BY DEF SharedFacesIdentical
  <2>1. 1 - b \in Blocks /\ N \in 0 .. N /\ 0 \in 0 .. N
    BY Indices DEF Blocks
  <2>2. \A k \in Blocks, f \in 0 .. N :
          faceFlux[s][k][f] = IF {InRow(k, f - 1), InRow(k, f)} \cap bad[s] # {} THEN "first" ELSE "high"
    BY DEF FallbackInv, FallbackIsExact
  <2>3. QED
    BY <2>1, <2>2, SameCells
<1>2. QED
  BY <1>1, FallbackInductive, PTL

-----------------------------------------------------------------------------
(* The inversion *)

(* The calls still running become what they are given. *)
LEMMA RowAdvances ==
  ASSUME TypeOK, NEW result, NEW next \in Stages, Advance(result, next),
         \A c \in Calls : Running(c) => result[c] \in Results
  PROVE  /\ call' \in [Calls -> Results] /\ stage' = next /\ stage' \in Stages
         /\ \A c \in Calls : call'[c] = IF Running(c) THEN result[c] ELSE call[c]
BY DEF Advance, TypeOK

(* What stays as it is. *)
LEMMA CallUnchanged == CallInv /\ UNCHANGED callVars => CallInv'
BY DEF callVars, CallInv, TypeOK, DryFollows, UnclampedFollows, Marked, StoredAgree, DryRunPredicts,
       Running, Returned, Evolved

(* No call but the dry run returns before the end, so that there is little *)
(* to compare.                                                             *)
LEMMA OnTheWay ==
  ASSUME \A c \in Calls \ {"dry"} : Running(c), ~ call["dry"].used, "DENS" \notin call["dry"].reset
  PROVE  StoredAgree /\ DryRunPredicts
BY DEF StoredAgree, DryRunPredicts, Running, Returned, Calls

(* A cell begins with a result like any other. *)
LEMMA NewCallTyped ==
  /\ NewCall \in Results
  /\ NewCall.ended = "no" /\ ~ NewCall.used /\ NewCall.limited = {}
  /\ NewCall.off = {"ENTROPY"} /\ NewCall.reset = {"ENTROPY"}
<1>1. /\ {"ENTROPY"} \in SUBSET All /\ {} \in SUBSET Signals /\ {} \in SUBSET {"VEL", "SIGMA"}
      /\ 2 \in Levels
  BY DEF All, Matter, Energetic, Levels
<1>2. QED
  BY <1>1 DEF NewCall, Results

(* What the atmosphere leaves of a result. *)
LEMMA AtmosphereTyped ==
  ASSUME NEW r \in Results
  PROVE  LET e == AtmosphereReset(r)
         IN /\ e \in Results /\ e.ended = "returned" /\ e.floored = TRUE
            /\ e.off = {} /\ e.reset = All /\ e.used = r.used
<1>1. All \in SUBSET All /\ {} \in SUBSET All
  OBVIOUS
<1>2. QED
  BY <1>1 DEF AtmosphereReset, Results

(* CallInv and each of the stages. *)
LEMMA GuardStep == CallInv /\ Guard => CallInv'
<1> SUFFICES ASSUME CallInv, Guard PROVE CallInv'
  OBVIOUS
<1>1. PICK d \in -1 .. 2, out \in SUBSET {"YE", "YMU"} :
        /\ dens' = d
        /\ IF d = -1
             THEN Advance([c \in Calls |-> AtmosphereReset(call[c])], "done")
             ELSE Advance([c \in Calls |-> ClampComposition(call[c], out)], "limit")
  BY DEF Guard
<1>2. /\ stage = "guard" /\ TypeOK /\ UNCHANGED <<build, lenient, excised>>
      /\ \A c \in Calls : call[c] = NewCall /\ Running(c)
  BY DEF Guard, CallInv, Running, NewCall
<1>3. CASE d = -1
  <2>1. AtmosphereReset(NewCall) \in Results
    BY NewCallTyped, AtmosphereTyped
  <2>2. /\ call' \in [Calls -> Results] /\ stage' = "done" /\ stage' \in Stages
        /\ \A c \in Calls : call'[c] = AtmosphereReset(NewCall)
    BY <1>1, <1>2, <1>3, <2>1, RowAdvances DEF Stages
  <2>3. TypeOK'
    BY <1>1, <1>2, <2>2 DEF TypeOK
  <2>4. AtmosphereReset(NewCall).floored = TRUE /\ AtmosphereReset(NewCall).off = {}
    BY NewCallTyped, AtmosphereTyped
  <2>5. StoredAgree' /\ DryRunPredicts'
    BY <2>2, <2>4 DEF StoredAgree, DryRunPredicts, Calls
  <2>6. QED
    BY <2>2, <2>3, <2>5 DEF CallInv
<1>4. CASE d # -1
  <2> DEFINE r == ClampComposition(NewCall, out)
  <2>1. /\ r \in Results /\ r.ended = "no" /\ ~ r.used /\ r.limited = {} /\ "DENS" \notin r.reset
        /\ r.off \subseteq r.reset
    <3>1. /\ out \subseteq All /\ "DENS" \notin out
      BY DEF All
    <3>2. /\ NewCall \in Results /\ NewCall.ended = "no" /\ ~ NewCall.used /\ NewCall.limited = {}
          /\ NewCall.off = {"ENTROPY"} /\ NewCall.reset = {"ENTROPY"}
      BY NewCallTyped
    <3>3. QED
      BY <3>1, <3>2 DEF ClampComposition, Results
  <2>2. /\ call' \in [Calls -> Results] /\ stage' = "limit" /\ stage' \in Stages
        /\ \A c \in Calls : call'[c] = r
    BY <1>1, <1>2, <1>4, <2>1, RowAdvances DEF Stages
  <2> HIDE DEF r
  <2>3. TypeOK'
    BY <1>1, <1>2, <2>2 DEF TypeOK
  <2>4. StoredAgree' /\ DryRunPredicts'
    BY <2>1, <2>2 DEF StoredAgree, DryRunPredicts, Returned, Calls
  <2>5. QED
    BY <1>1, <1>4, <2>1, <2>2, <2>3, <2>4
    DEF CallInv, DryFollows, UnclampedFollows, Marked, Running, Calls
<1>5. QED
  BY <1>3, <1>4

(* The dry run returns what all of them floor. *)
LEMMA LimitStep == CallInv /\ Limit => CallInv'
<1> SUFFICES ASSUME CallInv, Limit PROVE CallInv'
  OBVIOUS
<1>1. PICK out \in SUBSET Energetic :
        Advance([c \in Calls |-> LimitConservatives(c, call[c], out)], "energy")
  BY DEF Limit
<1>2. /\ stage = "limit" /\ TypeOK /\ UNCHANGED <<build, lenient, excised, dens>>
      /\ dens # -1 /\ DryFollows /\ UnclampedFollows /\ Running("dry")
      /\ \A c \in Calls : call[c] \in Results /\ call[c].limited = {} /\ "DENS" \notin call[c].reset
      /\ \A c \in Calls : ~ call[c].used
      /\ \A c \in Calls \ {"dry"} : Running(c)
      /\ \A c \in Calls : Running(c) => Marked(call[c])
  BY DEF Limit, CallInv, TypeOK
<1>3. ASSUME NEW c \in Calls
      PROVE  /\ LimitConservatives(c, call[c], out) \in Results
             /\ LimitConservatives(c, call[c], out).used = call[c].used
             /\ LimitConservatives(c, call[c], out).limited = {}
             /\ "DENS" \notin LimitConservatives(c, call[c], out).reset
             /\ Marked(call[c]) => Marked(LimitConservatives(c, call[c], out))
             /\ LimitConservatives(c, call[c], out).ended
                  = (IF out # {} /\ c = "dry" THEN "returned" ELSE "no")
             /\ LimitConservatives(c, call[c], out).floored <=> out # {}
  <2> DEFINE q == call[c]
             r == LimitConservatives(c, q, out)
  <2>1. q \in Results /\ q.limited = {} /\ "DENS" \notin q.reset
    BY <1>2
  <2>2. out \subseteq All /\ "DENS" \notin out
    BY DEF All, Matter, Energetic
  <2> HIDE DEF q
  <2>3. r \in Results
    BY <2>1, <2>2 DEF LimitConservatives, Results
  <2>4. /\ r.used = q.used /\ r.limited = q.limited
        /\ r.off = q.off \cup out /\ r.reset = q.reset \cup out
        /\ r.ended = IF out # {} /\ c = "dry" THEN "returned" ELSE "no"
        /\ r.floored <=> out # {}
    BY <2>1 DEF LimitConservatives, Results
  <2> HIDE DEF r
  <2>5. Marked(q) => Marked(r)
    BY <2>4 DEF Marked
  <2>6. QED
    BY <2>1, <2>2, <2>3, <2>4, <2>5 DEF q, r
<1>4. /\ call' \in [Calls -> Results] /\ stage' = "energy" /\ stage' \in Stages
      /\ \A c \in Calls : call'[c] = IF Running(c) THEN LimitConservatives(c, call[c], out) ELSE call[c]
  BY <1>1, <1>2, <1>3, RowAdvances DEF Stages
<1>5. TypeOK'
  BY <1>2, <1>4 DEF TypeOK
<1>6. /\ \A c \in Calls : call'[c].limited = {} /\ "DENS" \notin call'[c].reset
      /\ \A c \in Calls \ {"dry"} : Running(c)'
      /\ \A c \in Calls : Running(c)' => Marked(call[c])'
      /\ \A c \in Calls : ~ call'[c].used
  BY <1>2, <1>3, <1>4 DEF Running, Marked, Calls
<1>7. UnclampedFollows'
  <2>1. call["unclamped"] = call["clamped"]
    BY <1>2 DEF UnclampedFollows
  <2>2. QED
    BY <1>2, <1>4, <2>1 DEF UnclampedFollows, LimitConservatives, Running, Calls
<1>8. DryFollows'
  <2>1. CASE out = {}
    BY <1>2, <1>3, <1>4, <2>1 DEF DryFollows, LimitConservatives, Running, Calls
  <2>2. CASE out # {}
    BY <1>2, <1>3, <1>4, <2>2 DEF DryFollows, Running, Returned, Calls
  <2>3. QED
    BY <2>1, <2>2
<1>9. StoredAgree' /\ DryRunPredicts'
  BY <1>6 DEF StoredAgree, DryRunPredicts, Running, Returned, Calls
<1>10. QED
  BY <1>2, <1>4, <1>5, <1>6, <1>7, <1>8, <1>9 DEF CallInv

(* What an inversion may find has its type. *)
LEMMA OutcomeTyped ==
  ASSUME NEW sigs, sigs \subseteq Signals, NEW o \in Outcomes(sigs)
  PROVE  o.ret \in SUBSET Signals /\ o.rho \in Levels
<1>1. o \in [ret : SUBSET sigs, rho : Levels]
  BY DEF Outcomes
<1>2. QED
  BY <1>1

(* The energy inversion marks nothing yet. *)
LEMMA InvertTyped ==
  ASSUME NEW c \in Calls, NEW r \in Results, NEW o \in Outcomes(Signals), NEW diverged \in BOOLEAN
  PROVE  LET e == InvertEnergy(c, r, o, diverged)
         IN /\ e \in Results /\ e.used = r.used /\ e.limited = r.limited
            /\ e.off = r.off /\ e.reset = r.reset /\ e.ended = r.ended /\ e.floored = r.floored
            /\ ~ Solved(c) => e.failed
<1>1. o.ret \in SUBSET Signals /\ o.rho \in Levels
  BY OutcomeTyped
<1>2. CASE ~ Solved(c)
  BY <1>2 DEF InvertEnergy, Results
<1>3. CASE Solved(c)
  <2> DEFINE b == diverged \/ o.ret \cap {"RHO_TOO_HIGH", "EPS_TOO_HIGH"} # {}
  <2>1. b \in BOOLEAN
    OBVIOUS
  <2>2. InvertEnergy(c, r, o, diverged) = [r EXCEPT !.ret = o.ret, !.rho = o.rho, !.failed = b]
    BY <1>3 DEF InvertEnergy
  <2> HIDE DEF b
  <2>3. QED
    BY <1>1, <1>3, <2>1, <2>2 DEF Results
<1>4. QED
  BY <1>2, <1>3

(* Between the floors two of the inversions fail. *)
LEMMA EnergyStep == CallInv /\ Energy => CallInv'
<1> SUFFICES ASSUME CallInv, Energy PROVE CallInv'
  OBVIOUS
<1>1. /\ stage = "energy" /\ TypeOK /\ UNCHANGED <<build, lenient, excised, dens>>
      /\ dens \in 0 .. 2 /\ DryFollows /\ call["unclamped"] = call["clamped"]
      /\ \A c \in Calls : /\ call[c] \in Results /\ call[c].limited = {} /\ ~ call[c].used
                          /\ "DENS" \notin call[c].reset
      /\ \A c \in Calls \ {"dry"} : Running(c)
      /\ \A c \in Calls : Running(c) => Marked(call[c])
  BY DEF Energy, CallInv, TypeOK, UnclampedFollows
<1>2. PICK result : /\ Advance(result, "backup")
                    /\ \/ dens = 0 /\ result = [c \in Calls |-> [call[c] EXCEPT !.failed = TRUE]]
                       \/ /\ dens # 0
                          /\ \E o \in Outcomes(Signals), diverged \in BOOLEAN :
                               result = [c \in Calls |-> InvertEnergy(c, call[c], o, diverged)]
  BY DEF Energy
<1>3. ASSUME NEW c \in Calls
      PROVE  /\ result[c] \in Results /\ result[c].used = call[c].used
             /\ result[c].limited = call[c].limited /\ result[c].off = call[c].off
             /\ result[c].reset = call[c].reset /\ result[c].ended = call[c].ended
             /\ result[c].floored = call[c].floored
             /\ ~ Solved(c) => result[c].failed
  <2>1. CASE dens = 0
    <3> DEFINE q == call[c]
    <3>1. q \in Results /\ result[c] = [q EXCEPT !.failed = TRUE]
      BY <1>1, <1>2, <2>1
    <3> HIDE DEF q
    <3>2. /\ result[c] \in Results /\ result[c].used = q.used /\ result[c].limited = q.limited
          /\ result[c].off = q.off /\ result[c].reset = q.reset /\ result[c].ended = q.ended
          /\ result[c].floored = q.floored /\ result[c].failed = TRUE
      BY <3>1 DEF Results
    <3>3. QED
      BY <3>2 DEF q
  <2>2. CASE dens # 0
    <3>1. PICK o \in Outcomes(Signals), diverged \in BOOLEAN :
            result = [k \in Calls |-> InvertEnergy(k, call[k], o, diverged)]
      BY <1>2, <2>2
    <3>2. result[c] = InvertEnergy(c, call[c], o, diverged)
      BY <3>1
    <3>3. QED
      BY <1>1, <3>2, InvertTyped
  <2>3. QED
    BY <2>1, <2>2
<1>4. /\ Running("dry") /\ call["dry"] = call["clamped"] => result["dry"] = result["clamped"]
      /\ dens # 1 => result["unclamped"] = result["clamped"]
  <2>1. CASE dens = 0
    <3>1. \A c \in Calls : result[c] = [call[c] EXCEPT !.failed = TRUE]
      BY <1>2, <2>1
    <3>2. "dry" \in Calls /\ "clamped" \in Calls /\ "unclamped" \in Calls
      BY DEF Calls
    <3>3. QED
      BY <1>1, <3>1, <3>2
  <2>2. CASE dens # 0
    <3>1. PICK o \in Outcomes(Signals), diverged \in BOOLEAN :
            result = [k \in Calls |-> InvertEnergy(k, call[k], o, diverged)]
      BY <1>2, <2>2
    <3>2. \A k \in Calls : result[k] = InvertEnergy(k, call[k], o, diverged)
      BY <3>1
    <3>3. /\ Solved("dry") <=> Solved("clamped")
          /\ dens # 1 => (Solved("unclamped") <=> Solved("clamped"))
      BY <1>1, <2>2 DEF Solved, Floor
    <3>4. QED
      BY <1>1, <3>2, <3>3 DEF InvertEnergy, Calls
  <2>3. QED
    BY <2>1, <2>2
<1>5. /\ call' \in [Calls -> Results] /\ stage' = "backup" /\ stage' \in Stages
      /\ \A c \in Calls : call'[c] = IF Running(c) THEN result[c] ELSE call[c]
  BY <1>1, <1>2, <1>3, RowAdvances DEF Stages
<1>6. TypeOK'
  BY <1>1, <1>5 DEF TypeOK
<1>7. /\ \A c \in Calls : /\ call'[c].limited = {} /\ ~ call'[c].used /\ "DENS" \notin call'[c].reset
                          /\ Running(c)' <=> Running(c)
      /\ \A c \in Calls \ {"dry"} : Running(c)'
      /\ \A c \in Calls : Running(c)' => Marked(call[c])'
  BY <1>1, <1>3, <1>5 DEF Running, Marked, Calls
<1>8. DryFollows'
  BY <1>1, <1>3, <1>4, <1>5, <1>7 DEF DryFollows, Running, Returned, Calls
<1>9. UnclampedFollows'
  <2>1. dens = 1 => ~ Solved("dry") /\ ~ Solved("clamped")
    BY DEF Solved, Floor
  <2>2. dens = 1 => \A c \in {"dry", "clamped"} : Running(c) => call'[c].failed
    BY <1>3, <1>5, <2>1 DEF Calls
  <2>3. QED
    BY <1>1, <1>4, <1>5, <1>7, <2>2 DEF UnclampedFollows, Calls
<1>10. StoredAgree' /\ DryRunPredicts'
  BY <1>7 DEF StoredAgree, DryRunPredicts, Running, Returned, Calls
<1>11. QED
  BY <1>1, <1>5, <1>6, <1>7, <1>8, <1>9, <1>10 DEF CallInv

(* What the entropy backup leaves of a result. *)
LEMMA BackupTyped ==
  ASSUME NEW c \in Calls, NEW r \in Results, ~ r.used, NEW lowBeta,
         NEW o \in Outcomes({"RHO_TOO_LOW", "RHO_TOO_HIGH", "VEL_TOO_HIGH"})
  PROVE  LET e == EntropyBackup(c, r, lowBeta, o)
         IN /\ e \in Results /\ e.limited = r.limited /\ e.reset = r.reset
            /\ e.ended = r.ended /\ e.floored = r.floored
            /\ Marked(r) => Marked(e)
            /\ ~ e.used => e = r
            /\ c = "dry" \/ ~ Solved(c) => e = r
<1>1. o.ret \in SUBSET Signals /\ o.rho \in Levels
  BY OutcomeTyped DEF Signals
<1> DEFINE b == Distrusts(c, r, lowBeta) /\ build.backup /\ c # "dry"
           e == EntropyBackup(c, r, lowBeta, o)
<1>2. e = IF b THEN BackUp(r, o) ELSE r
  BY DEF EntropyBackup
<1>3. b => c # "dry" /\ Solved(c)
  BY DEF Distrusts
<1> HIDE DEF b, e
<1>4. CASE ~ b
  BY <1>2, <1>3, <1>4 DEF e
<1>5. CASE b
  <2>1. (r.off \ {"ENTROPY"}) \cup {"TAU"} \in SUBSET All
    BY DEF Results, All, Matter, Energetic
  <2>2. BackUp(r, o) \in Results
    BY <1>1, <2>1 DEF BackUp, Results
  <2>3. /\ e.limited = r.limited /\ e.reset = r.reset /\ e.ended = r.ended /\ e.floored = r.floored
        /\ e.used = TRUE /\ e.off = (r.off \ {"ENTROPY"}) \cup {"TAU"}
    BY <1>2, <1>5 DEF BackUp, Results
  <2>4. Marked(r) => Marked(e)
    BY <2>3 DEF Marked
  <2>5. QED
    BY <1>2, <1>3, <1>5, <2>2, <2>3, <2>4 DEF e
<1>6. QED
  BY <1>4, <1>5

(* The dry run is left behind by a call that uses the backup. *)
LEMMA BackupStep == CallInv /\ Backup => CallInv'
<1> SUFFICES ASSUME CallInv, Backup PROVE CallInv'
  OBVIOUS
<1>1. /\ stage = "backup" /\ TypeOK /\ UNCHANGED <<build, lenient, excised, dens>>
      /\ dens \in 0 .. 2 /\ DryFollows /\ UnclampedFollows
      /\ \A c \in Calls : /\ call[c] \in Results /\ call[c].limited = {} /\ ~ call[c].used
                          /\ "DENS" \notin call[c].reset
      /\ \A c \in Calls \ {"dry"} : Running(c)
      /\ \A c \in Calls : Running(c) => Marked(call[c])
  BY DEF Backup, CallInv, TypeOK
<1>2. PICK result :
        /\ Advance(result, "finish")
        /\ \/ result = call
           \/ /\ dens > 0
              /\ \E lowBeta \in BOOLEAN,
                    o \in Outcomes({"RHO_TOO_LOW", "RHO_TOO_HIGH", "VEL_TOO_HIGH"}) :
                   result = [c \in Calls |-> EntropyBackup(c, call[c], lowBeta, o)]
  BY DEF Backup
<1>3. ASSUME NEW c \in Calls
      PROVE  /\ result[c] \in Results
             /\ result[c].limited = call[c].limited /\ result[c].reset = call[c].reset
             /\ result[c].ended = call[c].ended /\ result[c].floored = call[c].floored
             /\ Marked(call[c]) => Marked(result[c])
             /\ ~ result[c].used => result[c] = call[c]
             /\ c = "dry" \/ ~ Solved(c) => result[c] = call[c]
  <2>1. CASE result = call
    BY <1>1, <2>1
  <2>2. CASE result # call
    <3>1. PICK lowBeta \in BOOLEAN, o \in Outcomes({"RHO_TOO_LOW", "RHO_TOO_HIGH", "VEL_TOO_HIGH"}) :
            result = [k \in Calls |-> EntropyBackup(k, call[k], lowBeta, o)]
      BY <1>2, <2>2
    <3>2. result[c] = EntropyBackup(c, call[c], lowBeta, o)
      BY <3>1
    <3>3. QED
      BY <1>1, <3>2, BackupTyped
  <2>3. QED
    BY <2>1, <2>2
<1>4. dens # 1 => result["unclamped"] = result["clamped"]
  <2>1. dens # 1 => call["unclamped"] = call["clamped"]
    BY <1>1 DEF UnclampedFollows
  <2>2. QED
    BY <1>1, <1>2, <2>1 DEF EntropyBackup, Distrusts, Solved, Floor, Calls
<1>5. /\ call' \in [Calls -> Results] /\ stage' = "finish" /\ stage' \in Stages
      /\ \A c \in Calls : call'[c] = IF Running(c) THEN result[c] ELSE call[c]
  BY <1>1, <1>2, <1>3, RowAdvances DEF Stages
<1>6. TypeOK'
  BY <1>1, <1>5 DEF TypeOK
<1>7. /\ \A c \in Calls : /\ call'[c].limited = {} /\ "DENS" \notin call'[c].reset
                          /\ Running(c)' <=> Running(c)
      /\ \A c \in Calls \ {"dry"} : Running(c)'
      /\ \A c \in Calls : Running(c)' => Marked(call[c])'
      /\ call'["dry"] = call["dry"] /\ ~ call'["dry"].used
  BY <1>1, <1>3, <1>5 DEF Running, Marked, Calls
<1>8. DryFollows'
  BY <1>1, <1>3, <1>5, <1>7 DEF DryFollows, Running, Returned, Calls
<1>9. UnclampedFollows'
  <2>1. dens = 1 => ~ Solved("dry") /\ ~ Solved("clamped")
    BY DEF Solved, Floor
  <2>2. dens = 1 => \A c \in {"dry", "clamped"} : call'[c] = call[c]
    BY <1>3, <1>5, <2>1 DEF Calls
  <2>3. QED
    BY <1>1, <1>4, <1>5, <1>7, <2>2 DEF UnclampedFollows, Running, Calls
<1>10. StoredAgree' /\ DryRunPredicts'
  BY <1>7 DEF StoredAgree, DryRunPredicts, Running, Returned, Calls
<1>11. QED
  BY <1>1, <1>5, <1>6, <1>7, <1>8, <1>9, <1>10 DEF CallInv

(* The signals: what they leave of a result that is not aborted. *)
LEMMA SignalledMarks ==
  ASSUME NEW c \in Calls, NEW r \in Results, r.ended = "no", Marked(r), "DENS" \notin r.reset
  PROVE  LET e == Signalled(c, r)
         IN /\ e \in Results /\ e.used = r.used /\ e.limited = r.limited /\ e.ret = r.ret
            /\ e.ended \in {"no", "aborted"}
            /\ e.ended = "no" => /\ r.floored => e.floored
                                 /\ "DENS" \in e.reset => e.floored
                                 /\ (e.off \cap Evolved) \ e.reset \subseteq Exempt(e)
<1> DEFINE e == Signalled(c, r)
           stop == "RHO_TOO_HIGH" \in r.ret /\ ~ Lenient(c)
           o == UNION {Enters(s) : s \in r.ret}
           w == UNION {ResetsOf(s) : s \in r.ret}
           f == r.floored \/ Floored(r.ret)
<1>1. e = IF stop THEN [r EXCEPT !.ended = "aborted"]
          ELSE [r EXCEPT !.off = @ \cup o, !.reset = @ \cup w, !.floored = f]
  BY DEF Signalled
<1>2. /\ r.ret \subseteq Signals
      /\ \A s \in Signals : Enters(s) \subseteq All /\ ResetsOf(s) \subseteq All
  BY DEF Results, Signals, Enters, ResetsOf, All, Matter, Energetic, Composition, MuonComposition
<1>3. o \subseteq All /\ w \subseteq All
  BY <1>2
<1>4. f \in BOOLEAN
  BY DEF Floored, Results
<1>5. "DENS" \in w => f
  <2> SUFFICES ASSUME NEW s \in r.ret, "DENS" \in ResetsOf(s) PROVE f
    OBVIOUS
  <2>1. s \in {"RHO_TOO_LOW", "RHO_TOO_HIGH", "VEL_TOO_HIGH"}
    BY <1>2 DEF Signals, ResetsOf, Energetic
  <2>2. QED
    BY <2>1 DEF Floored
<1>6. ASSUME NEW v \in o \cap Evolved, v \notin w PROVE v = "YMU" /\ "VEL_TOO_HIGH" \in r.ret
  <2>1. PICK s \in r.ret : v \in Enters(s)
    BY <1>6
  <2>2. v \notin ResetsOf(s) /\ s \in Signals /\ v \in Evolved
    BY <1>2, <1>6
  <2>3. QED
    BY <2>1, <2>2 DEF Signals, Enters, ResetsOf, Evolved, All, Matter, Energetic, Composition, MuonComposition
<1> HIDE DEF stop, o, w, f
<1>7. CASE stop
  <2>1. e = [r EXCEPT !.ended = "aborted"]
    BY <1>1, <1>7
  <2>2. e \in Results /\ e.used = r.used /\ e.limited = r.limited /\ e.ret = r.ret /\ e.ended = "aborted"
    BY <2>1 DEF Results
  <2>3. QED
    BY <2>2
<1>8. CASE ~ stop
  <2>1. e = [r EXCEPT !.off = @ \cup o, !.reset = @ \cup w, !.floored = f]
    BY <1>1, <1>8
  <2> HIDE DEF e
  <2>2. /\ e \in Results /\ e.used = r.used /\ e.limited = r.limited /\ e.ret = r.ret /\ e.ended = "no"
        /\ e.off = r.off \cup o /\ e.reset = r.reset \cup w /\ e.floored = f
    BY <1>3, <1>4, <2>1 DEF Results
  <2>3. r.floored => e.floored
    BY <2>2 DEF f
  <2>4. (e.off \cap Evolved) \ e.reset \subseteq Exempt(e)
    BY <1>6, <2>2 DEF Marked, Exempt
  <2>5. QED
    BY <1>5, <2>2, <2>3, <2>4 DEF e
<1>9. QED
  BY <1>7, <1>8

(* The floors and limits: whatever they correct they mark. *)
LEMMA CorrectedMarks ==
  ASSUME NEW c \in Calls, NEW r \in Results, r.limited = {}, NEW temp \in Levels,
         NEW limits \in SUBSET {"VEL", "SIGMA"},
         "DENS" \in r.reset => r.floored, (r.off \cap Evolved) \ r.reset \subseteq Exempt(r)
  PROVE  LET e == Corrected(c, r, temp, limits)
         IN /\ e \in Results /\ e.used = r.used
            /\ r.floored => e.floored
            /\ "DENS" \in e.reset => e.floored
            /\ (e.off \cap Evolved) \ e.reset \subseteq Exempt(e)
<1> DEFINE e == Corrected(c, r, temp, limits)
           gone == r.rho < Floor(c) \/ r.failed \/ excised
           cold == temp < Floor(c)
<1>1. e = IF gone THEN AtmosphereReset(r) ELSE IF cold THEN FloorTemperature(r)
          ELSE LimitPrimitives(r, limits)
  BY DEF Corrected
<1> HIDE DEF gone, cold
<1>2. CASE gone
  BY <1>1, <1>2, AtmosphereTyped
<1>3. CASE ~ gone /\ cold
  <2> DEFINE o == Energetic \cup {"ENTROPY"}
             f == r.floored \/ build.ideal
  <2>1. e = [r EXCEPT !.off = @ \cup o, !.reset = @ \cup o, !.floored = f]
    BY <1>1, <1>3 DEF FloorTemperature
  <2>2. o \subseteq All /\ "DENS" \notin o
    BY DEF All, Matter, Energetic
  <2>3. f \in BOOLEAN /\ (r.floored => f)
    BY DEF Results
  <2> HIDE DEF e, o, f
  <2>4. /\ e \in Results /\ e.used = r.used /\ e.limited = r.limited /\ e.ret = r.ret
        /\ e.off = r.off \cup o /\ e.reset = r.reset \cup o /\ e.floored = f
    BY <2>1, <2>2, <2>3 DEF Results
  <2>5. (e.off \cap Evolved) \ e.reset \subseteq Exempt(e)
    BY <2>4 DEF Exempt
  <2>6. QED
    BY <2>2, <2>3, <2>4, <2>5 DEF e
<1>4. CASE ~ gone /\ ~ cold
  <2> DEFINE sigs == (IF "VEL" \in limits THEN {"VEL_TOO_HIGH"} ELSE {})
                     \cup (IF "SIGMA" \in limits THEN {"SIGMA_TOO_HIGH"} ELSE {})
             o == IF limits = {} THEN {} ELSE All
             w == UNION {ResetsOf(s) : s \in sigs}
             f == r.floored \/ limits # {}
  <2>1. e = [r EXCEPT !.limited = limits, !.off = @ \cup o, !.reset = @ \cup w, !.floored = f]
    BY <1>1, <1>4 DEF LimitPrimitives
  <2>2. \A s \in sigs : ResetsOf(s) = Matter \cup Composition
    BY DEF ResetsOf
  <2>3. w = IF limits = {} THEN {} ELSE Matter \cup Composition
    <3>1. limits = {} => sigs = {}
      OBVIOUS
    <3>2. limits # {} => \E s \in sigs : TRUE
      OBVIOUS
    <3> HIDE DEF sigs
    <3>3. QED
      BY <2>2, <3>1, <3>2
  <2>4. o \subseteq All /\ w \subseteq All
    BY <2>3 DEF All, Matter, Composition
  <2>5. f \in BOOLEAN /\ (r.floored => f) /\ (limits # {} => f)
    BY DEF Results
  <2>6. o \cap Evolved \subseteq w \cup {"YMU"} /\ (limits = {} => o = {} /\ w = {})
    BY <2>3 DEF Evolved, Composition
  <2> HIDE DEF e, o, w, f
  <2>7. /\ e \in Results /\ e.used = r.used /\ e.limited = limits /\ e.ret = r.ret
        /\ e.off = r.off \cup o /\ e.reset = r.reset \cup w /\ e.floored = f
    BY <2>1, <2>4, <2>5 DEF Results
  <2>8. (e.off \cap Evolved) \ e.reset \subseteq Exempt(e)
    <3>1. CASE limits = {}
      BY <2>6, <2>7, <3>1 DEF Exempt
    <3>2. CASE limits # {}
      BY <2>6, <2>7, <3>2 DEF Exempt
    <3>3. QED
      BY <3>1, <3>2
  <2>9. "DENS" \in e.reset => e.floored
    BY <2>5, <2>6, <2>7
  <2>10. QED
    BY <2>5, <2>7, <2>8, <2>9 DEF e
<1>5. QED
  BY <1>2, <1>3, <1>4

(* A call ends with what it stored in agreement with what it returns. *)
LEMMA CallFinishes ==
  ASSUME NEW c \in Calls, NEW r \in Results, r.ended = "no", Marked(r), "DENS" \notin r.reset,
         r.limited = {}, NEW temp \in Levels, NEW limits \in SUBSET {"VEL", "SIGMA"}
  PROVE  LET e == FinishCall(c, r, temp, limits)
         IN /\ e \in Results /\ e.used = r.used /\ e.ended \in {"returned", "aborted"}
            /\ e.ended = "returned" => /\ r.floored => e.floored
                                       /\ "DENS" \in e.reset => e.floored
                                       /\ e.off \cap Evolved \subseteq Exempt(e)
<1> DEFINE s == Signalled(c, r)
           d == Corrected(c, s, temp, limits)
           e == FinishCall(c, r, temp, limits)
<1>1. /\ s \in Results /\ s.used = r.used /\ s.limited = {}
      /\ s.ended \in {"no", "aborted"}
      /\ s.ended = "no" => /\ r.floored => s.floored
                           /\ "DENS" \in s.reset => s.floored
                           /\ (s.off \cap Evolved) \ s.reset \subseteq Exempt(s)
  BY SignalledMarks
<1>2. e = IF s.ended = "aborted" THEN s ELSE WriteBack(d)
  BY DEF FinishCall
<1>3. s.ended = "no" => /\ d \in Results /\ d.used = s.used
                        /\ s.floored => d.floored
                        /\ "DENS" \in d.reset => d.floored
                        /\ (d.off \cap Evolved) \ d.reset \subseteq Exempt(d)
  BY <1>1, CorrectedMarks
<1> HIDE DEF s, d, e
<1>4. CASE s.ended = "aborted"
  BY <1>1, <1>2, <1>4 DEF e
<1>5. CASE s.ended = "no"
  <2>1. e = [d EXCEPT !.off = @ \ d.reset, !.ended = "returned"]
    BY <1>2, <1>5 DEF WriteBack
  <2>2. /\ e \in Results /\ e.used = d.used /\ e.limited = d.limited /\ e.ret = d.ret
        /\ e.ended = "returned" /\ e.floored = d.floored /\ e.reset = d.reset
        /\ e.off = d.off \ d.reset
    BY <1>3, <1>5, <2>1 DEF Results
  <2>3. e.off \cap Evolved \subseteq Exempt(e)
    BY <1>3, <1>5, <2>2 DEF Exempt
  <2>4. QED
    BY <1>1, <1>3, <1>5, <2>2, <2>3 DEF e
<1>6. QED
  BY <1>1, <1>4, <1>5

(* What the write-back leaves of a result. *)
LEMMA WrittenBack ==
  ASSUME NEW r \in Results
  PROVE  WriteBack(r).floored = r.floored /\ WriteBack(r).limited = r.limited
BY DEF WriteBack, Results

(* The dry run never aborts, and another call which does not abort sees    *)
(* the same signals.                                                       *)
LEMMA SameSignals ==
  ASSUME NEW c \in Calls, NEW r \in Results, Signalled(c, r).ended # "aborted"
  PROVE  Signalled("dry", r) = Signalled(c, r)
<1>1. ~ ("RHO_TOO_HIGH" \in r.ret /\ ~ Lenient(c))
  BY DEF Signalled, Results
<1>2. ~ ("RHO_TOO_HIGH" \in r.ret /\ ~ Lenient("dry"))
  BY DEF Lenient
<1>3. QED
  BY <1>1, <1>2 DEF Signalled

(* Its failure stays known. *)
LEMMA DrySignalled ==
  ASSUME NEW r \in Results, r.ended = "no"
  PROVE  Signalled("dry", r).ended = "no" /\ Signalled("dry", r).failed = r.failed
BY DEF Signalled, Lenient, Results

(* From the same inversion, the dry run ends like the clamped call, and    *)
(* floors what the unclamped one does but for a limit.                     *)
LEMMA SameVerdict ==
  ASSUME NEW c \in {"clamped", "unclamped"}, NEW r \in Results, r.ended = "no", Marked(r),
         "DENS" \notin r.reset, r.limited = {},
         NEW temp \in Levels, NEW limits \in SUBSET {"VEL", "SIGMA"},
         FinishCall(c, r, temp, limits).ended = "returned"
  PROVE  LET d == FinishCall("dry", r, temp, limits)
             e == FinishCall(c, r, temp, limits)
         IN IF c = "clamped" THEN d = e
            ELSE e.floored => d.floored \/ e.limited # {}
<1> DEFINE s == Signalled(c, r)
           x == Corrected("dry", s, temp, limits)
           y == Corrected(c, s, temp, limits)
<1>1. c \in Calls
  BY DEF Calls
<1>2. s.ended # "aborted"
  BY DEF FinishCall
<1>3. Signalled("dry", r) = s
  BY <1>1, <1>2, SameSignals
<1>4. FinishCall("dry", r, temp, limits) = WriteBack(x) /\ FinishCall(c, r, temp, limits) = WriteBack(y)
  BY <1>2, <1>3 DEF FinishCall
<1>5. /\ s \in Results /\ s.limited = {}
      /\ "DENS" \in s.reset => s.floored
      /\ (s.off \cap Evolved) \ s.reset \subseteq Exempt(s)
  BY <1>1, <1>2, SignalledMarks
<1>6. x \in Results /\ y \in Results
  BY <1>1, <1>5, CorrectedMarks DEF Calls
<1> HIDE DEF s
<1>7. c = "clamped" => x = y
  BY DEF Corrected, Floor
<1>8. CASE c = "unclamped"
  <2>1. y.floored => x.floored \/ y.limited # {}
    <3>1. CASE s.failed \/ excised \/ s.rho < 2
      <4>1. x = AtmosphereReset(s)
        BY <3>1 DEF Corrected, Floor
      <4>2. QED
        BY <1>5, <4>1, AtmosphereTyped
    <3>2. CASE ~ (s.failed \/ excised \/ s.rho < 2) /\ temp < 2
      <4>1. ~ (s.rho < 1)
        BY <1>5, <3>2 DEF Results, Levels
      <4>2. x = FloorTemperature(s) /\ y = IF temp < 1 THEN FloorTemperature(s) ELSE LimitPrimitives(s, limits)
        BY <1>8, <3>2, <4>1 DEF Corrected, Floor
      <4>3. s.floored => FloorTemperature(s).floored
        BY <1>5 DEF FloorTemperature, Results
      <4>4. LET l == LimitPrimitives(s, limits)
            IN l.limited = limits /\ (l.floored => s.floored \/ limits # {})
        BY <1>5 DEF LimitPrimitives, Results
      <4>5. QED
        BY <4>2, <4>3, <4>4
    <3>3. CASE ~ (s.failed \/ excised \/ s.rho < 2) /\ ~ (temp < 2)
      <4>1. ~ (s.rho < 1) /\ ~ (temp < 1)
        BY <1>5, <3>3 DEF Results, Levels
      <4>2. x = y
        BY <1>8, <3>3, <4>1 DEF Corrected, Floor
      <4>3. QED
        BY <4>2
    <3>4. QED
      BY <3>1, <3>2, <3>3
  <2>2. QED
    BY <1>4, <1>6, <1>8, <2>1, WrittenBack
<1>9. QED
  BY <1>4, <1>7, <1>8

(* A dry run whose inversion failed floors the cell. *)
LEMMA FailedIsFloored ==
  ASSUME NEW r \in Results, r.ended = "no", Marked(r), "DENS" \notin r.reset, r.failed,
         NEW temp, NEW limits
  PROVE  FinishCall("dry", r, temp, limits).floored = TRUE
<1> DEFINE s == Signalled("dry", r)
<1>1. s.ended = "no" /\ s.failed = r.failed
  BY DrySignalled
<1>2. s \in Results
  BY SignalledMarks DEF Calls
<1>3. FinishCall("dry", r, temp, limits) = WriteBack(AtmosphereReset(s))
  BY <1>1 DEF FinishCall, Corrected
<1> HIDE DEF s
<1>4. QED
  BY <1>2, <1>3, AtmosphereTyped, WrittenBack

(* The verdicts. *)
LEMMA FinishStep == CallInv /\ Finish => CallInv'
<1> SUFFICES ASSUME CallInv, Finish PROVE CallInv'
  OBVIOUS
<1>1. /\ stage = "finish" /\ TypeOK /\ UNCHANGED <<build, lenient, excised, dens>>
      /\ dens \in 0 .. 2 /\ DryFollows /\ UnclampedFollows /\ ~ call["dry"].used
      /\ \A c \in Calls : call[c] \in Results /\ call[c].limited = {} /\ "DENS" \notin call[c].reset
      /\ \A c \in Calls \ {"dry"} : Running(c)
      /\ \A c \in Calls : Running(c) => Marked(call[c])
  BY DEF Finish, CallInv, TypeOK, Calls
<1>2. PICK temp \in [BackedUp -> Levels], limits \in [BackedUp -> SUBSET {"VEL", "SIGMA"}] :
        Advance([c \in Calls |-> FinishCall(c, call[c], temp[call[c].used],
                                            limits[call[c].used])], "done")
  BY DEF Finish
<1> DEFINE T(c) == temp[call[c].used]
           L(c) == limits[call[c].used]
           E(c) == FinishCall(c, call[c], T(c), L(c))
<1>3. \A c \in Calls : T(c) \in Levels /\ L(c) \in SUBSET {"VEL", "SIGMA"}
  BY DEF BackedUp
<1> HIDE DEF T, L
<1>5. ASSUME NEW c \in Calls, Running(c)
      PROVE  /\ E(c) \in Results /\ E(c).used = call[c].used /\ E(c).ended \in {"returned", "aborted"}
             /\ E(c).ended = "returned" => /\ call[c].floored => E(c).floored
                                           /\ "DENS" \in E(c).reset => E(c).floored
                                           /\ E(c).off \cap Evolved \subseteq Exempt(E(c))
  BY <1>1, <1>3, <1>5, CallFinishes DEF Running, Calls
<1>6. /\ call' \in [Calls -> Results] /\ stage' = "done" /\ stage' \in Stages
      /\ \A c \in Calls : call'[c] = IF Running(c) THEN E(c) ELSE call[c]
  BY <1>1, <1>2, <1>5, RowAdvances DEF Stages, T, L
<1>7. TypeOK'
  BY <1>1, <1>6 DEF TypeOK
<1>8. Evolved' = Evolved
  BY <1>1 DEF Evolved
<1>9. StoredAgree'
  BY <1>1, <1>5, <1>6, <1>8 DEF StoredAgree, Returned, Exempt
<1>10. ~ Running("dry") => Returned("dry") /\ \A c \in Calls : call[c].floored
  BY <1>1 DEF DryFollows
<1>11. ASSUME NEW c \in Calls, Returned(c)', "DENS" \in call'[c].reset PROVE call'[c].floored
  BY <1>1, <1>5, <1>6, <1>11 DEF Returned
<1>12. Returned("clamped")' /\ ~ call'["clamped"].used => (call'["clamped"].floored <=> call'["dry"].floored)
  <2> SUFFICES ASSUME Returned("clamped")', ~ call'["clamped"].used
               PROVE  call'["clamped"].floored <=> call'["dry"].floored
    OBVIOUS
  <2>1. /\ Running("clamped") /\ call'["clamped"] = E("clamped") /\ E("clamped").ended = "returned"
        /\ ~ call["clamped"].used
    BY <1>1, <1>5, <1>6 DEF Returned, Calls
  <2>2. CASE Running("dry")
    <3>1. call["dry"] = call["clamped"] /\ T("dry") = T("clamped") /\ L("dry") = L("clamped")
      BY <1>1, <2>1, <2>2 DEF DryFollows, T, L
    <3>2. E("dry") = E("clamped")
      BY <1>1, <1>3, <2>1, <3>1, SameVerdict DEF Running, Calls
    <3>3. QED
      BY <1>6, <2>1, <2>2, <3>2 DEF Calls
  <2>3. CASE ~ Running("dry")
    BY <1>5, <1>6, <1>10, <2>1, <2>3 DEF Calls
  <2>4. QED
    BY <2>2, <2>3
<1>13. Returned("unclamped")' /\ ~ call'["unclamped"].used /\ call'["unclamped"].floored
         => call'["dry"].floored \/ call'["unclamped"].limited # {}
  <2> SUFFICES ASSUME Returned("unclamped")', ~ call'["unclamped"].used, call'["unclamped"].floored
               PROVE  call'["dry"].floored \/ call'["unclamped"].limited # {}
    OBVIOUS
  <2>1. /\ Running("unclamped") /\ call'["unclamped"] = E("unclamped")
        /\ E("unclamped").ended = "returned" /\ ~ call["unclamped"].used
    BY <1>1, <1>5, <1>6 DEF Returned, Calls
  <2>2. CASE Running("dry") /\ dens # 1
    <3>1. call["unclamped"] = call["clamped"]
      BY <1>1, <2>2 DEF UnclampedFollows
    <3>2. call["dry"] = call["unclamped"]
      BY <1>1, <2>1, <2>2, <3>1 DEF DryFollows
    <3>3. T("dry") = T("unclamped") /\ L("dry") = L("unclamped")
      BY <3>2 DEF T, L
    <3>4. E("unclamped").floored => E("dry").floored \/ E("unclamped").limited # {}
      BY <1>1, <1>3, <2>1, <3>2, <3>3, SameVerdict DEF Running, Calls
    <3>5. QED
      BY <1>6, <2>1, <2>2, <3>4 DEF Calls
  <2>3. CASE Running("dry") /\ dens = 1
    <3>1. call["dry"].failed
      BY <1>1, <2>3 DEF UnclampedFollows
    <3>2. E("dry").floored = TRUE
      BY <1>1, <2>3, <3>1, FailedIsFloored DEF Running, Calls
    <3>3. QED
      BY <1>6, <2>3, <3>2 DEF Calls
  <2>4. CASE ~ Running("dry")
    BY <1>6, <1>10, <2>4 DEF Calls
  <2>5. QED
    BY <2>2, <2>3, <2>4
<1>14. DryRunPredicts'
  BY <1>11, <1>12, <1>13 DEF DryRunPredicts, Calls
<1>15. QED
  BY <1>6, <1>7, <1>9, <1>14 DEF CallInv

(* The next cell starts with nothing of this one. *)
LEMMA NextCellStep == CallInv /\ NextCell => CallInv'
<1> SUFFICES ASSUME CallInv, NextCell PROVE CallInv'
  OBVIOUS
<1>1. /\ stage' = "guard" /\ dens' = 2 /\ UNCHANGED <<build, lenient, excised>> /\ TypeOK
      /\ call' = [c \in Calls |-> NewCall]
  BY DEF NextCell, CallInv
<1>2. TypeOK'
  BY <1>1, NewCallTyped DEF TypeOK, Stages
<1>3. \A c \in Calls : call'[c] = NewCall /\ call'[c].ended = "no"
  BY <1>1, NewCallTyped
<1>4. QED
  BY <1>1, <1>2, <1>3 DEF CallInv, StoredAgree, DryRunPredicts, Returned

(* The three calls keep together, whatever the equation of state. *)
LEMMA CallsInductive == CallSpec => []CallInv
<1>1. CallInit => CallInv
  <2> SUFFICES ASSUME CallInit PROVE CallInv
    OBVIOUS
  <2>1. TypeOK
    BY NewCallTyped DEF CallInit, TypeOK, Stages
  <2>2. \A c \in Calls : call[c] = NewCall /\ call[c].ended = "no"
    BY NewCallTyped DEF CallInit
  <2>3. QED
    BY <2>1, <2>2 DEF CallInit, CallInv, StoredAgree, DryRunPredicts, Returned
<1>2. CallInv /\ [CallNext]_callVars => CallInv'
  BY CallUnchanged, GuardStep, LimitStep, EnergyStep, BackupStep, FinishStep, NextCellStep DEF CallNext
<1>3. QED
  BY <1>1, <1>2, PTL DEF CallSpec

(* After every call of a stage, the stored conserved variables are those   *)
(* of the primitives it returns but for the two exceptions, by whichever   *)
(* of its paths it ended and whatever the inversions found.                *)
THEOREM StoredVariablesAgree == CallSpec => []StoredAgree
<1>1. CallInv => StoredAgree
  BY DEF CallInv
<1>2. QED
  BY <1>1, CallsInductive, PTL

(* The dry run of the first-order correction floors a cell if and only if  *)
(* the stage's call will, save where the backup is used and, if the stage  *)
(* does not enforce the floors, where it only limits.                      *)
THEOREM DryRunDecides == CallSpec => []DryRunPredicts
<1>1. CallInv => DryRunPredicts
  BY DEF CallInv
<1>2. QED
  BY <1>1, CallsInductive, PTL

-----------------------------------------------------------------------------
(* The fluxes shared between levels: slots of a message *)

(* The keys before a key: fewer than all, and different for different keys. *)
LEMMA SlotOfKey ==
  ASSUME NEW K, IsFiniteSet(K), K \subseteq Int \X Int, NEW k \in K
  PROVE  /\ Slot(K, k) \in 1 .. Cardinality(K)
         /\ \A l \in K : Slot(K, l) = Slot(K, k) => l = k
<1> DEFINE Prior(l) == {j \in K : Before(j, l)}
<1>1. \A l \in K : IsFiniteSet(Prior(l)) /\ Cardinality(Prior(l)) \in Nat
  BY FS_Subset, FS_CardinalityType
<1>2. \A j, l \in K : j # l => Before(j, l) \/ Before(l, j)
  BY DEF Before
<1>3. \A j, l \in K : Before(j, l) => Cardinality(Prior(j)) < Cardinality(Prior(l))
  <2> SUFFICES ASSUME NEW j \in K, NEW l \in K, Before(j, l)
               PROVE  Cardinality(Prior(j)) < Cardinality(Prior(l))
    OBVIOUS
  <2>1. j \notin Prior(j)
    BY DEF Before
  <2>2. Prior(j) \cup {j} \subseteq Prior(l)
    BY DEF Before
  <2>3. Cardinality(Prior(j) \cup {j}) = Cardinality(Prior(j)) + 1 /\ IsFiniteSet(Prior(j) \cup {j})
    BY <1>1, <2>1, FS_AddElement
  <2>4. Cardinality(Prior(j) \cup {j}) <= Cardinality(Prior(l))
    BY <1>1, <2>2, FS_Subset
  <2> HIDE DEF Prior
  <2> QED BY <1>1, <2>3, <2>4
<1>4. \A l \in K : Cardinality(Prior(l)) < Cardinality(K)
  <2> TAKE l \in K
  <2>1. l \notin Prior(l)
    BY DEF Before
  <2>2. Prior(l) \subseteq K \ {l} /\ IsFiniteSet(K \ {l})
    BY <2>1, FS_Subset
  <2>3. Cardinality(K \ {l}) = Cardinality(K) - 1
    BY FS_RemoveElement
  <2>4. Cardinality(Prior(l)) <= Cardinality(K \ {l})
    BY <2>2, FS_Subset
  <2> HIDE DEF Prior
  <2> QED BY <1>1, <2>3, <2>4, FS_CardinalityType
<1>5. \A l \in K : Slot(K, l) = Cardinality(Prior(l)) + 1
  BY DEF Slot
<1>6. Cardinality(K) \in Nat
  BY FS_CardinalityType
<1> HIDE DEF Prior
<1>7. Slot(K, k) \in 1 .. Cardinality(K)
  BY <1>1, <1>4, <1>5, <1>6
<1>8. ASSUME NEW l \in K, Slot(K, l) = Slot(K, k) PROVE l = k
  <2>1. Cardinality(Prior(l)) = Cardinality(Prior(k))
    BY <1>1, <1>5, <1>8
  <2> QED BY <2>1, <1>1, <1>2, <1>3
<1> QED BY <1>7, <1>8

(* A message has the contents of an item in the slot of its key. *)
LEMMA MessageHolds ==
  ASSUME NEW kind, NEW array, NEW S, NEW x \in S,
         IsFiniteSet({y.key : y \in S}), {y.key : y \in S} \subseteq Int \X Int,
         \A y \in S : y.key = x.key => y.quad = x.quad /\ y.elem = x.elem
  PROVE  Message(kind, array, S)[Slot({y.key : y \in S}, x.key)] = Contents(kind, array, x.quad, x.elem)
<1> DEFINE K == {y.key : y \in S}
           n == Slot(K, x.key)
           c == CHOOSE y \in S : Slot(K, y.key) = n
<1>1. x.key \in K
  OBVIOUS
<1>2. n \in 1 .. Cardinality(K)
  BY <1>1, SlotOfKey
<1>3. c \in S /\ Slot(K, c.key) = n
  OBVIOUS
<1>4. c.key = x.key
  <2>1. c.key \in K
    BY <1>3
  <2>2. IsFiniteSet(K) /\ K \subseteq Int \X Int
    OBVIOUS
  <2>3. Slot(K, c.key) = Slot(K, x.key)
    BY <1>3
  <2> HIDE DEF K, c, n
  <2> QED BY <1>1, <2>1, <2>2, <2>3, SlotOfKey
<1>5. c.quad = x.quad /\ c.elem = x.elem
  BY <1>3, <1>4
<1>6. Message(kind, array, S)[n] = Contents(kind, array, c.quad, c.elem)
  <2> HIDE DEF n
  <2> QED BY <1>2 DEF Message
<1> QED BY <1>5, <1>6

-----------------------------------------------------------------------------
(* The fluxes shared between levels: the faces *)

LEMMA QuadsNumbered ==
  ASSUME NEW m \in Meshes
  PROVE  \E n \in Nat : Quads(m) = 1 .. n
BY NumbersAssumption, FS_CardinalityType

LEMMA QuadFacts ==
  ASSUME NEW m \in Meshes, NEW q \in Quads(m)
  PROVE  /\ Size(Layer(m), q) \in {1, 2} /\ Size(Layer(m), q) = m.quads[q].size
         /\ \A i \in Axis : /\ m.quads[q].pos[i] \in Nat
                            /\ m.quads[q].pos[i] % m.quads[q].size = 0
                            /\ m.quads[q].pos[i] + m.quads[q].size <= m.len[i]
                            /\ m.len[i] \in Nat \ {0}
         /\ Rank(Layer(m), q) \in Nat /\ Rank(Layer(m), q) = m.quads[q].rank
         /\ q \in Nat
<1>1. Layer(m).quads = m.quads
  BY DEF Layer
<1>2. Rank(Layer(m), q) \in Ranks(m)
  BY <1>1 DEF Ranks, Rank
<1>3. Rank(Layer(m), q) \in Nat
  BY <1>2, NumbersAssumption
<1>4. q \in Nat
  <2>1. PICK n \in Nat : Quads(m) = 1 .. n
    BY QuadsNumbered
  <2> QED BY <2>1
<1>5. m.quads[q].size \in {1, 2}
  <2>1. 1 \in Axis
    BY DEF Axis
  <2> QED BY <2>1, MeshAssumption
<1>6. ASSUME NEW i \in Axis
      PROVE  /\ m.quads[q].pos[i] \in Nat
             /\ m.quads[q].pos[i] % m.quads[q].size = 0
             /\ m.quads[q].pos[i] + m.quads[q].size <= m.len[i]
             /\ m.len[i] \in Nat \ {0}
  BY MeshAssumption
<1> QED BY <1>1, <1>3, <1>4, <1>5, <1>6 DEF Size, Rank

LEMMA CellHasQuad ==
  ASSUME NEW m \in Meshes, NEW c \in CellsOf(m)
  PROVE  /\ CoveredBy(m)[c] \in Quads(m)
         /\ Covers(m, CoveredBy(m)[c], c)
         /\ \A n \in Quads(m) : Covers(m, n, c) => n = CoveredBy(m)[c]
<1>1. PICK q \in Quads(m) : Covers(m, q, c) /\ \A n \in Quads(m) : Covers(m, n, c) => n = q
  BY MeshAssumption
<1>2. CoveredBy(m)[c] = CHOOSE n \in Quads(m) : Covers(m, n, c)
  BY DEF CoveredBy
<1> QED BY <1>1, <1>2

(* A face has an axis and an end, and they tell it from the others. *)
LEMMA FaceIsAxisAndEnd ==
  ASSUME NEW f \in Face
  PROVE  /\ FaceAxis(f) \in Axis /\ f % 2 \in {0, 1} /\ f = 2 * (FaceAxis(f) - 1) + (f % 2)
         /\ OppositeFace(f) \in Face /\ FaceAxis(OppositeFace(f)) = FaceAxis(f)
         /\ OppositeFace(f) # f
<1>1. f \in {0, 1, 2, 3, 4, 5}
  BY DEF Face
<1>2. /\ 0 \div 2 = 0 /\ 1 \div 2 = 0 /\ 2 \div 2 = 1 /\ 3 \div 2 = 1 /\ 4 \div 2 = 2 /\ 5 \div 2 = 2
      /\ 0 % 2 = 0 /\ 1 % 2 = 1 /\ 2 % 2 = 0 /\ 3 % 2 = 1 /\ 4 % 2 = 0 /\ 5 % 2 = 1
  OBVIOUS
<1>3. /\ FaceAxis(0) = 1 /\ FaceAxis(1) = 1 /\ FaceAxis(2) = 2
      /\ FaceAxis(3) = 2 /\ FaceAxis(4) = 3 /\ FaceAxis(5) = 3
  BY <1>2 DEF FaceAxis
<1>4. /\ OppositeFace(0) = 1 /\ OppositeFace(1) = 0 /\ OppositeFace(2) = 3
      /\ OppositeFace(3) = 2 /\ OppositeFace(4) = 5 /\ OppositeFace(5) = 4
  BY <1>2 DEF OppositeFace
<1>5. CASE f = 0
  BY <1>2, <1>3, <1>4, <1>5 DEF Face, Axis
<1>6. CASE f = 1
  BY <1>2, <1>3, <1>4, <1>6 DEF Face, Axis
<1>7. CASE f = 2
  BY <1>2, <1>3, <1>4, <1>7 DEF Face, Axis
<1>8. CASE f = 3
  BY <1>2, <1>3, <1>4, <1>8 DEF Face, Axis
<1>9. CASE f = 4
  BY <1>2, <1>3, <1>4, <1>9 DEF Face, Axis
<1>10. CASE f = 5
  BY <1>2, <1>3, <1>4, <1>10 DEF Face, Axis
<1> QED BY <1>1, <1>5, <1>6, <1>7, <1>8, <1>9, <1>10

(* The other axes of an axis, and what At puts where. *)
LEMMA AtIndices ==
  ASSUME NEW a \in Axis, NEW x, NEW y, NEW z
  PROVE  /\ Others[a][1] \in Axis /\ Others[a][2] \in Axis
         /\ Others[a][1] # a /\ Others[a][2] # a /\ Others[a][1] # Others[a][2]
         /\ Axis = {a, Others[a][1], Others[a][2]}
         /\ At(a, x, y, z)[a] = x
         /\ At(a, x, y, z)[Others[a][1]] = y
         /\ At(a, x, y, z)[Others[a][2]] = z
<1>1. /\ Others[a][1] \in Axis /\ Others[a][2] \in Axis
      /\ Others[a][1] # a /\ Others[a][2] # a /\ Others[a][1] # Others[a][2]
      /\ Axis = {a, Others[a][1], Others[a][2]}
  BY DEF Axis, Others
<1> QED BY <1>1 DEF At

(* The cell across a face of a quadrant of size 2, at one of the four places of
   its children: a cell of the mesh, in the same plane for all four, and level
   with the quadrant along the face. *)
CellAt(m, q, f, b) == Wrap(Layer(m), CellAcross(Layer(m), q, f, b))
LEMMA CellsAcrossFace ==
  ASSUME NEW m \in Meshes, NEW q \in Quads(m), NEW f \in Face, NEW b \in Child,
         b = 0 \/ m.quads[q].size = 2
  PROVE  LET a == FaceAxis(f)  p == m.quads[q].pos IN
         /\ CellAt(m, q, f, b) \in CellsOf(m)
         /\ CellAt(m, q, f, b)[a] = CellAt(m, q, f, 0)[a]
         /\ CellAt(m, q, f, b)[Others[a][1]] = p[Others[a][1]] + (b % 2)
         /\ CellAt(m, q, f, b)[Others[a][2]] = p[Others[a][2]] + b \div 2
<1> DEFINE a == FaceAxis(f)
           u == Others[a][1]
           v == Others[a][2]
           p == m.quads[q].pos
           s == m.quads[q].size
           x == p[a] + (IF f % 2 = 1 THEN s ELSE -1)
           c == CellAcross(Layer(m), q, f, b)
           o == CellAcross(Layer(m), q, f, 0)
<1>1. /\ Layer(m).quads = m.quads /\ Layer(m).len = m.len /\ Layer(m).periodic = m.periodic
  BY DEF Layer
<1>2. /\ a \in Axis /\ u \in Axis /\ v \in Axis /\ u # a /\ v # a /\ u # v /\ Axis = {a, u, v}
  BY FaceIsAxisAndEnd, AtIndices
<1>3. c[a] = x /\ c[u] = p[u] + (b % 2) /\ c[v] = p[v] + b \div 2
  <2> DEFINE y == p[u] + (b % 2)
             z == p[v] + (b \div 2)
  <2>1. c = At(a, x, y, z)
    BY <1>1 DEF CellAcross, Size
  <2>2. At(a, x, y, z)[a] = x /\ At(a, x, y, z)[u] = y /\ At(a, x, y, z)[v] = z
    <3> HIDE DEF a, x, y, z
    <3> QED BY <1>2, AtIndices
  <2>3. c[a] = x /\ c[u] = y /\ c[v] = z
    <3> HIDE DEF c, a, x, u, v, y, z
    <3> QED BY <2>1, <2>2
  <2> QED BY <2>3
<1>4. o[a] = x
  <2> DEFINE y == p[u] + (0 % 2)
             z == p[v] + (0 \div 2)
  <2>1. o = At(a, x, y, z)
    BY <1>1 DEF CellAcross, Size
  <2>2. At(a, x, y, z)[a] = x /\ At(a, x, y, z)[u] = y /\ At(a, x, y, z)[v] = z
    <3> HIDE DEF a, x, y, z
    <3> QED BY <1>2, AtIndices
  <2>3. o[a] = x /\ o[u] = y /\ o[v] = z
    <3> HIDE DEF o, a, x, u, v, y, z
    <3> QED BY <2>1, <2>2
  <2> QED BY <2>3
<1>5. \A i \in Axis : CellAt(m, q, f, b)[i] = c[i] % m.len[i] /\ CellAt(m, q, f, 0)[i] = o[i] % m.len[i]
  BY <1>1 DEF CellAt, Wrap, Axis
<1>6. \A i \in Axis : p[i] \in Nat /\ p[i] + s <= m.len[i] /\ m.len[i] \in Nat \ {0} /\ s \in {1, 2}
  BY QuadFacts
<1>7. b % 2 \in 0 .. s - 1 /\ b \div 2 \in 0 .. s - 1
  <2>1. b \in {0, 1, 2, 3}
    BY DEF Child
  <2>2. /\ 0 % 2 = 0 /\ 1 % 2 = 1 /\ 2 % 2 = 0 /\ 3 % 2 = 1
        /\ 0 \div 2 = 0 /\ 1 \div 2 = 0 /\ 2 \div 2 = 1 /\ 3 \div 2 = 1
    OBVIOUS
  <2>3. s \in {1, 2}
    BY <1>2, <1>6
  <2>4. CASE b = 0
    BY <2>2, <2>3, <2>4
  <2>5. CASE s = 2
    BY <2>1, <2>2, <2>5
  <2> QED BY <2>4, <2>5
<1>8. c[u] \in 0 .. m.len[u] - 1 /\ c[v] \in 0 .. m.len[v] - 1
  <2> DEFINE bu == b % 2
             bv == b \div 2
  <2>1. /\ p[u] \in Nat /\ p[u] + s <= m.len[u] /\ m.len[u] \in Nat
        /\ p[v] \in Nat /\ p[v] + s <= m.len[v] /\ m.len[v] \in Nat
        /\ s \in {1, 2}
    BY <1>2, <1>6
  <2>2. c[u] = p[u] + bu /\ c[v] = p[v] + bv /\ bu \in 0 .. s - 1 /\ bv \in 0 .. s - 1
    <3>1. c[u] = p[u] + bu /\ c[v] = p[v] + bv
      BY <1>3
    <3>2. bu \in 0 .. s - 1 /\ bv \in 0 .. s - 1
      BY <1>7
    <3> HIDE DEF u, v, p, s, c, bu, bv
    <3> QED BY <3>1, <3>2
  <2> HIDE DEF u, v, p, s, c, bu, bv
  <2> QED BY <2>1, <2>2
<1>9. x \in Int
  <2> HIDE DEF a, p, s
  <2>1. p[a] \in Nat /\ s \in {1, 2}
    BY <1>2, <1>6
  <2> QED BY <2>1
<1>10. x % m.len[a] \in 0 .. m.len[a] - 1
  <2> HIDE DEF x, a
  <2>1. m.len[a] \in Nat /\ m.len[a] > 0
    BY <1>2, <1>6
  <2> QED BY <1>9, <2>1
<1>11. c[u] % m.len[u] = c[u] /\ c[v] % m.len[v] = c[v]
  <2> HIDE DEF u, v, c
  <2>1. m.len[u] \in Nat /\ m.len[u] > 0 /\ m.len[v] \in Nat /\ m.len[v] > 0
    BY <1>2, <1>6
  <2> QED BY <1>8, <2>1
<1>12. CellAt(m, q, f, b) \in CellsOf(m)
  <2> DEFINE w == CellAt(m, q, f, b)
  <2>1. w = <<c[1] % m.len[1], c[2] % m.len[2], c[3] % m.len[3]>>
    BY <1>1 DEF CellAt, Wrap
  <2>2. \A i \in Axis : c[i] % m.len[i] \in 0 .. m.len[i] - 1
    <3>1. c[a] % m.len[a] \in 0 .. m.len[a] - 1
      <4> HIDE DEF c, x, a
      <4> QED BY <1>3, <1>10
    <3> HIDE DEF a, u, v, c
    <3> QED BY <3>1, <1>2, <1>8, <1>11
  <2>3. 1 \in Axis /\ 2 \in Axis /\ 3 \in Axis
    BY DEF Axis
  <2> DEFINE c1 == c[1] % m.len[1]
             c2 == c[2] % m.len[2]
             c3 == c[3] % m.len[3]
  <2>4. c1 \in 0 .. m.len[1] - 1 /\ c2 \in 0 .. m.len[2] - 1 /\ c3 \in 0 .. m.len[3] - 1 /\ w = <<c1, c2, c3>>
    BY <2>1, <2>2, <2>3
  <2> HIDE DEF c1, c2, c3
  <2> QED BY <2>4 DEF CellsOf
<1> QED BY <1>2, <1>3, <1>4, <1>5, <1>11, <1>12

(* A box of size 2 holds all four cells of a square that is aligned like it, or
   none of them. *)
LEMMA BoxHoldsSquare ==
  ASSUME NEW m \in Meshes, NEW n \in Quads(m), m.quads[n].size = 2, NEW f \in Face,
         NEW c, NEW o, Covers(m, n, c), NEW pu \in Nat, NEW pv \in Nat, pu % 2 = 0, pv % 2 = 0,
         o[FaceAxis(f)] = c[FaceAxis(f)],
         c[Others[FaceAxis(f)][1]] \in {pu, pu + 1}, c[Others[FaceAxis(f)][2]] \in {pv, pv + 1},
         o[Others[FaceAxis(f)][1]] = pu, o[Others[FaceAxis(f)][2]] = pv
  PROVE  Covers(m, n, o)
<1> DEFINE a == FaceAxis(f)
           u == Others[a][1]
           v == Others[a][2]
           x == m.quads[n].pos
<1>1. /\ a \in Axis /\ u \in Axis /\ v \in Axis /\ Axis = {a, u, v}
  BY FaceIsAxisAndEnd, AtIndices
<1>2. x[u] \in Nat /\ x[v] \in Nat /\ x[u] % 2 = 0 /\ x[v] % 2 = 0
  BY <1>1, QuadFacts
<1>3. \A i \in Axis : x[i] <= c[i] /\ c[i] < x[i] + 2
  BY DEF Covers
<1>4. x[u] = pu
  <2>1. x[u] <= c[u] /\ c[u] < x[u] + 2 /\ c[u] \in {pu, pu + 1}
    BY <1>1, <1>3
  <2> HIDE DEF x, u
  <2> QED BY <2>1, <1>2
<1>5. x[v] = pv
  <2>1. x[v] <= c[v] /\ c[v] < x[v] + 2 /\ c[v] \in {pv, pv + 1}
    BY <1>1, <1>3
  <2> HIDE DEF x, v
  <2> QED BY <2>1, <1>2
<1>6. \A i \in Axis : x[i] <= o[i] /\ o[i] < x[i] + 2
  <2>1. x[a] <= o[a] /\ o[a] < x[a] + 2
    BY <1>1, <1>3
  <2>2. x[u] <= o[u] /\ o[u] < x[u] + 2 /\ x[v] <= o[v] /\ o[v] < x[v] + 2
    <3>1. o[u] = pu /\ o[v] = pv
      OBVIOUS
    <3> HIDE DEF x, u, v
    <3> QED BY <3>1, <1>4, <1>5
  <2> HIDE DEF x, a, u, v
  <2> QED BY <2>1, <2>2, <1>1
<1> QED BY <1>6 DEF Covers

(* A descriptor of a face between levels has a coarse quadrant on one side and
   fine ones on the other, and the coarse face tells it from all others. *)
LEMMA HangingFaceFacts ==
  ASSUME NEW m \in Meshes, NEW d \in HangingFaces(Layer(m))
  PROVE  /\ d.coarse \in Quads(m) /\ d.face \in Face
         /\ m.quads[d.coarse].size = 2
         /\ \A b \in Child : d.fine[b] \in Quads(m) /\ m.quads[d.fine[b]].size = 1
         /\ \A e \in HangingFaces(Layer(m)) : e.coarse = d.coarse /\ e.face = d.face => e = d
<1> DEFINE L == Layer(m)
<1>1. L.quads = m.quads /\ L.covered = CoveredBy(m) /\ Quads(L) = Quads(m)
  BY DEF Layer, Quads
<1>2. PICK y \in Quads(m) \X Face :
        /\ Size(L, AcrossFace(L, y[1], y[2], 0)) < Size(L, y[1])
        /\ d = [coarse |-> y[1], face |-> y[2], fine |-> [b \in Child |-> AcrossFace(L, y[1], y[2], b)]]
  BY <1>1 DEF HangingFaces
<1> DEFINE q == y[1]
           f == y[2]
           o == CellAt(m, q, f, 0)
<1>3. q \in Quads(m) /\ f \in Face
  BY <1>2
<1>4. \A b \in Child : AcrossFace(L, q, f, b) = CoveredBy(m)[CellAt(m, q, f, b)]
  BY <1>1 DEF AcrossFace, Covering, CellAt
<1>5. \A n \in Quads(m) : Size(L, n) = m.quads[n].size /\ m.quads[n].size \in {1, 2}
  BY QuadFacts
<1>6. 0 \in Child /\ o \in CellsOf(m)
  BY <1>3, CellsAcrossFace DEF Child
<1>7. m.quads[CoveredBy(m)[o]].size = 1 /\ m.quads[q].size = 2
  <2>1. CoveredBy(m)[o] \in Quads(m)
    BY <1>6, CellHasQuad
  <2>2. m.quads[CoveredBy(m)[o]].size < m.quads[q].size
    BY <2>1, <1>2, <1>3, <1>4, <1>5, <1>6
  <2> QED BY <2>1, <2>2, <1>3, <1>5
<1>8. ASSUME NEW b \in Child
      PROVE  d.fine[b] \in Quads(m) /\ m.quads[d.fine[b]].size = 1
  <2> DEFINE c == CellAt(m, q, f, b)
             n == CoveredBy(m)[c]
             a == FaceAxis(f)
             p == m.quads[q].pos
  <2>1. d.fine[b] = n
    BY <1>2, <1>4
  <2>2. /\ c \in CellsOf(m) /\ c[a] = o[a]
        /\ c[Others[a][1]] = p[Others[a][1]] + (b % 2)
        /\ c[Others[a][2]] = p[Others[a][2]] + b \div 2
    BY <1>3, <1>7, CellsAcrossFace
  <2>3. o[Others[a][1]] = p[Others[a][1]] + (0 % 2) /\ o[Others[a][2]] = p[Others[a][2]] + 0 \div 2
    BY <1>3, <1>6, <1>7, CellsAcrossFace
  <2>4. n \in Quads(m) /\ Covers(m, n, c)
    BY <2>2, CellHasQuad
  <2>5. ASSUME m.quads[n].size = 2 PROVE FALSE
    <3> DEFINE pu == p[Others[a][1]]
               pv == p[Others[a][2]]
    <3>1. pu \in Nat /\ pv \in Nat /\ pu % 2 = 0 /\ pv % 2 = 0
      <4>1. Others[a][1] \in Axis /\ Others[a][2] \in Axis
        BY <1>3, FaceIsAxisAndEnd, AtIndices
      <4> QED BY <4>1, <1>3, <1>7, QuadFacts
    <3>2. c[Others[a][1]] \in {pu, pu + 1} /\ c[Others[a][2]] \in {pv, pv + 1}
      <4>1. b % 2 \in {0, 1} /\ b \div 2 \in {0, 1}
        BY DEF Child
      <4>2. pu + 0 = pu /\ pv + 0 = pv
        BY <3>1
      <4> DEFINE bu == b % 2
                 bv == b \div 2
      <4>3. c[Others[a][1]] = pu + bu /\ c[Others[a][2]] = pv + bv
        BY <2>2
      <4>4. bu \in {0, 1} /\ bv \in {0, 1}
        BY <4>1
      <4> HIDE DEF c, pu, pv, bu, bv
      <4> QED BY <4>2, <4>3, <4>4
    <3>3. o[Others[a][1]] = pu /\ o[Others[a][2]] = pv
      <4> DEFINE zu == 0 % 2
                 zv == 0 \div 2
      <4>1. zu = 0 /\ zv = 0
        OBVIOUS
      <4>2. o[Others[a][1]] = pu + zu /\ o[Others[a][2]] = pv + zv
        BY <2>3
      <4> HIDE DEF o, pu, pv, zu, zv
      <4> QED BY <4>1, <4>2, <3>1
    <3>4. Covers(m, n, o)
      <4> HIDE DEF n, c, o, pu, pv
      <4> QED BY <3>1, <3>2, <3>3, <2>2, <2>4, <2>5, <1>3, BoxHoldsSquare
    <3>5. n = CoveredBy(m)[o]
      BY <3>4, <2>4, <1>6, CellHasQuad
    <3> QED BY <3>5, <2>5, <1>7
  <2> QED BY <2>1, <2>4, <2>5, <1>5
<1>9. ASSUME NEW e \in HangingFaces(L), e.coarse = d.coarse, e.face = d.face PROVE e = d
  <2>1. PICK z \in Quads(m) \X Face :
          e = [coarse |-> z[1], face |-> z[2], fine |-> [b \in Child |-> AcrossFace(L, z[1], z[2], b)]]
    BY <1>1 DEF HangingFaces
  <2>2. z[1] = y[1] /\ z[2] = y[2]
    BY <2>1, <1>2, <1>9
  <2> QED BY <2>1, <2>2, <1>2
<1> QED BY <1>2, <1>3, <1>7, <1>8, <1>9

(* The ghost layer of a mesh holds these descriptors, and the lists made of
   them for each pair of ranks. *)
LEMMA RefluxFields ==
  ASSUME NEW m \in Meshes
  PROVE  LET G == RefluxOf[m] IN
         /\ G.quads = m.quads /\ Quads(G) = Quads(m) /\ Ranks(G) = Ranks(m)
         /\ \A q \in Quads(m) : /\ G.hanging[q] = {d \in HangingFaces(Layer(m)) : d.coarse = q}
                                /\ Rank(G, q) = Rank(Layer(m), q)
                                /\ Rank(G, q) \in Ranks(m)
         /\ \A r, s \in Ranks(m) : r # s =>
              /\ G.sends["flux"][r][s] = FaceSends(Layer(m), r, s)
              /\ G.due["flux"][r][s] = FaceDue(Layer(m), r, s)
<1> DEFINE L == Layer(m)
           G == RefluxOf[m]
<1>1. L.quads = m.quads /\ Quads(L) = Quads(m) /\ Ranks(L) = Ranks(m)
  BY DEF Layer, Quads, Ranks
<1>2. G = WithReflux(L)
  BY DEF RefluxOf
<1>3. /\ G.quads = L.quads /\ G.sends = SendLists(L) /\ G.due = DueLists(L)
      /\ G.hanging = [q \in Quads(L) |-> {d \in HangingFaces(L) : d.coarse = q}]
  <2> HIDE DEF L
  <2> QED BY <1>2 DEF WithReflux
<1>4. Quads(G) = Quads(m) /\ Ranks(G) = Ranks(m)
  BY <1>1, <1>3 DEF Quads, Ranks
<1>5. \A q \in Quads(m) : /\ G.hanging[q] = {d \in HangingFaces(L) : d.coarse = q}
                          /\ Rank(G, q) = Rank(L, q) /\ Rank(G, q) \in Ranks(m)
  <2>1. \A q \in Quads(m) : G.hanging[q] = {d \in HangingFaces(L) : d.coarse = q}
    BY <1>1, <1>3
  <2>2. \A q \in Quads(m) : Rank(G, q) = Rank(L, q) /\ Rank(G, q) \in Ranks(m)
    BY <1>1, <1>3 DEF Rank, Ranks
  <2> QED BY <2>1, <2>2
<1>6. ASSUME NEW r \in Ranks(m), NEW s \in Ranks(m), r # s
      PROVE  G.sends["flux"][r][s] = FaceSends(L, r, s) /\ G.due["flux"][r][s] = FaceDue(L, r, s)
  <2> HIDE DEF L, G
  <2>1. SendLists(L)["flux"][r][s] = FaceSends(L, r, s)
    BY <1>1, <1>6 DEF SendLists, Peerwise, Kinds
  <2>2. DueLists(L)["flux"][r][s] = FaceDue(L, r, s)
    BY <1>1, <1>6 DEF DueLists, Peerwise, Kinds
  <2> QED BY <2>1, <2>2, <1>3
<1> QED BY <1>1, <1>3, <1>4, <1>5, <1>6

(* Both ends of a message list the same keys, each for one quadrant and face. *)
LEMMA SameKeys ==
  ASSUME NEW m \in Meshes, NEW r \in Ranks(m), NEW s \in Ranks(m), r # s
  PROVE  LET S == FaceSends(Layer(m), s, r)
             K == {y.key : y \in S}
         IN /\ K = FaceDue(Layer(m), r, s)
            /\ IsFiniteSet(K) /\ K \subseteq Int \X Int
            /\ \A y, z \in S : y.key = z.key => y.quad = z.quad /\ y.elem = z.elem
<1> DEFINE L == Layer(m)
           X == {y \in HangingFaces(L) \X Child : Rank(L, y[1].coarse) = r /\ Rank(L, y[1].fine[y[2]]) = s}
           key(x) == <<x[1].fine[x[2]], KeyFace(s, r, x[1].face, OppositeFace(x[1].face))>>
           S == FaceSends(L, s, r)
           K == {y.key : y \in S}
<1>1. r \in Nat /\ s \in Nat
  BY NumbersAssumption
<1>2. S = {Sending(x[1].fine[x[2]], OppositeFace(x[1].face), key(x)) : x \in X}
  BY DEF FaceSends
<1>3. FaceDue(L, r, s) = {<<x[1].fine[x[2]], KeyFace(r, s, OppositeFace(x[1].face), x[1].face)>> : x \in X}
  BY DEF FaceDue
<1>4. \A x \in X : KeyFace(r, s, OppositeFace(x[1].face), x[1].face) = KeyFace(s, r, x[1].face, OppositeFace(x[1].face))
  BY <1>1 DEF KeyFace
<1>5. \A x \in X : key(x) \in Quads(m) \X Face
  <2> TAKE x \in X
  <2>1. x[1] \in HangingFaces(L) /\ x[2] \in Child
    OBVIOUS
  <2>2. x[1].fine[x[2]] \in Quads(m) /\ x[1].face \in Face /\ OppositeFace(x[1].face) \in Face
    BY <2>1, HangingFaceFacts, FaceIsAxisAndEnd
  <2> QED BY <2>2 DEF KeyFace
<1>6. K = {key(x) : x \in X}
  <2> HIDE DEF X, key
  <2>1. \A x \in X : Sending(x[1].fine[x[2]], OppositeFace(x[1].face), key(x)).key = key(x)
    BY DEF Sending
  <2> DEFINE item(x) == Sending(x[1].fine[x[2]], OppositeFace(x[1].face), key(x))
  <2>2. S = {item(x) : x \in X} /\ \A x \in X : item(x).key = key(x)
    BY <1>2, <2>1
  <2> HIDE DEF item, S
  <2> QED BY <2>2
<1>7. K = FaceDue(L, r, s)
  <2> HIDE DEF X, S, K
  <2> QED BY <1>3, <1>4, <1>6
<1>8. IsFiniteSet(Quads(m) \X Face) /\ Quads(m) \X Face \subseteq Int \X Int
  <2>1. PICK n \in Nat : Quads(m) = 1 .. n
    BY QuadsNumbered
  <2>2. IsFiniteSet(1 .. n) /\ IsFiniteSet(0 .. 5)
    <3>1. n \in Int /\ 1 \in Int /\ 0 \in Int /\ 5 \in Int
      OBVIOUS
    <3> QED BY <3>1, FS_Interval
  <2>3. IsFiniteSet((1 .. n) \X (0 .. 5))
    BY <2>2, FS_Product
  <2> QED BY <2>1, <2>3 DEF Face
<1>9. K \subseteq Quads(m) \X Face
  <2> HIDE DEF X, key, K
  <2> QED BY <1>5, <1>6
<1>10. IsFiniteSet(K) /\ K \subseteq Int \X Int
  <2> HIDE DEF K
  <2> QED BY <1>8, <1>9, FS_Subset
<1>11. ASSUME NEW y \in S, NEW z \in S, y.key = z.key PROVE y.quad = z.quad /\ y.elem = z.elem
  <2>1. PICK x \in X : y = Sending(x[1].fine[x[2]], OppositeFace(x[1].face), key(x))
    <3> HIDE DEF X, key, S
    <3> QED BY <1>2
  <2>2. PICK w \in X : z = Sending(w[1].fine[w[2]], OppositeFace(w[1].face), key(w))
    <3> HIDE DEF X, key, S
    <3> QED BY <1>2
  <2>3. key(x) = key(w)
    <3> HIDE DEF X, key, S
    <3> QED BY <2>1, <2>2, <1>11 DEF Sending
  <2>4. x[1].fine[x[2]] = w[1].fine[w[2]]
    BY <2>3
  <2>5. KeyFace(s, r, x[1].face, OppositeFace(x[1].face)) = KeyFace(s, r, w[1].face, OppositeFace(w[1].face))
    BY <2>3
  <2>6. OppositeFace(x[1].face) = OppositeFace(w[1].face)
    <3>1. CASE r < s
      BY <2>5, <3>1 DEF KeyFace
    <3>2. CASE ~(r < s)
      BY <2>5, <3>2 DEF KeyFace
    <3> QED BY <3>1, <3>2
  <2> HIDE DEF key, X
  <2> QED BY <2>1, <2>2, <2>4, <2>6 DEF Sending
<1> QED BY <1>7, <1>10, <1>11

(* What the owner of a fine quadrant posts, the owner of the coarse one finds
   under the key it looks for: the averages of that quadrant's fluxes. *)
LEMMA FineFluxesArrive ==
  ASSUME NEW m \in Meshes, NEW r \in Ranks(m), NEW d \in HangingFaces(Layer(m)), NEW b \in Child,
         Rank(RefluxOf[m], d.coarse) = r, Rank(RefluxOf[m], d.fine[b]) # r,
         NEW array
  PROVE  LET G == RefluxOf[m]
             s == Rank(G, d.fine[b])
             k == FineKey(G, r, d, b)
         IN /\ s \in Ranks(m) /\ k[1] = d.fine[b]
            /\ k \in G.due["flux"][r][s]
            /\ Posted(G, "flux", array, s)[r][Slot(G.due["flux"][r][s], k)] =
                 Contents("flux", array, d.fine[b], OppositeFace(d.face))
<1> DEFINE G == RefluxOf[m]
           L == Layer(m)
           n == d.fine[b]
           s == Rank(G, n)
           k == FineKey(G, r, d, b)
           S == FaceSends(L, s, r)
           K == {y.key : y \in S}
           x == Sending(n, OppositeFace(d.face), <<n, KeyFace(s, r, d.face, OppositeFace(d.face))>>)
<1>1. d.coarse \in Quads(m) /\ n \in Quads(m) /\ d.face \in Face
  BY HangingFaceFacts
<1>2. s \in Ranks(m) /\ s # r /\ Rank(L, d.coarse) = r /\ Rank(L, n) = s
  BY <1>1, RefluxFields
<1>3. r \in Nat /\ s \in Nat
  BY <1>2, NumbersAssumption
<1>4. k = <<n, KeyFace(s, r, d.face, OppositeFace(d.face))>>
  BY <1>2, <1>3 DEF FineKey, KeyFace
<1>5. x \in S
  <2>1. <<d, b>> \in {y \in HangingFaces(L) \X Child : Rank(L, y[1].coarse) = r /\ Rank(L, y[1].fine[y[2]]) = s}
    BY <1>2
  <2> DEFINE w == <<d, b>>
  <2>2. x = Sending(w[1].fine[w[2]], OppositeFace(w[1].face),
                    <<w[1].fine[w[2]], KeyFace(s, r, w[1].face, OppositeFace(w[1].face))>>)
    OBVIOUS
  <2> HIDE DEF L, s, w, x
  <2> QED BY <2>1, <2>2 DEF FaceSends, w
<1>6. x.quad = n /\ x.elem = OppositeFace(d.face) /\ x.key = k
  BY <1>4 DEF Sending
<1>7. K = FaceDue(L, r, s) /\ IsFiniteSet(K) /\ K \subseteq Int \X Int
  BY <1>2, SameKeys
<1>8. \A y \in S : y.key = x.key => y.quad = x.quad /\ y.elem = x.elem
  <2>1. \A y, z \in S : y.key = z.key => y.quad = z.quad /\ y.elem = z.elem
    BY <1>2, SameKeys
  <2> HIDE DEF S, x
  <2> QED BY <2>1, <1>5
<1>9. G.sends["flux"][s][r] = S /\ G.due["flux"][r][s] = K /\ Ranks(G) = Ranks(m)
  BY <1>2, <1>7, RefluxFields
<1>10. k \in K
  <2> HIDE DEF S, x, k
  <2> QED BY <1>5, <1>6
<1>11. Message("flux", array, S)[Slot(K, k)] = Contents("flux", array, n, OppositeFace(d.face))
  <2>1. Message("flux", array, S)[Slot({y.key : y \in S}, x.key)] = Contents("flux", array, x.quad, x.elem)
    <3>1. IsFiniteSet({y.key : y \in S}) /\ {y.key : y \in S} \subseteq Int \X Int
      BY <1>7
    <3> HIDE DEF S, x
    <3> QED BY <3>1, <1>5, <1>8, MessageHolds
  <2> HIDE DEF S, x, k
  <2> QED BY <2>1, <1>6
<1>12. Posted(G, "flux", array, s)[r] = Message("flux", array, S)
  <2> HIDE DEF G, S, s
  <2> QED BY <1>9 DEF Posted
<1>13. k[1] = n
  BY <1>4
<1>14. Posted(G, "flux", array, s)[r][Slot(G.due["flux"][r][s], k)] = Contents("flux", array, n, OppositeFace(d.face))
  <2> HIDE DEF G, S, k, s, n
  <2> QED BY <1>9, <1>11, <1>12
<1>15. k \in G.due["flux"][r][s]
  <2> HIDE DEF G, S, k, s, n
  <2> QED BY <1>9, <1>10
<1> QED BY <1>2, <1>13, <1>14, <1>15

-----------------------------------------------------------------------------
(* The fluxes shared between levels: the correction *)

LEMMA ChildOfCell ==
  ASSUME NEW i \in Cell, NEW j \in Cell
  PROVE  ChildAt(i, j) \in Child /\ i % Mid \in Half /\ j % Mid \in Half
<1>1. ChildAt(i, j) \in Child
  BY DEF ChildAt, Child
<1>2. nx \div 2 = 2 /\ Mid = 2 /\ Half = 0 .. 1
  BY DEF Mid, nx, Half
<1>3. i \in Nat /\ j \in Nat
  BY DEF Cell
<1>4. i % 2 \in 0 .. 1 /\ j % 2 \in 0 .. 1
  BY <1>3
<1> QED BY <1>1, <1>2, <1>4

(* The four fluxes that are averaged, by their indices on the fine face. *)
LEMMA FourFineFluxes ==
  ASSUME NEW array, NEW d, d.face \in Face, NEW i \in Cell, NEW j \in Cell
  PROVE  AveragedFlux(array, d.fine[ChildAt(i, j)], OppositeFace(d.face), i % Mid, j % Mid) =
           FourAcross(array, d, i, j)
<1> DEFINE n == d.fine[ChildAt(i, j)]
           f == d.face
           h(x, y) == array[n][<<FaceAxis(f), OnFace(OppositeFace(f), x, y)>>]
           X == 2 * (i % Mid)
           Z == 2 * (j % Mid)
<1>1. FaceAxis(OppositeFace(f)) = FaceAxis(f)
  BY FaceIsAxisAndEnd
<1>2. X = (2 * i) % nx /\ Z = (2 * j) % nx
  <2>1. i \in {0, 1, 2, 3} /\ j \in {0, 1, 2, 3}
    BY DEF Cell, nx
  <2>2. Mid = 2 /\ nx = 4
    BY DEF Mid, nx
  <2>3. \A k \in {0, 1, 2, 3} : 2 * (k % 2) = (2 * k) % 4
    OBVIOUS
  <2> QED BY <2>1, <2>2, <2>3
<1>3. AveragedFlux(array, n, OppositeFace(f), i % Mid, j % Mid) = UNION {h(X + (b % 2), Z + b \div 2) : b \in Child}
  BY <1>1 DEF AveragedFlux
<1>4. {h(X + (b % 2), Z + b \div 2) : b \in Child} = {h(X + a, Z + b) : a \in {0, 1}, b \in {0, 1}}
  <2> HIDE DEF h, X, Z
  <2>1. Child = {0, 1, 2, 3}
    BY DEF Child
  <2>2. /\ 0 % 2 = 0 /\ 1 % 2 = 1 /\ 2 % 2 = 0 /\ 3 % 2 = 1
        /\ 0 \div 2 = 0 /\ 1 \div 2 = 0 /\ 2 \div 2 = 1 /\ 3 \div 2 = 1
    OBVIOUS
  <2>3. {h(X + (b % 2), Z + b \div 2) : b \in Child} = {h(X + 0, Z + 0), h(X + 1, Z + 0), h(X + 0, Z + 1), h(X + 1, Z + 1)}
    BY <2>1, <2>2
  <2>4. {h(X + a, Z + b) : a \in {0, 1}, b \in {0, 1}} = {h(X + 0, Z + 0), h(X + 1, Z + 0), h(X + 0, Z + 1), h(X + 1, Z + 1)}
    OBVIOUS
  <2> QED BY <2>3, <2>4
<1> DEFINE U == (2 * i) % nx
           V == (2 * j) % nx
<1>5. AveragedFlux(array, n, OppositeFace(f), i % Mid, j % Mid) = UNION {h(U + a, V + b) : a \in {0, 1}, b \in {0, 1}}
  <2>1. X = U /\ Z = V
    BY <1>2
  <2>2. {h(X + a, Z + b) : a \in {0, 1}, b \in {0, 1}} = {h(U + a, V + b) : a \in {0, 1}, b \in {0, 1}}
    <3> HIDE DEF h, X, Z, U, V
    <3> QED BY <2>1
  <2> DEFINE A == AveragedFlux(array, n, OppositeFace(f), i % Mid, j % Mid)
             S == {h(X + (b % 2), Z + b \div 2) : b \in Child}
             S2 == {h(X + a, Z + b) : a \in {0, 1}, b \in {0, 1}}
             S3 == {h(U + a, V + b) : a \in {0, 1}, b \in {0, 1}}
  <2>3. A = UNION S /\ S = S2 /\ S2 = S3
    <3>1. A = UNION S
      BY <1>3
    <3>2. S = S2
      <4> HIDE DEF h, X, Z, U, V
      <4> QED BY <1>4
    <3>3. S2 = S3
      <4> HIDE DEF h, X, Z, U, V
      <4> QED BY <2>2
    <3> HIDE DEF A, S, S2, S3
    <3> QED BY <3>1, <3>2, <3>3
  <2>4. A = UNION S3
    <3> HIDE DEF A, S, S2, S3
    <3> QED BY <2>3
  <2> QED BY <2>4
<1> QED BY <1>5 DEF FourAcross

(* Cells of a face are told from those of other faces by their place. *)
LEMMA PlaceOfFaceCell ==
  ASSUME NEW f \in Face, NEW i \in Cell, NEW j \in Cell
  PROVE  LET p == <<FaceAxis(f), OnFace(f, i, j)>> IN
         /\ p \in FluxPlaces /\ p[1] = FaceAxis(f) /\ LiesOn(f, p) /\ I(f, p) = i /\ J(f, p) = j
         /\ \A e \in Face : FaceAxis(e) = p[1] /\ LiesOn(e, p) => e = f
<1> DEFINE a == FaceAxis(f)
           at == OnFace(f, i, j)
           x == nx * (f % 2)
<1>1. a \in Axis /\ f % 2 \in {0, 1} /\ f = 2 * (a - 1) + (f % 2)
  BY FaceIsAxisAndEnd
<1>2. at[a] = x /\ at[Others[a][1]] = i /\ at[Others[a][2]] = j
  <2>1. at = At(a, x, i, j)
    BY DEF OnFace
  <2> HIDE DEF a, at, x
  <2> QED BY <1>1, <2>1, AtIndices
<1>3. <<a, at>> \in FluxPlaces
  BY DEF FluxPlaces
<1>4. LiesOn(f, <<a, at>>) /\ I(f, <<a, at>>) = i /\ J(f, <<a, at>>) = j
  BY <1>2 DEF LiesOn, I, J
<1>5. ASSUME NEW e \in Face, FaceAxis(e) = a, LiesOn(e, <<a, at>>) PROVE e = f
  <2>1. e % 2 \in {0, 1} /\ e = 2 * (a - 1) + (e % 2)
    BY <1>5, FaceIsAxisAndEnd
  <2>2. 4 * (e % 2) = 4 * (f % 2)
    BY <1>2, <1>5 DEF LiesOn, nx
  <2> DEFINE fb == f % 2
             eb == e % 2
  <2>3. fb \in {0, 1} /\ eb \in {0, 1} /\ 4 * eb = 4 * fb
    BY <1>1, <2>1, <2>2
  <2>4. eb = fb
    <3> HIDE DEF eb, fb
    <3> QED BY <2>3
  <2> QED BY <1>1, <2>1, <2>4
<1> QED BY <1>3, <1>4, <1>5

(* On the rank of a coarse quadrant, with its own fine fluxes and those it was
   sent, the correction leaves the fine average on every face between levels
   and what was there on a quadrant without one. *)
Given(m, r, array, mailed) ==
  /\ \A n \in Quads(m) : Rank(RefluxOf[m], n) = r => array[n] = RawFluxes(m)[n]
  /\ \A d \in HangingFaces(Layer(m)), b \in Child :
       Rank(RefluxOf[m], d.coarse) = r /\ Rank(RefluxOf[m], d.fine[b]) # r =>
         Received(RefluxOf[m], mailed, "flux", r, FineKey(RefluxOf[m], r, d, b)) =
           Contents("flux", RawFluxes(m), d.fine[b], OppositeFace(d.face))
FineAverages(m, array, q) ==
  /\ RefluxOf[m].hanging[q] = {} => array[q] = RawFluxes(m)[q]
  /\ \A d \in RefluxOf[m].hanging[q] : \A i \in Cell, j \in Cell :
       array[q][<<FaceAxis(d.face), OnFace(d.face, i, j)>>] =
         AveragedFlux(RawFluxes(m), d.fine[ChildAt(i, j)], OppositeFace(d.face), i % Mid, j % Mid)

LEMMA FineFluxOfCell ==
  ASSUME NEW m \in Meshes, NEW r \in Ranks(m), NEW array, NEW mailed, Given(m, r, array, mailed),
         NEW d \in HangingFaces(Layer(m)), Rank(RefluxOf[m], d.coarse) = r, NEW i \in Cell, NEW j \in Cell
  PROVE  FineFlux(RefluxOf[m], array, mailed, r, d, i, j) =
           AveragedFlux(RawFluxes(m), d.fine[ChildAt(i, j)], OppositeFace(d.face), i % Mid, j % Mid)
<1> DEFINE b == ChildAt(i, j)
           n == d.fine[b]
           G == RefluxOf[m]
           f == OppositeFace(d.face)
<1>1. b \in Child /\ i % Mid \in Half /\ j % Mid \in Half
  BY ChildOfCell
<1>2. n \in Quads(m)
  BY <1>1, HangingFaceFacts
<1>3. CASE Rank(G, n) = r
  <2>1. array[n] = RawFluxes(m)[n]
    BY <1>2, <1>3 DEF Given
  <2>2. FineFlux(G, array, mailed, r, d, i, j) = AveragedFlux(array, n, f, i % Mid, j % Mid)
    BY <1>3 DEF FineFlux
  <2>3. AveragedFlux(array, n, f, i % Mid, j % Mid) = AveragedFlux(RawFluxes(m), n, f, i % Mid, j % Mid)
    <3> HIDE DEF n, f
    <3> QED BY <2>1 DEF AveragedFlux
  <2> QED BY <2>2, <2>3
<1>4. CASE Rank(G, n) # r
  <2>1. Received(G, mailed, "flux", r, FineKey(G, r, d, b)) = Contents("flux", RawFluxes(m), n, f)
    BY <1>1, <1>4 DEF Given
  <2>2. FineFlux(G, array, mailed, r, d, i, j) = Contents("flux", RawFluxes(m), n, f)[<<i % Mid, j % Mid>>]
    <3>1. FineFlux(G, array, mailed, r, d, i, j) = Received(G, mailed, "flux", r, FineKey(G, r, d, b))[<<i % Mid, j % Mid>>]
      BY <1>4 DEF FineFlux
    <3> HIDE DEF G, b, n, f
    <3> QED BY <2>1, <3>1
  <2>3. Contents("flux", RawFluxes(m), n, f)[<<i % Mid, j % Mid>>] = AveragedFlux(RawFluxes(m), n, f, i % Mid, j % Mid)
    <3> DEFINE x == i % Mid
               y == j % Mid
    <3>1. x \in Half /\ y \in Half
      BY <1>1
    <3>2. <<x, y>> \in Half \X Half /\ <<x, y>>[1] = x /\ <<x, y>>[2] = y
      BY <3>1
    <3>3. Contents("flux", RawFluxes(m), n, f) = [z \in Half \X Half |-> AveragedFlux(RawFluxes(m), n, f, z[1], z[2])]
      BY DEF Contents
    <3> DEFINE h(z) == AveragedFlux(RawFluxes(m), n, f, z[1], z[2])
    <3>4. Contents("flux", RawFluxes(m), n, f) = [z \in Half \X Half |-> h(z)]
      BY <3>3
    <3>5. Contents("flux", RawFluxes(m), n, f)[<<x, y>>] = h(<<x, y>>)
      <4> HIDE DEF h, n, f, x, y
      <4> QED BY <3>2, <3>4
    <3> QED BY <3>5
  <2> QED BY <2>2, <2>3
<1> QED BY <1>3, <1>4

LEMMA CorrectionAverages ==
  ASSUME NEW m \in Meshes, NEW r \in Ranks(m), NEW array, NEW mailed, Given(m, r, array, mailed),
         NEW q \in Quads(m), Rank(RefluxOf[m], q) = r
  PROVE  FineAverages(m, CorrectedFluxes(RefluxOf[m], array, mailed, r), q)
<1> DEFINE G == RefluxOf[m]
           new == CorrectedFluxes(G, array, mailed, r)
           Takes(p) == {e \in G.hanging[q] : FaceAxis(e.face) = p[1] /\ LiesOn(e.face, p)}
           W(p) == {FineFlux(G, array, mailed, r, d, I(d.face, p), J(d.face, p)) : d \in Takes(p)}
<1>1. Quads(G) = Quads(m) /\ G.hanging[q] = {d \in HangingFaces(Layer(m)) : d.coarse = q}
  BY RefluxFields
<1>2. array[q] = [p \in FluxPlaces |-> {<<q, p>>}] /\ RawFluxes(m)[q] = array[q]
  BY DEF Given, RawFluxes
<1>3. new[q] = [p \in FluxPlaces |-> Written(W(p), array[q][p])]
  <2>1. new[q] = [p \in DOMAIN array[q] |-> Written(W(p), array[q][p])]
    BY <1>1 DEF CorrectedFluxes, Kernel
  <2> HIDE DEF new, W
  <2> QED BY <1>2, <2>1
<1>4. ASSUME G.hanging[q] = {} PROVE new[q] = RawFluxes(m)[q]
  <2>1. \A p \in FluxPlaces : W(p) = {}
    BY <1>4
  <2> HIDE DEF new, W
  <2>2. new[q] = [p \in FluxPlaces |-> array[q][p]]
    BY <1>3, <2>1 DEF Written
  <2> QED BY <2>2, <1>2
<1>5. ASSUME NEW d \in G.hanging[q], NEW i \in Cell, NEW j \in Cell
      PROVE  new[q][<<FaceAxis(d.face), OnFace(d.face, i, j)>>] =
               AveragedFlux(RawFluxes(m), d.fine[ChildAt(i, j)], OppositeFace(d.face), i % Mid, j % Mid)
  <2> DEFINE p == <<FaceAxis(d.face), OnFace(d.face, i, j)>>
             v == FineFlux(G, array, mailed, r, d, i, j)
  <2>1. d \in HangingFaces(Layer(m)) /\ d.coarse = q /\ d.face \in Face
    BY <1>1, HangingFaceFacts
  <2>2. /\ p \in FluxPlaces /\ p[1] = FaceAxis(d.face) /\ LiesOn(d.face, p) /\ I(d.face, p) = i /\ J(d.face, p) = j
        /\ \A e \in Face : FaceAxis(e) = p[1] /\ LiesOn(e, p) => e = d.face
    BY <2>1, PlaceOfFaceCell
  <2>3. Takes(p) = {d}
    <3>1. d \in Takes(p)
      <4> HIDE DEF p
      <4> QED BY <2>2
    <3>2. ASSUME NEW e \in Takes(p) PROVE e = d
      <4>1. e \in HangingFaces(Layer(m)) /\ e.coarse = q /\ e.face \in Face
        BY <1>1, HangingFaceFacts
      <4>2. e.face = d.face
        <5> HIDE DEF p
        <5> QED BY <4>1, <2>2
      <4> QED BY <4>1, <4>2, <2>1, HangingFaceFacts
    <3> HIDE DEF Takes, p
    <3> QED BY <3>1, <3>2
  <2>4. W(p) = {v}
    <3> HIDE DEF Takes, p, G
    <3> QED BY <2>2, <2>3
  <2>5. Written({v}, array[q][p]) = v
    <3>1. Cardinality({v}) = 1
      BY FS_Singleton
    <3> HIDE DEF v, p
    <3> QED BY <3>1 DEF Written
  <2>6. new[q][p] = v
    <3> HIDE DEF new, W, p, v
    <3> QED BY <1>3, <2>2, <2>4, <2>5
  <2>7. v = AveragedFlux(RawFluxes(m), d.fine[ChildAt(i, j)], OppositeFace(d.face), i % Mid, j % Mid)
    BY <2>1, FineFluxOfCell
  <2> QED BY <2>6, <2>7
<1> QED BY <1>4, <1>5 DEF FineAverages

-----------------------------------------------------------------------------
(* The fluxes shared between levels: the inductive invariant *)

Raw(q) == RawFluxes(job.mesh)[q]
(* A rank's fluxes are its own until the correction, then the fine averages;
   what it advances its quadrants with is what it then had; and what has been
   posted are the averages of the fine fluxes before any correction. *)
Uncorrected == \A r \in Procs : doing[r] \in {"fill flux buffers", "fill emf buffers", "correct fluxes"} =>
                 \A q \in Quads(job.mesh) : Rank(g, q) = r => flux[q] = Raw(q)
Averaged    == \A r \in Procs : doing[r] \in {"add fluxes", "correct emfs", "update ct", "barrier"} =>
                 \A q \in Quads(job.mesh) : Rank(g, q) = r => FineAverages(job.mesh, flux, q)
InUse       == \A r \in Procs : doing[r] \in {"correct emfs", "update ct", "barrier"} =>
                 \A q \in Quads(job.mesh) : Rank(g, q) = r => used.flux[q] = flux[q]
Found(d, b) == LET s == Rank(g, d.fine[b])  r == Rank(g, d.coarse) IN
               mail["flux"][s][r][Slot(g.due["flux"][r][s], FineKey(g, r, d, b))]
Posting     == \A d \in HangingFaces(Layer(job.mesh)), b \in Child :
                 /\ Rank(g, d.fine[b]) # Rank(g, d.coarse)
                 /\ Rank(g, d.fine[b]) \in DOMAIN mail["flux"]
                 => Found(d, b) = Contents("flux", RawFluxes(job.mesh), d.fine[b], OppositeFace(d.face))
FluxInv ==
  /\ job \in Cases
  /\ doing = [r \in Procs |-> doing[r]]
  /\ mail = [kind \in Kinds |-> mail[kind]]
  /\ DOMAIN flux = Quads(job.mesh)
  /\ used = [flux |-> used.flux, emf |-> used.emf] /\ DOMAIN used.flux = Quads(job.mesh)
  /\ Uncorrected /\ Averaged /\ InUse /\ Posting

LEMMA InitFluxInv == Init => FluxInv
<1> SUFFICES ASSUME Init PROVE FluxInv
  OBVIOUS
<1>1. /\ job \in Cases /\ doing = [r \in Procs |-> "compute"] /\ flux = NoValues(job.mesh)
      /\ used = [flux |-> NoValues(job.mesh), emf |-> NoValues(job.mesh)] /\ mail = NoMail
  BY DEF Init
<1>2. \A r \in Procs : doing[r] = "compute"
  BY <1>1
<1>3. DOMAIN mail["flux"] = {}
  BY <1>1 DEF NoMail, Kinds
<1>4. Uncorrected /\ Averaged /\ InUse
  BY <1>2 DEF Uncorrected, Averaged, InUse
<1>5. Posting
  BY <1>3 DEF Posting
<1>6. DOMAIN flux = Quads(job.mesh) /\ DOMAIN used.flux = Quads(job.mesh)
  BY <1>1 DEF NoValues
<1>7. mail = [kind \in Kinds |-> mail[kind]] /\ doing = [r \in Procs |-> doing[r]]
  BY <1>1 DEF NoMail
<1> QED BY <1>1, <1>4, <1>5, <1>6, <1>7 DEF FluxInv

(* Operations without messages, and the next step. *)
LEMMA StandingKeepsFluxInv ==
  FluxInv /\ UNCHANGED <<job, doing, flux, mail, used>> => FluxInv'
BY DEF FluxInv, Uncorrected, Averaged, InUse, Posting, Found, Raw, Procs, g

LEMMA EndSubstepKeepsFluxInv == FluxInv /\ EndSubstep => FluxInv'
<1> SUFFICES ASSUME FluxInv, EndSubstep PROVE FluxInv'
  OBVIOUS
<1>1. /\ job' = job /\ doing' = [r \in Procs |-> "compute"] /\ flux' = NoValues(job.mesh)
      /\ used' = [flux |-> NoValues(job.mesh), emf |-> NoValues(job.mesh)] /\ mail' = NoMail
  BY DEF EndSubstep
<1>2. Procs' = Procs /\ job' \in Cases
  BY <1>1 DEF Procs, FluxInv
<1>3. \A r \in Procs : doing'[r] = "compute"
  BY <1>1
<1>4. DOMAIN mail'["flux"] = {}
  BY <1>1 DEF NoMail, Kinds
<1>5. Uncorrected' /\ Averaged' /\ InUse'
  BY <1>2, <1>3 DEF Uncorrected, Averaged, InUse
<1>6. Posting'
  BY <1>4 DEF Posting
<1>7. DOMAIN flux' = Quads(job'.mesh) /\ DOMAIN used'.flux = Quads(job'.mesh)
  BY <1>1 DEF NoValues
<1>8. mail' = [kind \in Kinds |-> mail'[kind]] /\ doing' = [r \in Procs |-> doing'[r]]
  BY <1>1 DEF NoMail
<1> QED BY <1>1, <1>2, <1>5, <1>6, <1>7, <1>8 DEF FluxInv

(* The job's mesh and its ranks. *)
LEMMA OfTheJob ==
  ASSUME FluxInv
  PROVE  /\ job.mesh \in Meshes /\ g = RefluxOf[job.mesh] /\ Procs = Ranks(job.mesh)
         /\ Quads(g) = Quads(job.mesh) /\ Ranks(g) = Procs
         /\ \A q \in Quads(job.mesh) : Rank(g, q) \in Procs
<1>1. job.mesh \in Meshes
  BY CasesAssumption DEF FluxInv
<1> QED BY <1>1, RefluxFields DEF g, Procs

(* The steps of a rank; what the ranks other than r have is theirs. *)
LEMMA ComputeKeepsFluxInv ==
  ASSUME FluxInv, NEW r \in Procs, ComputeFluxes(r)
  PROVE  FluxInv'
<1> DEFINE m == job.mesh
<1>1. /\ job' = job /\ mail' = mail /\ used' = used
      /\ doing' = [doing EXCEPT ![r] = "fill flux buffers"] /\ doing[r] = "compute"
      /\ flux' = [q \in Quads(m) |-> IF Rank(g, q) = r THEN Raw(q) ELSE flux[q]]
  BY DEF ComputeFluxes, Calling, Then, OnRank, FluxInv, Raw
<1>2. Procs' = Procs /\ g' = g /\ \A q : Raw(q)' = Raw(q)
  BY <1>1 DEF Procs, g, Raw
<1>3. doing' = [p \in Procs |-> doing'[p]] /\ doing'[r] = "fill flux buffers"
      /\ \A p \in Procs \ {r} : doing'[p] = doing[p]
  BY <1>1 DEF FluxInv
<1>4. \A q \in Quads(m) : Rank(g, q) = r => flux'[q] = Raw(q)
  BY <1>1
<1>5. \A q \in Quads(m) : Rank(g, q) # r => flux'[q] = flux[q]
  BY <1>1
<1>6. Uncorrected'
  <2>1. ASSUME NEW p \in Procs, doing'[p] \in {"fill flux buffers", "fill emf buffers", "correct fluxes"},
               NEW q \in Quads(m), Rank(g, q) = p
        PROVE  flux'[q] = Raw(q)
    <3>1. CASE p = r
      BY <3>1, <2>1, <1>4
    <3>2. CASE p # r
      BY <3>2, <2>1, <1>3, <1>5 DEF FluxInv, Uncorrected
    <3> QED BY <3>1, <3>2
  <2> QED BY <2>1, <1>1, <1>2 DEF Uncorrected
<1>7. Averaged'
  <2>1. ASSUME NEW p \in Procs, doing'[p] \in {"add fluxes", "correct emfs", "update ct", "barrier"},
               NEW q \in Quads(m), Rank(g, q) = p
        PROVE  FineAverages(m, flux', q)
    <3>1. p # r
      BY <2>1, <1>3
    <3>2. FineAverages(m, flux, q) /\ flux'[q] = flux[q]
      BY <3>1, <2>1, <1>3, <1>5 DEF FluxInv, Averaged
    <3> QED BY <3>2 DEF FineAverages
  <2> QED BY <2>1, <1>1, <1>2 DEF Averaged
<1>8. InUse'
  <2>1. ASSUME NEW p \in Procs, doing'[p] \in {"correct emfs", "update ct", "barrier"},
               NEW q \in Quads(m), Rank(g, q) = p
        PROVE  used'.flux[q] = flux'[q]
    <3>1. p # r
      BY <2>1, <1>3
    <3>2. used.flux[q] = flux[q] /\ flux'[q] = flux[q]
      BY <3>1, <2>1, <1>3, <1>5 DEF FluxInv, InUse
    <3> QED BY <3>2, <1>1
  <2> QED BY <2>1, <1>1, <1>2 DEF InUse
<1>9. Posting'
  BY <1>1, <1>2 DEF FluxInv, Posting, Found
<1>10. DOMAIN flux' = Quads(m)
  BY <1>1
<1> QED BY <1>1, <1>2, <1>3, <1>6, <1>7, <1>8, <1>9, <1>10 DEF FluxInv

(* A step of a rank that leaves fluxes and messages alone and does not make it
   owe more than it has. *)
LEMMA GoingOnKeepsFluxInv ==
  ASSUME FluxInv, NEW r \in Procs, NEW next,
         job' = job /\ flux' = flux /\ doing' = [doing EXCEPT ![r] = next],
         \/ /\ mail' = mail /\ used'.flux = used.flux
            /\ used' = [flux |-> used'.flux, emf |-> used'.emf]
         \/ /\ used' = used /\ Posting'
            /\ mail' = [kind \in Kinds |-> mail'[kind]]
         \/ /\ mail' = mail
            /\ used' = [flux |-> used'.flux, emf |-> used'.emf]
            /\ used'.flux = [q \in Quads(job.mesh) |-> IF Rank(g, q) = r THEN flux[q] ELSE used.flux[q]],
         \/ doing[r] = "fill flux buffers" /\ next = "fill emf buffers"
         \/ doing[r] = "fill emf buffers" /\ next = "correct fluxes"
         \/ doing[r] = "add fluxes" /\ next = "correct emfs" /\ \A q \in Quads(job.mesh) : Rank(g, q) = r => used'.flux[q] = flux[q]
         \/ doing[r] = "correct emfs" /\ next = "update ct"
         \/ doing[r] = "update ct" /\ next = "barrier"
  PROVE  FluxInv'
<1> DEFINE m == job.mesh
<1>1. Procs' = Procs /\ g' = g /\ \A q : Raw(q)' = Raw(q)
  BY DEF Procs, g, Raw
<1>2. doing' = [p \in Procs |-> doing'[p]] /\ doing'[r] = next /\ \A p \in Procs \ {r} : doing'[p] = doing[p]
  BY DEF FluxInv
<1>3. Uncorrected'
  <2>1. \A p \in Procs : doing'[p] \in {"fill flux buffers", "fill emf buffers", "correct fluxes"} =>
          \A q \in Quads(m) : Rank(g, q) = p => flux[q] = Raw(q)
    BY <1>2 DEF FluxInv, Uncorrected
  <2> QED BY <2>1, <1>1 DEF Uncorrected
<1>4. Averaged'
  <2>1. \A p \in Procs : doing'[p] \in {"add fluxes", "correct emfs", "update ct", "barrier"} =>
          \A q \in Quads(m) : Rank(g, q) = p => FineAverages(m, flux, q)
    BY <1>2 DEF FluxInv, Averaged
  <2> QED BY <2>1, <1>1 DEF Averaged
<1>5. \A q \in Quads(m) : used'.flux[q] = used.flux[q] \/ (Rank(g, q) = r /\ used'.flux[q] = flux[q])
  OBVIOUS
<1>6. InUse'
  <2>1. ASSUME NEW p \in Procs, doing'[p] \in {"correct emfs", "update ct", "barrier"},
               NEW q \in Quads(m), Rank(g, q) = p
        PROVE  used'.flux[q] = flux[q]
    <3>1. CASE doing[p] \in {"correct emfs", "update ct", "barrier"}
      BY <3>1, <2>1, <1>5 DEF FluxInv, InUse
    <3>2. CASE doing[p] \notin {"correct emfs", "update ct", "barrier"}
      <4>1. p = r
        BY <3>2, <2>1, <1>2
      <4> QED BY <4>1, <3>2, <2>1, <1>2
    <3> QED BY <3>1, <3>2
  <2> QED BY <2>1, <1>1 DEF InUse
<1>7. Posting'
  <2>1. ASSUME mail' = mail PROVE Posting'
    <3>1. Posting /\ job' = job /\ g' = g
      BY <1>1 DEF FluxInv
    <3> QED BY <2>1, <3>1 DEF Posting, Found
  <2> QED BY <2>1
<1>8. /\ used' = [flux |-> used'.flux, emf |-> used'.emf] /\ DOMAIN used'.flux = Quads(m)
      /\ mail' = [kind \in Kinds |-> mail'[kind]]
  BY DEF FluxInv
<1> QED BY <1>1, <1>2, <1>3, <1>4, <1>6, <1>7, <1>8 DEF FluxInv

LEMMA FillFluxKeepsFluxInv ==
  ASSUME FluxInv, NEW r \in Procs, FillFluxBuffers(r)
  PROVE  FluxInv'
<1> DEFINE m == job.mesh
           F == mail["flux"]
<1>1. /\ job' = job /\ flux' = flux /\ used' = used
      /\ doing' = [doing EXCEPT ![r] = "fill emf buffers"] /\ doing[r] = "fill flux buffers"
  BY DEF FillFluxBuffers, Calling, Then
<1>2. mail' = [kind \in Kinds |-> IF kind \notin {"flux"} THEN mail[kind]
                                  ELSE [s \in DOMAIN mail[kind] \cup {r} |->
                                          IF s = r THEN Posted(g, kind, Sends(kind), r) ELSE mail[kind][s]]]
  BY DEF FillFluxBuffers, Fill
<1>3. mail'["flux"] = [s \in DOMAIN F \cup {r} |-> IF s = r THEN Posted(g, "flux", flux, r) ELSE F[s]]
  BY <1>2 DEF Kinds, Sends
<1>4. /\ DOMAIN mail'["flux"] = {r} \cup DOMAIN F
      /\ mail'["flux"][r] = Posted(g, "flux", flux, r)
      /\ \A s \in DOMAIN F \ {r} : mail'["flux"][s] = F[s]
  BY <1>3
<1>5. g' = g
  BY <1>1 DEF g
<1>6. ASSUME NEW d \in HangingFaces(Layer(m)), NEW b \in Child,
             Rank(g, d.fine[b]) # Rank(g, d.coarse), Rank(g, d.fine[b]) \in DOMAIN mail'["flux"]
      PROVE  Found(d, b)' = Contents("flux", RawFluxes(m), d.fine[b], OppositeFace(d.face))
  <2> DEFINE n == d.fine[b]
             s == Rank(g, n)
             t == Rank(g, d.coarse)
             slot == Slot(g.due["flux"][t][s], FineKey(g, t, d, b))
  <2>1. Found(d, b)' = mail'["flux"][s][t][slot]
    BY <1>5 DEF Found
  <2>2. CASE s # r
    <3>1. s \in DOMAIN F \ {r} /\ mail'["flux"][s] = F[s]
      BY <2>2, <1>4, <1>6
    <3>2. Found(d, b) = F[s][t][slot]
      BY DEF Found
    <3>3. Found(d, b) = Contents("flux", RawFluxes(m), n, OppositeFace(d.face))
      BY <3>1, <1>6 DEF FluxInv, Posting
    <3> HIDE DEF s, t, slot
    <3> QED BY <2>1, <3>1, <3>2, <3>3
  <2>3. CASE s = r
    <3>1. m \in Meshes /\ g = RefluxOf[m] /\ Procs = Ranks(m) /\ d.coarse \in Quads(m) /\ n \in Quads(m)
      BY OfTheJob, HangingFaceFacts
    <3>2. t \in Ranks(m)
      BY <3>1, OfTheJob
    <3>3. Posted(g, "flux", flux, s)[t][slot] = Contents("flux", flux, n, OppositeFace(d.face))
      BY <3>1, <3>2, <1>6, FineFluxesArrive
    <3>4. flux[n] = RawFluxes(m)[n]
      BY <1>1, <2>3, <3>1 DEF FluxInv, Uncorrected, Raw
    <3>5. Contents("flux", flux, n, OppositeFace(d.face)) = Contents("flux", RawFluxes(m), n, OppositeFace(d.face))
      <4> HIDE DEF n, m
      <4> QED BY <3>4 DEF Contents, AveragedFlux
    <3>6. mail'["flux"][s] = Posted(g, "flux", flux, s)
      BY <2>3, <1>4
    <3> HIDE DEF s, t, slot
    <3> QED BY <2>1, <3>3, <3>5, <3>6
  <2> QED BY <2>2, <2>3
<1>7. Posting'
  BY <1>1, <1>5, <1>6 DEF Posting
<1>8. mail' = [kind \in Kinds |-> mail'[kind]]
  BY <1>2
<1> QED BY <1>1, <1>7, <1>8, GoingOnKeepsFluxInv

LEMMA FillEmfKeepsFluxInv ==
  ASSUME FluxInv, NEW r \in Procs, FillEmfBuffers(r)
  PROVE  FluxInv'
<1>1. /\ job' = job /\ flux' = flux /\ used' = used
      /\ doing' = [doing EXCEPT ![r] = "correct fluxes"] /\ doing[r] = "fill emf buffers"
  BY DEF FillEmfBuffers, Calling, Then
<1>2. mail'["flux"] = mail["flux"] /\ mail' = [kind \in Kinds |-> mail'[kind]]
  BY DEF FillEmfBuffers, Fill, Kinds
<1>3. g' = g
  BY <1>1 DEF g
<1>4. \A d, b : Found(d, b)' = Found(d, b)
  BY <1>2, <1>3 DEF Found
<1>5. Posting'
  BY <1>1, <1>2, <1>3, <1>4 DEF FluxInv, Posting
<1> QED BY <1>1, <1>2, <1>5, GoingOnKeepsFluxInv

LEMMA AddFluxesKeepsFluxInv ==
  ASSUME FluxInv, NEW r \in Procs, AddFluxes(r)
  PROVE  FluxInv'
<1> DEFINE m == job.mesh
<1>1. /\ job' = job /\ flux' = flux /\ mail' = mail
      /\ doing' = [doing EXCEPT ![r] = "correct emfs"] /\ doing[r] = "add fluxes"
      /\ used' = [used EXCEPT !.flux = OnRank(r, flux, used.flux)]
  BY DEF AddFluxes, Calling, Then
<1>2. /\ used'.flux = OnRank(r, flux, used.flux) /\ used' = [flux |-> used'.flux, emf |-> used'.emf]
  BY <1>1 DEF FluxInv
<1>3. used'.flux = [q \in Quads(m) |-> IF Rank(g, q) = r THEN flux[q] ELSE used.flux[q]]
  BY <1>2 DEF FluxInv, OnRank
<1>4. \A q \in Quads(m) : Rank(g, q) = r => used'.flux[q] = flux[q]
  BY <1>3
<1> QED BY <1>1, <1>2, <1>3, <1>4, GoingOnKeepsFluxInv

LEMMA CorrectEmfsKeepsFluxInv ==
  ASSUME FluxInv, NEW r \in Procs, CorrectEmfs(r)
  PROVE  FluxInv'
<1>1. /\ job' = job /\ flux' = flux /\ mail' = mail /\ used' = used
      /\ doing' = [doing EXCEPT ![r] = "update ct"] /\ doing[r] = "correct emfs"
  BY DEF CorrectEmfs, Calling, Then
<1>2. used' = [flux |-> used'.flux, emf |-> used'.emf]
  BY <1>1 DEF FluxInv
<1> QED BY <1>1, <1>2, GoingOnKeepsFluxInv

LEMMA UpdateCTKeepsFluxInv ==
  ASSUME FluxInv, NEW r \in Procs, UpdateCT(r)
  PROVE  FluxInv'
<1>1. /\ job' = job /\ flux' = flux /\ mail' = mail
      /\ doing' = [doing EXCEPT ![r] = "barrier"] /\ doing[r] = "update ct"
      /\ used' = [used EXCEPT !.emf = OnRank(r, emf, used.emf)]
  BY DEF UpdateCT, Calling, Then
<1>2. used'.flux = used.flux /\ used' = [flux |-> used'.flux, emf |-> used'.emf]
  BY <1>1 DEF FluxInv
<1> QED BY <1>1, <1>2, GoingOnKeepsFluxInv

(* A rank corrects when its peers have posted: what it is sent and what it has
   itself are the fine fluxes before any correction. *)
LEMMA CorrectFluxesKeepsFluxInv ==
  ASSUME FluxInv, NEW r \in Procs, CorrectFluxes(r)
  PROVE  FluxInv'
<1> DEFINE m == job.mesh
<1>1. /\ job' = job /\ mail' = mail /\ used' = used
      /\ doing' = [doing EXCEPT ![r] = "add fluxes"] /\ doing[r] = "correct fluxes"
      /\ flux' = CorrectedFluxes(g, flux, mail, r) /\ Completed(g, mail, "flux", r)
  BY DEF CorrectFluxes, Calling, Then
<1>2. /\ m \in Meshes /\ g = RefluxOf[m] /\ Procs = Ranks(m) /\ Quads(g) = Quads(m) /\ Ranks(g) = Procs
      /\ \A q \in Quads(m) : Rank(g, q) \in Procs
  BY OfTheJob
<1>3. Procs' = Procs /\ g' = g /\ \A q : Raw(q)' = Raw(q)
  BY <1>1 DEF Procs, g, Raw
<1>4. doing' = [p \in Procs |-> doing'[p]] /\ doing'[r] = "add fluxes"
      /\ \A p \in Procs \ {r} : doing'[p] = doing[p]
  BY <1>1 DEF FluxInv
<1>5. Given(m, r, flux, mail)
  <2>1. \A n \in Quads(m) : Rank(g, n) = r => flux[n] = RawFluxes(m)[n]
    BY <1>1 DEF FluxInv, Uncorrected, Raw
  <2>2. ASSUME NEW d \in HangingFaces(Layer(m)), NEW b \in Child,
               Rank(g, d.coarse) = r, Rank(g, d.fine[b]) # r
        PROVE  Received(g, mail, "flux", r, FineKey(g, r, d, b)) =
                 Contents("flux", RawFluxes(m), d.fine[b], OppositeFace(d.face))
    <3> DEFINE s == Rank(g, d.fine[b])
               k == FineKey(g, r, d, b)
    <3>1. s \in Ranks(m) /\ k[1] = d.fine[b] /\ k \in g.due["flux"][r][s]
      BY <1>2, <2>2, FineFluxesArrive
    <3>2. s \in DOMAIN mail["flux"]
      BY <1>1, <1>2, <3>1 DEF Completed
    <3>3. Found(d, b) = Contents("flux", RawFluxes(m), d.fine[b], OppositeFace(d.face))
      BY <2>2, <3>2 DEF FluxInv, Posting
    <3>4. Found(d, b) = mail["flux"][s][r][Slot(g.due["flux"][r][s], k)]
      BY <2>2 DEF Found
    <3>5. Received(g, mail, "flux", r, k) = mail["flux"][s][r][Slot(g.due["flux"][r][s], k)]
      BY <3>1 DEF Received
    <3> QED BY <3>3, <3>4, <3>5
  <2> QED BY <2>1, <2>2, <1>2 DEF Given
<1>6. \A q \in Quads(m) : Rank(g, q) = r => FineAverages(m, flux', q)
  BY <1>1, <1>2, <1>5, CorrectionAverages
<1>7. DOMAIN flux' = Quads(m) /\ \A q \in Quads(m) : Rank(g, q) # r => flux'[q] = flux[q]
  BY <1>1, <1>2 DEF CorrectedFluxes, Kernel
<1>8. Uncorrected'
  <2>1. ASSUME NEW p \in Procs, doing'[p] \in {"fill flux buffers", "fill emf buffers", "correct fluxes"},
               NEW q \in Quads(m), Rank(g, q) = p
        PROVE  flux'[q] = Raw(q)
    <3>1. p # r
      BY <2>1, <1>4
    <3> QED BY <3>1, <2>1, <1>4, <1>7 DEF FluxInv, Uncorrected
  <2> QED BY <2>1, <1>1, <1>3 DEF Uncorrected
<1>9. Averaged'
  <2>1. ASSUME NEW p \in Procs, doing'[p] \in {"add fluxes", "correct emfs", "update ct", "barrier"},
               NEW q \in Quads(m), Rank(g, q) = p
        PROVE  FineAverages(m, flux', q)
    <3>1. CASE p = r
      BY <3>1, <2>1, <1>6
    <3>2. CASE p # r
      <4>1. FineAverages(m, flux, q) /\ flux'[q] = flux[q]
        BY <3>2, <2>1, <1>4, <1>7 DEF FluxInv, Averaged
      <4> QED BY <4>1 DEF FineAverages
    <3> QED BY <3>1, <3>2
  <2> QED BY <2>1, <1>1, <1>3 DEF Averaged
<1>10. InUse'
  <2>1. ASSUME NEW p \in Procs, doing'[p] \in {"correct emfs", "update ct", "barrier"},
               NEW q \in Quads(m), Rank(g, q) = p
        PROVE  used'.flux[q] = flux'[q]
    <3>1. p # r
      BY <2>1, <1>4
    <3>2. used.flux[q] = flux[q] /\ flux'[q] = flux[q]
      BY <3>1, <2>1, <1>4, <1>7 DEF FluxInv, InUse
    <3> QED BY <3>2, <1>1
  <2> QED BY <2>1, <1>1, <1>3 DEF InUse
<1>11. Posting'
  BY <1>1, <1>3 DEF FluxInv, Posting, Found
<1> QED BY <1>1, <1>3, <1>4, <1>7, <1>8, <1>9, <1>10, <1>11 DEF FluxInv

LEMMA NextKeepsFluxInv == FluxInv /\ [Next]_vars => FluxInv'
<1> SUFFICES ASSUME FluxInv, [Next]_vars PROVE FluxInv'
  OBVIOUS
<1>1. CASE UNCHANGED vars
  BY <1>1, StandingKeepsFluxInv DEF vars, swap
<1>2. CASE \/ CopyBuffer \/ PushTracers \/ LinearUpdate \/ ApplyBoundaryConditions
           \/ ComputeAuxiliaries \/ ImplicitSubstep
  <2>1. Done
    BY <1>2 DEF CopyBuffer, PushTracers, LinearUpdate, ApplyBoundaryConditions, ComputeAuxiliaries, ImplicitSubstep
  <2> QED BY <2>1, StandingKeepsFluxInv DEF Done, swap
<1>3. CASE NextStep
  BY <1>3, StandingKeepsFluxInv DEF NextStep
<1>4. CASE EndSubstep
  BY <1>4, EndSubstepKeepsFluxInv
<1>5. ASSUME NEW r \in Procs, Substep(r) PROVE FluxInv'
  BY <1>5, ComputeKeepsFluxInv, FillFluxKeepsFluxInv, FillEmfKeepsFluxInv, CorrectFluxesKeepsFluxInv,
     AddFluxesKeepsFluxInv, CorrectEmfsKeepsFluxInv, UpdateCTKeepsFluxInv DEF Substep
<1> QED BY <1>1, <1>2, <1>3, <1>4, <1>5 DEF Next

(* On every rank, at every place of a substep, fluxes and messages are what
   refluxing.cpp means them to be. *)
THEOREM FluxesInvariant == Spec => []FluxInv
<1>1. FluxInv /\ [Next]_vars => FluxInv'
  BY NextKeepsFluxInv
<1> QED BY <1>1, InitFluxInv, PTL DEF Spec

(* For any mesh of two levels on any number of ranks, in every substep of every
   scheme, a coarse quadrant advances with the mean of the fluxes with which
   the fine ones across each of its faces advanced. *)
THEOREM FluxesAreShared == Spec => []SharedFluxes
<1>1. FluxInv => SharedFluxes
  <2> DEFINE m == job.mesh
             R == RawFluxes(m)
  <2> SUFFICES ASSUME FluxInv, Advanced, NEW q \in Quads(g), NEW d \in g.hanging[q], NEW i \in Cell, NEW j \in Cell
               PROVE  used.flux[q][<<FaceAxis(d.face), OnFace(d.face, i, j)>>] = FourAcross(used.flux, d, i, j)
    BY DEF SharedFluxes
  <2> DEFINE n == d.fine[ChildAt(i, j)]
             f == OppositeFace(d.face)
  <2>1. /\ m \in Meshes /\ g = RefluxOf[m] /\ q \in Quads(m) /\ Quads(g) = Quads(m)
        /\ \A p \in Quads(m) : Rank(g, p) \in Procs
    BY OfTheJob
  <2>2. \A p \in Quads(m) : g.hanging[p] = {e \in HangingFaces(Layer(m)) : e.coarse = p}
    BY <2>1, RefluxFields
  <2>3. d \in HangingFaces(Layer(m)) /\ d.face \in Face
    BY <2>1, <2>2, HangingFaceFacts
  <2>4. n \in Quads(m) /\ m.quads[n].size = 1
    BY <2>1, <2>3, ChildOfCell, HangingFaceFacts
  <2>5. \A p \in Quads(m) : FineAverages(m, flux, p) /\ used.flux[p] = flux[p]
    <3>1. \A r \in Procs : doing[r] = "barrier"
      BY DEF Advanced
    <3> QED BY <3>1, <2>1 DEF FluxInv, Averaged, InUse
  <2>6. g.hanging[n] = {}
    <3>1. ASSUME NEW e \in g.hanging[n] PROVE FALSE
      <4>1. e \in HangingFaces(Layer(m)) /\ e.coarse = n
        BY <2>2, <2>4, <3>1
      <4>2. m.quads[n].size = 2
        BY <2>1, <4>1, HangingFaceFacts
      <4> QED BY <4>2, <2>4
    <3> QED BY <3>1
  <2>7. used.flux[n] = R[n]
    BY <2>1, <2>4, <2>5, <2>6 DEF FineAverages
  <2>8. used.flux[q][<<FaceAxis(d.face), OnFace(d.face, i, j)>>] = AveragedFlux(R, n, f, i % Mid, j % Mid)
    BY <2>1, <2>5 DEF FineAverages
  <2>9. AveragedFlux(R, n, f, i % Mid, j % Mid) = FourAcross(R, d, i, j)
    BY <2>3, FourFineFluxes
  <2>10. FourAcross(R, d, i, j) = FourAcross(used.flux, d, i, j)
    <3> HIDE DEF R
    <3> QED BY <2>7 DEF FourAcross
  <2> QED BY <2>8, <2>9, <2>10
<1> QED BY <1>1, FluxesInvariant, PTL

-----------------------------------------------------------------------------
(* What is read is fresh: what a program knows of its buffers *)

(* What is known before an operation: which buffers are of this step, which of
   them have the ghost zones of their interior, and which the auxiliaries are
   computed from. *)
Knowledge == [live : SUBSET Buffers, fresh : SUBSET Buffers, like : SUBSET Buffers]
AtStart   == [live |-> {"state"}, fresh |-> {"state"}, like |-> {"state"}]
Gain(S, b, c) == IF c THEN S \cup {b} ELSE S \ {b}
Sources(op)   == {op.terms[n][2] : n \in DOMAIN op.terms}
Writing       == {"copy", "lin", "bc", "implicit", "sub"}
After(op, a) ==
  [live  |-> IF op.op \in {"copy", "implicit"} THEN Gain(a.live, op.new, op.old \in a.live)
             ELSE IF op.op = "lin" THEN Gain(a.live, op.new, Sources(op) \subseteq a.live)
             ELSE a.live,
   fresh |-> IF op.op \in {"copy", "implicit"} THEN Gain(a.fresh, op.new, op.old \in a.fresh)
             ELSE IF op.op = "lin" THEN Gain(a.fresh, op.new, Sources(op) \subseteq a.fresh)
             ELSE IF op.op = "bc" THEN Gain(a.fresh, op.new, op.new \in a.live)
             ELSE IF op.op = "sub" THEN a.fresh \ {op.new}
             ELSE a.fresh,
   like  |-> IF op.op = "copy" THEN Gain(a.like, op.new, op.old \in a.like)
             ELSE IF op.op = "aux" THEN {op.old}
             ELSE IF op.op = "tracers" THEN a.like
             ELSE a.like \ {op.new}]
(* An operation that may run with what is known. *)
Allowed(op, a) ==
  /\ op.op \in Writing => op.new \in Buffers
  /\ op.op = "aux" => op.old \in Buffers
  /\ op.op \in Writing \cup {"aux", "tracers"}
  /\ op.op \in {"sub", "tracers"} => op.old \in a.fresh /\ op.old \in a.like
  /\ op.op = "sub" => op.new \in a.fresh
(* An operation with its operands. *)
Ops == [op : {"copy"}, new : Buffers, old : Buffers] \cup [op : {"tracers", "aux"}, old : Buffers]
         \cup [op : {"sub", "implicit"}, w : Int, new : Buffers, old : Buffers] \cup [op : {"bc"}, new : Buffers]
         \cup [op : {"lin"}, new : Buffers, terms : Seq(Int \X Buffers)]
(* T: what is known before each operation of s and after the last. *)
Follows(s, T) ==
  /\ T \in [1 .. Len(s) + 1 -> Knowledge]
  /\ \A k \in 1 .. Len(s) : Allowed(s[k], T[k]) /\ T[k + 1] = After(s[k], T[k])
(* With a known before it, s may run, and b is known after it. *)
Leads(s, a, b) == s \in Seq(Ops) /\ \E T : Follows(s, T) /\ T[1] = a /\ T[Len(s) + 1] = b

(* What an operation that may run leaves known is of the three buffers. *)
LEMMA AfterIsKnowledge ==
  ASSUME NEW op, NEW a \in Knowledge, Allowed(op, a)
  PROVE  After(op, a) \in Knowledge
<1>1. a.live \subseteq Buffers /\ a.fresh \subseteq Buffers /\ a.like \subseteq Buffers
  BY DEF Knowledge
<1>2. op.op \in Writing => op.new \in Buffers
  BY DEF Allowed
<1>3. op.op \in Writing \cup {"aux", "tracers"} /\ (op.op = "aux" => op.old \in Buffers)
  BY DEF Allowed
<1> DEFINE b == After(op, a)
<1>4. b.live \subseteq Buffers /\ b.fresh \subseteq Buffers /\ b.like \subseteq Buffers
  BY <1>1, <1>2, <1>3 DEF After, Gain, Writing
<1>5. \E l, f, e : b = [live |-> l, fresh |-> f, like |-> e]
  BY Zenon DEF After
<1> HIDE DEF b
<1>6. PICK l, f, e : b = [live |-> l, fresh |-> f, like |-> e]
  BY <1>5
<1>7. b.live = l /\ b.fresh = f /\ b.like = e
  BY <1>6
<1>8. l \in SUBSET Buffers /\ f \in SUBSET Buffers /\ e \in SUBSET Buffers
  BY <1>4, <1>7
<1>9. [live |-> l, fresh |-> f, like |-> e] \in Knowledge
  BY <1>8 DEF Knowledge
<1>10. b \in Knowledge
  BY <1>6, <1>9
<1> QED BY <1>10 DEF b

(* One operation, and one sequence of operations after another. *)
LEMMA OneLeads ==
  ASSUME NEW op \in Ops, NEW a \in Knowledge, Allowed(op, a)
  PROVE  Leads(<<op>>, a, After(op, a))
<1> DEFINE T == [k \in 1 .. 2 |-> IF k = 1 THEN a ELSE After(op, a)]
<1>1. After(op, a) \in Knowledge
  BY AfterIsKnowledge
<1>2. Len(<<op>>) = 1 /\ <<op>>[1] = op
  OBVIOUS
<1>3. T \in [1 .. 2 -> Knowledge] /\ T[1] = a /\ T[2] = After(op, a)
  <2> DEFINE b == After(op, a)
  <2> HIDE DEF b
  <2> QED BY <1>1
<1> HIDE DEF T
<1>4. Follows(<<op>>, T)
  BY <1>2, <1>3 DEF Follows
<1> QED BY <1>2, <1>3, <1>4 DEF Leads

LEMMA LeadsOn ==
  ASSUME NEW s, NEW t, NEW a, NEW b, NEW c, Leads(s, a, b), Leads(t, b, c)
  PROVE  Leads(s \o t, a, c)
<1>1. PICK T : Follows(s, T) /\ T[1] = a /\ T[Len(s) + 1] = b
  BY DEF Leads
<1>2. PICK U : Follows(t, U) /\ U[1] = b /\ U[Len(t) + 1] = c
  BY DEF Leads
<1> DEFINE n == Len(s)
           o == Len(t)
           V == [k \in 1 .. (n + o) + 1 |-> IF k <= n THEN T[k] ELSE U[k - n]]
<1>0. s \in Seq(Ops) /\ t \in Seq(Ops)
  BY DEF Leads
<1>3. n \in Nat /\ o \in Nat
  BY <1>0, LenProperties
<1>4. /\ Len(s \o t) = n + o
      /\ \A k \in 1 .. n : (s \o t)[k] = s[k]
      /\ \A k \in n + 1 .. n + o : (s \o t)[k] = t[k - n]
  <2>1. /\ Len(s \o t) = n + o
        /\ \A k \in 1 .. n + o : (s \o t)[k] = IF k <= n THEN s[k] ELSE t[k - n]
    BY <1>0, ConcatProperties
  <2> HIDE DEF n, o
  <2> QED BY <2>1, <1>3
<1>5. /\ T \in [1 .. n + 1 -> Knowledge]
      /\ \A k \in 1 .. n : Allowed(s[k], T[k]) /\ T[k + 1] = After(s[k], T[k])
      /\ U \in [1 .. o + 1 -> Knowledge]
      /\ \A k \in 1 .. o : Allowed(t[k], U[k]) /\ U[k + 1] = After(t[k], U[k])
  BY <1>1, <1>2 DEF Follows
<1>6. V \in [1 .. (n + o) + 1 -> Knowledge]
  <2>1. \A k \in 1 .. (n + o) + 1 : k <= n => T[k] \in Knowledge
    <3> HIDE DEF n, o
    <3> QED BY <1>3, <1>5
  <2>2. \A k \in 1 .. (n + o) + 1 : ~(k <= n) => U[k - n] \in Knowledge
    <3> HIDE DEF n, o
    <3> QED BY <1>3, <1>5
  <2> QED BY <2>1, <2>2
<1>7. V[1] = a /\ V[(n + o) + 1] = c
  <2> HIDE DEF n, o
  <2>1. 1 \in 1 .. (n + o) + 1 /\ (n + o) + 1 \in 1 .. (n + o) + 1
    BY <1>3
  <2>2. V[1] = IF 1 <= n THEN T[1] ELSE U[1 - n]
    BY <2>1
  <2>3. V[(n + o) + 1] = U[((n + o) + 1) - n]
    BY <2>1, <1>3
  <2>4. ((n + o) + 1) - n = o + 1
    BY <1>3
  <2>5. T[1] = a /\ T[n + 1] = b /\ U[1] = b /\ U[o + 1] = c
    BY <1>1, <1>2 DEF n, o
  <2>6. n = 0 => a = b /\ 1 - n = 1
    BY <2>5
  <2> QED BY <2>2, <2>3, <2>4, <2>5, <2>6, <1>3
<1>8. ASSUME NEW k \in 1 .. n + o
      PROVE  Allowed((s \o t)[k], V[k]) /\ V[k + 1] = After((s \o t)[k], V[k])
  <2>1. CASE k <= n
    <3>1. k \in 1 .. n /\ (s \o t)[k] = s[k]
      BY <2>1, <1>3, <1>4 DEF n, o
    <3>2. V[k] = T[k]
      <4> HIDE DEF n, o
      <4> QED BY <3>1, <1>3
    <3>3. V[k + 1] = T[k + 1]
      <4>1. CASE k + 1 <= n
        <5> HIDE DEF n, o
        <5> QED BY <3>1, <1>3, <4>1
      <4>2. CASE k = n
        <5>1. V[k + 1] = U[1]
          <6> HIDE DEF n, o
          <6>1. (n + 1) - n = 1 /\ n + 1 \in 1 .. (n + o) + 1 /\ ~(n + 1 <= n)
            BY <1>3
          <6> QED BY <6>1, <4>2
        <5> QED BY <5>1, <1>1, <1>2, <4>2
      <4> HIDE DEF n, o, V
      <4> QED BY <3>1, <1>3, <4>1, <4>2
    <3> HIDE DEF V, n
    <3> QED BY <3>1, <3>2, <3>3, <1>5
  <2>2. CASE ~(k <= n)
    <3> DEFINE j == k - n
    <3>1. j \in 1 .. o /\ (s \o t)[k] = t[j] /\ j + 1 = (k + 1) - n
      <4>1. k \in n + 1 .. n + o
        <5> HIDE DEF n, o
        <5> QED BY <2>2, <1>3
      <4>2. (s \o t)[k] = t[j]
        BY <4>1, <1>4
      <4>3. j \in 1 .. o /\ j + 1 = (k + 1) - n
        <5> HIDE DEF n, o
        <5> QED BY <4>1, <1>3
      <4> QED BY <4>2, <4>3
    <3>2. V[k] = U[j] /\ V[k + 1] = U[j + 1]
      <4> HIDE DEF n, o
      <4>1. k + 1 \in 1 .. (n + o) + 1 /\ k \in 1 .. (n + o) + 1 /\ ~(k + 1 <= n)
        BY <2>2, <1>3
      <4> QED BY <4>1, <3>1, <2>2
    <3> HIDE DEF V, n, o, j
    <3> QED BY <3>1, <3>2, <1>5
  <2> QED BY <2>1, <2>2
<1>9. Follows(s \o t, V)
  <2> HIDE DEF V, n, o
  <2> QED BY <1>4, <1>6, <1>8 DEF Follows
<1>10. s \o t \in Seq(Ops)
  BY <1>0, ConcatProperties
<1> HIDE DEF V
<1> QED BY <1>4, <1>7, <1>9, <1>10 DEF Leads

(* The operations, one by one, from what is known of any three sets. *)
K(l, f, e) == [live |-> l, fresh |-> f, like |-> e]
LEMMA StageLeads ==
  ASSUME NEW l \in SUBSET Buffers, NEW f \in SUBSET Buffers, NEW e \in SUBSET Buffers, NEW w \in Int,
         NEW new \in Buffers, NEW old \in Buffers, new # old, new \in l, new \in f, old \in f, old \in e
  PROVE  Leads(Stage(w, new, old), K(l, f, e), K(l, f, {new}))
<1>1. After(Sub(w, new, old), K(l, f, e)) = K(l, f \ {new}, e \ {new})
  BY DEF After, K, Sub
<1>2. After(Bc(new), K(l, f \ {new}, e \ {new})) = K(l, f, e \ {new})
  <2>1. (f \ {new}) \cup {new} = f /\ (e \ {new}) \ {new} = e \ {new}
    OBVIOUS
  <2> QED BY <2>1 DEF After, K, Bc, Gain
<1>3. After(Aux(new), K(l, f, e \ {new})) = K(l, f, {new})
  BY DEF After, K, Aux
<1>4. K(l, f, e) \in Knowledge /\ K(l, f \ {new}, e \ {new}) \in Knowledge /\ K(l, f, e \ {new}) \in Knowledge
  BY DEF Knowledge, K
<1>5. Sub(w, new, old) \in Ops /\ Bc(new) \in Ops /\ Aux(new) \in Ops
  BY DEF Ops, Sub, Bc, Aux
<1>6. /\ Allowed(Sub(w, new, old), K(l, f, e))
      /\ Allowed(Bc(new), K(l, f \ {new}, e \ {new}))
      /\ Allowed(Aux(new), K(l, f, e \ {new}))
  BY DEF Allowed, Sub, Bc, Aux, K, Writing
<1> DEFINE x == Sub(w, new, old)
           y == Bc(new)
           z == Aux(new)
           k1 == K(l, f, e)
           k2 == K(l, f \ {new}, e \ {new})
           k3 == K(l, f, e \ {new})
           k4 == K(l, f, {new})
           T == [k \in 1 .. 4 |-> IF k = 1 THEN k1 ELSE IF k = 2 THEN k2 ELSE IF k = 3 THEN k3 ELSE k4]
<1>7. Stage(w, new, old) = <<x, y, z>>
  BY DEF Stage
<1>8. k4 \in Knowledge
  BY DEF Knowledge, K
<1>9. /\ k1 \in Knowledge /\ k2 \in Knowledge /\ k3 \in Knowledge
      /\ x \in Ops /\ y \in Ops /\ z \in Ops
      /\ Allowed(x, k1) /\ Allowed(y, k2) /\ Allowed(z, k3)
      /\ After(x, k1) = k2 /\ After(y, k2) = k3 /\ After(z, k3) = k4
  BY <1>1, <1>2, <1>3, <1>4, <1>5, <1>6
<1> HIDE DEF x, y, z, k1, k2, k3, k4
<1>10. Len(<<x, y, z>>) = 3 /\ <<x, y, z>>[1] = x /\ <<x, y, z>>[2] = y /\ <<x, y, z>>[3] = z
  OBVIOUS
<1>11. T \in [1 .. 4 -> Knowledge] /\ T[1] = k1 /\ T[2] = k2 /\ T[3] = k3 /\ T[4] = k4
  BY <1>8, <1>9
<1> HIDE DEF T
<1>12. Follows(<<x, y, z>>, T)
  <2>1. \A k \in 1 .. 3 : Allowed(<<x, y, z>>[k], T[k]) /\ T[k + 1] = After(<<x, y, z>>[k], T[k])
    <3> TAKE k \in 1 .. 3
    <3>1. k = 1 \/ k = 2 \/ k = 3
      OBVIOUS
    <3> QED BY <3>1, <1>9, <1>10, <1>11
  <2> QED BY <2>1, <1>10, <1>11 DEF Follows
<1>13. <<x, y, z>> \in Seq(Ops)
  BY <1>9
<1>14. Leads(<<x, y, z>>, k1, k4)
  BY <1>10, <1>11, <1>12, <1>13 DEF Leads
<1> QED BY <1>7, <1>14 DEF k1, k4

LEMMA CopyLeads ==
  ASSUME NEW l \in SUBSET Buffers, NEW f \in SUBSET Buffers, NEW e \in SUBSET Buffers,
         NEW new \in Buffers, NEW old \in Buffers
  PROVE  Leads(<<Copy(new, old)>>, K(l, f, e), K(Gain(l, new, old \in l), Gain(f, new, old \in f), Gain(e, new, old \in e)))
<1>1. Copy(new, old) \in Ops /\ Allowed(Copy(new, old), K(l, f, e))
  BY DEF Ops, Copy, Allowed, Writing
<1>2. K(l, f, e) \in Knowledge
  BY DEF Knowledge, K
<1>3. After(Copy(new, old), K(l, f, e)) = K(Gain(l, new, old \in l), Gain(f, new, old \in f), Gain(e, new, old \in e))
  BY DEF After, K, Copy
<1> QED BY <1>1, <1>2, <1>3, OneLeads

LEMMA ImplicitLeads ==
  ASSUME NEW l \in SUBSET Buffers, NEW f \in SUBSET Buffers, NEW e \in SUBSET Buffers, NEW w \in Int,
         NEW new \in Buffers, NEW old \in Buffers
  PROVE  Leads(<<Implicit(w, new, old)>>, K(l, f, e), K(Gain(l, new, old \in l), Gain(f, new, old \in f), e \ {new}))
<1>1. Implicit(w, new, old) \in Ops /\ Allowed(Implicit(w, new, old), K(l, f, e))
  BY DEF Ops, Implicit, Allowed, Writing
<1>2. K(l, f, e) \in Knowledge
  BY DEF Knowledge, K
<1>3. After(Implicit(w, new, old), K(l, f, e)) = K(Gain(l, new, old \in l), Gain(f, new, old \in f), e \ {new})
  BY DEF After, K, Implicit
<1> QED BY <1>1, <1>2, <1>3, OneLeads

LEMMA BcLeads ==
  ASSUME NEW l \in SUBSET Buffers, NEW f \in SUBSET Buffers, NEW e \in SUBSET Buffers, NEW new \in Buffers
  PROVE  Leads(<<Bc(new)>>, K(l, f, e), K(l, Gain(f, new, new \in l), e \ {new}))
<1>1. Bc(new) \in Ops /\ Allowed(Bc(new), K(l, f, e))
  BY DEF Ops, Bc, Allowed, Writing
<1>2. K(l, f, e) \in Knowledge
  BY DEF Knowledge, K
<1>3. After(Bc(new), K(l, f, e)) = K(l, Gain(f, new, new \in l), e \ {new})
  BY DEF After, K, Bc
<1> QED BY <1>1, <1>2, <1>3, OneLeads

LEMMA AuxLeads ==
  ASSUME NEW l \in SUBSET Buffers, NEW f \in SUBSET Buffers, NEW e \in SUBSET Buffers, NEW old \in Buffers
  PROVE  Leads(<<Aux(old)>>, K(l, f, e), K(l, f, {old}))
<1>1. Aux(old) \in Ops /\ Allowed(Aux(old), K(l, f, e))
  BY DEF Ops, Aux, Allowed, Writing
<1>2. K(l, f, e) \in Knowledge
  BY DEF Knowledge, K
<1>3. After(Aux(old), K(l, f, e)) = K(l, f, {old})
  BY DEF After, K, Aux
<1> QED BY <1>1, <1>2, <1>3, OneLeads

(* A linear update whose terms are all of this step. *)
LEMMA LinLeads ==
  ASSUME NEW l \in SUBSET Buffers, NEW f \in SUBSET Buffers, NEW e \in SUBSET Buffers,
         NEW new \in Buffers, NEW terms \in Seq(Int \X Buffers),
         \A n \in DOMAIN terms : terms[n][2] \in l /\ terms[n][2] \in f
  PROVE  Leads(<<Lin(new, terms)>>, K(l, f, e), K(l \cup {new}, f \cup {new}, e \ {new}))
<1>1. Lin(new, terms) \in Ops /\ Allowed(Lin(new, terms), K(l, f, e))
  BY DEF Ops, Lin, Allowed, Writing
<1>2. K(l, f, e) \in Knowledge
  BY DEF Knowledge, K
<1>3. Sources(Lin(new, terms)) \subseteq l /\ Sources(Lin(new, terms)) \subseteq f
  BY DEF Sources, Lin
<1>4. After(Lin(new, terms), K(l, f, e)) = K(l \cup {new}, f \cup {new}, e \ {new})
  BY <1>3 DEF After, K, Lin, Gain
<1> QED BY <1>1, <1>2, <1>4, OneLeads

(* All three buffers, and the auxiliaries of one. *)
Full(b) == K(Buffers, Buffers, {b})
LEMMA FullStage ==
  ASSUME NEW w \in Int, NEW new \in Buffers, NEW old \in Buffers, new # old
  PROVE  Leads(Stage(w, new, old), Full(old), Full(new))
BY StageLeads DEF Full

(* A step begins with a copy of the state; the tracers are pushed. *)
Begin == K({"state", "p"}, {"state", "p"}, {"state", "p"})
LEMMA BeginLeads == Leads(<<Copy("p", "state"), AdvanceTracers>>, AtStart, Begin)
<1>1. "p" \in Buffers /\ "state" \in Buffers /\ "p" # "state"
  BY DEF Buffers
<1> DEFINE one == {"state"}
           c == Copy("p", "state")
           t == AdvanceTracers
<1>2. one \in SUBSET Buffers /\ K(one, one, one) = AtStart
  BY <1>1 DEF K, AtStart
<1>3. Gain(one, "p", "state" \in one) = {"state", "p"}
  BY DEF Gain
<1>4. Begin \in Knowledge /\ AtStart \in Knowledge
  BY <1>1 DEF Begin, K, Knowledge, AtStart
<1>5. c \in Ops /\ t \in Ops
  BY <1>1 DEF Ops, AdvanceTracers, Copy
<1>6. Allowed(c, AtStart) /\ Allowed(t, Begin)
  BY <1>1 DEF Allowed, AdvanceTracers, Writing, Begin, K, Copy
<1>7. After(c, AtStart) = Begin
  BY <1>2, <1>3 DEF After, Copy, Begin, K
<1>8. After(t, Begin) = Begin
  BY DEF After, AdvanceTracers, Begin, K
<1> DEFINE T == [k \in 1 .. 3 |-> IF k = 1 THEN AtStart ELSE Begin]
<1>9. T \in [1 .. 3 -> Knowledge] /\ T[1] = AtStart /\ T[2] = Begin /\ T[3] = Begin
  BY <1>4
<1> HIDE DEF T, c, t
<1>10. Len(<<c, t>>) = 2 /\ <<c, t>>[1] = c /\ <<c, t>>[2] = t /\ <<c, t>> \in Seq(Ops)
  BY <1>5
<1>11. Follows(<<c, t>>, T)
  <2>1. \A k \in 1 .. 2 : Allowed(<<c, t>>[k], T[k]) /\ T[k + 1] = After(<<c, t>>[k], T[k])
    <3> TAKE k \in 1 .. 2
    <3>1. k = 1 \/ k = 2
      OBVIOUS
    <3> QED BY <3>1, <1>6, <1>7, <1>8, <1>9, <1>10
  <2> QED BY <2>1, <1>9, <1>10 DEF Follows
<1>12. Leads(<<c, t>>, AtStart, Begin)
  BY <1>9, <1>10, <1>11 DEF Leads
<1> QED BY <1>12 DEF c, t

(* The schemes: with what is known after the tracers, each ends with a state and its
   auxiliaries that are as at the start. *)
LEMMA EulerLeads == Leads(EulerStep, Begin, K({"state", "p"}, {"state", "p"}, {"state"}))
BY StageLeads DEF EulerStep, Begin, Buffers

LEMMA Rk2Leads == Leads(Rk2Step, Begin, K({"state", "p"}, {"state", "p"}, {"state"}))
<1> DEFINE b == {"state", "p"}
<1>1. b \in SUBSET Buffers /\ {"p"} \in SUBSET Buffers /\ "state" \in Buffers /\ "p" \in Buffers /\ "p" # "state"
  BY DEF Buffers
<1>2. Leads(Stage(6000, "p", "state"), K(b, b, b), K(b, b, {"p"}))
  BY <1>1, StageLeads
<1>3. Leads(Stage(12000, "state", "p"), K(b, b, {"p"}), K(b, b, {"state"}))
  BY <1>1, StageLeads
<1> QED BY <1>2, <1>3, LeadsOn DEF Rk2Step, Begin

(* One operation more. *)
LEMMA LeadsFurther ==
  ASSUME NEW s, NEW t \in Seq(Ops), NEW x \in Ops, NEW a, NEW b, NEW c, Leads(s, a, b), Leads(<<x>>, b, c),
         Len(t) = Len(s) + 1, \A k \in 1 .. Len(s) : t[k] = s[k], t[Len(s) + 1] = x
  PROVE  Leads(t, a, c)
<1>1. s \in Seq(Ops) /\ <<x>> \in Seq(Ops) /\ Len(<<x>>) = 1 /\ <<x>>[1] = x
  BY DEF Leads
<1>2. Len(s) \in Nat
  BY <1>1, LenProperties
<1> DEFINE u == s \o <<x>>
<1>3. /\ u \in Seq(Ops) /\ Len(u) = Len(s) + 1
      /\ \A k \in 1 .. Len(s) + 1 : u[k] = IF k <= Len(s) THEN s[k] ELSE <<x>>[k - Len(s)]
  BY <1>1, ConcatProperties
<1> HIDE DEF u
<1>4. \A k \in 1 .. Len(s) + 1 : u[k] = t[k]
  <2> DEFINE n == Len(s)
  <2>1. n \in Nat
    BY <1>2
  <2>2. \A k \in 1 .. n : u[k] = s[k] /\ t[k] = s[k]
    BY <2>1, <1>3
  <2>3. u[n + 1] = x /\ t[n + 1] = x
    <3>1. u[n + 1] = <<x>>[(n + 1) - n]
      <4> HIDE DEF n
      <4>1. n + 1 \in 1 .. n + 1 /\ ~(n + 1 <= n)
        BY <2>1
      <4> QED BY <4>1, <1>3 DEF n
    <3>2. (n + 1) - n = 1
      BY <2>1
    <3> QED BY <3>1, <3>2, <1>1
  <2> HIDE DEF n
  <2>4. \A k \in 1 .. n + 1 : u[k] = t[k]
    BY <2>1, <2>2, <2>3
  <2> QED BY <2>4 DEF n
<1>5. u = t
  BY <1>3, <1>4, SeqEqual
<1>6. Leads(u, a, c)
  BY LeadsOn DEF u
<1> QED BY <1>5, <1>6

(* Two operations in a row. *)
LEMMA Leads2 ==
  ASSUME NEW x \in Ops, NEW y \in Ops, NEW a, NEW b, NEW c, Leads(<<x>>, a, b), Leads(<<y>>, b, c)
  PROVE  Leads(<<x, y>>, a, c)
<1> DEFINE s == <<x>>
           t == <<x, y>>
<1>1. t \in Seq(Ops) /\ Len(t) = Len(s) + 1 /\ (\A k \in 1 .. Len(s) : t[k] = s[k]) /\ t[Len(s) + 1] = y
  OBVIOUS
<1>2. Leads(s, a, b)
  OBVIOUS
<1> HIDE DEF s, t
<1>3. Leads(t, a, c)
  BY <1>1, <1>2, LeadsFurther
<1> QED BY <1>3 DEF t

Fresh(e) == K(Buffers, Buffers, e)
LEMMA FreshLin ==
  ASSUME NEW new \in Buffers, NEW terms \in Seq(Int \X Buffers), NEW e \in SUBSET Buffers
  PROVE  Leads(<<Lin(new, terms)>>, Fresh(e), Fresh(e \ {new})) /\ Lin(new, terms) \in Ops
<1>1. \A n \in DOMAIN terms : terms[n][2] \in Buffers
  OBVIOUS
<1>2. Buffers \cup {new} = Buffers
  OBVIOUS
<1>3. Leads(<<Lin(new, terms)>>, K(Buffers, Buffers, e), K(Buffers \cup {new}, Buffers \cup {new}, e \ {new}))
  BY <1>1, LinLeads
<1> QED BY <1>2, <1>3 DEF Fresh, Ops, Lin

LEMMA Terms2 ==
  ASSUME NEW c \in Int, NEW d \in Int, NEW x \in Buffers, NEW y \in Buffers
  PROVE  <<<<c, x>>, <<d, y>>>> \in Seq(Int \X Buffers)
OBVIOUS

LEMMA Terms3 ==
  ASSUME NEW c \in Int, NEW d \in Int, NEW e \in Int, NEW x \in Buffers, NEW y \in Buffers, NEW z \in Buffers
  PROVE  <<<<c, x>>, <<d, y>>, <<e, z>>>> \in Seq(Int \X Buffers)
OBVIOUS

LEMMA FullLin ==
  ASSUME NEW new \in Buffers, NEW terms \in Seq(Int \X Buffers), NEW b \in Buffers, b # new
  PROVE  Leads(<<Lin(new, terms)>>, Full(b), Full(b)) /\ Lin(new, terms) \in Ops
<1>1. {b} \ {new} = {b} /\ {b} \in SUBSET Buffers
  OBVIOUS
<1> QED BY <1>1, FreshLin DEF Full, Fresh

(* A linear update with two terms. *)
LEMMA FullLin2 ==
  ASSUME NEW new \in Buffers, NEW b \in Buffers, b # new,
         NEW c \in Int, NEW d \in Int, NEW x \in Buffers, NEW y \in Buffers
  PROVE  /\ Leads(<<Lin(new, <<<<c, x>>, <<d, y>>>>)>>, Full(b), Full(b))
         /\ Lin(new, <<<<c, x>>, <<d, y>>>>) \in Ops
<1> DEFINE terms == <<<<c, x>>, <<d, y>>>>
<1>1. terms \in Seq(Int \X Buffers)
  BY Terms2
<1> HIDE DEF terms
<1>2. Leads(<<Lin(new, terms)>>, Full(b), Full(b)) /\ Lin(new, terms) \in Ops
  BY <1>1, FullLin
<1> QED BY <1>2 DEF terms

LEMMA Rk3Leads == Leads(Rk3Step, Begin, Full("state"))
<1> DEFINE b == {"state", "p"}
           S1 == Stage(12000, "p", "state")
           L1 == <<Lin("pp", <<<<9000, "state">>, <<3000, "p">>>>)>>
           S2 == Stage(3000, "pp", "p")
           L2 == <<Lin("state", <<<<4000, "state">>, <<8000, "pp">>>>)>>
           S3 == Stage(8000, "state", "pp")
<1>1. /\ b \in SUBSET Buffers /\ {"p"} \in SUBSET Buffers
      /\ "state" \in Buffers /\ "p" \in Buffers /\ "pp" \in Buffers
      /\ "p" # "state" /\ "pp" # "state" /\ "pp" # "p"
  BY DEF Buffers
<1>2. Leads(S1, Begin, K(b, b, {"p"}))
  BY <1>1, StageLeads DEF Begin
<1>3. Leads(L1, K(b, b, {"p"}), Full("p"))
  <2> DEFINE terms == <<<<9000, "state">>, <<3000, "p">>>>
  <2>1. terms \in Seq(Int \X Buffers) /\ \A n \in DOMAIN terms : terms[n][2] \in b
    BY <1>1
  <2>2. b \cup {"pp"} = Buffers /\ {"p"} \ {"pp"} = {"p"}
    BY DEF Buffers
  <2> HIDE DEF terms
  <2>3. Leads(<<Lin("pp", terms)>>, K(b, b, {"p"}), K(b \cup {"pp"}, b \cup {"pp"}, {"p"} \ {"pp"}))
    <3> HIDE DEF b
    <3> QED BY <1>1, <2>1, LinLeads
  <2> QED BY <2>2, <2>3 DEF Full, terms
<1>4. Leads(S2, Full("p"), Full("pp"))
  BY <1>1, FullStage
<1>5. Leads(L2, Full("pp"), Full("pp"))
  BY <1>1, FullLin2
<1>6. Leads(S3, Full("pp"), Full("state"))
  BY <1>1, FullStage
<1> HIDE DEF S1, L1, S2, L2, S3
<1>7. Leads(S1 \o L1, Begin, Full("p"))
  BY <1>2, <1>3, LeadsOn
<1>8. Leads((S1 \o L1) \o S2, Begin, Full("pp"))
  BY <1>4, <1>7, LeadsOn
<1>9. Leads(((S1 \o L1) \o S2) \o L2, Begin, Full("pp"))
  BY <1>5, <1>8, LeadsOn
<1>10. Leads((((S1 \o L1) \o S2) \o L2) \o S3, Begin, Full("state"))
  BY <1>6, <1>9, LeadsOn
<1>11. Rk3Step = (((S1 \o L1) \o S2) \o L2) \o S3
  BY DEF Rk3Step, S1, L1, S2, L2, S3
<1> QED BY <1>10, <1>11

LEMMA Rk4Leads == Leads(Rk4Step, Begin, Full("state"))
<1> DEFINE b == {"state", "p"}
           L1 == <<Lin("pp", <<<<0, "state">>, <<12000, "p">>>>)>>
           S1 == Stage(14325, "pp", "state")
           l2 == Lin("p", <<<<12000, "p">>, <<2612, "pp">>>>)
           l3 == Lin("state", <<<<1453, "pp">>, <<8661, "p">>>>)
           S2 == Stage(1191, "state", "pp")
           l4 == Lin("p", <<<<12000, "p">>, <<12790, "state">>>>)
           l5 == Lin("pp", <<<<-46126, "state">>, <<25455, "p">>>>)
           S3 == Stage(13580, "pp", "state")
           L6 == <<Lin("state", <<<<6556, "pp">>, <<2384, "p">>>>)>>
           S4 == Stage(3728, "state", "pp")
<1>1. /\ b \in SUBSET Buffers /\ {"p"} \in SUBSET Buffers
      /\ "state" \in Buffers /\ "p" \in Buffers /\ "pp" \in Buffers
      /\ "p" # "state" /\ "pp" # "state" /\ "pp" # "p"
  BY DEF Buffers
<1>2. Leads(L1, Begin, K(Buffers, Buffers, b))
  <2> DEFINE terms == <<<<0, "state">>, <<12000, "p">>>>
  <2>1. terms \in Seq(Int \X Buffers) /\ \A n \in DOMAIN terms : terms[n][2] \in b
    BY <1>1
  <2>2. b \cup {"pp"} = Buffers /\ b \ {"pp"} = b
    BY DEF Buffers
  <2> HIDE DEF terms
  <2>3. Leads(<<Lin("pp", terms)>>, K(b, b, b), K(b \cup {"pp"}, b \cup {"pp"}, b \ {"pp"}))
    <3> HIDE DEF b
    <3> QED BY <1>1, <2>1, LinLeads
  <2> QED BY <2>2, <2>3 DEF Begin, terms
<1>3. Leads(S1, K(Buffers, Buffers, b), Full("pp"))
  BY <1>1, StageLeads DEF Full
<1>4. Leads(<<l2>>, Full("pp"), Full("pp")) /\ Leads(<<l3>>, Full("pp"), Full("pp")) /\ l2 \in Ops /\ l3 \in Ops
  BY <1>1, FullLin2
<1>5. Leads(S2, Full("pp"), Full("state"))
  BY <1>1, FullStage
<1>6. Leads(<<l4>>, Full("state"), Full("state")) /\ Leads(<<l5>>, Full("state"), Full("state")) /\ l4 \in Ops /\ l5 \in Ops
  BY <1>1, FullLin2
<1>7. Leads(S3, Full("state"), Full("pp"))
  BY <1>1, FullStage
<1>8. Leads(L6, Full("pp"), Full("pp"))
  BY <1>1, FullLin2
<1>9. Leads(S4, Full("pp"), Full("state"))
  BY <1>1, FullStage
<1> DEFINE M2 == <<l2, l3>>
           M3 == <<l4, l5>>
<1>10. Rk4Step = ((((((L1 \o S1) \o M2) \o S2) \o M3) \o S3) \o L6) \o S4
  BY DEF Rk4Step
<1> HIDE DEF L1, S1, l2, l3, S2, l4, l5, S3, L6, S4
<1>11. Leads(M2, Full("pp"), Full("pp")) /\ Leads(M3, Full("state"), Full("state"))
  <2>1. /\ M2 \in Seq(Ops) /\ Len(M2) = Len(<<l2>>) + 1
        /\ (\A k \in 1 .. Len(<<l2>>) : M2[k] = <<l2>>[k]) /\ M2[Len(<<l2>>) + 1] = l3
    BY <1>4
  <2>2. /\ M3 \in Seq(Ops) /\ Len(M3) = Len(<<l4>>) + 1
        /\ (\A k \in 1 .. Len(<<l4>>) : M3[k] = <<l4>>[k]) /\ M3[Len(<<l4>>) + 1] = l5
    BY <1>6
  <2> HIDE DEF M2, M3
  <2>3. Leads(M2, Full("pp"), Full("pp"))
    BY <2>1, <1>4, LeadsFurther
  <2>4. Leads(M3, Full("state"), Full("state"))
    BY <2>2, <1>6, LeadsFurther
  <2> QED BY <2>3, <2>4
<1> HIDE DEF M2, M3
<1>12. Leads(L1 \o S1, Begin, Full("pp"))
  BY <1>2, <1>3, LeadsOn
<1>13. Leads((L1 \o S1) \o M2, Begin, Full("pp"))
  BY <1>11, <1>12, LeadsOn
<1>14. Leads(((L1 \o S1) \o M2) \o S2, Begin, Full("state"))
  BY <1>5, <1>13, LeadsOn
<1>15. Leads((((L1 \o S1) \o M2) \o S2) \o M3, Begin, Full("state"))
  BY <1>11, <1>14, LeadsOn
<1>16. Leads(((((L1 \o S1) \o M2) \o S2) \o M3) \o S3, Begin, Full("pp"))
  BY <1>7, <1>15, LeadsOn
<1>17. Leads((((((L1 \o S1) \o M2) \o S2) \o M3) \o S3) \o L6, Begin, Full("pp"))
  BY <1>8, <1>16, LeadsOn
<1>18. Leads(((((((L1 \o S1) \o M2) \o S2) \o M3) \o S3) \o L6) \o S4, Begin, Full("state"))
  BY <1>9, <1>17, LeadsOn
<1> QED BY <1>10, <1>18

LEMMA Imex222Leads == Leads(Imex222Step, Begin, Full("state"))
<1> DEFINE b == {"state", "p"}
           c1 == Copy("pp", "state")
           i1 == Implicit(lambda, "pp", "state")
           a1 == Aux("pp")
           S1 == Stage(12000, "p", "pp")
           l1 == Lin("pp", <<<<40971, "pp">>, <<-40971, "state">>>>)
           l2 == Lin("state", <<<<6000, "state">>, <<6000, "p">>, <<6000, "pp">>>>)
           l3 == Lin("p", <<<<12000, "p">>, <<4971, "pp">>>>)
           bc == Bc("p")
           l4 == Lin("pp", <<<<20485, "pp">>, <<-12000, "p">>>>)
           i2 == Implicit(lambda, "pp", "p")
           l5 == Lin("state", <<<<12000, "state">>, <<20485, "pp">>, <<-20485, "p">>>>)
           S2 == Stage(6000, "state", "pp")
           M1 == <<c1, i1, a1>>
           M2 == <<l1, l2, l3, bc, l4, i2, l5, a1>>
<1>1. /\ b \in SUBSET Buffers /\ "state" \in Buffers /\ "p" \in Buffers /\ "pp" \in Buffers
      /\ "p" # "state" /\ "pp" # "state" /\ "pp" # "p" /\ {} \in SUBSET Buffers /\ lambda \in Int
      /\ \A e \in Buffers : {e} \in SUBSET Buffers
  BY DEF Buffers, lambda
<1>2. Leads(<<c1>>, Begin, Fresh(Buffers)) /\ c1 \in Ops
  <2>1. Gain(b, "pp", "state" \in b) = Buffers
    BY DEF Gain, Buffers
  <2>2. Leads(<<c1>>, K(b, b, b), K(Gain(b, "pp", "state" \in b), Gain(b, "pp", "state" \in b), Gain(b, "pp", "state" \in b)))
    <3> HIDE DEF b
    <3> QED BY <1>1, CopyLeads
  <2>3. c1 \in Ops
    BY <1>1 DEF Ops, Copy
  <2> QED BY <2>1, <2>2, <2>3 DEF Begin, Fresh
<1>3. /\ i1 \in Ops /\ i2 \in Ops /\ a1 \in Ops /\ bc \in Ops
  BY <1>1 DEF Ops, Implicit, Aux, Bc
<1>4. \A x \in Buffers : Gain(Buffers, x, TRUE) = Buffers
  BY DEF Gain
<1>5. \A e \in SUBSET Buffers : Leads(<<i1>>, Fresh(e), Fresh(e \ {"pp"})) /\ Leads(<<i2>>, Fresh(e), Fresh(e \ {"pp"}))
  <2> TAKE e \in SUBSET Buffers
  <2>1. ("state" \in Buffers) = TRUE /\ ("p" \in Buffers) = TRUE
    BY <1>1
  <2>2. /\ Leads(<<i1>>, K(Buffers, Buffers, e), K(Gain(Buffers, "pp", "state" \in Buffers), Gain(Buffers, "pp", "state" \in Buffers), e \ {"pp"}))
        /\ Leads(<<i2>>, K(Buffers, Buffers, e), K(Gain(Buffers, "pp", "p" \in Buffers), Gain(Buffers, "pp", "p" \in Buffers), e \ {"pp"}))
    BY <1>1, ImplicitLeads
  <2> QED BY <2>1, <2>2, <1>1, <1>4 DEF Fresh
<1>6. \A e \in SUBSET Buffers : Leads(<<a1>>, Fresh(e), Full("pp")) /\ Leads(<<bc>>, Fresh(e), Fresh(e \ {"p"}))
  <2> TAKE e \in SUBSET Buffers
  <2>1. ("p" \in Buffers) = TRUE
    BY <1>1
  <2>2. /\ Leads(<<a1>>, K(Buffers, Buffers, e), K(Buffers, Buffers, {"pp"}))
        /\ Leads(<<bc>>, K(Buffers, Buffers, e), K(Buffers, Gain(Buffers, "p", "p" \in Buffers), e \ {"p"}))
    BY <1>1, AuxLeads, BcLeads
  <2> QED BY <2>1, <2>2, <1>1, <1>4 DEF Fresh, Full
<1>7. Leads(S1, Full("pp"), Full("p")) /\ Leads(S2, Full("pp"), Full("state"))
  BY <1>1, FullStage
<1>8. /\ l1 \in Ops /\ l2 \in Ops /\ l3 \in Ops /\ l4 \in Ops /\ l5 \in Ops
      /\ \A e \in SUBSET Buffers : /\ Leads(<<l1>>, Fresh(e), Fresh(e \ {"pp"}))
                                   /\ Leads(<<l2>>, Fresh(e), Fresh(e \ {"state"}))
                                   /\ Leads(<<l3>>, Fresh(e), Fresh(e \ {"p"}))
                                   /\ Leads(<<l4>>, Fresh(e), Fresh(e \ {"pp"}))
                                   /\ Leads(<<l5>>, Fresh(e), Fresh(e \ {"state"}))
  <2> SUFFICES ASSUME NEW e \in SUBSET Buffers
               PROVE  /\ l1 \in Ops /\ Leads(<<l1>>, Fresh(e), Fresh(e \ {"pp"}))
                      /\ l2 \in Ops /\ Leads(<<l2>>, Fresh(e), Fresh(e \ {"state"}))
                      /\ l3 \in Ops /\ Leads(<<l3>>, Fresh(e), Fresh(e \ {"p"}))
                      /\ l4 \in Ops /\ Leads(<<l4>>, Fresh(e), Fresh(e \ {"pp"}))
                      /\ l5 \in Ops /\ Leads(<<l5>>, Fresh(e), Fresh(e \ {"state"}))
    <3>1. {} \in SUBSET Buffers
      OBVIOUS
    <3> HIDE DEF l1, l2, l3, l4, l5
    <3> QED BY <3>1
  <2>1. l1 \in Ops /\ Leads(<<l1>>, Fresh(e), Fresh(e \ {"pp"}))
    <3> DEFINE terms == <<<<40971, "pp">>, <<-40971, "state">>>>
    <3>1. terms \in Seq(Int \X Buffers)
      BY <1>1
    <3> HIDE DEF terms
    <3>2. Lin("pp", terms) \in Ops /\ Leads(<<Lin("pp", terms)>>, Fresh(e), Fresh(e \ {"pp"}))
      BY <3>1, <1>1, FreshLin
    <3> QED BY <3>2 DEF terms
  <2>2. l2 \in Ops /\ Leads(<<l2>>, Fresh(e), Fresh(e \ {"state"}))
    <3> DEFINE terms == <<<<6000, "state">>, <<6000, "p">>, <<6000, "pp">>>>
    <3>1. terms \in Seq(Int \X Buffers)
      BY <1>1
    <3> HIDE DEF terms
    <3>2. Lin("state", terms) \in Ops /\ Leads(<<Lin("state", terms)>>, Fresh(e), Fresh(e \ {"state"}))
      BY <3>1, <1>1, FreshLin
    <3> QED BY <3>2 DEF terms
  <2>3. l3 \in Ops /\ Leads(<<l3>>, Fresh(e), Fresh(e \ {"p"}))
    <3> DEFINE terms == <<<<12000, "p">>, <<4971, "pp">>>>
    <3>1. terms \in Seq(Int \X Buffers)
      BY <1>1
    <3> HIDE DEF terms
    <3>2. Lin("p", terms) \in Ops /\ Leads(<<Lin("p", terms)>>, Fresh(e), Fresh(e \ {"p"}))
      BY <3>1, <1>1, FreshLin
    <3> QED BY <3>2 DEF terms
  <2>4. l4 \in Ops /\ Leads(<<l4>>, Fresh(e), Fresh(e \ {"pp"}))
    <3> DEFINE terms == <<<<20485, "pp">>, <<-12000, "p">>>>
    <3>1. terms \in Seq(Int \X Buffers)
      BY <1>1
    <3> HIDE DEF terms
    <3>2. Lin("pp", terms) \in Ops /\ Leads(<<Lin("pp", terms)>>, Fresh(e), Fresh(e \ {"pp"}))
      BY <3>1, <1>1, FreshLin
    <3> QED BY <3>2 DEF terms
  <2>5. l5 \in Ops /\ Leads(<<l5>>, Fresh(e), Fresh(e \ {"state"}))
    <3> DEFINE terms == <<<<12000, "state">>, <<20485, "pp">>, <<-20485, "p">>>>
    <3>1. terms \in Seq(Int \X Buffers)
      BY <1>1
    <3> HIDE DEF terms
    <3>2. Lin("state", terms) \in Ops /\ Leads(<<Lin("state", terms)>>, Fresh(e), Fresh(e \ {"state"}))
      BY <3>1, <1>1, FreshLin
    <3> QED BY <3>2 DEF terms
  <2> HIDE DEF l1, l2, l3, l4, l5
  <2> QED BY <2>1, <2>2, <2>3, <2>4, <2>5
<1>9. Imex222Step = ((M1 \o S1) \o M2) \o S2
  BY DEF Imex222Step
<1> HIDE DEF c1, i1, a1, S1, l1, l2, l3, bc, l4, i2, l5, S2
<1>10. Leads(M1, Begin, Full("pp"))
  <2> DEFINE s == <<c1, i1>>
  <2>1. /\ M1 \in Seq(Ops) /\ Len(M1) = Len(s) + 1
        /\ (\A k \in 1 .. Len(s) : M1[k] = s[k]) /\ M1[Len(s) + 1] = a1
    BY <1>2, <1>3
  <2>2. Leads(s, Begin, Fresh(Buffers \ {"pp"}))
    <3>1. Leads(<<i1>>, Fresh(Buffers), Fresh(Buffers \ {"pp"}))
      BY <1>5
    <3> QED BY <3>1, <1>2, <1>3, Leads2
  <2>3. Leads(<<a1>>, Fresh(Buffers \ {"pp"}), Full("pp"))
    <3>1. Buffers \ {"pp"} \in SUBSET Buffers
      OBVIOUS
    <3> QED BY <3>1, <1>6
  <2> HIDE DEF s, M1
  <2> QED BY <2>1, <2>2, <2>3, <1>3, LeadsFurther
<1>11. Leads(M2, Full("p"), Full("pp"))
  <2>1. /\ {"p"} \ {"p"} = {} /\ {} \ {"pp"} = {} /\ {} \ {"state"} = {} /\ {} \ {"p"} = {}
        /\ {"p"} \ {"pp"} = {"p"} /\ {"p"} \ {"state"} = {"p"} /\ Full("p") = Fresh({"p"})
    BY DEF Full, Fresh
  <2>2. /\ Leads(<<l1>>, Full("p"), Full("p")) /\ Leads(<<l2>>, Full("p"), Full("p"))
        /\ Leads(<<l3>>, Full("p"), Fresh({}))
    BY <2>1, <1>1, <1>8
  <2>3. /\ Leads(<<bc>>, Fresh({}), Fresh({})) /\ Leads(<<l4>>, Fresh({}), Fresh({}))
        /\ Leads(<<i2>>, Fresh({}), Fresh({})) /\ Leads(<<l5>>, Fresh({}), Fresh({})) /\ Leads(<<a1>>, Fresh({}), Full("pp"))
    BY <2>1, <1>1, <1>5, <1>6, <1>8
  <2> DEFINE s2 == <<l1, l2>>
             s3 == <<l1, l2, l3>>
             s4 == <<l1, l2, l3, bc>>
             s5 == <<l1, l2, l3, bc, l4>>
             s6 == <<l1, l2, l3, bc, l4, i2>>
             s7 == <<l1, l2, l3, bc, l4, i2, l5>>
  <2>4. /\ s3 \in Seq(Ops) /\ Len(s3) = Len(s2) + 1
        /\ (\A k \in 1 .. Len(s2) : s3[k] = s2[k]) /\ s3[Len(s2) + 1] = l3
    BY <1>3, <1>8
  <2>5. /\ s4 \in Seq(Ops) /\ Len(s4) = Len(s3) + 1
        /\ (\A k \in 1 .. Len(s3) : s4[k] = s3[k]) /\ s4[Len(s3) + 1] = bc
    BY <1>3, <1>8
  <2>6. /\ s5 \in Seq(Ops) /\ Len(s5) = Len(s4) + 1
        /\ (\A k \in 1 .. Len(s4) : s5[k] = s4[k]) /\ s5[Len(s4) + 1] = l4
    BY <1>3, <1>8
  <2>7. /\ s6 \in Seq(Ops) /\ Len(s6) = Len(s5) + 1
        /\ (\A k \in 1 .. Len(s5) : s6[k] = s5[k]) /\ s6[Len(s5) + 1] = i2
    BY <1>3, <1>8
  <2>8. /\ s7 \in Seq(Ops) /\ Len(s7) = Len(s6) + 1
        /\ (\A k \in 1 .. Len(s6) : s7[k] = s6[k]) /\ s7[Len(s6) + 1] = l5
    BY <1>3, <1>8
  <2>9. /\ M2 \in Seq(Ops) /\ Len(M2) = Len(s7) + 1
        /\ (\A k \in 1 .. Len(s7) : M2[k] = s7[k]) /\ M2[Len(s7) + 1] = a1
    BY <1>3, <1>8
  <2>10. Leads(s2, Full("p"), Full("p"))
    BY <2>2, <1>8, Leads2
  <2>11. i2 \in Ops
    BY <1>3
  <2> HIDE DEF s2, s3, s4, s5, s6, s7, M2
  <2>12. Leads(s3, Full("p"), Fresh({}))
    BY <2>2, <2>4, <2>10, <1>3, <1>8, LeadsFurther
  <2>13. Leads(s4, Full("p"), Fresh({}))
    BY <2>3, <2>5, <2>12, <1>3, <1>8, LeadsFurther
  <2>14. Leads(s5, Full("p"), Fresh({}))
    BY <2>3, <2>6, <2>13, <1>3, <1>8, LeadsFurther
  <2>15. Leads(s6, Full("p"), Fresh({}))
    BY <2>3, <2>7, <2>14, <2>11, LeadsFurther
  <2>16. Leads(s7, Full("p"), Fresh({}))
    BY <2>3, <2>8, <2>15, <1>3, <1>8, LeadsFurther
  <2>17. Leads(M2, Full("p"), Full("pp"))
    BY <2>3, <2>9, <2>16, <1>3, <1>8, LeadsFurther
  <2> QED BY <2>17
<1> HIDE DEF M1, M2
<1>12. Leads(M1 \o S1, Begin, Full("p"))
  BY <1>7, <1>10, LeadsOn
<1>13. Leads((M1 \o S1) \o M2, Begin, Full("pp"))
  BY <1>11, <1>12, LeadsOn
<1>14. Leads(((M1 \o S1) \o M2) \o S2, Begin, Full("state"))
  BY <1>7, <1>13, LeadsOn
<1> QED BY <1>9, <1>14

(* Every program, whatever its scheme, can be followed from the state of a step's start,
   and ends with a state that the next step can start from. *)
LEMMA ProgramsLead ==
  ASSUME NEW s \in DOMAIN Schemes
  PROVE  /\ Programs[s] \in Seq(Ops)
         /\ \E T : /\ Follows(Programs[s], T) /\ T[1] = AtStart
                  /\ "state" \in T[Len(Programs[s]) + 1].fresh /\ "state" \in T[Len(Programs[s]) + 1].like
<1> DEFINE b == {"state", "p"}
           S == Schemes[s]
           B == <<Copy("p", "state"), AdvanceTracers>>
           E == <<Copy("p", "state")>>
<1>1. b \in SUBSET Buffers /\ {"state"} \in SUBSET Buffers /\ "state" \in Buffers /\ "p" \in Buffers /\ "p" # "state"
  BY DEF Buffers
<1>2. Leads(S, Begin, K(b, b, {"state"})) \/ Leads(S, Begin, K(Buffers, Buffers, {"state"}))
  <2>1. s \in {"euler", "rk2", "rk3", "rk4", "imex222"}
    BY DEF Schemes
  <2>2. CASE s = "euler"
    BY <2>2, EulerLeads DEF Schemes
  <2>3. CASE s = "rk2"
    BY <2>3, Rk2Leads DEF Schemes
  <2>4. CASE s = "rk3"
    BY <2>4, Rk3Leads DEF Schemes, Full
  <2>5. CASE s = "rk4"
    BY <2>5, Rk4Leads DEF Schemes, Full
  <2>6. CASE s = "imex222"
    BY <2>6, Imex222Leads DEF Schemes, Full
  <2> QED BY <2>1, <2>2, <2>3, <2>4, <2>5, <2>6
<1> DEFINE k == {"state"}
<1>3. /\ Leads(E, K(b, b, k), K(Gain(b, "p", "state" \in b), Gain(b, "p", "state" \in b), Gain(k, "p", "state" \in k)))
      /\ Leads(E, K(Buffers, Buffers, k),
               K(Gain(Buffers, "p", "state" \in Buffers), Gain(Buffers, "p", "state" \in Buffers), Gain(k, "p", "state" \in k)))
  <2>1. b \in SUBSET Buffers /\ k \in SUBSET Buffers /\ Buffers \in SUBSET Buffers
    BY <1>1
  <2> HIDE DEF b, k
  <2> QED BY <2>1, <1>1, CopyLeads
<1>4. "state" \in Gain(b, "p", "state" \in b) /\ "state" \in Gain(k, "p", "state" \in k)
  BY DEF Gain
<1>5. "state" \in Gain(Buffers, "p", "state" \in Buffers)
  BY <1>1 DEF Gain
<1>6. PICK w : Leads(S \o E, Begin, w) /\ "state" \in w.fresh /\ "state" \in w.like
  <2> DEFINE w1 == K(Gain(b, "p", "state" \in b), Gain(b, "p", "state" \in b), Gain(k, "p", "state" \in k))
             w2 == K(Gain(Buffers, "p", "state" \in Buffers), Gain(Buffers, "p", "state" \in Buffers), Gain(k, "p", "state" \in k))
  <2>1. /\ "state" \in w1.fresh /\ "state" \in w1.like
        /\ "state" \in w2.fresh /\ "state" \in w2.like
    BY <1>4, <1>5 DEF K
  <2>2. Leads(E, K(b, b, k), w1) /\ Leads(E, K(Buffers, Buffers, k), w2)
    BY <1>3
  <2>3. Leads(S, Begin, K(b, b, k)) \/ Leads(S, Begin, K(Buffers, Buffers, k))
    BY <1>2
  <2> HIDE DEF w1, w2, S, E, b, k
  <2>4. Leads(S \o E, Begin, w1) \/ Leads(S \o E, Begin, w2)
    BY <2>2, <2>3, LeadsOn
  <2> QED BY <2>1, <2>4
<1>7. Leads(B, AtStart, Begin)
  BY BeginLeads
<1>8. S \in Seq(Ops) /\ E \in Seq(Ops) /\ B \in Seq(Ops)
  <2> HIDE DEF S, B, E
  <2> QED BY <1>2, <1>3, <1>7 DEF Leads
<1>9. Leads(B \o (S \o E), AtStart, w)
  <2> HIDE DEF S, B, E
  <2> QED BY <1>6, <1>7, LeadsOn
<1>10. Programs[s] = B \o (S \o E)
  <2>1. Programs[s] = (B \o S) \o E
    BY DEF Programs
  <2> HIDE DEF S, B, E
  <2>2. (B \o S) \o E = B \o (S \o E)
    BY <1>8, ConcatAssociative
  <2> QED BY <2>1, <2>2
<1> HIDE DEF S, B, E
<1>11. Leads(Programs[s], AtStart, w)
  BY <1>9, <1>10
<1> QED BY <1>6, <1>11 DEF Leads

-----------------------------------------------------------------------------
(* What is read is fresh: what a program knows is so *)

(* What is known at each place of scheme s's program, and that it is so of the buffers. *)
Leading(s)  == CHOOSE T : /\ Follows(Programs[s], T) /\ T[1] = AtStart
                          /\ "state" \in T[Len(Programs[s]) + 1].fresh /\ "state" \in T[Len(Programs[s]) + 1].like
Known(a, in, gz, ax) ==
  /\ \A b \in a.live  : DOMAIN in[b] = Terms
  /\ \A b \in a.fresh : DOMAIN in[b] = Terms /\ gz[b] = in[b]
  /\ \A b \in a.like  : ax = <<in[b], gz[b]>>
ReadInv ==
  /\ job \in Cases /\ pc \in 1 .. Len(Program) + 1
  /\ DOMAIN inner = Buffers /\ DOMAIN ghost = Buffers
  /\ Known(Leading(job.scheme)[pc], inner, ghost, aux)

(* The table chosen for a scheme is one that its program can be followed with. *)
LEMMA LeadingFollows ==
  ASSUME NEW s \in DOMAIN Schemes
  PROVE  /\ Programs[s] \in Seq(Ops) /\ Follows(Programs[s], Leading(s)) /\ Leading(s)[1] = AtStart
         /\ "state" \in Leading(s)[Len(Programs[s]) + 1].fresh /\ "state" \in Leading(s)[Len(Programs[s]) + 1].like
<1> DEFINE P(T) == /\ Follows(Programs[s], T) /\ T[1] = AtStart
                   /\ "state" \in T[Len(Programs[s]) + 1].fresh /\ "state" \in T[Len(Programs[s]) + 1].like
<1>1. Programs[s] \in Seq(Ops) /\ \E T : P(T)
  BY ProgramsLead
<1>2. Leading(s) = CHOOSE T : P(T)
  BY Zenon DEF Leading
<1> HIDE DEF P
<1>3. P(Leading(s))
  BY <1>1, <1>2, Zenon
<1> QED BY <1>1, <1>3 DEF P

(* A buffer of this step is not stale, and stays of this step when it is added to. *)
LEMMA LiveContents ==
  /\ DOMAIN Y = Terms /\ Y # Stale
  /\ \A c : DOMAIN c = Terms => c # Stale
  /\ \A c, w : DOMAIN c = Terms => DOMAIN Plus(c, w) = Terms
<1>1. Terms # {} /\ DOMAIN Stale = {}
  BY DEF Terms, Stale
<1>2. \A c : DOMAIN c = Terms => c # Stale
  BY <1>1
<1>3. DOMAIN Y = Terms
  BY DEF Y
<1>4. ASSUME NEW c, NEW w, DOMAIN c = Terms
      PROVE  DOMAIN Plus(c, w) = Terms
  <2>1. Plus(c, w) = [c EXCEPT ![Len(evals) + 2] = @ + w]
    BY <1>2, <1>4 DEF Plus
  <2> DEFINE i == Len(evals) + 2
  <2>2. DOMAIN [c EXCEPT ![i] = c[i] + w] = DOMAIN c
    <3> HIDE DEF i
    <3> QED OBVIOUS
  <2> QED BY <2>1, <2>2, <1>4
<1> QED BY <1>2, <1>3, <1>4

(* What a linear update of buffers of this step holds. *)
LEMMA CombineLive ==
  ASSUME NEW D, NEW f, \A n \in D : DOMAIN f[n][2] = Terms
  PROVE  DOMAIN Combine([n \in D |-> <<f[n][1], f[n][2]>>]) = Terms
<1> DEFINE t == [n \in D |-> <<f[n][1], f[n][2]>>]
<1>1. ~ \E n \in DOMAIN t : t[n][2] = Stale
  <2>1. \A n \in D : t[n][2] = f[n][2]
    OBVIOUS
  <2> QED BY <2>1, LiveContents
<1>2. Combine(t) = [k \in Terms |-> Sum(t, k)]
  <2> HIDE DEF t
  <2> QED BY <1>1 DEF Combine
<1> HIDE DEF t
<1>3. DOMAIN Combine(t) = Terms
  BY <1>2
<1> QED BY <1>3 DEF t

(* The state of the first step is as a step starts. *)
LEMMA ReadInit ==
  ASSUME Init
  PROVE  ReadInv
<1>1. job \in Cases /\ pc = 1 /\ inner = [b \in Buffers |-> IF b = "state" THEN Y ELSE Stale]
      /\ ghost = inner /\ aux = <<Y, Y>>
  BY DEF Init
<1>2. job.scheme \in DOMAIN Schemes
  BY <1>1, CasesAssumption
<1>3. /\ Programs[job.scheme] \in Seq(Ops) /\ Leading(job.scheme)[1] = AtStart
  BY <1>2, LeadingFollows
<1>4. Len(Program) \in Nat
  BY <1>3, LenProperties DEF Program
<1>5. pc \in 1 .. Len(Program) + 1
  BY <1>1, <1>4
<1>6. "state" \in Buffers
  BY DEF Buffers
<1>7. inner["state"] = Y /\ ghost["state"] = Y
  BY <1>1, <1>6
<1>8. Known(AtStart, inner, ghost, aux)
  BY <1>1, <1>7, LiveContents DEF Known, AtStart
<1> QED BY <1>1, <1>3, <1>5, <1>8 DEF ReadInv

(* The operation under way, and what is known before and after it. *)
LEMMA UnderWay ==
  ASSUME ReadInv, ~Finished
  PROVE  LET a == Leading(job.scheme)[pc]
         IN  /\ Allowed(Op, a) /\ Leading(job.scheme)[pc + 1] = After(Op, a)
             /\ Known(a, inner, ghost, aux) /\ pc + 1 \in 1 .. Len(Program) + 1
             /\ a.live \subseteq Buffers /\ a.fresh \subseteq Buffers /\ a.like \subseteq Buffers
<1> DEFINE T == Leading(job.scheme)
           s == Programs[job.scheme]
<1>1. job.scheme \in DOMAIN Schemes
  BY CasesAssumption DEF ReadInv
<1>2. s \in Seq(Ops) /\ Follows(s, T)
  BY <1>1, LeadingFollows
<1>3. Len(s) \in Nat /\ Len(Program) = Len(s) /\ Op = s[pc]
  BY <1>2, LenProperties DEF Program, Op
<1>4. pc \in 1 .. Len(s) + 1 /\ ~(pc > Len(s)) /\ Known(T[pc], inner, ghost, aux)
  BY <1>3 DEF ReadInv, Finished
<1> HIDE DEF T, s
<1>5. pc \in 1 .. Len(s) /\ pc + 1 \in 1 .. Len(s) + 1
  BY <1>3, <1>4
<1>6. Allowed(s[pc], T[pc]) /\ T[pc + 1] = After(s[pc], T[pc])
  BY <1>2, <1>5 DEF Follows
<1>7. T[pc] \in Knowledge
  BY <1>2, <1>4 DEF Follows
<1>8. T[pc].live \subseteq Buffers /\ T[pc].fresh \subseteq Buffers /\ T[pc].like \subseteq Buffers
  BY <1>7 DEF Knowledge
<1> QED BY <1>3, <1>4, <1>5, <1>6, <1>8 DEF T

(* One operation done: what is known after it is so. *)
LEMMA OperationDone ==
  ASSUME ReadInv, ~Finished, job' = job, pc' = pc + 1, DOMAIN inner' = Buffers, DOMAIN ghost' = Buffers,
         \A b \in After(Op, Leading(job.scheme)[pc]).live  : DOMAIN inner'[b] = Terms,
         \A b \in After(Op, Leading(job.scheme)[pc]).fresh : DOMAIN inner'[b] = Terms /\ ghost'[b] = inner'[b],
         \A b \in After(Op, Leading(job.scheme)[pc]).like  : aux' = <<inner'[b], ghost'[b]>>
  PROVE  ReadInv'
<1> DEFINE a == After(Op, Leading(job.scheme)[pc])
           n == Leading(job.scheme)[pc + 1]
<1>1. n = a /\ pc + 1 \in 1 .. Len(Program) + 1
  BY UnderWay
<1>2. Program' = Program /\ job' \in Cases
  BY DEF Program, ReadInv
<1>3. Leading(job.scheme)' = Leading(job.scheme)
  BY DEF Leading
<1>4. Known(a, inner', ghost', aux')
  BY DEF Known
<1>5. Known(n, inner', ghost', aux')
  BY <1>1, <1>4
<1>6. Known(Leading(job.scheme)[pc], inner, ghost, aux)' <=> Known(n, inner', ghost', aux')
  BY <1>3 DEF Known
<1>7. pc' \in 1 .. Len(Program') + 1
  BY <1>1, <1>2
<1>8. DOMAIN inner' = Buffers /\ DOMAIN ghost' = Buffers
  OBVIOUS
<1> HIDE DEF a, n
<1> QED BY <1>2, <1>5, <1>6, <1>7, <1>8 DEF ReadInv

(* Each operation does to the buffers what After does to what is known of them. *)
LEMMA CopyKeeps ==
  ASSUME ReadInv, CopyBuffer
  PROVE  ReadInv'
<1> DEFINE o == Op
           a == Leading(job.scheme)[pc]
           b == After(o, a)
<1>1. ~Finished /\ o.op = "copy" /\ aux' = aux /\ job' = job /\ pc' = pc + 1
  BY DEF CopyBuffer, Doing, Done
<1>2. /\ inner' = [inner EXCEPT ![o.new] = inner[o.old]] /\ ghost' = [ghost EXCEPT ![o.new] = ghost[o.old]]
      /\ DOMAIN inner = Buffers /\ DOMAIN ghost = Buffers
  BY DEF CopyBuffer, Put, ReadInv
<1>3. /\ o.new \in Buffers /\ Known(a, inner, ghost, aux)
      /\ a.live \subseteq Buffers /\ a.fresh \subseteq Buffers /\ a.like \subseteq Buffers
  BY <1>1, UnderWay DEF Allowed, Writing
<1>4. /\ b.live = Gain(a.live, o.new, o.old \in a.live) /\ b.fresh = Gain(a.fresh, o.new, o.old \in a.fresh)
      /\ b.like = Gain(a.like, o.new, o.old \in a.like)
  <2> HIDE DEF o, a
  <2> QED BY <1>1 DEF After
<1> HIDE DEF o, a, b
<1>5. /\ DOMAIN inner' = Buffers /\ DOMAIN ghost' = Buffers
      /\ inner'[o.new] = inner[o.old] /\ ghost'[o.new] = ghost[o.old]
      /\ \A n \in Buffers : n # o.new => inner'[n] = inner[n] /\ ghost'[n] = ghost[n]
  BY <1>2, <1>3
<1>6. \A n \in b.live : DOMAIN inner'[n] = Terms
  BY <1>3, <1>4, <1>5 DEF Known, Gain
<1>7. \A n \in b.fresh : DOMAIN inner'[n] = Terms /\ ghost'[n] = inner'[n]
  BY <1>3, <1>4, <1>5 DEF Known, Gain
<1>8. \A n \in b.like : aux' = <<inner'[n], ghost'[n]>>
  <2> TAKE n \in b.like
  <2>1. CASE n = o.new
    <3>1. o.old \in a.like
      BY <2>1, <1>4 DEF Gain
    <3>2. aux = <<inner[o.old], ghost[o.old]>>
      BY <3>1, <1>3 DEF Known
    <3> QED BY <2>1, <3>2, <1>1, <1>5
  <2>2. CASE n # o.new
    <3>1. n \in a.like /\ n \in Buffers
      BY <2>2, <1>3, <1>4 DEF Gain
    <3>2. aux = <<inner[n], ghost[n]>>
      BY <3>1, <1>3 DEF Known
    <3> QED BY <2>2, <3>1, <3>2, <1>1, <1>5
  <2> QED BY <2>1, <2>2
<1> QED BY <1>1, <1>5, <1>6, <1>7, <1>8, OperationDone DEF b, o, a

LEMMA TracersKeep ==
  ASSUME ReadInv, PushTracers
  PROVE  ReadInv'
<1> DEFINE o == Op
           a == Leading(job.scheme)[pc]
           b == After(o, a)
<1>1. /\ ~Finished /\ o.op = "tracers" /\ job' = job /\ pc' = pc + 1
      /\ inner' = inner /\ ghost' = ghost /\ aux' = aux
  BY DEF PushTracers, Doing, Done, data
<1>2. DOMAIN inner = Buffers /\ DOMAIN ghost = Buffers /\ Known(a, inner, ghost, aux)
  BY <1>1, UnderWay DEF ReadInv
<1>3. b.live = a.live /\ b.fresh = a.fresh /\ b.like = a.like
  <2> HIDE DEF o, a
  <2> QED BY <1>1 DEF After
<1> HIDE DEF o, a, b
<1>4. Known(b, inner, ghost, aux)
  BY <1>2, <1>3 DEF Known
<1>5. /\ DOMAIN inner' = Buffers /\ DOMAIN ghost' = Buffers
      /\ \A n \in b.live : DOMAIN inner'[n] = Terms
      /\ \A n \in b.fresh : DOMAIN inner'[n] = Terms /\ ghost'[n] = inner'[n]
      /\ \A n \in b.like : aux' = <<inner'[n], ghost'[n]>>
  BY <1>1, <1>2, <1>4 DEF Known
<1> QED BY <1>1, <1>5, OperationDone DEF b, o, a

LEMMA LinearKeeps ==
  ASSUME ReadInv, LinearUpdate
  PROVE  ReadInv'
<1> DEFINE o == Op
           a == Leading(job.scheme)[pc]
           b == After(o, a)
           D == DOMAIN o.terms
           in == Combine([n \in D |-> <<o.terms[n][1], inner[o.terms[n][2]]>>])
           gz == Combine([n \in D |-> <<o.terms[n][1], ghost[o.terms[n][2]]>>])
<1>1. ~Finished /\ o.op = "lin" /\ aux' = aux /\ job' = job /\ pc' = pc + 1
  BY DEF LinearUpdate, Doing, Done
<1>2. /\ inner' = [inner EXCEPT ![o.new] = in] /\ ghost' = [ghost EXCEPT ![o.new] = gz]
      /\ DOMAIN inner = Buffers /\ DOMAIN ghost = Buffers
  BY DEF LinearUpdate, Put, ReadInv
<1>3. /\ o.new \in Buffers /\ Known(a, inner, ghost, aux)
      /\ a.live \subseteq Buffers /\ a.fresh \subseteq Buffers /\ a.like \subseteq Buffers
  BY <1>1, UnderWay DEF Allowed, Writing
<1>4. /\ b.live = Gain(a.live, o.new, Sources(o) \subseteq a.live) /\ b.fresh = Gain(a.fresh, o.new, Sources(o) \subseteq a.fresh)
      /\ b.like = a.like \ {o.new}
  <2> HIDE DEF o, a
  <2> QED BY <1>1 DEF After
<1> HIDE DEF o, a, b
<1>5. Sources(o) \subseteq a.live => DOMAIN in = Terms
  <2> SUFFICES ASSUME Sources(o) \subseteq a.live
               PROVE  DOMAIN in = Terms
    OBVIOUS
  <2>1. \A n \in D : DOMAIN inner[o.terms[n][2]] = Terms
    BY <1>3 DEF Sources, Known
  <2> QED BY <2>1, CombineLive
<1>6. Sources(o) \subseteq a.fresh => DOMAIN in = Terms /\ gz = in
  <2> SUFFICES ASSUME Sources(o) \subseteq a.fresh
               PROVE  DOMAIN in = Terms /\ gz = in
    OBVIOUS
  <2>1. \A n \in D : DOMAIN inner[o.terms[n][2]] = Terms /\ ghost[o.terms[n][2]] = inner[o.terms[n][2]]
    BY <1>3 DEF Sources, Known
  <2>2. [n \in D |-> <<o.terms[n][1], ghost[o.terms[n][2]]>>] = [n \in D |-> <<o.terms[n][1], inner[o.terms[n][2]]>>]
    BY <2>1
  <2>3. DOMAIN in = Terms
    BY <2>1, CombineLive
  <2> QED BY <2>2, <2>3
<1> HIDE DEF in, gz, D
<1>7. /\ DOMAIN inner' = Buffers /\ DOMAIN ghost' = Buffers
      /\ inner'[o.new] = in /\ ghost'[o.new] = gz
      /\ \A n \in Buffers : n # o.new => inner'[n] = inner[n] /\ ghost'[n] = ghost[n]
  BY <1>2, <1>3
<1>8. \A n \in b.live : DOMAIN inner'[n] = Terms
  BY <1>3, <1>4, <1>5, <1>7 DEF Known, Gain
<1>9. \A n \in b.fresh : DOMAIN inner'[n] = Terms /\ ghost'[n] = inner'[n]
  BY <1>3, <1>4, <1>6, <1>7 DEF Known, Gain
<1>10. \A n \in b.like : aux' = <<inner'[n], ghost'[n]>>
  <2> TAKE n \in b.like
  <2>1. n \in a.like /\ n # o.new /\ n \in Buffers
    BY <1>3, <1>4
  <2>2. aux = <<inner[n], ghost[n]>>
    BY <2>1, <1>3 DEF Known
  <2> QED BY <2>1, <2>2, <1>1, <1>7
<1> QED BY <1>1, <1>7, <1>8, <1>9, <1>10, OperationDone DEF b, o, a

LEMMA BoundariesKeep ==
  ASSUME ReadInv, ApplyBoundaryConditions
  PROVE  ReadInv'
<1> DEFINE o == Op
           a == Leading(job.scheme)[pc]
           b == After(o, a)
<1>1. ~Finished /\ o.op = "bc" /\ inner' = inner /\ aux' = aux /\ job' = job /\ pc' = pc + 1
  BY DEF ApplyBoundaryConditions, Doing, Done
<1>2. ghost' = [ghost EXCEPT ![o.new] = inner[o.new]] /\ DOMAIN inner = Buffers /\ DOMAIN ghost = Buffers
  BY DEF ApplyBoundaryConditions, ReadInv
<1>3. /\ o.new \in Buffers /\ Known(a, inner, ghost, aux)
      /\ a.live \subseteq Buffers /\ a.fresh \subseteq Buffers /\ a.like \subseteq Buffers
  BY <1>1, UnderWay DEF Allowed, Writing
<1>4. b.live = a.live /\ b.fresh = Gain(a.fresh, o.new, o.new \in a.live) /\ b.like = a.like \ {o.new}
  <2> HIDE DEF o, a
  <2> QED BY <1>1 DEF After
<1> HIDE DEF o, a, b
<1>5. /\ DOMAIN inner' = Buffers /\ DOMAIN ghost' = Buffers /\ ghost'[o.new] = inner[o.new]
      /\ \A n \in Buffers : n # o.new => ghost'[n] = ghost[n]
  BY <1>1, <1>2, <1>3
<1>6. \A n \in b.live : DOMAIN inner'[n] = Terms
  BY <1>1, <1>3, <1>4 DEF Known
<1>7. \A n \in b.fresh : DOMAIN inner'[n] = Terms /\ ghost'[n] = inner'[n]
  BY <1>1, <1>3, <1>4, <1>5 DEF Known, Gain
<1>8. \A n \in b.like : aux' = <<inner'[n], ghost'[n]>>
  <2> TAKE n \in b.like
  <2>1. n \in a.like /\ n # o.new /\ n \in Buffers
    BY <1>3, <1>4
  <2>2. aux = <<inner[n], ghost[n]>>
    BY <2>1, <1>3 DEF Known
  <2> QED BY <2>1, <2>2, <1>1, <1>5
<1> QED BY <1>1, <1>5, <1>6, <1>7, <1>8, OperationDone DEF b, o, a

LEMMA AuxiliariesKeep ==
  ASSUME ReadInv, ComputeAuxiliaries
  PROVE  ReadInv'
<1> DEFINE o == Op
           a == Leading(job.scheme)[pc]
           b == After(o, a)
<1>1. ~Finished /\ o.op = "aux" /\ inner' = inner /\ ghost' = ghost /\ job' = job /\ pc' = pc + 1
  BY DEF ComputeAuxiliaries, Doing, Done
<1>2. aux' = <<inner[o.old], ghost[o.old]>> /\ DOMAIN inner = Buffers /\ DOMAIN ghost = Buffers
  BY DEF ComputeAuxiliaries, ReadInv
<1>3. Known(a, inner, ghost, aux)
  BY <1>1, UnderWay
<1>4. b.live = a.live /\ b.fresh = a.fresh /\ b.like = {o.old}
  <2> HIDE DEF o, a
  <2> QED BY <1>1 DEF After
<1> HIDE DEF o, a, b
<1>5. /\ DOMAIN inner' = Buffers /\ DOMAIN ghost' = Buffers
      /\ \A n \in b.live : DOMAIN inner'[n] = Terms
      /\ \A n \in b.fresh : DOMAIN inner'[n] = Terms /\ ghost'[n] = inner'[n]
  BY <1>1, <1>2, <1>3, <1>4 DEF Known
<1>6. \A n \in b.like : aux' = <<inner'[n], ghost'[n]>>
  BY <1>1, <1>2, <1>4
<1> QED BY <1>1, <1>5, <1>6, OperationDone DEF b, o, a

LEMMA ImplicitKeeps ==
  ASSUME ReadInv, ImplicitSubstep
  PROVE  ReadInv'
<1> DEFINE o == Op
           a == Leading(job.scheme)[pc]
           b == After(o, a)
           in == Plus(inner[o.old], o.w)
           gz == Plus(ghost[o.old], o.w)
<1>1. ~Finished /\ o.op = "implicit" /\ aux' = aux /\ job' = job /\ pc' = pc + 1
  BY DEF ImplicitSubstep, Doing, Done
<1>2. /\ inner' = [inner EXCEPT ![o.new] = in] /\ ghost' = [ghost EXCEPT ![o.new] = gz]
      /\ DOMAIN inner = Buffers /\ DOMAIN ghost = Buffers
  BY DEF ImplicitSubstep, Put, ReadInv
<1>3. /\ o.new \in Buffers /\ Known(a, inner, ghost, aux)
      /\ a.live \subseteq Buffers /\ a.fresh \subseteq Buffers /\ a.like \subseteq Buffers
  BY <1>1, UnderWay DEF Allowed, Writing
<1>4. /\ b.live = Gain(a.live, o.new, o.old \in a.live) /\ b.fresh = Gain(a.fresh, o.new, o.old \in a.fresh)
      /\ b.like = a.like \ {o.new}
  <2> HIDE DEF o, a
  <2> QED BY <1>1 DEF After
<1> HIDE DEF o, a, b
<1>5. o.old \in a.live => DOMAIN in = Terms
  BY <1>3, LiveContents DEF Known
<1>6. o.old \in a.fresh => DOMAIN in = Terms /\ gz = in
  <2> SUFFICES ASSUME o.old \in a.fresh
               PROVE  DOMAIN in = Terms /\ gz = in
    OBVIOUS
  <2>1. DOMAIN inner[o.old] = Terms /\ ghost[o.old] = inner[o.old]
    BY <1>3 DEF Known
  <2>2. DOMAIN in = Terms
    BY <2>1, LiveContents
  <2> QED BY <2>1, <2>2
<1> HIDE DEF in, gz
<1>7. /\ DOMAIN inner' = Buffers /\ DOMAIN ghost' = Buffers
      /\ inner'[o.new] = in /\ ghost'[o.new] = gz
      /\ \A n \in Buffers : n # o.new => inner'[n] = inner[n] /\ ghost'[n] = ghost[n]
  BY <1>2, <1>3
<1>8. \A n \in b.live : DOMAIN inner'[n] = Terms
  BY <1>3, <1>4, <1>5, <1>7 DEF Known, Gain
<1>9. \A n \in b.fresh : DOMAIN inner'[n] = Terms /\ ghost'[n] = inner'[n]
  BY <1>3, <1>4, <1>6, <1>7 DEF Known, Gain
<1>10. \A n \in b.like : aux' = <<inner'[n], ghost'[n]>>
  <2> TAKE n \in b.like
  <2>1. n \in a.like /\ n # o.new /\ n \in Buffers
    BY <1>3, <1>4
  <2>2. aux = <<inner[n], ghost[n]>>
    BY <2>1, <1>3 DEF Known
  <2> QED BY <2>1, <2>2, <1>1, <1>7
<1> QED BY <1>1, <1>7, <1>8, <1>9, <1>10, OperationDone DEF b, o, a

LEMMA SubstepEndKeeps ==
  ASSUME ReadInv, EndSubstep
  PROVE  ReadInv'
<1> DEFINE o == Op
           a == Leading(job.scheme)[pc]
           b == After(o, a)
           in == Plus(inner[o.new], o.w)
<1>1. ~Finished /\ o.op = "sub" /\ ghost' = ghost /\ aux' = aux /\ job' = job /\ pc' = pc + 1
  BY DEF EndSubstep, Advanced, Doing
<1>2. inner' = [inner EXCEPT ![o.new] = in] /\ DOMAIN inner = Buffers /\ DOMAIN ghost = Buffers
  <2>1. inner' = [inner EXCEPT ![Op.new] = Plus(@, Op.w)]
    BY DEF EndSubstep
  <2> QED BY <2>1 DEF ReadInv
<1>3. /\ o.new \in Buffers /\ Known(a, inner, ghost, aux)
      /\ a.live \subseteq Buffers /\ a.fresh \subseteq Buffers /\ a.like \subseteq Buffers
  BY <1>1, UnderWay DEF Allowed, Writing
<1>4. b.live = a.live /\ b.fresh = a.fresh \ {o.new} /\ b.like = a.like \ {o.new}
  <2> HIDE DEF o, a
  <2> QED BY <1>1 DEF After
<1> HIDE DEF o, a, b
<1>5. o.new \in a.live => DOMAIN in = Terms
  BY <1>3, LiveContents DEF Known
<1> HIDE DEF in
<1>6. /\ DOMAIN inner' = Buffers /\ DOMAIN ghost' = Buffers /\ inner'[o.new] = in
      /\ \A n \in Buffers : n # o.new => inner'[n] = inner[n]
  BY <1>1, <1>2, <1>3
<1>7. \A n \in b.live : DOMAIN inner'[n] = Terms
  BY <1>3, <1>4, <1>5, <1>6 DEF Known
<1>8. \A n \in b.fresh : DOMAIN inner'[n] = Terms /\ ghost'[n] = inner'[n]
  BY <1>1, <1>3, <1>4, <1>6 DEF Known
<1>9. \A n \in b.like : aux' = <<inner'[n], ghost'[n]>>
  <2> TAKE n \in b.like
  <2>1. n \in a.like /\ n # o.new /\ n \in Buffers
    BY <1>3, <1>4
  <2>2. aux = <<inner[n], ghost[n]>>
    BY <2>1, <1>3 DEF Known
  <2> QED BY <2>1, <2>2, <1>1, <1>6
<1> QED BY <1>1, <1>6, <1>7, <1>8, <1>9, OperationDone DEF b, o, a

(* The step ends with fresh state and auxiliaries, which the next one starts from. *)
LEMMA NextStepKeeps ==
  ASSUME ReadInv, NextStep
  PROVE  ReadInv'
<1> DEFINE T == Leading(job.scheme)
           s == Programs[job.scheme]
           w == T[Len(s) + 1]
<1>1. job.scheme \in DOMAIN Schemes
  BY CasesAssumption DEF ReadInv
<1>2. /\ s \in Seq(Ops) /\ Follows(s, T) /\ T[1] = AtStart
      /\ "state" \in w.fresh /\ "state" \in w.like
  BY <1>1, LeadingFollows
<1>3. Len(s) \in Nat /\ Len(Program) = Len(s)
  BY <1>2, LenProperties DEF Program
<1>4. pc = Len(s) + 1
  <2>1. pc \in 1 .. Len(s) + 1 /\ pc > Len(s)
    BY <1>3 DEF ReadInv, NextStep, Finished
  <2> HIDE DEF s
  <2> QED BY <2>1, <1>3
<1>5. Known(w, inner, ghost, aux)
  <2>1. Known(T[pc], inner, ghost, aux)
    BY DEF ReadInv
  <2> HIDE DEF s, T
  <2> QED BY <2>1, <1>4
<1>6. ghost["state"] = inner["state"] /\ aux = <<inner["state"], ghost["state"]>>
  <2> HIDE DEF w
  <2> QED BY <1>2, <1>5 DEF Known
<1>7. Renamed(inner["state"]) = Y /\ Renamed(ghost["state"]) = Y /\ Renamed(aux[1]) = Y /\ Renamed(aux[2]) = Y
  BY <1>6 DEF Renamed
<1>8. /\ inner' = [n \in Buffers |-> Renamed(inner[n])] /\ ghost' = [n \in Buffers |-> Renamed(ghost[n])]
      /\ aux' = <<Renamed(aux[1]), Renamed(aux[2])>> /\ job' = job /\ pc' = 1
  BY DEF NextStep
<1>9. "state" \in Buffers
  BY DEF Buffers
<1>10. inner'["state"] = Y /\ ghost'["state"] = Y /\ aux' = <<Y, Y>>
  BY <1>7, <1>8, <1>9
<1>11. Known(AtStart, inner', ghost', aux')
  BY <1>10, LiveContents DEF Known, AtStart
<1>12. Program' = Program /\ job' \in Cases /\ pc' \in 1 .. Len(Program') + 1
  <2>1. Program' = Program /\ job' \in Cases
    BY <1>8 DEF Program, ReadInv
  <2>2. Len(Program) \in Nat
    BY <1>3
  <2> QED BY <2>1, <2>2, <1>8
<1>13. (Leading(job.scheme)[pc])' = AtStart
  <2>1. Leading(job.scheme)' = T
    BY <1>8 DEF Leading
  <2> HIDE DEF T
  <2> QED BY <2>1, <1>2, <1>8
<1>14. Known(Leading(job.scheme)[pc], inner, ghost, aux)'
  BY <1>11, <1>13 DEF Known
<1>15. DOMAIN inner' = Buffers /\ DOMAIN ghost' = Buffers
  BY <1>8
<1> QED BY <1>12, <1>14, <1>15 DEF ReadInv

(* A step that leaves the buffers, and the place in the program, as they are. *)
LEMMA OthersKeep ==
  ASSUME ReadInv, job' = job, pc' = pc, inner' = inner, ghost' = ghost, aux' = aux
  PROVE  ReadInv'
<1>1. Program' = Program /\ (Leading(job.scheme)[pc])' = Leading(job.scheme)[pc]
  BY DEF Program, Leading
<1>2. Known(Leading(job.scheme)[pc], inner, ghost, aux)' <=> Known(Leading(job.scheme)[pc], inner, ghost, aux)
  BY <1>1 DEF Known
<1> QED BY <1>1, <1>2 DEF ReadInv

LEMMA ReadNext ==
  ASSUME ReadInv, [Next]_vars
  PROVE  ReadInv'
<1>1. CASE CopyBuffer
  BY <1>1, CopyKeeps
<1>2. CASE PushTracers
  BY <1>2, TracersKeep
<1>3. CASE LinearUpdate
  BY <1>3, LinearKeeps
<1>4. CASE ApplyBoundaryConditions
  BY <1>4, BoundariesKeep
<1>5. CASE ComputeAuxiliaries
  BY <1>5, AuxiliariesKeep
<1>6. CASE ImplicitSubstep
  BY <1>6, ImplicitKeeps
<1>7. CASE EndSubstep
  BY <1>7, SubstepEndKeeps
<1>8. CASE NextStep
  BY <1>8, NextStepKeeps
<1>9. CASE \E r \in Procs : Substep(r)
  <2>1. PICK r \in Procs : Substep(r)
    BY <1>9
  <2>2. job' = job /\ pc' = pc /\ inner' = inner /\ ghost' = ghost /\ aux' = aux
    <3>1. \A what : Then(r, what) => job' = job /\ pc' = pc /\ inner' = inner /\ ghost' = ghost /\ aux' = aux
      BY DEF Then, data
    <3>2. \E what : Then(r, what)
      BY <2>1 DEF Substep, ComputeFluxes, FillFluxBuffers, FillEmfBuffers, CorrectFluxes, AddFluxes, CorrectEmfs, UpdateCT
    <3> QED BY <3>1, <3>2
  <2> QED BY <2>2, OthersKeep
<1>10. CASE UNCHANGED vars
  <2>1. job' = job /\ pc' = pc /\ inner' = inner /\ ghost' = ghost /\ aux' = aux
    BY <1>10 DEF vars, data
  <2> QED BY <2>1, OthersKeep
<1> QED BY <1>1, <1>2, <1>3, <1>4, <1>5, <1>6, <1>7, <1>8, <1>9, <1>10 DEF Next

(* An operation that may run with what is known reads a fresh state. *)
LEMMA ReadFreshly ==
  ASSUME ReadInv
  PROVE  ReadsFresh
<1> DEFINE o == Op
           a == Leading(job.scheme)[pc]
<1>1. ASSUME ~Finished, o.op \in {"sub", "tracers"}
      PROVE  inner[o.old] # Stale /\ ghost[o.old] = inner[o.old] /\ aux = <<inner[o.old], inner[o.old]>>
  <2>1. o.old \in a.fresh /\ o.old \in a.like /\ Known(a, inner, ghost, aux)
    BY <1>1, UnderWay DEF Allowed
  <2> HIDE DEF o, a
  <2>2. /\ DOMAIN inner[o.old] = Terms /\ ghost[o.old] = inner[o.old]
        /\ aux = <<inner[o.old], ghost[o.old]>>
    BY <2>1 DEF Known
  <2>3. inner[o.old] # Stale
    BY <2>2, LiveContents
  <2> QED BY <2>2, <2>3
<1>2. ASSUME ~Finished, o.op = "sub"
      PROVE  ghost[o.new] = inner[o.new]
  <2>1. o.new \in a.fresh /\ Known(a, inner, ghost, aux)
    BY <1>2, UnderWay DEF Allowed
  <2> HIDE DEF o, a
  <2> QED BY <2>1 DEF Known
<1> QED BY <1>1, <1>2 DEF ReadsFresh, Doing

(* At every operation of every step, what the scheme's program makes known of the three
   buffers and the auxiliaries is so (evolve.cpp, evolve_impl). *)
THEOREM ReadInvariant == Spec => []ReadInv
<1>1. Init => ReadInv
  BY ReadInit
<1>2. ReadInv /\ [Next]_vars => ReadInv'
  BY ReadNext
<1> QED BY <1>1, <1>2, PTL DEF Spec

(* Whatever the mesh, the scheme and the order of the ranks' messages, every evaluation
   of the right-hand side, and the tracers, read a state of this step whose ghost zones
   and auxiliaries were computed from it since it was last written, and a substep adds
   to a buffer whose ghost zones are those of its interior (evolve.cpp, evolve_impl). *)
THEOREM StatesReadAreFresh == Spec => []ReadsFresh
<1>1. ReadInv => ReadsFresh
  BY ReadFreshly
<1> QED BY <1>1, ReadInvariant, PTL
=============================================================================
