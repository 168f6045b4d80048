--------------------------- MODULE ConservsToPrims ---------------------------
(***************************************************************************)
(* The inversion of one cell's conserved variables (conservs_to_prims) and *)
(* the write-back of what it corrected (compute_auxiliaries).              *)
(*                                                                         *)
(* Numbers are left out.  What an inversion finds is an arbitrary choice:  *)
(* densities and temperatures are Levels, 0 below what the equation of     *)
(* state can represent, 1 below the atmosphere's floor, 2 above it.  What  *)
(* is kept of the conserved variables is `off`, those stored ones which    *)
(* the primitives found so far do not reproduce, and of the error word     *)
(* `reset`, those which will be written back.                              *)
(*                                                                         *)
(* The three calls the program makes of the function take every step       *)
(* together on the same cell, so that they can be compared: the dry run of *)
(* the first-order correction, and the call of a stage which enforces the  *)
(* floors or, with always_enforce_floors unset, does not.                  *)
(***************************************************************************)
EXTENDS Integers

CONSTANT Builds    \* records [ideal, ye, muons, backup : BOOLEAN]: is_ideal_gas_v, has_ye_v,
                   \* GRACE_ENABLE_MUONS and use_c2p_entropy_backup

ASSUME BuildsAssumption ==
    Builds \subseteq [ideal : BOOLEAN, ye : BOOLEAN, muons : BOOLEAN, backup : BOOLEAN]

VARIABLES build, lenient, excised, dens, stage, call

callVars == <<build, lenient, excised, dens, stage, call>>

Calls == {"dry", "clamped", "unclamped"}
Stages == {"guard", "limit", "energy", "backup", "finish", "done"}
Energetic == {"TAU", "STILDE"}
Matter == Energetic \cup {"DENS", "ENTROPY"}
All == Matter \cup {"YE", "YMU"}
Levels == 0 .. 2
Signals == {"RHO_TOO_LOW", "RHO_TOO_HIGH", "EPS_TOO_LOW", "EPS_TOO_HIGH", "VEL_TOO_HIGH"}

(* Mutant: only the clamping stage has the floors. *)
FloorOfClampedOnly(c) == IF c = "clamped" THEN 2 ELSE 1

(* The lowest density and temperature a call accepts: its copy of the      *)
(* atmosphere parameters, lowered unless the call clamps to them.          *)
Floor(c) == IF c = "unclamped" THEN 1 ELSE 2

(* alp_bh_thresh is raised above every lapse for the dry run.              *)
Lenient(c) == lenient \/ c = "dry"

NewCall ==
    [ended |-> "no", floored |-> FALSE, failed |-> FALSE, used |-> FALSE,
     rho |-> 2, ret |-> {}, limited |-> {}, off |-> {"ENTROPY"}, reset |-> {"ENTROPY"}]

Results ==
    [ended : {"no", "returned", "aborted"}, floored : BOOLEAN, failed : BOOLEAN, used : BOOLEAN,
     rho : Levels, ret : SUBSET Signals, limited : SUBSET {"VEL", "SIGMA"},
     off : SUBSET All, reset : SUBSET All]

TypeOK ==
    /\ build \in Builds
    /\ lenient \in BOOLEAN
    /\ excised \in BOOLEAN
    /\ dens \in -1 .. 2
    /\ stage \in Stages
    /\ call \in [Calls -> Results]

CallInit ==
    /\ build \in Builds
    /\ lenient \in BOOLEAN
    /\ excised \in BOOLEAN
    /\ dens = 2
    /\ stage = "guard"
    /\ call = [c \in Calls |-> NewCall]

Running(c) == call[c].ended = "no"

(* The calls still running become result, and the next stage follows.      *)
Advance(result, next) ==
    /\ call' = [c \in Calls |-> IF Running(c) THEN result[c] ELSE call[c]]
    /\ stage' = next

--------------------------------------------------------------------------------
(* Everything is written back; the flag says the cell was floored.         *)
AtmosphereReset(r) ==
    [r EXCEPT !.floored = TRUE, !.ended = "returned", !.off = {}, !.reset = All]

(* The composition the conserved variables carry is clamped into the range *)
(* of the equation of state before anything else.                          *)
ClampComposition(r, out) ==
    [r EXCEPT !.off = @ \cup out, !.reset = @ \cup out]

Guard ==
    /\ stage = "guard"
    /\ \E d \in -1 .. 2, out \in SUBSET {"YE", "YMU"} :
         /\ ~ build.muons => "YMU" \notin out
         /\ dens' = d
         /\ IF d = -1
              THEN Advance([c \in Calls |-> AtmosphereReset(call[c])], "done")
              ELSE Advance([c \in Calls |-> ClampComposition(call[c], out)], "limit")
    /\ UNCHANGED <<build, lenient, excised>>

(* limit_conservatives changes its local copy of the conserved variables;  *)
(* the dry run needs no more than to know that it did.                     *)
LimitConservatives(c, r, out) ==
    [r EXCEPT !.off = @ \cup out, !.reset = @ \cup out,
              !.floored = out # {},
              !.ended = IF out # {} /\ c = "dry" THEN "returned" ELSE "no"]

Limit ==
    /\ stage = "limit"
    /\ \E out \in SUBSET Energetic :
         Advance([c \in Calls |-> LimitConservatives(c, call[c], out)], "energy")
    /\ UNCHANGED <<build, lenient, excised, dens>>

--------------------------------------------------------------------------------
(* The clamps of compute_primitives, and the conserved variables which the *)
(* clamped primitive enters.                                               *)
Enters(sig) ==
    CASE sig \in {"RHO_TOO_LOW", "RHO_TOO_HIGH", "VEL_TOO_HIGH"} -> All
      [] sig \in {"EPS_TOO_LOW", "EPS_TOO_HIGH"} -> Energetic

(* What an inversion can return of a cell of this density: the rest-mass   *)
(* density is at most the conserved one.                                   *)
Outcomes(sigs) ==
    {o \in [ret : SUBSET sigs, rho : Levels] :
       /\ ~ {"RHO_TOO_LOW", "RHO_TOO_HIGH"} \subseteq o.ret
       /\ ~ {"EPS_TOO_LOW", "EPS_TOO_HIGH"} \subseteq o.ret
       /\ o.rho = IF "RHO_TOO_LOW" \in o.ret THEN 1
                  ELSE IF "RHO_TOO_HIGH" \in o.ret THEN 2 ELSE o.rho
       /\ o.rho \in 1 .. dens}

Solved(c) == dens >= Floor(c)

(* The energy inversion.  A call whose density is below its floor counts   *)
(* as failed without one.                                                  *)
InvertEnergy(c, r, o, diverged) ==
    IF ~ Solved(c)
      THEN [r EXCEPT !.failed = TRUE]
      ELSE [r EXCEPT !.ret = o.ret, !.rho = o.rho,
                     !.failed = diverged \/ o.ret \cap {"RHO_TOO_HIGH", "EPS_TOO_HIGH"} # {}]

Energy ==
    /\ stage = "energy"
    /\ IF dens = 0
         THEN Advance([c \in Calls |-> [call[c] EXCEPT !.failed = TRUE]], "backup")
         ELSE \E o \in Outcomes(Signals), diverged \in BOOLEAN :
                Advance([c \in Calls |-> InvertEnergy(c, call[c], o, diverged)], "backup")
    /\ UNCHANGED <<build, lenient, excised, dens>>

(* A second opinion from the entropy: on a failure, on a cold state and    *)
(* where the gas pressure is low against the magnetic one.  Its primitives *)
(* reproduce the stored entropy and not the energy.                        *)
Distrusts(c, r, lowBeta) ==
    Solved(c) /\ (r.failed \/ "EPS_TOO_LOW" \in r.ret \/ lowBeta)

BackUp(r, o) ==
    [r EXCEPT !.ret = o.ret, !.rho = o.rho, !.failed = FALSE, !.used = TRUE,
              !.off = (@ \ {"ENTROPY"}) \cup {"TAU"}]

EntropyBackup(c, r, lowBeta, o) ==
    IF Distrusts(c, r, lowBeta) /\ build.backup /\ c # "dry" THEN BackUp(r, o) ELSE r

(* A backup that does not converge leaves the primitives of the energy     *)
(* inversion in place (prims_save), or the failure.                        *)
Backup ==
    /\ stage = "backup"
    /\ \/ Advance(call, "finish")
       \/ /\ dens > 0
          /\ \E lowBeta \in BOOLEAN,
                o \in Outcomes({"RHO_TOO_LOW", "RHO_TOO_HIGH", "VEL_TOO_HIGH"}) :
               Advance([c \in Calls |-> EntropyBackup(c, call[c], lowBeta, o)], "finish")
    /\ UNCHANGED <<build, lenient, excised, dens>>

--------------------------------------------------------------------------------
(* The composition follows the density where the equation of state has     *)
(* one.                                                                    *)
Composition == IF build.ye THEN {"YE"} ELSE {}
MuonComposition == IF build.ye /\ build.muons THEN {"YMU"} ELSE {}

(* c2p_handle_signals: what each signal has written back, and an abort on  *)
(* a density too high for the equation of state.                           *)
ResetsOf(sig) ==
    CASE sig = "RHO_TOO_HIGH" -> All
      [] sig = "RHO_TOO_LOW" -> Matter \cup Composition \cup MuonComposition
      [] sig = "VEL_TOO_HIGH" -> Matter \cup Composition
      [] sig = "SIGMA_TOO_HIGH" -> Matter \cup Composition
      [] sig \in {"EPS_TOO_LOW", "EPS_TOO_HIGH"} -> Energetic

(* The signals that count as flooring.  A cold state does only for the     *)
(* ideal gas, whose internal energy no cold curve protects.                *)
Floored(ret) ==
    \/ ret \cap {"EPS_TOO_HIGH", "RHO_TOO_LOW", "RHO_TOO_HIGH", "VEL_TOO_HIGH"} # {}
    \/ build.ideal /\ "EPS_TOO_LOW" \in ret

Signalled(c, r) ==
    IF "RHO_TOO_HIGH" \in r.ret /\ ~ Lenient(c)
      THEN [r EXCEPT !.ended = "aborted"]
      ELSE [r EXCEPT !.off = @ \cup UNION {Enters(s) : s \in r.ret},
                     !.reset = @ \cup UNION {ResetsOf(s) : s \in r.ret},
                     !.floored = @ \/ Floored(r.ret)]

(* Mutant: the momentum does not follow the energy. *)
FloorTemperatureKeepsMomentum(r) ==
    [r EXCEPT !.off = @ \cup Energetic \cup {"ENTROPY"},
              !.reset = @ \cup {"TAU", "ENTROPY"},
              !.floored = @ \/ build.ideal]

(* Below the temperature floor, the temperature and what follows from it   *)
(* is raised; the velocity stays.                                          *)
FloorTemperature(r) ==
    [r EXCEPT !.off = @ \cup Energetic \cup {"ENTROPY"},
              !.reset = @ \cup Energetic \cup {"ENTROPY"},
              !.floored = @ \/ build.ideal]

(* limit_primitives: a velocity or a magnetization above its maximum.      *)
LimitPrimitives(r, limits) ==
    LET sigs == (IF "VEL" \in limits THEN {"VEL_TOO_HIGH"} ELSE {})
                \cup (IF "SIGMA" \in limits THEN {"SIGMA_TOO_HIGH"} ELSE {})
    IN [r EXCEPT !.limited = limits,
                 !.off = @ \cup (IF limits = {} THEN {} ELSE All),
                 !.reset = @ \cup UNION {ResetsOf(s) : s \in sigs},
                 !.floored = @ \/ limits # {}]

Corrected(c, r, temp, limits) ==
    IF r.rho < Floor(c) \/ r.failed \/ excised THEN AtmosphereReset(r)
    ELSE IF temp < Floor(c) THEN FloorTemperature(r)
    ELSE LimitPrimitives(r, limits)

(* prims_to_conservs, and the variables whose reset bit is set overwrite   *)
(* the stored ones.                                                        *)
WriteBack(r) == [r EXCEPT !.off = @ \ r.reset, !.ended = "returned"]

FinishCall(c, r, temp, limits) ==
    LET s == Signalled(c, r)
    IN IF s.ended = "aborted" THEN s ELSE WriteBack(Corrected(c, s, temp, limits))

(* The primitives of the energy inversion and of the backup have their own *)
(* temperature and limits.                                                 *)
BackedUp == {call[c].used : c \in Calls}
Finish ==
    /\ stage = "finish"
    /\ \E temp \in [BackedUp -> Levels], limits \in [BackedUp -> SUBSET {"VEL", "SIGMA"}] :
         Advance([c \in Calls |-> FinishCall(c, call[c], temp[call[c].used],
                                            limits[call[c].used])], "done")
    /\ UNCHANGED <<build, lenient, excised, dens>>

NextCell ==
    /\ stage = "done"
    /\ stage' = "guard"
    /\ dens' = 2
    /\ call' = [c \in Calls |-> NewCall]
    /\ UNCHANGED <<build, lenient, excised>>

CallNext == Guard \/ Limit \/ Energy \/ Backup \/ Finish \/ NextCell

CallSpec == CallInit /\ [][CallNext]_callVars

--------------------------------------------------------------------------------
Returned(c) == call[c].ended = "returned"
Evolved == Matter \cup (IF build.ye THEN {"YE"} ELSE {})
                  \cup (IF build.ye /\ build.muons THEN {"YMU"} ELSE {})

(* The two exceptions of the code: an energy the entropy backup overrode,  *)
(* and the muon fraction's variable where the velocity or the              *)
(* magnetization was limited.                                              *)
Exempt(r) ==
    (IF r.used THEN {"TAU"} ELSE {})
      \cup (IF r.limited # {} \/ "VEL_TOO_HIGH" \in r.ret THEN {"YMU"} ELSE {})

(* After a call, the stored conserved variables are those of the           *)
(* primitives it returns, whichever inversion, clamps and floors produced  *)
(* them, with the two exceptions of the code: an energy the entropy backup *)
(* overrode, and the muon fraction's variable where the velocity or the    *)
(* magnetization was limited.                                              *)
StoredAgree ==
    \A c \in Calls \ {"dry"} : Returned(c) =>
        call[c].off \cap Evolved \subseteq Exempt(call[c])

(* The first-order correction is decided by the flag a dry run returns.  No*)
(* call changes a cell's mass without returning it; and the dry run, which *)
(* skips the backup, is lenient everywhere and returns early, says of a    *)
(* cell what the call of the stage then says of it, unless the backup was  *)
(* used.  A stage that does not enforce the floors corrects no cell the dry*)
(* run accepted but one: cold enough for the dry run to floor its          *)
(* temperature, which leaves its velocity unlimited, and limited by the    *)
(* stage.                                                                  *)
DryRunPredicts ==
    \A c \in Calls : Returned(c) =>
        /\ "DENS" \in call[c].reset => call[c].floored
        /\ ~ call[c].used =>
             IF c = "unclamped"
               THEN call[c].floored => call["dry"].floored \/ call[c].limited # {}
               ELSE call[c].floored <=> call["dry"].floored

(* The inductive invariant: what the calls have in common while they run.  *)
(* The dry run goes with the clamped call until that one uses the backup,  *)
(* or has returned a cell all of them will floor.  The unclamped call goes *)
(* with the clamped one unless the density is between their floors, where  *)
(* the two which do not solve have failed for good.                        *)
DryFollows ==
    IF Running("dry") THEN ~ call["clamped"].used => call["dry"] = call["clamped"]
    ELSE Returned("dry") /\ \A c \in Calls : call[c].floored
UnclampedFollows ==
    IF stage \in {"limit", "energy"} \/ dens # 1 THEN call["unclamped"] = call["clamped"]
    ELSE \A c \in {"dry", "clamped"} : Running(c) => call[c].failed /\ ~ call[c].used

(* What the stored variables no longer agree with is marked.               *)
Marked(r) == r.off \ (IF r.used THEN {"TAU"} ELSE {}) \subseteq r.reset

CallInv ==
    /\ TypeOK
    /\ stage = "guard" => \A c \in Calls : call[c] = NewCall
    /\ stage = "limit" => Running("dry")
    /\ stage \notin {"guard", "done"} =>
         /\ dens # -1
         /\ \A c \in Calls : c = "dry" \/ stage # "finish" => ~ call[c].used
         /\ \A c \in Calls : call[c].limited = {} /\ "DENS" \notin call[c].reset
         /\ \A c \in Calls \ {"dry"} : Running(c)
         /\ \A c \in Calls : Running(c) => Marked(call[c])
         /\ DryFollows
         /\ UnclampedFollows
    /\ StoredAgree
    /\ DryRunPredicts
===============================================================================
