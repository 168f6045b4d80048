------------------------------ MODULE Restart ------------------------------
(***************************************************************************)
(* What a run carries from iteration to iteration besides the fields, and  *)
(* what a restart makes of it: the compact-object tracker, the one-way     *)
(* switch that turns the M1 radiation on, the one-time injection of a      *)
(* magnetic field and the mass counted at the outer boundary.              *)
(*                                                                         *)
(* Module Checkpoint says which checkpoint a job starts from; here it is   *)
(* the last one saved.  Saves may come after any iteration, as they do     *)
(* with the default wall-clock interval.                                   *)
(***************************************************************************)
EXTENDS Integers, FiniteSets, Sequences

CONSTANTS
  MaxIteration,  \* bound on the iterations
  MaxJobs,       \* bound on the jobs of a run
  UpdateEvery,   \* co_tracker::update_every
  RegridEvery,   \* amr::regrid_every, with the binary tracker criterion
  DiagEvery,     \* IO::diagnostic_output_every
  InjectAt,      \* b_field_injection::trigger_time, in iterations
  Parfiles,      \* the values of m1::trigger::enabled a job may have
  Sightings      \* what an update of the tracker can find

(* How far apart the objects are: beyond m1::trigger::separation, within   *)
(* it, or within co_tracker::merge_distance, which is smaller; or there is *)
(* no matter where a star was last seen and its centre of mass is 0/0.     *)
AllSightings == {"far", "near", "contact", "lost"}

ASSUME RestartAssumption ==
  /\ MaxIteration \in Nat \ {0} /\ MaxJobs \in Nat \ {0}
  /\ UpdateEvery \in Nat \ {0} /\ RegridEvery \in Nat \ {0} /\ DiagEvery \in Nat \ {0}
  /\ InjectAt \in Nat
  /\ Parfiles \subseteq BOOLEAN /\ Parfiles # {}
  /\ Sightings \subseteq AllSightings /\ Sightings # {}

Iterations == 1 .. MaxIteration
Updates    == {i \in Iterations : i % UpdateEvery = 0}
Lost       == -1
Locations  == {Lost} \cup 0 .. MaxIteration

VARIABLES
  orbit,      \* the physics: what there is to see at each update of the tracker
  pc,         \* where the job is
  job,        \* how many jobs have started
  armed,      \* m1::trigger::enabled in this job's parameter file
  changed,    \* jobs with different parameter files have worked on this run
  iter,       \* grace_runtime: _iter
  field,      \* the evolved state, as what was done to it
  loc,        \* the location of the trackers: how often updated, or Lost
  merged,     \* co_tracker_list_impl_t: merged
  dist,       \* co_tracker_list_impl_t: cur_distance
  active,     \* _m1_active
  restored,   \* _m1_latch_restored
  fired,      \* b_field_injection: s_has_fired
  outflow,    \* boundary_outflow_t: _outflow_mass, in iterations
  interval,   \* iterations since the last line of the diagnostics
  disk,       \* the last checkpoint
  seen        \* what earlier jobs computed for an iteration

memory == <<iter, field, loc, merged, dist, active, restored, fired, outflow, interval>>
vars == <<orbit, pc, job, armed, changed, memory, disk, seen>>

None == [iter |-> -1]

Snapshot ==
  [iter |-> iter, field |-> field, loc |-> loc, merged |-> merged, active |-> active,
   fired |-> fired]

Events == {<<"step", m1>> : m1 \in BOOLEAN}
          \cup {<<"regrid", m, l>> : m \in BOOLEAN, l \in Locations}
          \cup {<<"inject", l>> : l \in Locations}

Points == {"down", "load", "startup", "up", "head", "regrid", "diagnose", "track", "trigger",
           "inject", "due", "exit"}

Init ==
  /\ orbit \in [Updates -> Sightings]
  /\ pc = "down" /\ job = 0 /\ armed \in Parfiles /\ changed = FALSE
  /\ iter = 0 /\ field = <<>> /\ loc = 0 /\ merged = FALSE /\ dist = "unknown"
  /\ active = TRUE /\ restored = FALSE /\ fired = FALSE /\ outflow = 0 /\ interval = 0
  /\ disk = None
  /\ seen = [i \in Iterations |-> None]

GoTo(p) == pc' = p
-----------------------------------------------------------------------------
(* Start of a job *)

(* A new process: every singleton and static variable as constructed. *)
Launch ==
  /\ pc = "down" /\ job < MaxJobs
  /\ job' = job + 1
  /\ armed' \in Parfiles
  /\ changed' = (changed \/ (job > 0 /\ armed' # armed))
  /\ iter' = 0 /\ field' = <<>> /\ loc' = 0 /\ merged' = FALSE /\ dist' = "unknown"
  /\ active' = TRUE /\ restored' = FALSE /\ fired' = FALSE /\ outflow' = 0 /\ interval' = 0
  /\ GoTo("load")
  /\ UNCHANGED <<orbit, disk, seen>>

(* Mutant: the compact objects start where the parameter file has them. *)
LoadForgetsLocations ==
  /\ pc = "load" /\ disk # None
  /\ iter' = disk.iter /\ field' = disk.field
  /\ merged' = disk.merged
  /\ active' = disk.active /\ restored' = TRUE
  /\ fired' = disk.fired
  /\ interval' = disk.interval
  /\ GoTo("startup")
  /\ UNCHANGED <<orbit, job, armed, changed, loc, dist, outflow, disk, seen>>

(* Mutant: whether the binary has merged is not restored. *)
LoadForgetsMerger ==
  /\ pc = "load" /\ disk # None
  /\ iter' = disk.iter /\ field' = disk.field
  /\ loc' = disk.loc
  /\ active' = disk.active /\ restored' = TRUE
  /\ fired' = disk.fired
  /\ interval' = disk.interval
  /\ GoTo("startup")
  /\ UNCHANGED <<orbit, job, armed, changed, merged, dist, outflow, disk, seen>>

(* Mutant: whether the field was injected is not restored. *)
LoadForgetsInjection ==
  /\ pc = "load" /\ disk # None
  /\ iter' = disk.iter /\ field' = disk.field
  /\ loc' = disk.loc /\ merged' = disk.merged
  /\ active' = disk.active /\ restored' = TRUE
  /\ interval' = disk.interval
  /\ GoTo("startup")
  /\ UNCHANGED <<orbit, job, armed, changed, dist, fired, outflow, disk, seen>>

(* load_checkpoint.  The distance and the outflow are not in the file. *)
Load ==
  /\ pc = "load" /\ disk # None
  /\ iter' = disk.iter /\ field' = disk.field
  /\ loc' = disk.loc /\ merged' = disk.merged
  /\ active' = disk.active /\ restored' = TRUE
  /\ fired' = disk.fired
  /\ interval' = disk.interval
  /\ GoTo("startup")
  /\ UNCHANGED <<orbit, job, armed, changed, dist, outflow, disk, seen>>

FreshStart ==
  /\ pc = "load" /\ disk = None
  /\ GoTo("startup")
  /\ UNCHANGED <<orbit, job, armed, changed, memory, disk, seen>>

(* Mutant: an armed trigger always starts idle. *)
StartupCheckResets ==
  /\ pc = "startup"
  /\ active' = ~armed
  /\ GoTo("up")
  /\ UNCHANGED <<orbit, job, armed, changed, iter, field, loc, merged, dist, restored, fired, outflow,
                 interval, disk, seen>>

(* m1_trigger_startup_check *)
StartupCheck ==
  /\ pc = "startup"
  /\ active' = IF ~armed THEN TRUE ELSE IF restored THEN active ELSE FALSE
  /\ GoTo("up")
  /\ UNCHANGED <<orbit, job, armed, changed, iter, field, loc, merged, dist, restored, fired, outflow,
                 interval, disk, seen>>

(* The boundary's mass is written and counted from zero again. *)
Flush == outflow' = 0 /\ interval' = 0

InitialOutput ==
  /\ pc = "up"
  /\ Flush
  /\ GoTo("head")
  /\ UNCHANGED <<orbit, job, armed, changed, iter, field, loc, merged, dist, active, restored, fired,
                 disk, seen>>
-----------------------------------------------------------------------------
(* An iteration, in the order of main() *)

Step ==
  /\ pc = "head" /\ iter < MaxIteration
  /\ field' = Append(field, <<"step", active>>)
  /\ iter' = iter + 1
  /\ outflow' = outflow + 1 /\ interval' = interval + 1
  /\ GoTo("regrid")
  /\ UNCHANGED <<orbit, job, armed, changed, loc, merged, dist, active, restored, fired, disk, seen>>

(* The grid follows the tracked objects, or their merger. *)
Regrid ==
  /\ pc = "regrid"
  /\ field' = IF iter % RegridEvery = 0 THEN Append(field, <<"regrid", merged, loc>>) ELSE field
  /\ GoTo("diagnose")
  /\ UNCHANGED <<orbit, job, armed, changed, iter, loc, merged, dist, active, restored, fired, outflow,
                 interval, disk, seen>>

Diagnose ==
  /\ pc = "diagnose"
  /\ IF iter % DiagEvery = 0 THEN Flush ELSE UNCHANGED <<outflow, interval>>
  /\ GoTo("track")
  /\ UNCHANGED <<orbit, job, armed, changed, iter, field, loc, merged, dist, active, restored, fired,
                 disk, seen>>

(* Each update starts from the last location: a star that moved on without *)
(* its tracker is not found again, and a 0/0 location stays one.           *)
Sighting ==
  IF loc = Lost \/ orbit[iter] = "lost" THEN "lost"
  ELSE IF (loc + 1) * UpdateEvery = iter THEN orbit[iter] ELSE "far"

(* co_tracker_list_impl_t::update_and_write *)
Track ==
  /\ pc = "track"
  /\ IF iter % UpdateEvery = 0
     THEN /\ loc' = IF Sighting = "lost" THEN Lost ELSE loc + 1
          /\ dist' = Sighting
          /\ merged' = (merged \/ Sighting = "contact")
     ELSE UNCHANGED <<loc, dist, merged>>
  /\ GoTo("trigger")
  /\ UNCHANGED <<orbit, job, armed, changed, iter, field, active, restored, fired, outflow, interval,
                 disk, seen>>

(* m1_update_trigger *)
UpdateTrigger ==
  /\ pc = "trigger"
  /\ active' = (active \/ (armed /\ dist \in {"near", "contact"}))
  /\ GoTo("inject")
  /\ UNCHANGED <<orbit, job, armed, changed, iter, field, loc, merged, dist, restored, fired, outflow,
                 interval, disk, seen>>

(* maybe_inject_b_field, at the current locations. *)
Inject ==
  /\ pc = "inject"
  /\ IF ~fired /\ iter >= InjectAt
     THEN fired' = TRUE /\ field' = Append(field, <<"inject", loc>>)
     ELSE UNCHANGED <<fired, field>>
  /\ GoTo("due")
  /\ UNCHANGED <<orbit, job, armed, changed, iter, loc, merged, dist, active, restored, outflow,
                 interval, disk, seen>>

(* save_checkpoint.  The length of the interval is not in the file: it is  *)
(* where the diagnostics' own file ends.                                   *)
File == [iter |-> iter, field |-> field, loc |-> loc, merged |-> merged, active |-> active,
         fired |-> fired, interval |-> interval]

(* The end of an iteration, with or without a save.  What was computed is  *)
(* recorded for the properties.                                            *)
Record == seen' = IF seen[iter] = None THEN [seen EXCEPT ![iter] = Snapshot] ELSE seen

SaveIfDue ==
  /\ pc = "due"
  /\ Record
  /\ disk' \in {disk, File}
  /\ GoTo("head")
  /\ UNCHANGED <<orbit, job, armed, changed, memory>>

(* The save at start-up comes before the first output. *)
StartupSave ==
  /\ pc = "up" /\ disk # File
  /\ disk' = File
  /\ UNCHANGED <<orbit, pc, job, armed, changed, memory, seen>>

Terminate ==
  /\ pc = "head"
  /\ disk' \in {disk, File}
  /\ GoTo("down")
  /\ UNCHANGED <<orbit, job, armed, changed, memory, seen>>

Crash ==
  /\ pc \notin {"down", "head"}
  /\ GoTo("down")
  /\ UNCHANGED <<orbit, job, armed, changed, memory, disk, seen>>

Start == Launch \/ Load \/ FreshStart \/ StartupCheck \/ StartupSave \/ InitialOutput
Iterate == Step \/ Regrid \/ Diagnose \/ Track \/ UpdateTrigger \/ Inject \/ SaveIfDue

Next == Start \/ Iterate \/ Terminate \/ Crash

Spec == Init /\ [][Next]_vars
-----------------------------------------------------------------------------
(* Properties *)

TypeOK ==
  /\ orbit \in [Updates -> Sightings]
  /\ pc \in Points /\ job \in 0 .. MaxJobs /\ armed \in Parfiles /\ changed \in BOOLEAN
  /\ iter \in 0 .. MaxIteration /\ field \in Seq(Events)
  /\ loc \in Locations
  /\ merged \in BOOLEAN /\ dist \in {"unknown"} \cup AllSightings
  /\ active \in BOOLEAN /\ restored \in BOOLEAN /\ fired \in BOOLEAN
  /\ outflow \in 0 .. MaxIteration /\ interval \in 0 .. MaxIteration

Running == pc \notin {"down", "load", "startup"}

(* "resume a simulation bit-identically" (checkpointing.rst): an iteration *)
(* computed again after a restart has the same field, grid decisions,      *)
(* tracker, M1 switch and injection as the first time.                     *)
Replayed ==
  pc = "due" /\ ~changed /\ seen[iter] # None => seen[iter] = Snapshot

(* The orbit alone: whether an update up to iteration i lost a star, and   *)
(* the updates up to i that found the objects at one of the distances.     *)
LostBy(i)       == \E j \in Updates : j <= i /\ orbit[j] = "lost"
SightedBy(S, i) == {j \in Updates : j <= i /\ orbit[j] \in S /\ ~LostBy(j)}
Sighted(S)      == SightedBy(S, iter)

(* Through any restarts M1 is on from the first update that finds the      *)
(* objects close enough, and the grid knows of the merger from the first   *)
(* that finds them in contact: neither is missed because a checkpoint was  *)
(* taken between the update and its use.                                   *)
LatchesFollowTheOrbit ==
  pc = "due" =>
    /\ armed /\ ~changed => (active <=> Sighted({"near", "contact"}) # {})
    /\ merged <=> Sighted({"contact"}) # {}

(* "One-way -- once activated M1 is never switched off again" (m1.yaml),   *)
(* not by a restart either.                                                *)
M1StaysOn == Running /\ disk # None => (disk.active => active)

(* A parameter file without a trigger never inherits an idle M1            *)
(* (m1_trigger.cpp): every step of such a job evolves the radiation.       *)
UnarmedEvolvesM1 == Running /\ ~armed => active

(* "The injection happens once, on the first iteration whose current time  *)
(* is >= trigger_time" (b_field_injection.yaml), counted in the field      *)
(* itself, so over all the jobs that made it.                              *)
Injections(f)     == {k \in DOMAIN f : f[k][1] = "inject"}
StepsBefore(f, k) == Cardinality({j \in 1 .. k : f[j][1] = "step"})
InjectionDue      == IF InjectAt = 0 THEN 1 ELSE InjectAt
InjectedOnce ==
  /\ \A k, l \in Injections(field) : k = l
  /\ \A k \in Injections(field) : StepsBefore(field, k) = InjectionDue
  /\ pc = "due" /\ iter >= InjectAt => Injections(field) # {}

(* "Each diagnostic line therefore reports mass that left the grid during  *)
(* this output interval" (boundary_outflow.hh).                            *)
LinesCoverInterval == Running => outflow = interval

(* The inductive invariant of the M1 switch: between the load and the      *)
(* start-up check it is the checkpoint's, and only then can the check tell *)
(* a restart from a fresh start.                                           *)
SwitchInv ==
  /\ pc = "load" => ~restored
  /\ pc = "startup" => \/ disk = None /\ ~restored
                       \/ disk # None /\ restored /\ (disk.active <=> active)
  /\ UnarmedEvolvesM1 /\ M1StaysOn

(* What the orbit and the parameter file alone make of each iteration: the *)
(* values any job must have, wherever it was started from.                 *)
Moments    == 0 .. MaxIteration
Close      == {"near", "contact"}
LocationAt == [i \in Moments |-> IF LostBy(i) THEN Lost ELSE i \div UpdateEvery]
MergedAt   == [i \in Moments |-> SightedBy({"contact"}, i) # {}]
CloseAt    == [i \in Moments |-> SightedBy(Close, i) # {}]
ActiveAt   == [i \in Moments |-> armed => CloseAt[i]]
FiredAt    == [i \in Moments |-> i >= InjectionDue]

(* The last iteration whose tracking, trigger and injection are done.      *)
Before(points) == IF pc \in points THEN iter - 1 ELSE iter
TrackedTo   == Before({"regrid", "diagnose", "track"})
TriggeredTo == Before({"regrid", "diagnose", "track", "trigger"})
InjectedTo  == Before({"regrid", "diagnose", "track", "trigger", "inject"})
Iterating   == {"regrid", "diagnose", "track", "trigger", "inject", "due"}

(* Where a job can be, and what is there before its first iteration.       *)
Placed ==
  /\ orbit \in [Updates -> Sightings]
  /\ pc \in Points /\ job \in Nat /\ armed \in BOOLEAN /\ changed \in BOOLEAN
  /\ iter \in Moments /\ active \in BOOLEAN /\ (pc \in Iterating => iter >= 1)
  /\ disk # None => disk.iter \in Moments /\ disk.active \in BOOLEAN
  /\ seen = [i \in Iterations |-> seen[i]]
  /\ job = 0 => pc = "down" /\ disk = None /\ \A i \in Iterations : seen[i] = None
  /\ pc = "load" => iter = 0 /\ field = <<>> /\ ~restored
  /\ pc = "startup" /\ ~restored => iter = 0 /\ field = <<>>

(* The tracker and the injection in memory and in the file; the distance   *)
(* is in memory only, and says no more than the orbit.                     *)
TrackerInv ==
  /\ pc # "down" => /\ loc = LocationAt[TrackedTo] /\ merged = MergedAt[TrackedTo]
                    /\ fired = FiredAt[InjectedTo]
                    /\ dist \in Close => CloseAt[TrackedTo]
  /\ pc = "trigger" /\ CloseAt[iter] => dist \in Close \/ CloseAt[iter - 1]
  /\ disk # None => /\ disk.loc = LocationAt[disk.iter] /\ disk.merged = MergedAt[disk.iter]
                    /\ disk.fired = FiredAt[disk.iter]

(* The switch, as long as the parameter file stays the same.               *)
ActiveInv ==
  ~changed =>
    /\ Running \/ (pc = "startup" /\ restored) => active = ActiveAt[TriggeredTo]
    /\ disk # None => disk.active = ActiveAt[disk.iter]

(* The evolved state counts its steps and its injection. *)
Counted(f, i, injected) ==
  /\ f \in Seq(Events)
  /\ StepsBefore(f, Len(f)) = i
  /\ \A k, l \in Injections(f) : k = l
  /\ \A k \in Injections(f) : StepsBefore(f, k) = InjectionDue
  /\ Injections(f) # {} <=> injected

FieldInv ==
  /\ Counted(field, iter, fired)
  /\ disk # None => Counted(disk.field, disk.iter, disk.fired)

(* The state some job had after an iteration, and what the next iteration  *)
(* makes of it.                                                            *)
Known   == {i \in Moments : i = 0 \/ seen[i] # None}
FieldOf == [i \in Moments |-> IF i = 0 THEN <<>> ELSE seen[i].field]

Stepped == [i \in Iterations |-> Append(FieldOf[i - 1], <<"step", ActiveAt[i - 1]>>)]
Regridded ==
  [i \in Iterations |->
     IF i % RegridEvery = 0
     THEN Append(Stepped[i], <<"regrid", MergedAt[i - 1], LocationAt[i - 1]>>)
     ELSE Stepped[i]]
Finished ==
  [i \in Iterations |->
     IF i = InjectionDue THEN Append(Regridded[i], <<"inject", LocationAt[i]>>) ELSE Regridded[i]]
Computed ==
  [i \in Iterations |->
     [iter |-> i, field |-> Finished[i], loc |-> LocationAt[i], merged |-> MergedAt[i],
      active |-> ActiveAt[i], fired |-> FiredAt[i]]]

(* As long as the parameter file stays the same all jobs work on one       *)
(* history, and each is at its place in it.                                *)
HistoryInv ==
  ~changed =>
    /\ \A i \in Iterations : seen[i] # None => i - 1 \in Known /\ seen[i] = Computed[i]
    /\ disk # None => disk.iter \in Known /\ disk.field = FieldOf[disk.iter]
    /\ pc \in {"startup", "up", "head"} => iter \in Known /\ field = FieldOf[iter]
    /\ pc \in Iterating =>
         /\ iter - 1 \in Known
         /\ field = CASE pc = "regrid" -> Stepped[iter]
                      [] pc = "due"    -> Finished[iter]
                      [] OTHER         -> Regridded[iter]
=============================================================================
