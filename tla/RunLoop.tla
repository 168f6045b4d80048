------------------------------ MODULE RunLoop ------------------------------
(***************************************************************************)
(* The evolution loop of main() (src/grace.cpp) on every MPI rank.         *)
(*                                                                         *)
(* The ranks run the same program and meet in collective operations, each  *)
(* of which waits for all of them.  Between two of them every rank decides *)
(* on its own data where it goes next: whether the run ends, a grid is     *)
(* rebuilt, output is written, a checkpoint is due or NaNs are looked for. *)
(* If two ranks decide differently they wait in different collectives, for *)
(* ever.                                                                   *)
(***************************************************************************)
EXTENDS Integers, FiniteSets

CONSTANTS
  Rank,          \* MPI_COMM_WORLD
  Termination,   \* evolution::termination_condition
  Final,         \* final_iteration, final_time or final_walltime
  Kind,          \* checkpoints::interval_kind
  Interval,      \* the interval of that kind
  AtTermination, \* checkpoints::checkpoint_at_termination
  Automatic,     \* evolution::timestep_selection_mode is automatic
  Steps,         \* the time steps the CFL condition can give
  RegridEvery,   \* amr::regrid_every, -1 for never
  OutputEvery,   \* the IO::*_output_every, -1 for never
  ScanFirst,     \* nan_check::check_before_first_step
  ScanEvery,     \* nan_check::check_every, 0 for never
  Action,        \* nan_check::action
  MaxIter, MaxTime, MaxWall   \* bounds on the three clocks

Criteria == {"iteration", "time", "walltime"}

ASSUME LoopAssumption ==
  /\ Rank # {}
  /\ Termination \in Criteria /\ Kind \in Criteria
  /\ Final \in Nat \ {0} /\ Interval \in Nat \ {0}
  /\ AtTermination \in BOOLEAN /\ Automatic \in BOOLEAN /\ ScanFirst \in BOOLEAN
  /\ Steps \subseteq Nat \ {0} /\ Steps # {}
  /\ RegridEvery \in (Nat \ {0}) \cup {-1} /\ OutputEvery \in (Nat \ {0}) \cup {-1}
  /\ ScanEvery \in Nat
  /\ Action \in {"warn", "terminate", "abort"}
  /\ MaxIter \in Nat /\ MaxTime \in Nat /\ MaxWall \in Nat

VARIABLES
  place,   \* where each rank is in the loop
  iter,    \* grace_runtime: _iter
  time,    \* grace_runtime: _time
  dt,      \* grace_runtime: _dt
  stop,    \* grace_runtime: _user_terminate
  next,    \* checkpoint_handler: next_checkpoint_iter, _time or _wtime
  nan,     \* ranks whose part of the state holds NaNs
  wall,    \* the wall clock, which every rank's stopwatch follows
  written  \* history: iteration of the last checkpoint each rank wrote, -1 at first

vars == <<place, iter, time, dt, stop, next, nan, wall, written>>

Collectives == {"timestep", "evolve", "regrid", "output", "save", "scan", "final save"}
Places == Collectives \cup {"head", "advance", "outputs", "due", "reschedule", "check",
                            "done", "aborted"}

TypeOK ==
  /\ place \in [Rank -> Places]
  /\ iter \in [Rank -> Nat] /\ time \in [Rank -> Nat] /\ dt \in [Rank -> Nat]
  /\ stop \in [Rank -> BOOLEAN]
  /\ next \in [Rank -> Nat]
  /\ nan \in SUBSET Rank
  /\ wall \in Nat
  /\ written \in [Rank -> Nat \cup {-1}]

(* The NaN scan of the initial data comes before the loop. *)
Init ==
  /\ place = [r \in Rank |-> IF ScanFirst THEN "scan" ELSE "head"]
  /\ iter = [r \in Rank |-> 0]
  /\ time = [r \in Rank |-> 0]
  /\ \E d \in Steps : dt = [r \in Rank |-> d]
  /\ stop = [r \in Rank |-> FALSE]
  /\ next = [r \in Rank |-> Interval]
  /\ nan \in SUBSET Rank
  /\ wall = 0
  /\ written = [r \in Rank |-> -1]

Every(n, i) == n > 0 /\ i % n = 0
-----------------------------------------------------------------------------
(* What a rank decides on its own *)

(* The clock a criterion is read on: the iterations, the time, or the      *)
(* stopwatch of each rank at the moment that rank gets there.              *)
Reading(criterion, i, t) ==
  IF criterion = "iteration" THEN i ELSE IF criterion = "time" THEN t ELSE wall

(* check_termination_condition *)
Terminated(i, t, stopped) ==
  \/ stopped
  \/ Termination = "iteration" /\ i >= Final
  \/ Termination # "iteration" /\ Reading(Termination, i, t) > Final

(* need_checkpoint *)
Due(i, t, n) == Reading(Kind, i, t) > n

GoTo(r, p) == place' = [place EXCEPT ![r] = p]

(* Mutant: a run that NaNs stop leaves without its last checkpoint.        *)
AfterHeadStopsUnsaved(i, t, stopped) ==
  IF stopped THEN "done"
  ELSE IF Terminated(i, t, stopped) THEN IF AtTermination THEN "final save" ELSE "done"
  ELSE IF Automatic THEN "timestep" ELSE "evolve"

AfterHead(i, t, stopped) ==
  IF Terminated(i, t, stopped) THEN IF AtTermination THEN "final save" ELSE "done"
  ELSE IF Automatic THEN "timestep" ELSE "evolve"

Head(r) ==
  /\ place[r] = "head"
  /\ GoTo(r, AfterHead(iter[r], time[r], stop[r]))
  /\ UNCHANGED <<iter, time, dt, stop, next, nan, wall, written>>

(* Iteration and time are incremented and a regrid may be due. *)
Advance(r) ==
  /\ place[r] = "advance" /\ iter[r] < MaxIter /\ time[r] + dt[r] <= MaxTime
  /\ iter' = [iter EXCEPT ![r] = @ + 1]
  /\ time' = [time EXCEPT ![r] = @ + dt[r]]
  /\ GoTo(r, IF Every(RegridEvery, iter[r] + 1) THEN "regrid" ELSE "outputs")
  /\ UNCHANGED <<dt, stop, next, nan, wall, written>>

Outputs(r) ==
  /\ place[r] = "outputs"
  /\ GoTo(r, IF Every(OutputEvery, iter[r]) THEN "output" ELSE "due")
  /\ UNCHANGED <<iter, time, dt, stop, next, nan, wall, written>>

NeedCheckpoint(r) ==
  /\ place[r] = "due"
  /\ GoTo(r, IF Due(iter[r], time[r], next[r]) THEN "save" ELSE "check")
  /\ UNCHANGED <<iter, time, dt, stop, next, nan, wall, written>>

(* The end of save_checkpoint: each rank reads the clock again. *)
Reschedule(r) ==
  /\ place[r] = "reschedule"
  /\ next' = [next EXCEPT ![r] = Reading(Kind, iter[r], time[r]) + Interval]
  /\ GoTo(r, "check")
  /\ UNCHANGED <<iter, time, dt, stop, nan, wall, written>>

CheckNans(r) ==
  /\ place[r] = "check"
  /\ GoTo(r, IF Every(ScanEvery, iter[r]) THEN "scan" ELSE "head")
  /\ UNCHANGED <<iter, time, dt, stop, next, nan, wall, written>>

Decide(r) ==
  Head(r) \/ Advance(r) \/ Outputs(r) \/ NeedCheckpoint(r) \/ Reschedule(r) \/ CheckNans(r)
-----------------------------------------------------------------------------
(* What the ranks do together *)

Meet(here, there) ==
  /\ \A r \in Rank : place[r] = here
  /\ place' = [r \in Rank |-> there]

(* The minimum over the ranks is everybody's step. *)
FindStableTimestep ==
  /\ Meet("timestep", "evolve")
  /\ \E d \in Steps : dt' = [r \in Rank |-> d]
  /\ UNCHANGED <<iter, time, stop, next, nan, wall, written>>

(* A step can put NaNs into the state of some ranks; they stay there. *)
Evolve ==
  /\ Meet("evolve", "advance")
  /\ \E S \in SUBSET Rank : nan' = nan \cup S
  /\ UNCHANGED <<iter, time, dt, stop, next, wall, written>>

Regrid ==
  /\ Meet("regrid", "outputs")
  /\ UNCHANGED <<iter, time, dt, stop, next, nan, wall, written>>

Output ==
  /\ Meet("output", "due")
  /\ UNCHANGED <<iter, time, dt, stop, next, nan, wall, written>>

Save ==
  /\ Meet("save", "reschedule")
  /\ written' = iter
  /\ UNCHANGED <<iter, time, dt, stop, next, nan, wall>>

(* Mutant: a rank looks at its own count only. *)
ScanNansLocal ==
  /\ \A r \in Rank : place[r] = "scan"
  /\ place' = [r \in Rank |-> IF r \in nan /\ Action = "abort" THEN "aborted" ELSE "head"]
  /\ stop' = [r \in Rank |-> stop[r] \/ (r \in nan /\ Action = "terminate")]
  /\ UNCHANGED <<iter, time, dt, next, nan, wall, written>>

(* The counts are summed over the ranks, then every rank acts on the sum. *)
ScanNans ==
  /\ Meet("scan", IF nan # {} /\ Action = "abort" THEN "aborted" ELSE "head")
  /\ stop' = [r \in Rank |-> stop[r] \/ (nan # {} /\ Action = "terminate")]
  /\ UNCHANGED <<iter, time, dt, next, nan, wall, written>>

FinalSave ==
  /\ Meet("final save", "done")
  /\ written' = iter
  /\ UNCHANGED <<iter, time, dt, stop, next, nan, wall>>

Together ==
  FindStableTimestep \/ Evolve \/ Regrid \/ Output \/ Save \/ ScanNans \/ FinalSave

Tick ==
  /\ wall < MaxWall
  /\ wall' = wall + 1
  /\ UNCHANGED <<place, iter, time, dt, stop, next, nan, written>>

Next == (\E r \in Rank : Decide(r)) \/ Together \/ Tick

Spec == Init /\ [][Next]_vars

(* Every rank keeps running, and a collective all ranks are in completes.  *)
FairSpec == Spec /\ WF_vars(Together) /\ \A r \in Rank : WF_vars(Decide(r))
-----------------------------------------------------------------------------
(* Properties *)

(* No two ranks ever wait for each other in different places: ranks that   *)
(* wait are in the same collective, and none has left the program while    *)
(* another waits for it (checkpoint_handler.cpp: "All ranks participate in *)
(* the write").                                                            *)
Waiting(r) == place[r] \in Collectives \cup {"done", "aborted"}
SameCollective == \A r, s \in Rank : Waiting(r) /\ Waiting(s) => place[r] = place[s]

(* A checkpoint, and any other collective, is of one iteration and time on *)
(* all ranks.                                                              *)
SameState ==
  \A r, s \in Rank : place[r] = place[s] =>
    iter[r] = iter[s] /\ time[r] = time[s] /\ stop[r] = stop[s]

(* A NaN on one rank that makes the run terminate stops all ranks: from    *)
(* the scan on no rank advances (nan_check.cpp, request_termination).      *)
StoppedRanksStay ==
  [][(\E r \in Rank : stop[r]) => UNCHANGED <<iter, time>>]_vars

(* nan_check.yaml: "checkpointing run[s] normally": a run in which NaNs    *)
(* on some rank ask for the end at iteration k leaves the loop on all      *)
(* ranks at that iteration, and only after all of them have written a      *)
(* checkpoint of it, although the loop's own save came before the scan and *)
(* need not have been due.                                                 *)
EndedAt(k) ==
  \A r \in Rank : /\ place[r] = "done" /\ iter[r] = k
                  /\ AtTermination => written[r] = k
TerminatesCleanly ==
  \A k \in 0 .. MaxIter : (\E r \in Rank : stop[r] /\ iter[r] = k) ~> EndedAt(k)

(* Every run ends: no rank is left waiting. *)
RunEnds == <>(\A r \in Rank : place[r] \in {"done", "aborted"})
-----------------------------------------------------------------------------
(* The inductive invariant *)

(* The collective a rank is on its way to, wherever it is. *)
FromCheck(i, t, b) == IF Every(ScanEvery, i) THEN "scan" ELSE AfterHead(i, t, b)
FromDue(i, t, b, n) == IF Due(i, t, n) THEN "save" ELSE FromCheck(i, t, b)
FromOutputs(i, t, b, n) == IF Every(OutputEvery, i) THEN "output" ELSE FromDue(i, t, b, n)
FromAdvance(i, t, b, n) == IF Every(RegridEvery, i) THEN "regrid" ELSE FromOutputs(i, t, b, n)

(* The iteration, time and schedule it will have when it gets there. *)
Iter(r) == IF place[r] = "advance" THEN iter[r] + 1 ELSE iter[r]
Time(r) == IF place[r] = "advance" THEN time[r] + dt[r] ELSE time[r]
Schedule(r) ==
  IF place[r] = "reschedule" THEN Reading(Kind, iter[r], time[r]) + Interval ELSE next[r]

Destination(r) ==
  IF place[r] = "advance" THEN FromAdvance(Iter(r), Time(r), stop[r], next[r])
  ELSE IF place[r] = "outputs" THEN FromOutputs(iter[r], time[r], stop[r], next[r])
  ELSE IF place[r] = "due" THEN FromDue(iter[r], time[r], stop[r], next[r])
  ELSE IF place[r] \in {"reschedule", "check"} THEN FromCheck(iter[r], time[r], stop[r])
  ELSE IF place[r] = "head" THEN AfterHead(iter[r], time[r], stop[r])
  ELSE place[r]

SameDestination ==
  \A r, s \in Rank :
    /\ Destination(r) = Destination(s)
    /\ Iter(r) = Iter(s) /\ Time(r) = Time(s) /\ Schedule(r) = Schedule(s)
    /\ dt[r] = dt[s] /\ stop[r] = stop[s]

StoppedAtHead == \A r \in Rank : stop[r] => place[r] \in {"head", "final save", "done"}

(* Ranks that decide alike on the same data keep going to the same place:  *)
(* checked here, and proved in RunLoop_proofs for criteria other than the  *)
(* wall clock.                                                             *)
IInv == TypeOK /\ SameDestination /\ StoppedAtHead

(* A rank that has left the program has left a checkpoint of its last      *)
(* iteration behind, and so have all others.                               *)
EndIsSaved ==
  AtTermination =>
    \A r, s \in Rank : place[r] = "done" => written[s] = iter[s] /\ iter[s] = iter[r]
=============================================================================
