--------------------------- MODULE RunLoop_proofs ---------------------------
(***************************************************************************)
(* Ranks that decide on the iteration and the time alone stay together: for *)
(* every number of ranks, interval and cadence no two ranks ever wait in   *)
(* different collectives.  The wall clock is excluded: the run             *)
(* run_loop_saveclock shows that it breaks this.                           *)
(***************************************************************************)
EXTENDS RunLoop, TLAPS

(* Neither the end of the run nor the next checkpoint depends on a clock   *)
(* that moves by itself.                                                   *)
NoWallClock == Termination # "walltime" /\ Kind # "walltime"

(* Every initial state satisfies the inductive invariant. *)
LEMMA InitIInv == Init => IInv
<1> SUFFICES ASSUME Init PROVE IInv
  OBVIOUS
<1> USE LoopAssumption
<1>1. TypeOK
  <2>1. place \in [Rank -> Places]
    BY DEF Init, Places, Collectives
  <2>2. dt \in [Rank -> Nat]
    BY DEF Init
  <2> QED
    BY <2>1, <2>2 DEF Init, TypeOK
<1>2. StoppedAtHead
  BY DEF Init, StoppedAtHead
<1>3. SameDestination
  <2> SUFFICES ASSUME NEW r \in Rank, NEW s \in Rank
               PROVE  /\ Destination(r) = Destination(s)
                      /\ Iter(r) = Iter(s) /\ Time(r) = Time(s) /\ Schedule(r) = Schedule(s)
                      /\ dt[r] = dt[s] /\ stop[r] = stop[s]
    BY DEF SameDestination
  <2>1. /\ place[r] = place[s] /\ iter[r] = iter[s] /\ time[r] = time[s]
        /\ dt[r] = dt[s] /\ stop[r] = stop[s] /\ next[r] = next[s]
    BY DEF Init
  <2> QED
    BY <2>1 DEF Destination, Iter, Time, Schedule
<1> QED
  BY <1>1, <1>2, <1>3 DEF IInv

(* What a rank decides on its own keeps the types. *)
LEMMA DecideType ==
  ASSUME TypeOK, NEW r \in Rank, Decide(r)
  PROVE  TypeOK'
<1> USE LoopAssumption DEF TypeOK, GoTo
<1>0. \A i, t, b : AfterHead(i, t, b) \in Places
  BY DEF AfterHead, Places, Collectives
<1>1. CASE Head(r)
  BY <1>0, <1>1 DEF Head
<1>2. CASE Advance(r)
  <2>1. iter[r] + 1 \in Nat /\ time[r] + dt[r] \in Nat
    OBVIOUS
  <2> QED
    BY <1>2, <2>1 DEF Advance, Places, Collectives
<1>3. CASE Outputs(r)
  BY <1>3 DEF Outputs, Places, Collectives
<1>4. CASE NeedCheckpoint(r)
  BY <1>4 DEF NeedCheckpoint, Places, Collectives
<1>5. CASE Reschedule(r)
  <2>1. Reading(Kind, iter[r], time[r]) + Interval \in Nat
    BY DEF Reading
  <2> QED
    BY <1>5, <2>1 DEF Reschedule, Places, Collectives
<1>6. CASE CheckNans(r)
  BY <1>6 DEF CheckNans, Places, Collectives
<1> QED
  BY <1>1, <1>2, <1>3, <1>4, <1>5, <1>6 DEF Decide

(* What a rank decides on its own changes neither where it is going nor    *)
(* what it will have when it gets there.                                   *)
LEMMA DecideKeepsDestination ==
  ASSUME NoWallClock, TypeOK, NEW r \in Rank, Decide(r), NEW s \in Rank
  PROVE  /\ Destination(s)' = Destination(s)
         /\ Iter(s)' = Iter(s) /\ Time(s)' = Time(s) /\ Schedule(s)' = Schedule(s)
         /\ dt'[s] = dt[s] /\ stop'[s] = stop[s]
<1> USE LoopAssumption DEF TypeOK, GoTo
<1>1. CASE s # r
  <2>1. /\ place'[s] = place[s] /\ iter'[s] = iter[s] /\ time'[s] = time[s]
        /\ dt' = dt /\ stop' = stop /\ next'[s] = next[s] /\ wall' = wall
    BY <1>1 DEF Decide, Head, Advance, Outputs, NeedCheckpoint, Reschedule, CheckNans
  <2> QED
    BY <2>1 DEF Destination, Iter, Time, Schedule, FromAdvance, FromOutputs, FromDue, FromCheck,
      AfterHead, Terminated, Due, Reading
<1>2. CASE s = r
  <2>0. wall' = wall /\ dt' = dt /\ stop' = stop
    BY DEF Decide, Head, Advance, Outputs, NeedCheckpoint, Reschedule, CheckNans
  <2>1. CASE Head(r)
    <3>1. AfterHead(iter[r], time[r], stop[r]) \in {"timestep", "evolve", "final save", "done"}
      BY DEF AfterHead
    <3>2. /\ place[r] = "head" /\ place'[r] = AfterHead(iter[r], time[r], stop[r])
          /\ iter' = iter /\ time' = time /\ next' = next
      BY <2>1 DEF Head
    <3>3. Destination(r) = AfterHead(iter[r], time[r], stop[r])
      BY <3>2 DEF Destination
    <3>4. Destination(r)' = place'[r]
      BY <3>1, <3>2 DEF Destination
    <3> QED
      BY <1>2, <2>0, <3>1, <3>2, <3>3, <3>4 DEF Iter, Time, Schedule
  <2>2. CASE Advance(r)
    <3>1. /\ place[r] = "advance"
          /\ iter'[r] = iter[r] + 1 /\ time'[r] = time[r] + dt[r] /\ next' = next
          /\ place'[r] = IF Every(RegridEvery, iter[r] + 1) THEN "regrid" ELSE "outputs"
      BY <2>2 DEF Advance
    <3>2. Destination(r)' = Destination(r)
      BY <2>0, <3>1 DEF Destination, Iter, Time, FromAdvance, FromOutputs, FromDue, FromCheck,
        AfterHead, Terminated, Due, Reading
    <3> QED
      BY <1>2, <2>0, <3>1, <3>2 DEF Iter, Time, Schedule
  <2>3. CASE Outputs(r)
    <3>1. /\ place[r] = "outputs"
          /\ iter' = iter /\ time' = time /\ next' = next
          /\ place'[r] = IF Every(OutputEvery, iter[r]) THEN "output" ELSE "due"
      BY <2>3 DEF Outputs
    <3>2. Destination(r)' = Destination(r)
      BY <2>0, <3>1 DEF Destination, Iter, Time, FromAdvance, FromOutputs, FromDue, FromCheck,
        AfterHead, Terminated, Due, Reading
    <3> QED
      BY <1>2, <2>0, <3>1, <3>2 DEF Iter, Time, Schedule
  <2>4. CASE NeedCheckpoint(r)
    <3>1. /\ place[r] = "due"
          /\ iter' = iter /\ time' = time /\ next' = next
          /\ place'[r] = IF Due(iter[r], time[r], next[r]) THEN "save" ELSE "check"
      BY <2>4 DEF NeedCheckpoint
    <3>2. Destination(r)' = Destination(r)
      BY <2>0, <3>1 DEF Destination, Iter, Time, FromAdvance, FromOutputs, FromDue, FromCheck,
        AfterHead, Terminated, Due, Reading
    <3> QED
      BY <1>2, <2>0, <3>1, <3>2 DEF Iter, Time, Schedule
  <2>5. CASE Reschedule(r)
    <3>1. /\ place[r] = "reschedule"
          /\ iter' = iter /\ time' = time /\ place'[r] = "check"
          /\ next'[r] = Reading(Kind, iter[r], time[r]) + Interval
      BY <2>5 DEF Reschedule
    <3>2. Destination(r)' = Destination(r)
      BY <2>0, <3>1 DEF Destination, Iter, Time, FromAdvance, FromOutputs, FromDue, FromCheck,
        AfterHead, Terminated, Due, Reading
    <3> QED
      BY <1>2, <2>0, <3>1, <3>2 DEF Iter, Time, Schedule
  <2>6. CASE CheckNans(r)
    <3>1. /\ place[r] = "check"
          /\ iter' = iter /\ time' = time /\ next' = next
          /\ place'[r] = IF Every(ScanEvery, iter[r]) THEN "scan" ELSE "head"
      BY <2>6 DEF CheckNans
    <3>2. Destination(r)' = Destination(r)
      BY <2>0, <3>1 DEF Destination, Iter, Time, FromAdvance, FromOutputs, FromDue, FromCheck,
        AfterHead, Terminated, Due, Reading
    <3> QED
      BY <1>2, <2>0, <3>1, <3>2 DEF Iter, Time, Schedule
  <2> QED
    BY <2>1, <2>2, <2>3, <2>4, <2>5, <2>6 DEF Decide
<1> QED
  BY <1>1, <1>2

(* Ranks that are in one place on the same data. *)
Uniform ==
  \A r, s \in Rank : /\ place[r] = place[s] /\ iter[r] = iter[s] /\ time[r] = time[s]
                     /\ dt[r] = dt[s] /\ stop[r] = stop[s] /\ next[r] = next[s]

LEMMA UniformNext == Uniform' => SameDestination'
<1> SUFFICES ASSUME Uniform', NEW r \in Rank, NEW s \in Rank
             PROVE  /\ Destination(r)' = Destination(s)'
                    /\ Iter(r)' = Iter(s)' /\ Time(r)' = Time(s)' /\ Schedule(r)' = Schedule(s)'
                    /\ dt'[r] = dt'[s] /\ stop'[r] = stop'[s]
  BY DEF SameDestination
<1>1. /\ place'[r] = place'[s] /\ iter'[r] = iter'[s] /\ time'[r] = time'[s]
      /\ dt'[r] = dt'[s] /\ stop'[r] = stop'[s] /\ next'[r] = next'[s]
  BY DEF Uniform
<1> QED
  BY <1>1 DEF Destination, Iter, Time, Schedule

(* Ranks that meet in a collective got there with the same data. *)
LEMMA MeetUniform ==
  ASSUME SameDestination, NEW here \in Collectives, \A r \in Rank : place[r] = here
  PROVE  Uniform
<1> SUFFICES ASSUME NEW r \in Rank, NEW s \in Rank
             PROVE  /\ iter[r] = iter[s] /\ time[r] = time[s] /\ next[r] = next[s]
                    /\ dt[r] = dt[s] /\ stop[r] = stop[s] /\ place[r] = place[s]
  BY DEF Uniform
<1>1. /\ place[r] \notin {"advance", "reschedule"} /\ place[s] \notin {"advance", "reschedule"}
      /\ place[r] = place[s]
  BY DEF Collectives
<1>2. /\ Iter(r) = Iter(s) /\ Time(r) = Time(s) /\ Schedule(r) = Schedule(s)
      /\ dt[r] = dt[s] /\ stop[r] = stop[s]
  BY DEF SameDestination
<1> QED
  BY <1>1, <1>2 DEF Iter, Time, Schedule

(* A collective that completes keeps the inductive invariant. *)
LEMMA TogetherIInv ==
  ASSUME IInv, Together
  PROVE  IInv'
<1> USE LoopAssumption DEF TypeOK, IInv
<1>1. ASSUME NEW here \in Collectives, NEW there \in Places, Meet(here, there),
             UNCHANGED <<iter, time, dt, stop, next, wall>>,
             here # "final save" => there # "done" /\ ~\E r \in Rank : stop[r],
             here = "final save" => there = "done",
             nan' \in SUBSET Rank, written' \in [Rank -> Nat \cup {-1}]
      PROVE  IInv'
  <2>1. Uniform
    BY <1>1, MeetUniform DEF Meet
  <2>2. Uniform'
    BY <1>1, <2>1 DEF Uniform, Meet
  <2>3. TypeOK'
    BY <1>1 DEF Meet
  <2>4. StoppedAtHead'
    BY <1>1 DEF StoppedAtHead, Meet
  <2> QED
    BY <2>2, <2>3, <2>4, UniformNext
<1>0. ASSUME NEW here \in Collectives \ {"final save"}, \A r \in Rank : place[r] = here
      PROVE  ~\E r \in Rank : stop[r]
  BY <1>0 DEF StoppedAtHead, Collectives
<1>2. CASE FindStableTimestep
  <2>1. Uniform
    BY <1>2, MeetUniform DEF FindStableTimestep, Meet, Collectives
  <2>2. PICK d \in Steps : dt' = [r \in Rank |-> d]
    BY <1>2 DEF FindStableTimestep
  <2>3. Uniform'
    BY <1>2, <2>1, <2>2 DEF Uniform, Meet, FindStableTimestep
  <2>4. TypeOK'
    BY <1>2, <2>2 DEF Meet, FindStableTimestep, Places, Collectives
  <2>5. ~\E r \in Rank : stop[r]
    BY <1>0, <1>2 DEF FindStableTimestep, Meet, Collectives
  <2>6. StoppedAtHead'
    BY <1>2, <2>5 DEF StoppedAtHead, FindStableTimestep
  <2> QED
    BY <2>3, <2>4, <2>6, UniformNext
<1>3. CASE Evolve
  <2>1. nan' \in SUBSET Rank
    BY <1>3 DEF Evolve
  <2> QED
    BY <1>0, <1>1, <1>3, <2>1 DEF Evolve, Meet, Places, Collectives
<1>4. CASE Regrid
  BY <1>0, <1>1, <1>4 DEF Regrid, Meet, Places, Collectives
<1>5. CASE Output
  BY <1>0, <1>1, <1>5 DEF Output, Meet, Places, Collectives
<1>6. CASE Save
  <2>1. written' \in [Rank -> Nat \cup {-1}]
    BY <1>6 DEF Save
  <2> QED
    BY <1>0, <1>1, <1>6, <2>1 DEF Save, Meet, Places, Collectives
<1>7. CASE ScanNans
  <2>1. Uniform
    BY <1>7, MeetUniform DEF ScanNans, Meet, Collectives
  <2>2. ~\E r \in Rank : stop[r]
    BY <1>0, <1>7 DEF ScanNans, Meet, Collectives
  <2>3. stop' = [r \in Rank |-> nan # {} /\ Action = "terminate"]
    BY <1>7, <2>2 DEF ScanNans
  <2>4. place' = [r \in Rank |-> IF nan # {} /\ Action = "abort" THEN "aborted" ELSE "head"]
    BY <1>7 DEF ScanNans, Meet
  <2>5. /\ iter' = iter /\ time' = time /\ dt' = dt /\ next' = next /\ nan' = nan /\ wall' = wall
        /\ written' = written
    BY <1>7 DEF ScanNans
  <2>6. Uniform'
    BY <2>1, <2>3, <2>4, <2>5 DEF Uniform
  <2>7. TypeOK'
    <3>1. place' \in [Rank -> Places]
      BY <2>4 DEF Places
    <3>2. stop' \in [Rank -> BOOLEAN]
      BY <2>3
    <3> QED
      BY <2>5, <3>1, <3>2
  <2>8. StoppedAtHead'
    BY <2>3, <2>4 DEF StoppedAtHead
  <2> QED
    BY <2>6, <2>7, <2>8, UniformNext
<1>8. CASE FinalSave
  <2>1. written' \in [Rank -> Nat \cup {-1}]
    BY <1>8 DEF FinalSave
  <2> QED
    BY <1>1, <1>8, <2>1 DEF FinalSave, Meet, Places, Collectives
<1> QED
  BY <1>2, <1>3, <1>4, <1>5, <1>6, <1>7, <1>8 DEF Together

(* Every step keeps the inductive invariant; this is where the wall clock  *)
(* has to stay out of the decisions.                                       *)
LEMMA NextIInv ==
  ASSUME NoWallClock, IInv, [Next]_vars
  PROVE  IInv'
<1>1. CASE \E r \in Rank : Decide(r)
  <2>1. PICK r \in Rank : Decide(r)
    BY <1>1
  <2>2. TypeOK'
    BY <2>1, DecideType DEF IInv
  <2>3. SameDestination'
    <3>1. \A s \in Rank : /\ Destination(s)' = Destination(s)
                          /\ Iter(s)' = Iter(s) /\ Time(s)' = Time(s)
                          /\ Schedule(s)' = Schedule(s)
                          /\ dt'[s] = dt[s] /\ stop'[s] = stop[s]
      BY <2>1, DecideKeepsDestination DEF IInv
    <3> QED
      BY <3>1 DEF IInv, SameDestination
  <2>4. StoppedAtHead'
    <3>0. TypeOK /\ StoppedAtHead
      BY DEF IInv
    <3>1. stop' = stop
      BY <2>1 DEF Decide, Head, Advance, Outputs, NeedCheckpoint, Reschedule, CheckNans
    <3>2. \A s \in Rank : s # r => place'[s] = place[s]
      BY <2>1, <3>0 DEF Decide, Head, Advance, Outputs, NeedCheckpoint, Reschedule, CheckNans, GoTo, TypeOK
    <3>3. stop[r] => place[r] = "head"
      BY <2>1, <3>0 DEF Decide, Head, Advance, Outputs, NeedCheckpoint, Reschedule, CheckNans,
        StoppedAtHead
    <3>4. stop[r] => Head(r)
      BY <2>1, <3>3 DEF Decide, Advance, Outputs, NeedCheckpoint, Reschedule, CheckNans
    <3>5. stop[r] => place'[r] \in {"final save", "done"}
      BY <3>0, <3>4 DEF Head, GoTo, AfterHead, Terminated, TypeOK
    <3> QED
      BY <3>0, <3>1, <3>2, <3>5 DEF StoppedAtHead
  <2> QED
    BY <2>2, <2>3, <2>4 DEF IInv
<1>2. CASE Together
  BY <1>2, TogetherIInv
<1>3. CASE Tick
  <2>1. TypeOK'
    BY <1>3 DEF IInv, TypeOK, Tick
  <2>2. StoppedAtHead'
    BY <1>3 DEF IInv, StoppedAtHead, Tick
  <2>3. /\ place' = place /\ iter' = iter /\ time' = time /\ dt' = dt /\ stop' = stop /\ next' = next
    BY <1>3 DEF Tick
  <2>4. ASSUME NEW s \in Rank
        PROVE  /\ Iter(s)' = Iter(s) /\ Time(s)' = Time(s) /\ Schedule(s)' = Schedule(s)
               /\ Destination(s)' = Destination(s)
    <3>1. Iter(s)' = Iter(s) /\ Time(s)' = Time(s)
      BY <2>3 DEF Iter, Time
    <3>2. Schedule(s)' = Schedule(s)
      BY <2>3, LoopAssumption DEF Schedule, Reading, NoWallClock, Criteria
    <3>3. Destination(s)' = Destination(s)
      BY <2>3, LoopAssumption DEF Destination, Iter, Time, FromAdvance, FromOutputs, FromDue,
        FromCheck, AfterHead, Terminated, Due, Reading, NoWallClock, Criteria
    <3> QED
      BY <3>1, <3>2, <3>3
  <2>5. dt' = dt /\ stop' = stop
    BY <2>3
  <2>6. SameDestination'
    BY <2>4, <2>5 DEF IInv, SameDestination
  <2> QED
    BY <2>1, <2>2, <2>6 DEF IInv
<1>4. CASE UNCHANGED vars
  <2>1. TypeOK'
    BY <1>4 DEF IInv, TypeOK, vars
  <2>2. StoppedAtHead'
    BY <1>4 DEF IInv, StoppedAtHead, vars
  <2>3. SameDestination'
    <3>1. /\ place' = place /\ iter' = iter /\ time' = time /\ dt' = dt /\ stop' = stop
          /\ next' = next /\ wall' = wall
      BY <1>4 DEF vars
    <3>2. ASSUME NEW s \in Rank
          PROVE  /\ Iter(s)' = Iter(s) /\ Time(s)' = Time(s) /\ Schedule(s)' = Schedule(s)
                 /\ Destination(s)' = Destination(s)
      BY <3>1 DEF Destination, Iter, Time, Schedule, FromAdvance, FromOutputs, FromDue, FromCheck,
        AfterHead, Terminated, Due, Reading
    <3> QED
      BY <3>1, <3>2 DEF IInv, SameDestination
  <2> QED
    BY <2>1, <2>2, <2>3 DEF IInv
<1> QED
  BY <1>1, <1>2, <1>3, <1>4 DEF Next

(* The inductive invariant holds in every run without a wall-clock         *)
(* criterion, for every number of ranks, cadence, interval and length.     *)
THEOREM Inductive == NoWallClock => (Spec => []IInv)
<1> SUFFICES ASSUME NoWallClock PROVE Spec => []IInv
  OBVIOUS
<1>1. IInv /\ [Next]_vars => IInv'
  BY NextIInv
<1> QED
  BY InitIInv, <1>1, PTL DEF Spec

(* No two ranks ever wait in different collectives, nor one for a rank     *)
(* that has left the program: the loop cannot hang on its own decisions.   *)
THEOREM RanksMeet == NoWallClock => (Spec => []SameCollective)
<1> SUFFICES ASSUME NoWallClock PROVE Spec => []SameCollective
  OBVIOUS
<1>1. IInv => SameCollective
  <2> SUFFICES ASSUME IInv, NEW r \in Rank, NEW s \in Rank, Waiting(r), Waiting(s)
               PROVE  place[r] = place[s]
    BY DEF SameCollective
  <2>1. Destination(r) = place[r] /\ Destination(s) = place[s]
    BY DEF Destination, Waiting, Collectives
  <2>2. Destination(r) = Destination(s)
    BY DEF IInv, SameDestination
  <2> QED
    BY <2>1, <2>2
<1> QED
  BY Inductive, <1>1, PTL

(* What ranks do in the same place they do for the same iteration, at the  *)
(* same time and with the same decision to stop.                           *)
THEOREM RanksAgree == NoWallClock => (Spec => []SameState)
<1> SUFFICES ASSUME NoWallClock PROVE Spec => []SameState
  OBVIOUS
<1>1. IInv => SameState
  <2> SUFFICES ASSUME IInv, NEW r \in Rank, NEW s \in Rank, place[r] = place[s]
               PROVE  iter[r] = iter[s] /\ time[r] = time[s] /\ stop[r] = stop[s]
    BY DEF SameState
  <2>1. /\ Iter(r) = Iter(s) /\ Time(r) = Time(s) /\ dt[r] = dt[s] /\ stop[r] = stop[s]
    BY DEF IInv, SameDestination
  <2>2. /\ iter[r] \in Nat /\ iter[s] \in Nat /\ time[r] \in Nat /\ time[s] \in Nat
        /\ dt[r] \in Nat /\ dt[s] \in Nat
    BY DEF IInv, TypeOK
  <2> QED
    BY <2>1, <2>2 DEF Iter, Time
<1> QED
  BY Inductive, <1>1, PTL

(* Once a scan has asked for termination no rank advances any more.        *)
THEOREM StopHolds == NoWallClock => (Spec => StoppedRanksStay)
<1> SUFFICES ASSUME NoWallClock PROVE Spec => StoppedRanksStay
  OBVIOUS
<1>1. IInv /\ [Next]_vars => [(\E r \in Rank : stop[r]) => UNCHANGED <<iter, time>>]_vars
  <2> SUFFICES ASSUME IInv, Next, NEW q \in Rank, stop[q]
               PROVE  UNCHANGED <<iter, time>>
    BY DEF vars
  <2>1. \A r \in Rank : place[r] \in {"head", "final save", "done"}
    BY DEF IInv, SameDestination, StoppedAtHead
  <2>2. \A r \in Rank : ~Advance(r)
    BY <2>1 DEF Advance
  <2> QED
    BY <2>2 DEF Next, Decide, Together, Tick, Head, Outputs, NeedCheckpoint, Reschedule, CheckNans,
      FindStableTimestep, Evolve, Regrid, Output, Save, ScanNans, FinalSave
<1> QED
  BY Inductive, <1>1, PTL DEF Spec, StoppedRanksStay

(* A rank leaves the program only when all ranks have written a checkpoint *)
(* of the iteration it ends at: nobody is at "done" on the way there, and  *)
(* nobody advances once somebody is.                                       *)
LEMMA NextEndIsSaved ==
  ASSUME AtTermination, IInv, EndIsSaved, [Next]_vars
  PROVE  EndIsSaved'
<1> USE LoopAssumption
<1>1. ASSUME place' = place, iter' = iter, written' = written
      PROVE  EndIsSaved'
  BY <1>1 DEF EndIsSaved
<1>2. ASSUME NEW r \in Rank, Decide(r)
      PROVE  EndIsSaved'
  <2>1. CASE Advance(r)
    <3>1. place[r] = "advance"
      BY <2>1 DEF Advance
    <3>2. Destination(r) # "done"
      BY <3>1 DEF Destination, FromAdvance, FromOutputs, FromDue, FromCheck, AfterHead
    <3>3. \A s \in Rank : place[s] # "done"
      BY <3>2 DEF IInv, SameDestination, Destination
    <3>4. \A s \in Rank : place'[s] # "done"
      BY <2>1, <3>3 DEF Advance, GoTo, IInv, TypeOK
    <3> QED
      BY <3>4 DEF EndIsSaved
  <2>2. CASE ~Advance(r)
    <3>1. iter' = iter /\ written' = written
      BY <1>2, <2>2 DEF Decide, Head, Outputs, NeedCheckpoint, Reschedule, CheckNans
    <3>2. \A s \in Rank : place'[s] = "done" => place[s] = "done"
      BY <1>2, <2>2 DEF Decide, Head, Outputs, NeedCheckpoint, Reschedule, CheckNans, GoTo,
        AfterHead, IInv, TypeOK
    <3> QED
      BY <3>1, <3>2 DEF EndIsSaved
  <2> QED
    BY <2>1, <2>2
<1>3. ASSUME Together, ~FinalSave
      PROVE  EndIsSaved'
  <2>1. \A s \in Rank : place'[s] # "done"
    BY <1>3 DEF Together, FindStableTimestep, Evolve, Regrid, Output, Save, ScanNans, Meet
  <2> QED
    BY <2>1 DEF EndIsSaved
<1>4. CASE FinalSave
  <2>1. Uniform
    BY <1>4, MeetUniform DEF FinalSave, Meet, Collectives, IInv
  <2>2. \A r, s \in Rank : iter[r] = iter[s]
    BY <2>1 DEF Uniform
  <2>3. iter' = iter /\ written' = iter
    BY <1>4 DEF FinalSave
  <2> QED
    BY <2>2, <2>3 DEF EndIsSaved
<1>5. CASE Tick
  BY <1>1, <1>5 DEF Tick
<1>6. CASE UNCHANGED vars
  BY <1>1, <1>6 DEF vars
<1> QED
  BY <1>2, <1>3, <1>4, <1>5, <1>6 DEF Next

(* With checkpoint_at_termination every rank that has left the program has *)
(* left a checkpoint of its last iteration, and it is the last iteration   *)
(* of all ranks: there is no end of a run, by a NaN scan or by a limit,    *)
(* that comes before the save.                                             *)
THEOREM LastSaveComesFirst == NoWallClock => (Spec => []EndIsSaved)
<1> SUFFICES ASSUME NoWallClock PROVE Spec => []EndIsSaved
  OBVIOUS
<1>1. Init => EndIsSaved
  BY DEF Init, EndIsSaved
<1>2. IInv /\ EndIsSaved /\ [Next]_vars => EndIsSaved'
  <2>1. CASE AtTermination
    BY <2>1, NextEndIsSaved
  <2>2. CASE ~AtTermination
    BY <2>2 DEF EndIsSaved
  <2> QED
    BY <2>1, <2>2
<1> QED
  BY Inductive, <1>1, <1>2, PTL DEF Spec
=============================================================================
