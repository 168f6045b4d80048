----------------------------- MODULE Jobs_proofs -----------------------------
(***************************************************************************)
(* A restart continues the run, for any number of jobs, parameter files,   *)
(* cadences and orbits: the M1 switch, the tracker, the injection and the  *)
(* whole history are what one job alone would have made.                   *)
(*                                                                         *)
(* At the end of each job no destructor uses a singleton that is gone, for *)
(* any singletons, any longevities that put what a destructor uses below   *)
(* it, and any order of construction in which statics come late enough.    *)
(***************************************************************************)
EXTENDS Restart, Lifetimes, FiniteSetTheorems, SequenceTheorems, TLAPS

-----------------------------------------------------------------------------
(* The M1 switch, whatever the parameter files *)

(* Every initial state satisfies the inductive invariant. *)
LEMMA InitSwitch == Init => SwitchInv
BY DEF Init, SwitchInv, UnarmedEvolvesM1, M1StaysOn, Running

(* What a starting job does keeps it. *)
LEMMA StartSwitch ==
  ASSUME SwitchInv, Start
  PROVE  SwitchInv'
<1> USE DEF SwitchInv, UnarmedEvolvesM1, M1StaysOn, Running, GoTo
<1>1. CASE Launch
  BY <1>1 DEF Launch
<1>2. CASE Load
  BY <1>2 DEF Load
<1>3. CASE FreshStart
  BY <1>3 DEF FreshStart, memory
<1>4. CASE StartupCheck
  BY <1>4 DEF StartupCheck
<1>5. CASE StartupSave
  BY <1>5 DEF StartupSave, File, memory
<1>6. CASE InitialOutput
  BY <1>6 DEF InitialOutput
<1> QED
  BY <1>1, <1>2, <1>3, <1>4, <1>5, <1>6 DEF Start

(* An iteration keeps it. *)
LEMMA IterateSwitch ==
  ASSUME SwitchInv, Iterate
  PROVE  SwitchInv'
<1> USE DEF SwitchInv, UnarmedEvolvesM1, M1StaysOn, Running, GoTo
<1>1. CASE Step
  BY <1>1 DEF Step
<1>2. CASE Regrid
  BY <1>2 DEF Regrid
<1>3. CASE Diagnose
  BY <1>3 DEF Diagnose
<1>4. CASE Track
  BY <1>4 DEF Track
<1>5. CASE UpdateTrigger
  BY <1>5 DEF UpdateTrigger
<1>6. CASE Inject
  BY <1>6 DEF Inject
<1>7. CASE SaveIfDue
  BY <1>7 DEF SaveIfDue, File, memory
<1> QED
  BY <1>1, <1>2, <1>3, <1>4, <1>5, <1>6, <1>7 DEF Iterate

(* Every step keeps it. *)
LEMMA NextSwitch == SwitchInv /\ [Next]_vars => SwitchInv'
<1> SUFFICES ASSUME SwitchInv, [Next]_vars PROVE SwitchInv'
  OBVIOUS
<1>1. CASE Start
  BY <1>1, StartSwitch
<1>2. CASE Iterate
  BY <1>2, IterateSwitch
<1>3. CASE Terminate
  BY <1>3 DEF Terminate, memory, SwitchInv, UnarmedEvolvesM1, M1StaysOn, Running, GoTo
<1>4. CASE Crash
  BY <1>4 DEF Crash, SwitchInv, UnarmedEvolvesM1, M1StaysOn, Running, GoTo
<1>5. CASE UNCHANGED vars
  BY <1>5 DEF vars, memory, SwitchInv, UnarmedEvolvesM1, M1StaysOn, Running
<1> QED
  BY <1>1, <1>2, <1>3, <1>4, <1>5 DEF Next

(* The inductive invariant holds in every run of any number of jobs.       *)
THEOREM Switch == Spec => []SwitchInv
BY InitSwitch, NextSwitch, PTL DEF Spec

(* Once a checkpoint has the M1 radiation on, no later job evolves without *)
(* it.                                                                     *)
THEOREM OneWay == Spec => []M1StaysOn
<1>1. SwitchInv => M1StaysOn
  BY DEF SwitchInv
<1> QED
  BY Switch, <1>1, PTL

(* A job without a trigger evolves the radiation in every step, whatever   *)
(* checkpoint it was started from.                                         *)
THEOREM Unarmed == Spec => []UnarmedEvolvesM1
<1>1. SwitchInv => UnarmedEvolvesM1
  BY DEF SwitchInv
<1> QED
  BY Switch, <1>1, PTL

-----------------------------------------------------------------------------
(* Where a job can be *)

(* The sets of iterations and updates, as numbers. *)
LEMMA Numbers ==
  /\ MaxIteration \in Nat /\ MaxIteration >= 1 /\ UpdateEvery \in Nat /\ UpdateEvery >= 1
  /\ InjectAt \in Nat /\ InjectionDue \in Nat /\ InjectionDue >= 1
  /\ (InjectAt >= 1 => InjectionDue = InjectAt) /\ (InjectAt = 0 => InjectionDue = 1)
  /\ Iterations = {i \in Moments : i >= 1}
  /\ \A i \in Moments : i \in Nat /\ i <= MaxIteration
  /\ \A i \in Iterations : i - 1 \in Moments
  /\ 0 \in Moments /\ 0 \notin Iterations
  /\ Updates \subseteq Iterations
  /\ Parfiles \subseteq BOOLEAN
BY RestartAssumption DEF Moments, Iterations, Updates, InjectionDue

(* A file is never mistaken for no file, nor a computed state for none. *)
LEMMA NotNone ==
  /\ iter \in Moments => File # None /\ Snapshot # None
  /\ \A i \in Moments : Computed[i] # None \/ i \notin Iterations
<1>1. None.iter = -1
  BY DEF None
<1>2. File.iter = iter /\ Snapshot.iter = iter
  BY DEF File, Snapshot
<1>3. \A i \in Iterations : Computed[i].iter = i
  BY DEF Computed
<1>4. \A i \in Moments : i # -1
  BY Numbers
<1>5. QED
  BY <1>1, <1>2, <1>3, <1>4

(* The points of the loop and what holds at its two ends, for every state. *)
LEMMA PlacedSteps == Placed /\ [Next]_vars => Placed'
<1> SUFFICES ASSUME Placed, [Next]_vars PROVE Placed'
  OBVIOUS
<1> USE DEF Placed, Points, GoTo, Iterating
<1>1. CASE Launch
  BY <1>1, Numbers DEF Launch
<1>2. CASE Load
  BY <1>2 DEF Load
<1>3. CASE FreshStart
  BY <1>3 DEF FreshStart, memory
<1>4. CASE StartupCheck
  BY <1>4 DEF StartupCheck
<1>5. CASE StartupSave
  BY <1>5 DEF StartupSave, File, memory
<1>6. CASE InitialOutput
  BY <1>6 DEF InitialOutput
<1>7. CASE Step
  <2>1. iter + 1 \in Moments /\ iter + 1 >= 1
    BY <1>7, Numbers DEF Step, Moments
  <2>2. QED
    BY <1>7, <2>1 DEF Step
<1>8. CASE Regrid
  BY <1>8 DEF Regrid
<1>9. CASE Diagnose
  BY <1>9 DEF Diagnose
<1>10. CASE Track
  BY <1>10 DEF Track
<1>11. CASE UpdateTrigger
  BY <1>11 DEF UpdateTrigger
<1>12. CASE Inject
  BY <1>12 DEF Inject
<1>13. CASE SaveIfDue
  <2>1. seen' = [i \in Iterations |-> seen'[i]]
    BY <1>13 DEF SaveIfDue, Record
  <2>2. QED
    BY <1>13, <2>1 DEF SaveIfDue, File, memory
<1>14. CASE Terminate
  BY <1>14 DEF Terminate, File, memory
<1>15. CASE Crash
  BY <1>15 DEF Crash, memory
<1>16. CASE UNCHANGED vars
  BY <1>16 DEF vars, memory
<1>17. QED
  BY <1>1, <1>2, <1>3, <1>4, <1>5, <1>6, <1>7, <1>8, <1>9, <1>10, <1>11, <1>12, <1>13, <1>14, <1>15,
     <1>16 DEF Next, Start, Iterate

(* The inductive invariant of where a job can be. *)
LEMMA Places == Spec => []Placed
<1>1. Init => Placed
  BY Numbers DEF Init, Placed, Points, Iterating, Moments
<1>2. QED
  BY <1>1, PlacedSteps, PTL DEF Spec

(* The values the orbit and the parameter file give stay what they are.    *)
LEMMA Fixed ==
  ASSUME orbit' = orbit
  PROVE  /\ LocationAt' = LocationAt /\ MergedAt' = MergedAt /\ CloseAt' = CloseAt /\ FiredAt' = FiredAt
         /\ armed' = armed => ActiveAt' = ActiveAt
<1>1. \A i \in Moments : LostBy(i)' = LostBy(i)
  BY DEF LostBy
<1>2. LocationAt' = LocationAt
  BY DEF LocationAt, LostBy
<1>3. MergedAt' = MergedAt /\ CloseAt' = CloseAt
  BY DEF MergedAt, CloseAt, SightedBy, LostBy
<1>4. QED
  BY <1>2, <1>3 DEF FiredAt, ActiveAt

-----------------------------------------------------------------------------
(* The tracker *)

(* Quotient and remainder are unique. *)
LEMMA Quotient ==
  ASSUME NEW d \in Nat, d >= 1, NEW k \in Nat, NEW r \in Nat, r < d
  PROVE  (d * k + r) \div d = k /\ (d * k + r) % d = r
<1> DEFINE n == d * k + r
           p == n \div d
           s == n % d
<1>1. n \in Nat /\ d * k \in Nat
  OBVIOUS
<1>2. p \in Int /\ s \in Int /\ 0 <= s /\ s < d /\ n = d * p + s
  BY <1>1
<1> HIDE DEF p, s
<1>3. d * k + r = d * p + s
  BY <1>2
<1>4. ASSUME p >= k + 1 PROVE FALSE
  <2>1. d * p >= d * (k + 1)
    BY <1>2, <1>4
  <2>2. d * (k + 1) = d * k + d
    OBVIOUS
  <2>3. QED
    BY <1>1, <1>2, <1>3, <2>1, <2>2
<1>5. ASSUME p + 1 <= k PROVE FALSE
  <2>1. d * k >= d * (p + 1)
    BY <1>2, <1>5
  <2>2. d * (p + 1) = d * p + d
    BY <1>2
  <2>3. QED
    BY <1>1, <1>2, <1>3, <2>1, <2>2
<1>6. p = k
  BY <1>2, <1>4, <1>5
<1>7. s = r
  BY <1>1, <1>2, <1>3, <1>6
<1>8. QED
  BY <1>6, <1>7 DEF p, s

(* Updates are counted by a division. *)
LEMMA Division ==
  ASSUME NEW d \in Nat, d >= 1, NEW i \in Nat, i >= 1
  PROVE  /\ i % d = 0 => i \div d = (i - 1) \div d + 1 /\ ((i - 1) \div d + 1) * d = i
         /\ i % d # 0 => i \div d = (i - 1) \div d
         /\ 0 \div d = 0
         /\ i \div d \in Nat /\ i \div d <= i /\ (i - 1) \div d \in Nat
<1> DEFINE q == (i - 1) \div d
           r == (i - 1) % d
<1>1. q \in Int /\ r \in Int /\ 0 <= r /\ r < d /\ i - 1 = d * q + r
  OBVIOUS
<1>2. q >= 0
  OBVIOUS
<1>3. q <= i - 1
  OBVIOUS
<1>4. CASE r = d - 1
  <2>1. i = d * (q + 1)
    BY <1>1, <1>4
  <2>2. i % d = 0 /\ i \div d = q + 1
    <3>1. q + 1 \in Nat /\ 0 \in Nat /\ 0 < d
      BY <1>2
    <3>2. (d * (q + 1) + 0) \div d = q + 1 /\ (d * (q + 1) + 0) % d = 0
      BY <3>1, Quotient
    <3>3. d * (q + 1) + 0 = i
      BY <2>1
    <3>4. QED
      BY <3>2, <3>3
  <2>3. (q + 1) * d = i
    BY <2>1, <1>1
  <2>4. QED
    BY <1>1, <1>2, <1>3, <2>2, <2>3
<1>5. CASE r # d - 1
  <2>1. i = d * q + (r + 1) /\ r + 1 < d /\ r + 1 > 0
    BY <1>1, <1>5
  <2>2. i % d = r + 1 /\ i \div d = q
    BY <2>1, <1>1
  <2>3. QED
    BY <1>1, <1>2, <1>3, <2>1, <2>2
<1>6. QED
  BY <1>4, <1>5

(* What one more iteration adds to what the orbit shows. *)
LEMMA OneMore ==
  ASSUME NEW i \in Iterations
  PROVE  /\ i % UpdateEvery = 0 =>
              /\ LostBy(i) <=> LostBy(i - 1) \/ orbit[i] = "lost"
              /\ \A S : SightedBy(S, i) # {} <=>
                   SightedBy(S, i - 1) # {} \/ (orbit[i] \in S /\ ~LostBy(i))
         /\ i % UpdateEvery # 0 =>
              /\ LostBy(i) <=> LostBy(i - 1)
              /\ \A S : SightedBy(S, i) = SightedBy(S, i - 1)
<1>1. i \in Nat /\ \A j \in Updates : j \in Nat /\ (j <= i <=> j <= i - 1 \/ j = i)
  BY Numbers
<1>2. CASE i % UpdateEvery = 0
  <2>1. i \in Updates /\ i <= i
    BY <1>1, <1>2 DEF Updates
  <2>2. LostBy(i) <=> LostBy(i - 1) \/ orbit[i] = "lost"
    BY <1>1, <2>1 DEF LostBy
  <2>3. ASSUME NEW S
        PROVE  SightedBy(S, i) # {} <=> SightedBy(S, i - 1) # {} \/ (orbit[i] \in S /\ ~LostBy(i))
    BY <1>1, <2>1 DEF SightedBy
  <2>4. QED
    BY <1>2, <2>2, <2>3
<1>3. CASE i % UpdateEvery # 0
  <2>1. i \notin Updates
    BY <1>3 DEF Updates
  <2>2. LostBy(i) <=> LostBy(i - 1)
    BY <1>1, <2>1 DEF LostBy
  <2>3. ASSUME NEW S
        PROVE  SightedBy(S, i) = SightedBy(S, i - 1)
    BY <1>1, <2>1 DEF SightedBy
  <2>4. QED
    BY <1>3, <2>2, <2>3
<1>4. QED
  BY <1>2, <1>3

(* The values of each iteration, one by one. *)
LEMMA Values ==
  ASSUME NEW i \in Moments
  PROVE  /\ LocationAt[i] = (IF LostBy(i) THEN Lost ELSE i \div UpdateEvery)
         /\ MergedAt[i] \in BOOLEAN /\ (MergedAt[i] <=> SightedBy({"contact"}, i) # {})
         /\ CloseAt[i] \in BOOLEAN /\ (CloseAt[i] <=> SightedBy(Close, i) # {})
         /\ ActiveAt[i] \in BOOLEAN /\ (ActiveAt[i] <=> (armed => CloseAt[i]))
         /\ FiredAt[i] \in BOOLEAN /\ (FiredAt[i] <=> i >= InjectionDue)
<1>1. LocationAt[i] = (IF LostBy(i) THEN Lost ELSE i \div UpdateEvery)
  BY DEF LocationAt
<1>2. MergedAt[i] = (SightedBy({"contact"}, i) # {})
  BY DEF MergedAt
<1>3. CloseAt[i] = (SightedBy(Close, i) # {})
  BY DEF CloseAt
<1>4. ActiveAt[i] = (armed => CloseAt[i])
  BY DEF ActiveAt
<1>5. FiredAt[i] = (i >= InjectionDue)
  BY Numbers DEF FiredAt
<1> DEFINE due == i >= InjectionDue
<1>11. due \in BOOLEAN /\ FiredAt[i] = due
  BY <1>5, Numbers
<1> HIDE DEF due
<1>6. MergedAt[i] \in BOOLEAN /\ (MergedAt[i] <=> SightedBy({"contact"}, i) # {})
  BY <1>2
<1>7. CloseAt[i] \in BOOLEAN /\ (CloseAt[i] <=> SightedBy(Close, i) # {})
  BY <1>3
<1>8. ActiveAt[i] \in BOOLEAN /\ (ActiveAt[i] <=> (armed => CloseAt[i]))
  BY <1>4
<1>9. FiredAt[i] \in BOOLEAN /\ (FiredAt[i] <=> i >= InjectionDue)
  <2>1. FiredAt[i] \in BOOLEAN /\ (FiredAt[i] <=> due)
    BY <1>11
  <2>2. QED
    BY <2>1 DEF due
<1>10. QED
  BY <1>1, <1>6, <1>7, <1>8, <1>9

(* Before the first iteration nothing has been seen. *)
LEMMA AtZero == LocationAt[0] = 0 /\ ~MergedAt[0] /\ ~CloseAt[0] /\ ~FiredAt[0]
<1>1. \A j \in Updates : ~(j <= 0)
  BY Numbers
<1>2. 0 \in Moments /\ 0 \div UpdateEvery = 0 /\ ~(0 >= InjectionDue)
  <2>1. 0 \div UpdateEvery = 0
    BY Numbers, Division
  <2>2. QED
    BY <2>1, Numbers
<1>3. ~LostBy(0) /\ \A S : SightedBy(S, 0) = {}
  BY <1>1 DEF LostBy, SightedBy
<1>4. QED
  BY <1>2, <1>3, Values

(* What the update of an iteration finds, given the update before it. *)
LEMMA Found ==
  ASSUME Placed, TrackerInv, pc = "track", iter % UpdateEvery = 0
  PROVE  Sighting = IF LostBy(iter) THEN "lost" ELSE orbit[iter]
<1>1. iter \in Iterations /\ iter \in Nat /\ iter >= 1 /\ iter - 1 \in Moments
  BY Numbers DEF Placed, Iterating
<1>2. loc = IF LostBy(iter - 1) THEN Lost ELSE (iter - 1) \div UpdateEvery
  BY <1>1, Values DEF TrackerInv, TrackedTo, Before
<1>3. LostBy(iter) <=> LostBy(iter - 1) \/ orbit[iter] = "lost"
  BY <1>1, OneMore
<1>4. CASE LostBy(iter - 1)
  BY <1>2, <1>3, <1>4 DEF Sighting
<1>5. CASE ~LostBy(iter - 1) /\ orbit[iter] = "lost"
  BY <1>3, <1>5 DEF Sighting
<1>6. CASE ~LostBy(iter - 1) /\ orbit[iter] # "lost"
  <2>1. (loc + 1) * UpdateEvery = iter /\ loc \in Nat
    BY <1>1, <1>2, <1>6, Numbers, Division
  <2>2. loc # Lost
    BY <2>1 DEF Lost
  <2>3. QED
    BY <1>3, <1>6, <2>1, <2>2 DEF Sighting
<1>7. QED
  BY <1>4, <1>5, <1>6

(* An update brings the tracker to the next iteration. *)
LEMMA TrackStep ==
  ASSUME Placed, TrackerInv, Track
  PROVE  /\ loc' = LocationAt[iter] /\ merged' = MergedAt[iter]
         /\ dist' \in Close => CloseAt[iter]
         /\ CloseAt[iter] => dist' \in Close \/ CloseAt[iter - 1]
<1>1. iter \in Iterations /\ iter \in Nat /\ iter >= 1 /\ iter \in Moments /\ iter - 1 \in Moments
  BY Numbers DEF Placed, Iterating, Track
<1>2. /\ pc = "track"
      /\ loc = LocationAt[iter - 1] /\ merged = MergedAt[iter - 1]
      /\ dist \in Close => CloseAt[iter - 1]
  BY DEF TrackerInv, TrackedTo, Before, Track
<1>3. CASE iter % UpdateEvery = 0
  <2>1. Sighting = IF LostBy(iter) THEN "lost" ELSE orbit[iter]
    BY <1>2, <1>3, Found
  <2>2. /\ loc' = IF Sighting = "lost" THEN Lost ELSE loc + 1
        /\ dist' = Sighting
        /\ merged' = (merged \/ Sighting = "contact")
    BY <1>3 DEF Track
  <2>3. /\ LostBy(iter) <=> LostBy(iter - 1) \/ orbit[iter] = "lost"
        /\ \A S : SightedBy(S, iter) # {} <=>
             SightedBy(S, iter - 1) # {} \/ (orbit[iter] \in S /\ ~LostBy(iter))
    BY <1>1, <1>3, OneMore
  <2>4. loc' = LocationAt[iter]
    <3>1. iter \div UpdateEvery = (iter - 1) \div UpdateEvery + 1
      BY <1>1, <1>3, Numbers, Division
    <3>2. LocationAt[iter] = (IF LostBy(iter) THEN Lost ELSE iter \div UpdateEvery)
      BY <1>1, Values
    <3>3. loc = (IF LostBy(iter - 1) THEN Lost ELSE (iter - 1) \div UpdateEvery)
      BY <1>1, <1>2, Values
    <3>4. Sighting = "lost" <=> LostBy(iter)
      BY <2>1, <2>3
    <3>5. QED
      BY <2>2, <2>3, <3>1, <3>2, <3>3, <3>4
  <2>5. merged' = MergedAt[iter]
    <3>1. Sighting = "contact" <=> orbit[iter] \in {"contact"} /\ ~LostBy(iter)
      BY <2>1
    <3>2. MergedAt[iter] <=> MergedAt[iter - 1] \/ Sighting = "contact"
      BY <1>1, <2>3, <3>1, Values
    <3>3. QED
      BY <1>1, <1>2, <2>2, <3>2, Values
  <2>6. CloseAt[iter] <=> CloseAt[iter - 1] \/ dist' \in Close
    <3>1. dist' \in Close <=> orbit[iter] \in Close /\ ~LostBy(iter)
      BY <2>1, <2>2 DEF Close
    <3>2. QED
      BY <1>1, <2>3, <3>1, Values
  <2>7. QED
    BY <2>4, <2>5, <2>6
<1>4. CASE iter % UpdateEvery # 0
  <2>1. loc' = loc /\ merged' = merged /\ dist' = dist
    BY <1>4 DEF Track
  <2>2. /\ LostBy(iter) <=> LostBy(iter - 1)
        /\ \A S : SightedBy(S, iter) = SightedBy(S, iter - 1)
        /\ iter \div UpdateEvery = (iter - 1) \div UpdateEvery
    BY <1>1, <1>4, OneMore, Numbers, Division
  <2>3. LocationAt[iter] = LocationAt[iter - 1]
    BY <1>1, <2>2, Values
  <2>4. (MergedAt[iter] <=> MergedAt[iter - 1]) /\ (CloseAt[iter] <=> CloseAt[iter - 1])
    BY <1>1, <2>2, Values
  <2>5. MergedAt[iter] = MergedAt[iter - 1]
    BY <1>1, <2>4, Values
  <2>6. QED
    BY <1>2, <2>1, <2>3, <2>4, <2>5
<1>5. QED
  BY <1>3, <1>4

(* The injection happens in the iteration it is due, and in no other. *)
LEMMA InjectStep ==
  ASSUME Placed, TrackerInv, Inject
  PROVE  /\ fired' = FiredAt[iter]
         /\ ~fired /\ iter >= InjectAt <=> iter = InjectionDue
<1>1. iter \in Moments /\ iter \in Nat /\ iter >= 1 /\ iter - 1 \in Moments
  BY Numbers DEF Placed, Iterating, Inject
<1>2. fired = FiredAt[iter - 1]
  BY DEF TrackerInv, InjectedTo, Before, Inject
<1>3. fired \in BOOLEAN /\ (fired <=> iter - 1 >= InjectionDue)
  BY <1>1, <1>2, Values
<1>4. ~fired /\ iter >= InjectAt <=> iter = InjectionDue
  BY <1>1, <1>3, Numbers
<1>5. fired' \in BOOLEAN /\ (fired' <=> iter >= InjectionDue)
  <2>1. CASE iter = InjectionDue
    <3>1. fired' = TRUE
      BY <1>4, <2>1 DEF Inject
    <3>2. QED
      BY <1>1, <2>1, <3>1
  <2>2. CASE iter # InjectionDue
    <3>1. fired' = fired
      BY <1>4, <2>2 DEF Inject
    <3>2. iter - 1 >= InjectionDue <=> iter >= InjectionDue
      BY <1>1, <2>2, Numbers
    <3>3. QED
      BY <1>3, <3>1, <3>2
  <2>3. QED
    BY <2>1, <2>2
<1>6. FiredAt[iter] \in BOOLEAN /\ (FiredAt[iter] <=> iter >= InjectionDue)
  BY <1>1, Values
<1>7. fired' = FiredAt[iter]
  BY <1>5, <1>6
<1>8. QED
  BY <1>4, <1>7

(* A save writes the memory of a moment between two iterations. *)
LEMMA FileFollows ==
  ASSUME Placed, TrackerInv, pc \in {"up", "head", "due"}
  PROVE  /\ File.iter = iter /\ File.loc = LocationAt[iter] /\ File.merged = MergedAt[iter]
         /\ File.fired = FiredAt[iter] /\ File.field = field /\ File.active = active
         /\ iter \in Moments /\ File # None
BY NotNone DEF Placed, TrackerInv, TrackedTo, InjectedTo, Before, File

(* The steps of a job keep the tracker and its triggers in step with the orbit. *)
LEMMA TrackerSteps == Placed /\ TrackerInv /\ [Next]_vars => TrackerInv'
<1> SUFFICES ASSUME Placed, TrackerInv, [Next]_vars PROVE TrackerInv'
  OBVIOUS
<1> USE DEF TrackerInv, TrackedTo, InjectedTo, Before, GoTo
<1>1. CASE Launch
  <2>1. LocationAt' = LocationAt /\ MergedAt' = MergedAt /\ CloseAt' = CloseAt /\ FiredAt' = FiredAt
    BY <1>1, Fixed DEF Launch
  <2>2. MergedAt[0] = FALSE /\ FiredAt[0] = FALSE
    BY AtZero, Values, Numbers
  <2>3. QED
    BY <1>1, <2>1, <2>2, AtZero DEF Launch, Close
<1>2. CASE Load \/ FreshStart \/ StartupCheck \/ InitialOutput \/ Regrid \/ Diagnose
  <2>1. LocationAt' = LocationAt /\ MergedAt' = MergedAt /\ CloseAt' = CloseAt /\ FiredAt' = FiredAt
    BY <1>2, Fixed DEF Load, FreshStart, StartupCheck, InitialOutput, Regrid, Diagnose
  <2>2. CASE Load
    <3>1. dist \notin Close
      BY <2>2, AtZero DEF Load, Placed
    <3>2. QED
      BY <2>1, <2>2, <3>1 DEF Load
  <2>3. CASE FreshStart
    BY <2>1, <2>3 DEF FreshStart, memory
  <2>4. CASE StartupCheck
    BY <2>1, <2>4 DEF StartupCheck
  <2>5. CASE InitialOutput
    BY <2>1, <2>5 DEF InitialOutput
  <2>6. CASE Regrid
    BY <2>1, <2>6 DEF Regrid
  <2>7. CASE Diagnose
    BY <2>1, <2>7 DEF Diagnose
  <2>8. QED
    BY <1>2, <2>2, <2>3, <2>4, <2>5, <2>6, <2>7
<1>3. CASE Step
  <2>1. LocationAt' = LocationAt /\ MergedAt' = MergedAt /\ CloseAt' = CloseAt /\ FiredAt' = FiredAt
    BY <1>3, Fixed DEF Step
  <2>2. iter' - 1 = iter
    BY <1>3, Numbers DEF Step, Placed
  <2>3. QED
    BY <1>3, <2>1, <2>2 DEF Step
<1>4. CASE Track
  <2>1. LocationAt' = LocationAt /\ MergedAt' = MergedAt /\ CloseAt' = CloseAt /\ FiredAt' = FiredAt
    BY <1>4, Fixed DEF Track
  <2>2. QED
    BY <1>4, <2>1, TrackStep DEF Track
<1>5. CASE UpdateTrigger
  <2>1. LocationAt' = LocationAt /\ MergedAt' = MergedAt /\ CloseAt' = CloseAt /\ FiredAt' = FiredAt
    BY <1>5, Fixed DEF UpdateTrigger
  <2>2. QED
    BY <1>5, <2>1 DEF UpdateTrigger
<1>6. CASE Inject
  <2>1. LocationAt' = LocationAt /\ MergedAt' = MergedAt /\ CloseAt' = CloseAt /\ FiredAt' = FiredAt
    BY <1>6, Fixed DEF Inject
  <2>2. fired' = FiredAt[iter]
    BY <1>6, InjectStep
  <2>3. QED
    BY <1>6, <2>1, <2>2 DEF Inject
<1>7. CASE SaveIfDue \/ StartupSave \/ Terminate
  <2>1. LocationAt' = LocationAt /\ MergedAt' = MergedAt /\ CloseAt' = CloseAt /\ FiredAt' = FiredAt
    BY <1>7, Fixed DEF SaveIfDue, StartupSave, Terminate
  <2>2. pc \in {"up", "head", "due"} /\ disk' \in {disk, File}
    BY <1>7 DEF SaveIfDue, StartupSave, Terminate
  <2>3. (disk # None => /\ disk.loc = LocationAt[disk.iter] /\ disk.merged = MergedAt[disk.iter]
                        /\ disk.fired = FiredAt[disk.iter])'
    BY <2>1, <2>2, FileFollows
  <2>4. /\ UNCHANGED <<iter, loc, merged, dist, fired>>
        /\ (pc' = pc /\ pc = "up") \/ pc' \in {"head", "down"}
    BY <1>7 DEF SaveIfDue, StartupSave, Terminate, memory
  <2>5. QED
    BY <2>1, <2>2, <2>3, <2>4
<1>8. CASE Crash
  <2>1. LocationAt' = LocationAt /\ MergedAt' = MergedAt /\ CloseAt' = CloseAt /\ FiredAt' = FiredAt
    BY <1>8, Fixed DEF Crash
  <2>2. QED
    BY <1>8, <2>1 DEF Crash
<1>9. CASE UNCHANGED vars
  <2>1. LocationAt' = LocationAt /\ MergedAt' = MergedAt /\ CloseAt' = CloseAt /\ FiredAt' = FiredAt
    BY <1>9, Fixed DEF vars
  <2>2. QED
    BY <1>9, <2>1 DEF vars, memory
<1>10. QED
  BY <1>1, <1>2, <1>3, <1>4, <1>5, <1>6, <1>7, <1>8, <1>9 DEF Next, Start, Iterate

(* In memory and in the file the tracker, the merger and the injection are *)
(* what the orbit says, whichever jobs brought them there.                 *)
THEOREM TrackerFollows == Spec => []TrackerInv
<1>1. Init => TrackerInv
  BY DEF Init, TrackerInv, TrackedTo, InjectedTo, Before
<1>2. Placed /\ TrackerInv /\ [Next]_vars => TrackerInv'
  BY TrackerSteps
<1>3. QED
  BY <1>1, <1>2, Places, PTL DEF Spec

-----------------------------------------------------------------------------
(* The switch, while the parameter file stays the same *)

(* What was seen stays seen. *)
LEMMA StaysSeen ==
  ASSUME NEW i \in Iterations
  PROVE  CloseAt[i - 1] => CloseAt[i]
<1>1. i \in Moments /\ i - 1 \in Moments /\ i \in Nat /\ \A j \in Updates : j \in Nat
  BY Numbers
<1>2. SightedBy(Close, i - 1) \subseteq SightedBy(Close, i)
  BY <1>1 DEF SightedBy
<1>3. QED
  BY <1>1, <1>2, Values

(* The trigger uses what the tracker has found so far. *)
LEMMA TriggerStep ==
  ASSUME Placed, TrackerInv, UpdateTrigger, active = ActiveAt[iter - 1]
  PROVE  active' = ActiveAt[iter]
<1>1. iter \in Iterations /\ iter \in Moments /\ iter - 1 \in Moments /\ armed \in BOOLEAN
  BY Numbers DEF Placed, Iterating, UpdateTrigger
<1>2. /\ dist \in Close => CloseAt[iter]
      /\ CloseAt[iter] => dist \in Close \/ CloseAt[iter - 1]
  BY DEF TrackerInv, TrackedTo, Before, UpdateTrigger
<1>3. active \in BOOLEAN /\ (active <=> (armed => CloseAt[iter - 1]))
  BY <1>1, Values
<1>4. active' = (active \/ (armed /\ dist \in Close))
  BY DEF UpdateTrigger, Close
<1>5. active' \in BOOLEAN /\ (active' <=> (armed => CloseAt[iter]))
  BY <1>1, <1>2, <1>3, <1>4, StaysSeen
<1>6. QED
  BY <1>1, <1>5, Values

(* A later job changes the parameter file, or the run stays what it was.   *)
LEMMA SameFile ==
  ASSUME Placed, Launch, ~changed', job # 0
  PROVE  ~changed /\ armed' = armed
<1>1. job > 0
  BY DEF Placed
<1>2. ~(changed \/ (job > 0 /\ armed' # armed))
  BY DEF Launch
<1>3. QED
  BY <1>1, <1>2

(* Only the launch of a job changes the parameter file. *)
LEMMA SameRun ==
  ASSUME [Next]_vars, ~Launch
  PROVE  orbit' = orbit /\ armed' = armed /\ changed' = changed
<1>1. CASE Load \/ FreshStart \/ StartupCheck \/ StartupSave \/ InitialOutput
  BY <1>1 DEF Load, FreshStart, StartupCheck, StartupSave, InitialOutput
<1>2. CASE Step \/ Regrid \/ Diagnose \/ Track \/ UpdateTrigger \/ Inject \/ SaveIfDue
  BY <1>2 DEF Step, Regrid, Diagnose, Track, UpdateTrigger, Inject, SaveIfDue
<1>3. CASE Terminate \/ Crash \/ UNCHANGED vars
  BY <1>3 DEF Terminate, Crash, vars
<1>4. QED
  BY <1>1, <1>2, <1>3 DEF Next, Start, Iterate

(* An iteration, a start and an end each leave the switch at its place.    *)
LEMMA ActiveSteps == Placed /\ TrackerInv /\ ActiveInv /\ [Next]_vars => ActiveInv'
<1> SUFFICES ASSUME Placed, TrackerInv, ActiveInv, [Next]_vars, ~changed' PROVE ActiveInv'
  BY DEF ActiveInv
<1>1. CASE Launch
  <2>1. disk' # None => ActiveAt' = ActiveAt /\ ~changed
    <3>1. disk' # None => job # 0
      BY <1>1 DEF Launch, Placed
    <3>2. QED
      BY <1>1, <3>1, SameFile, Fixed DEF Launch
  <2>2. QED
    BY <1>1, <2>1 DEF Launch, ActiveInv, Running, GoTo
<1>2. CASE ~Launch
  <2>1. orbit' = orbit /\ armed' = armed /\ changed' = changed
    BY <1>2, SameRun
  <2>2. ActiveAt' = ActiveAt
    BY <2>1, Fixed
  <2>3. /\ Running \/ (pc = "startup" /\ restored) => active = ActiveAt[TriggeredTo]
        /\ disk # None => disk.active = ActiveAt[disk.iter]
    BY <2>1 DEF ActiveInv
  <2> USE DEF ActiveInv, TriggeredTo, Before, Running, GoTo
  <2>4. CASE Load \/ FreshStart \/ InitialOutput \/ Regrid \/ Diagnose \/ Track \/ Inject \/ Crash
    <3>1. CASE Load
      BY <2>2, <2>3, <3>1 DEF Load
    <3>2. CASE FreshStart
      BY <2>2, <2>3, <3>2 DEF FreshStart, memory, Placed
    <3>3. CASE InitialOutput \/ Regrid \/ Diagnose \/ Track \/ Inject \/ Crash
      BY <2>2, <2>3, <3>3 DEF InitialOutput, Regrid, Diagnose, Track, Inject, Crash, memory
    <3>4. QED
      BY <2>4, <3>1, <3>2, <3>3
  <2>5. CASE StartupCheck
    <3>1. iter \in Moments /\ armed \in BOOLEAN
      BY DEF Placed
    <3>2. CASE ~armed
      <4>1. ActiveAt[iter] = TRUE
        BY <3>1, <3>2, Values
      <4>2. QED
        BY <2>2, <2>3, <2>5, <3>2, <4>1 DEF StartupCheck
    <3>3. CASE armed /\ restored
      BY <2>2, <2>3, <2>5, <3>3 DEF StartupCheck
    <3>4. CASE armed /\ ~restored
      <4>1. iter = 0
        BY <2>5, <3>4 DEF StartupCheck, Placed
      <4>2. ActiveAt[iter] = FALSE
        BY <3>1, <3>4, <4>1, Values, AtZero
      <4>3. QED
        BY <2>2, <2>3, <2>5, <3>4, <4>2 DEF StartupCheck
    <3>5. QED
      BY <3>1, <3>2, <3>3, <3>4
  <2>6. CASE Step
    <3>1. iter' - 1 = iter
      BY <2>6, Numbers DEF Step, Placed
    <3>2. QED
      BY <2>2, <2>3, <2>6, <3>1 DEF Step
  <2>7. CASE UpdateTrigger
    <3>1. active' = ActiveAt[iter]
      BY <2>3, <2>7, TriggerStep DEF UpdateTrigger
    <3>2. QED
      BY <2>2, <2>3, <2>7, <3>1 DEF UpdateTrigger
  <2>8. CASE SaveIfDue \/ StartupSave \/ Terminate
    <3>1. pc \in {"up", "head", "due"} /\ disk' \in {disk, File}
      BY <2>8 DEF SaveIfDue, StartupSave, Terminate
    <3>2. active = ActiveAt[iter]
      BY <2>3, <3>1
    <3>3. disk' # None => disk'.active = ActiveAt[disk'.iter]
      BY <2>3, <3>1, <3>2, FileFollows
    <3>4. UNCHANGED <<iter, active, restored>> /\ ((pc' = pc /\ pc = "up") \/ pc' \in {"head", "down"})
      BY <2>8 DEF SaveIfDue, StartupSave, Terminate, memory
    <3>5. QED
      BY <2>2, <2>3, <3>1, <3>2, <3>3, <3>4
  <2>9. CASE UNCHANGED vars
    BY <2>2, <2>3, <2>9 DEF vars, memory
  <2>10. QED
    BY <1>2, <2>4, <2>5, <2>6, <2>7, <2>8, <2>9 DEF Next, Start, Iterate
<1>3. QED
  BY <1>1, <1>2

(* As long as the parameter file stays the same, the switch in memory and  *)
(* in the file is what the orbit says.                                     *)
LEMMA ActiveFollows == Spec => []ActiveInv
<1>1. Init => ActiveInv
  BY DEF Init, ActiveInv, Running
<1>2. Placed /\ TrackerInv /\ ActiveInv /\ [Next]_vars => ActiveInv'
  BY ActiveSteps
<1>3. QED
  BY <1>1, <1>2, Places, TrackerFollows, PTL DEF Spec

(* Through any number of restarts, crashes and orbits the M1 radiation is  *)
(* on from the first update that finds the objects close enough, and the   *)
(* grid knows of the merger from the first that finds them in contact.     *)
THEOREM LatchesFollow == Spec => []LatchesFollowTheOrbit
<1>1. Placed /\ TrackerInv /\ ActiveInv => LatchesFollowTheOrbit
  <2> SUFFICES ASSUME Placed, TrackerInv, ActiveInv, pc = "due"
               PROVE  /\ armed /\ ~changed => (active <=> Sighted({"near", "contact"}) # {})
                      /\ merged <=> Sighted({"contact"}) # {}
    BY DEF LatchesFollowTheOrbit
  <2>1. iter \in Moments
    BY DEF Placed
  <2>2. merged <=> SightedBy({"contact"}, iter) # {}
    BY <2>1, Values DEF TrackerInv, TrackedTo, Before
  <2>3. ASSUME armed, ~changed
        PROVE  active <=> SightedBy(Close, iter) # {}
    <3>1. active = ActiveAt[iter]
      BY <2>3 DEF ActiveInv, Running, TriggeredTo, Before
    <3>2. QED
      BY <2>1, <2>3, <3>1, Values
  <2>4. QED
    BY <2>2, <2>3 DEF Sighted, Close
<1>2. QED
  BY <1>1, Places, TrackerFollows, ActiveFollows, PTL

-----------------------------------------------------------------------------
(* The injection, counted in the field *)

(* What one more event does to the counts. *)
LEMMA OneMoreEvent ==
  ASSUME NEW f \in Seq(Events), NEW e \in Events
  PROVE  /\ Append(f, e) \in Seq(Events)
         /\ Len(Append(f, e)) = Len(f) + 1 /\ Len(f) \in Nat
         /\ \A k \in DOMAIN f : StepsBefore(Append(f, e), k) = StepsBefore(f, k)
         /\ StepsBefore(f, Len(f)) \in Nat
         /\ StepsBefore(Append(f, e), Len(f) + 1) =
              StepsBefore(f, Len(f)) + (IF e[1] = "step" THEN 1 ELSE 0)
         /\ Injections(Append(f, e)) = Injections(f) \cup (IF e[1] = "inject" THEN {Len(f) + 1} ELSE {})
         /\ Injections(f) \subseteq DOMAIN f
<1> DEFINE g == Append(f, e)
           n == Len(f)
           before(h, k) == {j \in 1 .. k : h[j][1] = "step"}
<1>1. /\ g \in Seq(Events) /\ Len(g) = n + 1 /\ n \in Nat /\ DOMAIN f = 1 .. n /\ DOMAIN g = 1 .. n + 1
      /\ g[n + 1] = e /\ \A j \in 1 .. n : g[j] = f[j]
  OBVIOUS
<1> HIDE DEF g, n
<1>2. ASSUME NEW k \in DOMAIN f
      PROVE  before(g, k) = before(f, k)
  <2>1. \A j \in 1 .. k : j \in 1 .. n
    BY <1>1
  <2>2. QED
    BY <1>1, <2>1
<1>3. before(g, n) = before(f, n) /\ n + 1 \notin before(g, n)
  BY <1>1
<1>4. before(g, n + 1) = before(g, n) \cup (IF e[1] = "step" THEN {n + 1} ELSE {})
  BY <1>1
<1>5. IsFiniteSet(before(f, n)) /\ Cardinality(before(f, n)) \in Nat
  <2>1. before(f, n) \subseteq 1 .. n
    OBVIOUS
  <2>2. IsFiniteSet(1 .. n)
    BY <1>1, FS_Interval
  <2> HIDE DEF before
  <2>3. QED
    BY <2>1, <2>2, FS_Subset, FS_CardinalityType
<1>6. Cardinality(before(g, n + 1)) = Cardinality(before(f, n)) + (IF e[1] = "step" THEN 1 ELSE 0)
  <2>1. CASE e[1] = "step"
    <3>1. before(g, n + 1) = before(f, n) \cup {n + 1} /\ n + 1 \notin before(f, n)
      BY <1>3, <1>4, <2>1
    <3> HIDE DEF before
    <3>2. QED
      BY <1>5, <2>1, <3>1, FS_AddElement
  <2>2. CASE e[1] # "step"
    <3>1. before(g, n + 1) = before(f, n)
      BY <1>3, <1>4, <2>2
    <3> HIDE DEF before
    <3>2. QED
      BY <1>5, <2>2, <3>1
  <2>3. QED
    BY <2>1, <2>2
<1>7. Injections(g) = Injections(f) \cup (IF e[1] = "inject" THEN {n + 1} ELSE {})
  BY <1>1 DEF Injections
<1>8. QED
  BY <1>1, <1>2, <1>5, <1>6, <1>7 DEF StepsBefore, Injections, g, n

(* A step adds to the steps. *)
LEMMA CountStep ==
  ASSUME NEW f, NEW i \in Nat, NEW injected, Counted(f, i, injected), NEW m \in BOOLEAN
  PROVE  Counted(Append(f, <<"step", m>>), i + 1, injected)
<1> DEFINE e == <<"step", m>>
<1>1. f \in Seq(Events) /\ e \in Events /\ e[1] = "step"
  BY DEF Counted, Events
<1> HIDE DEF e
<1>2. /\ Append(f, e) \in Seq(Events) /\ Len(Append(f, e)) = Len(f) + 1
      /\ StepsBefore(Append(f, e), Len(f) + 1) = StepsBefore(f, Len(f)) + 1
      /\ \A k \in Injections(f) : StepsBefore(Append(f, e), k) = StepsBefore(f, k)
      /\ Injections(Append(f, e)) = Injections(f)
  BY <1>1, OneMoreEvent
<1>3. QED
  BY <1>2 DEF Counted, e

(* The grid's history adds no step. *)
LEMMA CountRegrid ==
  ASSUME NEW f, NEW i \in Nat, NEW injected, Counted(f, i, injected),
         NEW m \in BOOLEAN, NEW l \in Locations
  PROVE  Counted(Append(f, <<"regrid", m, l>>), i, injected)
<1> DEFINE e == <<"regrid", m, l>>
<1>1. f \in Seq(Events) /\ e \in Events /\ e[1] = "regrid"
  BY DEF Counted, Events
<1> HIDE DEF e
<1>2. /\ Append(f, e) \in Seq(Events) /\ Len(Append(f, e)) = Len(f) + 1
      /\ StepsBefore(Append(f, e), Len(f) + 1) = StepsBefore(f, Len(f)) + 0
      /\ StepsBefore(f, Len(f)) \in Nat
      /\ \A k \in Injections(f) : StepsBefore(Append(f, e), k) = StepsBefore(f, k)
      /\ Injections(Append(f, e)) = Injections(f)
  BY <1>1, OneMoreEvent
<1>3. QED
  BY <1>2 DEF Counted, e

(* The first injection, in the iteration it is due. *)
LEMMA CountInject ==
  ASSUME NEW f, Counted(f, InjectionDue, FALSE), NEW l \in Locations
  PROVE  Counted(Append(f, <<"inject", l>>), InjectionDue, TRUE)
<1> DEFINE e == <<"inject", l>>
<1>1. f \in Seq(Events) /\ e \in Events /\ e[1] = "inject"
  BY DEF Counted, Events
<1> HIDE DEF e
<1>2. /\ Append(f, e) \in Seq(Events) /\ Len(Append(f, e)) = Len(f) + 1
      /\ StepsBefore(Append(f, e), Len(f) + 1) = StepsBefore(f, Len(f)) + 0
      /\ StepsBefore(f, Len(f)) \in Nat
      /\ Injections(Append(f, e)) = Injections(f) \cup {Len(f) + 1}
  BY <1>1, OneMoreEvent
<1>3. Injections(f) = {} /\ StepsBefore(f, Len(f)) = InjectionDue
  BY DEF Counted
<1> DEFINE h == Append(f, e)
           n == Len(f) + 1
<1>4. /\ h \in Seq(Events) /\ Len(h) = n /\ StepsBefore(h, n) = InjectionDue
      /\ Injections(h) = {n}
  BY <1>2, <1>3
<1> HIDE DEF h, n
<1>5. Counted(h, InjectionDue, TRUE)
  BY <1>4 DEF Counted
<1>6. QED
  BY <1>5 DEF h, e

(* The tracker's location is one the grid's history can hold. *)
LEMMA LocationType == \A i \in Moments : LocationAt[i] \in Locations /\ MergedAt[i] \in BOOLEAN
<1> SUFFICES ASSUME NEW i \in Moments PROVE LocationAt[i] \in Locations /\ MergedAt[i] \in BOOLEAN
  OBVIOUS
<1>1. i \div UpdateEvery \in Nat /\ i \div UpdateEvery <= MaxIteration
  <2>1. i \in Nat /\ i <= MaxIteration
    BY Numbers
  <2>2. CASE i = 0
    BY <2>2, Numbers, Division
  <2>3. CASE i >= 1
    <3>1. i \div UpdateEvery \in Nat /\ i \div UpdateEvery <= i
      BY <2>1, <2>3, Numbers, Division
    <3>2. QED
      BY <2>1, <3>1, Numbers
  <2>4. QED
    BY <2>1, <2>2, <2>3
<1>2. QED
  BY <1>1, Values, Numbers DEF Locations

(* A field nothing was done to. *)
LEMMA NothingCounted == Counted(<<>>, 0, FALSE)
<1>1. Injections(<<>>) = {} /\ {j \in 1 .. 0 : <<>>[j][1] = "step"} = {}
  BY DEF Injections
<1>2. StepsBefore(<<>>, Len(<<>>)) = 0
  BY <1>1, FS_EmptySet DEF StepsBefore
<1>3. QED
  BY <1>1, <1>2 DEF Counted

(* Every step keeps the counts. *)
LEMMA FieldSteps == Placed /\ TrackerInv /\ FieldInv /\ [Next]_vars => FieldInv'
<1> SUFFICES ASSUME Placed, TrackerInv, FieldInv, [Next]_vars PROVE FieldInv'
  OBVIOUS
<1>1. iter \in Moments /\ iter \in Nat
  BY Numbers DEF Placed
<1>2. Counted(field, iter, fired) /\ (disk # None => Counted(disk.field, disk.iter, disk.fired))
  BY DEF FieldInv
<1>3. CASE Launch
  <2>1. Counted(<<>>, 0, FALSE)
    BY NothingCounted
  <2>2. QED
    BY <1>2, <1>3, <2>1 DEF FieldInv, Launch
<1>4. CASE Load
  BY <1>2, <1>4 DEF FieldInv, Load
<1>5. CASE FreshStart \/ StartupCheck \/ InitialOutput \/ Diagnose \/ Track \/ UpdateTrigger \/ Crash
           \/ UNCHANGED vars
  <2>1. UNCHANGED <<field, iter, fired, disk>>
    BY <1>5 DEF FreshStart, StartupCheck, InitialOutput, Diagnose, Track, UpdateTrigger, Crash, memory, vars
  <2>2. QED
    BY <1>2, <2>1 DEF FieldInv
<1>6. CASE Step
  <2>1. /\ field' = Append(field, <<"step", active>>) /\ iter' = iter + 1
        /\ UNCHANGED <<fired, disk>> /\ active \in BOOLEAN
    BY <1>6 DEF Step, Placed
  <2>2. Counted(field', iter', fired')
    BY <1>1, <1>2, <2>1, CountStep
  <2>3. QED
    BY <1>2, <2>1, <2>2 DEF FieldInv
<1>7. CASE Regrid
  <2>1. UNCHANGED <<iter, fired, disk>>
    BY <1>7 DEF Regrid
  <2>2. merged \in BOOLEAN /\ loc \in Locations
    <3>1. iter - 1 \in Moments
      BY <1>1, <1>7, Numbers DEF Regrid, Placed, Iterating
    <3>2. loc = LocationAt[iter - 1] /\ merged = MergedAt[iter - 1]
      BY <1>7 DEF Regrid, TrackerInv, TrackedTo, Before
    <3>3. QED
      BY <3>1, <3>2, LocationType
  <2>3. Counted(field', iter, fired)
    BY <1>1, <1>2, <1>7, <2>2, CountRegrid DEF Regrid
  <2>4. QED
    BY <1>2, <2>1, <2>3 DEF FieldInv
<1>8. CASE Inject
  <2>1. UNCHANGED <<iter, disk>> /\ (~fired /\ iter >= InjectAt <=> iter = InjectionDue)
    BY <1>8, InjectStep DEF Inject
  <2>2. CASE ~fired /\ iter >= InjectAt
    <3>1. loc \in Locations
      BY <1>1, <1>8, LocationType DEF Inject, TrackerInv, TrackedTo, Before
    <3>2. iter = InjectionDue /\ fired' = TRUE /\ field' = Append(field, <<"inject", loc>>)
      BY <1>8, <2>1, <2>2 DEF Inject
    <3>3. Counted(field, InjectionDue, FALSE)
      BY <1>2, <2>2, <3>2 DEF Counted
    <3>4. Counted(field', iter', fired')
      BY <2>1, <3>1, <3>2, <3>3, CountInject
    <3>5. QED
      BY <1>2, <2>1, <3>4 DEF FieldInv
  <2>3. CASE ~(~fired /\ iter >= InjectAt)
    <3>1. UNCHANGED <<fired, field>>
      BY <1>8, <2>3 DEF Inject
    <3>2. QED
      BY <1>2, <2>1, <3>1 DEF FieldInv
  <2>4. QED
    BY <2>2, <2>3
<1>9. CASE SaveIfDue \/ StartupSave \/ Terminate
  <2>1. UNCHANGED <<field, iter, fired>> /\ disk' \in {disk, File}
    BY <1>9 DEF SaveIfDue, StartupSave, Terminate, memory
  <2>2. File.field = field /\ File.iter = iter /\ File.fired = fired
    BY DEF File
  <2>3. disk' # None => Counted(disk'.field, disk'.iter, disk'.fired)
    BY <1>2, <2>1, <2>2
  <2>4. QED
    BY <1>2, <2>1, <2>3 DEF FieldInv
<1>10. QED
  BY <1>3, <1>4, <1>5, <1>6, <1>7, <1>8, <1>9 DEF Next, Start, Iterate

(* In memory and in the file the evolved state has made as many steps as   *)
(* it says, and was injected into when it says.                            *)
LEMMA FieldFollows == Spec => []FieldInv
<1>1. Init => FieldInv
  BY NothingCounted DEF Init, FieldInv
<1>2. Placed /\ TrackerInv /\ FieldInv /\ [Next]_vars => FieldInv'
  BY FieldSteps
<1>3. QED
  BY <1>1, <1>2, Places, TrackerFollows, PTL DEF Spec

(* Over all the jobs that made a field, it was injected into exactly once, *)
(* in the first iteration at or past the trigger, and never missed.        *)
THEOREM Injected == Spec => []InjectedOnce
<1>1. Placed /\ TrackerInv /\ FieldInv => InjectedOnce
  <2> SUFFICES ASSUME Placed, TrackerInv, FieldInv PROVE InjectedOnce
    OBVIOUS
  <2>1. Counted(field, iter, fired)
    BY DEF FieldInv
  <2>2. ASSUME pc = "due", iter >= InjectAt
        PROVE  Injections(field) # {}
    <3>1. iter \in Moments /\ iter \in Nat /\ iter >= 1
      BY <2>2, Numbers DEF Placed, Iterating
    <3>2. iter >= InjectionDue
      BY <2>2, <3>1, Numbers
    <3>3. fired = FiredAt[iter]
      BY <2>2 DEF TrackerInv, InjectedTo, Before
    <3>4. QED
      BY <2>1, <3>1, <3>2, <3>3, Values DEF Counted
  <2>3. QED
    BY <2>1, <2>2 DEF InjectedOnce, Counted
<1>2. QED
  BY <1>1, Places, TrackerFollows, FieldFollows, PTL

-----------------------------------------------------------------------------
(* The history *)

(* A step that leaves the evolved fields and the checkpoint alone keeps their history. *)
LEMMA SameHistory ==
  ASSUME orbit' = orbit, armed' = armed, seen' = seen
  PROVE  /\ Known' = Known /\ FieldOf' = FieldOf /\ Stepped' = Stepped /\ Regridded' = Regridded
         /\ Finished' = Finished /\ Computed' = Computed
<1>1. Known' = Known /\ FieldOf' = FieldOf
  BY DEF Known, FieldOf
<1>2. LocationAt' = LocationAt /\ MergedAt' = MergedAt /\ ActiveAt' = ActiveAt /\ FiredAt' = FiredAt
  BY Fixed
<1>3. Stepped' = Stepped
  BY <1>1, <1>2 DEF Stepped
<1>4. Regridded' = Regridded
  BY <1>2, <1>3 DEF Regridded
<1>5. Finished' = Finished
  BY <1>2, <1>4 DEF Finished
<1>6. Computed' = Computed
  BY <1>2, <1>5 DEF Computed
<1>7. QED
  BY <1>1, <1>3, <1>4, <1>5, <1>6

(* At the end of an iteration memory is what the iteration computes from   *)
(* the one before it.                                                      *)
LEMMA SnapshotIs ==
  ASSUME Placed, TrackerInv, ActiveInv, HistoryInv, ~changed, pc = "due"
  PROVE  Snapshot = Computed[iter] /\ iter \in Iterations /\ iter - 1 \in Known
<1>1. iter \in Iterations /\ iter \in Moments
  BY Numbers DEF Placed, Iterating
<1>2. loc = LocationAt[iter] /\ merged = MergedAt[iter] /\ fired = FiredAt[iter]
  BY DEF TrackerInv, TrackedTo, InjectedTo, Before
<1>3. active = ActiveAt[iter]
  BY DEF ActiveInv, TriggeredTo, Before, Running
<1>4. field = Finished[iter] /\ iter - 1 \in Known
  BY DEF HistoryInv, Iterating
<1>5. QED
  BY <1>1, <1>2, <1>3, <1>4 DEF Snapshot, Computed

(* Recording it changes nothing that was recorded before. *)
LEMMA RecordKeeps ==
  ASSUME Placed, TrackerInv, ActiveInv, HistoryInv, ~changed, SaveIfDue
  PROVE  /\ iter \in Iterations /\ iter - 1 \in Known
         /\ seen' = [seen EXCEPT ![iter] = Computed[iter]]
         /\ Known' = Known \cup {iter}
         /\ \A i \in Known : FieldOf'[i] = FieldOf[i]
         /\ FieldOf'[iter] = field
<1>1. pc = "due" /\ Snapshot = Computed[iter] /\ iter \in Iterations /\ iter - 1 \in Known
  BY SnapshotIs DEF SaveIfDue
<1>2. iter \in Moments /\ iter # 0 /\ Computed[iter] # None
  BY <1>1, Numbers, NotNone
<1>3. seen = [i \in Iterations |-> seen[i]]
  BY DEF Placed
<1>4. seen[iter] # None => seen[iter] = Computed[iter]
  BY <1>1 DEF HistoryInv
<1>5. seen' = [seen EXCEPT ![iter] = Computed[iter]]
  <2>1. CASE seen[iter] = None
    BY <1>1, <2>1 DEF SaveIfDue, Record
  <2>2. CASE seen[iter] # None
    <3>1. seen' = seen
      BY <2>2 DEF SaveIfDue, Record
    <3>2. QED
      BY <1>3, <1>4, <2>2, <3>1
  <2>3. QED
    BY <2>1, <2>2
<1>6. /\ seen'[iter] = Computed[iter]
      /\ \A i \in Iterations : i # iter => seen'[i] = seen[i]
  BY <1>1, <1>3, <1>5
<1>7. Known' = Known \cup {iter}
  <2>1. \A i \in Moments : i # 0 => i \in Iterations
    BY Numbers
  <2>2. QED
    BY <1>2, <1>6, <2>1 DEF Known
<1>8. FieldOf'[iter] = field
  <2>1. FieldOf'[iter] = seen'[iter].field
    BY <1>2 DEF FieldOf
  <2>2. Computed[iter].field = Snapshot.field
    BY <1>1
  <2>3. QED
    BY <1>6, <2>1, <2>2 DEF Snapshot
<1>9. ASSUME NEW i \in Known
      PROVE  FieldOf'[i] = FieldOf[i]
  <2>1. i \in Moments
    BY DEF Known
  <2>2. CASE i = 0
    BY <2>1, <2>2 DEF FieldOf
  <2>3. CASE i # 0 /\ i # iter
    BY <1>6, <2>1, <2>3, Numbers DEF FieldOf
  <2>4. CASE i = iter
    <3>1. seen[iter] = Computed[iter]
      BY <1>2, <1>4, <2>4 DEF Known
    <3>2. QED
      BY <1>2, <1>6, <2>1, <2>4, <3>1 DEF FieldOf
  <2>5. QED
    BY <2>2, <2>3, <2>4
<1>10. QED
  BY <1>1, <1>5, <1>7, <1>8, <1>9

(* What an iteration computes depends on what is known before it only. *)
LEMMA ComputedFrom ==
  ASSUME orbit' = orbit, armed' = armed, NEW i \in Iterations, FieldOf'[i - 1] = FieldOf[i - 1]
  PROVE  Computed'[i] = Computed[i]
<1>1. LocationAt' = LocationAt /\ MergedAt' = MergedAt /\ ActiveAt' = ActiveAt /\ FiredAt' = FiredAt
  BY Fixed
<1>2. Stepped'[i] = Stepped[i]
  BY <1>1 DEF Stepped
<1>3. Regridded'[i] = Regridded[i]
  BY <1>1, <1>2 DEF Regridded
<1>4. Finished'[i] = Finished[i]
  BY <1>1, <1>3 DEF Finished
<1>5. QED
  BY <1>1, <1>4 DEF Computed

(* The end of an iteration adds it to the history. *)
LEMMA RecordHistory ==
  Placed /\ TrackerInv /\ ActiveInv /\ HistoryInv /\ ~changed /\ SaveIfDue => HistoryInv'
<1> SUFFICES ASSUME Placed, TrackerInv, ActiveInv, HistoryInv, ~changed, SaveIfDue
             PROVE  HistoryInv'
  OBVIOUS
<1>1. /\ iter \in Iterations /\ iter - 1 \in Known
      /\ seen' = [seen EXCEPT ![iter] = Computed[iter]]
      /\ Known' = Known \cup {iter}
      /\ \A i \in Known : FieldOf'[i] = FieldOf[i]
      /\ FieldOf'[iter] = field
  BY RecordKeeps
<1>2. /\ orbit' = orbit /\ armed' = armed /\ changed' = changed
      /\ iter' = iter /\ field' = field /\ pc' = "head" /\ disk' \in {disk, File}
  BY DEF SaveIfDue, memory, GoTo
<1>3. seen = [i \in Iterations |-> seen[i]]
  BY DEF Placed
<1>4. ASSUME NEW i \in Iterations, seen'[i] # None
      PROVE  i - 1 \in Known' /\ seen'[i] = Computed'[i]
  <2>1. i - 1 \in Known /\ seen'[i] = Computed[i]
    <3>1. CASE i = iter
      BY <1>1, <1>3, <3>1
    <3>2. CASE i # iter
      <4>1. seen'[i] = seen[i]
        BY <1>1, <1>3, <3>2
      <4>2. QED
        BY <1>4, <4>1 DEF HistoryInv
    <3>3. QED
      BY <3>1, <3>2
  <2>2. Computed'[i] = Computed[i]
    BY <1>1, <1>2, <2>1, ComputedFrom
  <2>3. QED
    BY <1>1, <2>1, <2>2
<1>5. disk' # None => disk'.iter \in Known' /\ disk'.field = FieldOf'[disk'.iter]
  <2>1. CASE disk' = disk
    BY <1>1, <2>1 DEF HistoryInv
  <2>2. CASE disk' = File
    BY <1>1, <2>2 DEF File
  <2>3. QED
    BY <1>2, <2>1, <2>2
<1>6. iter' \in Known' /\ field' = FieldOf'[iter']
  BY <1>1, <1>2
<1>7. QED
  BY <1>2, <1>4, <1>5, <1>6 DEF HistoryInv, Iterating

(* Inside an iteration memory is at its place in it. *)
LEMMA IterateHistory ==
  Placed /\ TrackerInv /\ ActiveInv /\ HistoryInv /\ ~changed /\ (Step \/ Regrid \/ Inject)
    => HistoryInv'
<1> SUFFICES ASSUME Placed, TrackerInv, ActiveInv, HistoryInv, ~changed, Step \/ Regrid \/ Inject
             PROVE  HistoryInv'
  OBVIOUS
<1>1. orbit' = orbit /\ armed' = armed /\ seen' = seen /\ disk' = disk
  BY DEF Step, Regrid, Inject
<1>2. /\ Known' = Known /\ FieldOf' = FieldOf /\ Stepped' = Stepped /\ Regridded' = Regridded
      /\ Finished' = Finished /\ Computed' = Computed
  BY <1>1, SameHistory
<1>3. iter \in Moments
  BY DEF Placed
<1>4. CASE Step
  <2>1. iter + 1 \in Iterations /\ iter' = iter + 1 /\ (iter + 1) - 1 = iter
    BY <1>3, <1>4, Numbers DEF Step, Moments, Iterations
  <2>2. active = ActiveAt[iter]
    BY <1>4 DEF Step, ActiveInv, TriggeredTo, Before, Running
  <2>3. iter \in Known /\ field = FieldOf[iter]
    BY <1>4 DEF Step, HistoryInv
  <2>4. field' = Stepped[iter']
    BY <1>4, <2>1, <2>2, <2>3 DEF Step, Stepped
  <2>5. pc' = "regrid"
    BY <1>4 DEF Step, GoTo
  <2>6. QED
    BY <1>1, <1>2, <2>1, <2>3, <2>4, <2>5 DEF HistoryInv, Iterating
<1>5. CASE Regrid
  <2>1. iter \in Iterations /\ iter' = iter /\ pc' = "diagnose"
    BY <1>5, Numbers DEF Regrid, Placed, Iterating, GoTo
  <2>2. loc = LocationAt[iter - 1] /\ merged = MergedAt[iter - 1]
    BY <1>5 DEF Regrid, TrackerInv, TrackedTo, Before
  <2>3. iter - 1 \in Known /\ field = Stepped[iter]
    BY <1>5 DEF Regrid, HistoryInv, Iterating
  <2>4. field' = Regridded[iter]
    BY <1>5, <2>1, <2>2, <2>3 DEF Regrid, Regridded
  <2>5. QED
    BY <1>1, <1>2, <2>1, <2>3, <2>4 DEF HistoryInv, Iterating
<1>6. CASE Inject
  <2>1. iter \in Iterations /\ iter' = iter /\ pc' = "due"
    BY <1>6, Numbers DEF Inject, Placed, Iterating, GoTo
  <2>2. loc = LocationAt[iter]
    BY <1>6 DEF Inject, TrackerInv, TrackedTo, Before
  <2>3. iter - 1 \in Known /\ field = Regridded[iter]
    BY <1>6 DEF Inject, HistoryInv, Iterating
  <2>4. field' = Finished[iter]
    <3>1. ~fired /\ iter >= InjectAt <=> iter = InjectionDue
      BY <1>6, InjectStep
    <3>2. QED
      BY <1>6, <2>1, <2>2, <2>3, <3>1 DEF Inject, Finished
  <2>5. QED
    BY <1>1, <1>2, <2>1, <2>3, <2>4 DEF HistoryInv, Iterating
<1>7. QED
  BY <1>4, <1>5, <1>6

(* A job starts from a state the history holds. *)
LEMMA StartHistory ==
  Placed /\ HistoryInv /\ ~changed' /\ (Launch \/ Load \/ FreshStart) => HistoryInv'
<1> SUFFICES ASSUME Placed, HistoryInv, ~changed', Launch \/ Load \/ FreshStart
             PROVE  HistoryInv'
  OBVIOUS
<1>1. orbit' = orbit /\ seen' = seen /\ disk' = disk
  BY DEF Launch, Load, FreshStart
<1>2. CASE Launch
  <2>1. pc' = "load"
    BY <1>2 DEF Launch, GoTo
  <2>2. CASE job = 0
    BY <1>1, <2>1, <2>2 DEF Placed, HistoryInv, Iterating
  <2>3. CASE job # 0
    <3>1. ~changed /\ armed' = armed
      BY <1>2, <2>3, SameFile
    <3>2. /\ Known' = Known /\ FieldOf' = FieldOf /\ Computed' = Computed
      BY <1>1, <3>1, SameHistory
    <3>3. QED
      BY <1>1, <2>1, <3>1, <3>2 DEF HistoryInv, Iterating
  <2>4. QED
    BY <2>2, <2>3
<1>3. CASE Load \/ FreshStart
  <2>1. ~changed /\ armed' = armed /\ pc' = "startup"
    BY <1>3 DEF Load, FreshStart, GoTo
  <2>2. /\ Known' = Known /\ FieldOf' = FieldOf /\ Computed' = Computed
    BY <1>1, <2>1, SameHistory
  <2>3. iter' \in Known /\ field' = FieldOf[iter']
    <3>1. CASE Load
      BY <2>1, <3>1 DEF Load, HistoryInv
    <3>2. CASE FreshStart
      <4>1. iter' = 0 /\ field' = <<>>
        BY <3>2 DEF FreshStart, Placed, memory
      <4>2. 0 \in Known /\ FieldOf[0] = <<>>
        BY Numbers DEF Known, FieldOf
      <4>3. QED
        BY <4>1, <4>2
    <3>3. QED
      BY <1>3, <3>1, <3>2
  <2>4. QED
    BY <1>1, <2>1, <2>2, <2>3 DEF HistoryInv, Iterating
<1>4. QED
  BY <1>2, <1>3

(* Every step of a job keeps the history. *)
LEMMA HistorySteps ==
  Placed /\ TrackerInv /\ ActiveInv /\ HistoryInv /\ [Next]_vars => HistoryInv'
<1> SUFFICES ASSUME Placed, TrackerInv, ActiveInv, HistoryInv, [Next]_vars, ~changed'
             PROVE  HistoryInv'
  BY DEF HistoryInv
<1>1. CASE Launch
  BY <1>1, StartHistory
<1>2. CASE ~Launch
  <2>1. orbit' = orbit /\ armed' = armed /\ ~changed
    BY <1>2, SameRun
  <2>2. CASE Load \/ FreshStart
    BY <2>2, StartHistory
  <2>3. CASE Step \/ Regrid \/ Inject
    BY <2>1, <2>3, IterateHistory
  <2>4. CASE SaveIfDue
    BY <2>1, <2>4, RecordHistory
  <2>5. CASE StartupCheck \/ InitialOutput \/ Diagnose \/ Track \/ UpdateTrigger \/ Crash \/ UNCHANGED vars
    <3>1. UNCHANGED <<seen, disk, iter, field>>
      BY <2>5 DEF StartupCheck, InitialOutput, Diagnose, Track, UpdateTrigger, Crash, memory, vars
    <3>2. /\ Known' = Known /\ FieldOf' = FieldOf /\ Stepped' = Stepped /\ Regridded' = Regridded
          /\ Finished' = Finished /\ Computed' = Computed
      BY <2>1, <3>1, SameHistory
    <3>3. \/ pc' = pc \/ pc' = "down"
          \/ pc \in {"startup", "up"} /\ pc' \in {"up", "head"}
          \/ pc \in {"diagnose", "track", "trigger"} /\ pc' \in {"track", "trigger", "inject"}
      BY <2>5 DEF StartupCheck, InitialOutput, Diagnose, Track, UpdateTrigger, Crash, vars, GoTo
    <3>4. QED
      BY <2>1, <3>1, <3>2, <3>3 DEF HistoryInv, Iterating
  <2>6. CASE StartupSave \/ Terminate
    <3>1. UNCHANGED <<seen, iter, field>> /\ disk' \in {disk, File} /\ pc \in {"up", "head"}
          /\ (pc' = pc \/ pc' = "down")
      BY <2>6 DEF StartupSave, Terminate, memory, GoTo
    <3>2. /\ Known' = Known /\ FieldOf' = FieldOf /\ Stepped' = Stepped /\ Regridded' = Regridded
          /\ Finished' = Finished /\ Computed' = Computed
      BY <2>1, <3>1, SameHistory
    <3>3. iter \in Known /\ field = FieldOf[iter]
      BY <2>1, <3>1 DEF HistoryInv
    <3>4. disk' # None => disk'.iter \in Known /\ disk'.field = FieldOf[disk'.iter]
      BY <2>1, <3>1, <3>3 DEF HistoryInv, File
    <3>5. QED
      BY <2>1, <3>1, <3>2, <3>3, <3>4 DEF HistoryInv, Iterating
  <2>7. QED
    BY <1>2, <2>2, <2>3, <2>4, <2>5, <2>6 DEF Next, Start, Iterate
<1>3. QED
  BY <1>1, <1>2

(* All jobs with one parameter file work on one history. *)
THEOREM OneHistory == Spec => []HistoryInv
<1>1. Init => HistoryInv
  BY DEF Init, HistoryInv, Iterating
<1>2. Placed /\ TrackerInv /\ ActiveInv /\ HistoryInv /\ [Next]_vars => HistoryInv'
  BY HistorySteps
<1>3. QED
  BY <1>1, <1>2, Places, TrackerFollows, ActiveFollows, PTL DEF Spec

(* An iteration computed again after a restart, from any checkpoint and by *)
(* any later job with the same parameter file, has the same field, grid    *)
(* decisions, tracker, M1 switch and injection as the first time.          *)
THEOREM ReplaysExactly == Spec => []Replayed
<1>1. Placed /\ TrackerInv /\ ActiveInv /\ HistoryInv => Replayed
  <2> SUFFICES ASSUME Placed, TrackerInv, ActiveInv, HistoryInv, pc = "due", ~changed, seen[iter] # None
               PROVE  seen[iter] = Snapshot
    BY DEF Replayed
  <2>1. Snapshot = Computed[iter] /\ iter \in Iterations
    BY SnapshotIs
  <2>2. QED
    BY <2>1 DEF HistoryInv
<1>2. QED
  BY <1>1, Places, TrackerFollows, ActiveFollows, OneHistory, PTL

-----------------------------------------------------------------------------
(* The global objects of a process *)

(* A sequence with an element inserted at k is a sequence, one longer. *)
LEMMA InsertedType ==
  ASSUME NEW S, NEW s \in Seq(S), NEW k \in 1 .. Len(s) + 1, NEW x \in S
  PROVE  /\ InsertedAt(s, k, x) \in Seq(S)
         /\ Len(InsertedAt(s, k, x)) = Len(s) + 1
<1>1. \A i \in 1 .. Len(s) + 1 : (IF i < k THEN s[i] ELSE IF i = k THEN x ELSE s[i - 1]) \in S
  <2> SUFFICES ASSUME NEW i \in 1 .. Len(s) + 1
               PROVE  (IF i < k THEN s[i] ELSE IF i = k THEN x ELSE s[i - 1]) \in S
    OBVIOUS
  <2>1. CASE i < k
    <3>1. i \in 1 .. Len(s)
      BY <2>1
    <3> QED BY <2>1, <3>1
  <2>2. CASE i = k
    BY <2>2
  <2>3. CASE i > k
    <3>1. i - 1 \in 1 .. Len(s)
      BY <2>3
    <3> QED BY <2>3, <3>1
  <2> QED BY <2>1, <2>2, <2>3
<1>2. Len(s) + 1 \in Nat
  OBVIOUS
<1>3. InsertedAt(s, k, x) \in [1 .. Len(s) + 1 -> S]
  BY <1>1 DEF InsertedAt
<1>4. InsertedAt(s, k, x) \in Seq(S)
  BY <1>2, <1>3
<1>5. Len(InsertedAt(s, k, x)) = Len(s) + 1
  BY <1>2, <1>3, <1>4
<1> QED BY <1>4, <1>5

LEMMA ButLastType ==
  ASSUME NEW S, NEW s \in Seq(S), Len(s) > 0
  PROVE  /\ ButLast(s) \in Seq(S)
         /\ Len(ButLast(s)) = Len(s) - 1
         /\ \A i \in 1 .. Len(s) - 1 : ButLast(s)[i] = s[i]
<1>1. Len(s) \in Nat
  OBVIOUS
<1>2. \A i \in 1 .. Len(s) - 1 : i \in 1 .. Len(s) /\ s[i] \in S /\ 1 + i - 1 = i
  BY <1>1
<1>3. (Len(s) - 1) - 1 + 1 = Len(s) - 1 /\ Len(s) - 1 \in Nat
  BY <1>1
<1>4. ButLast(s) \in Seq(S)
  BY <1>1, SubSeqProperties DEF ButLast
<1>5. Len(ButLast(s)) = Len(s) - 1
  <2> DEFINE m == Len(s) - 1
  <2>1. /\ m \in Int /\ 1 \in Int
        /\ \A i \in 1 .. m : s[i] \in S
    BY <1>1
  <2>2. Len(SubSeq(s, 1, m)) = IF 1 <= m THEN m - 1 + 1 ELSE 0
    <3> HIDE DEF m
    <3> QED BY <2>1, SubSeqProperties
  <2>3. m \in Nat
    BY <1>1
  <2>4. (IF 1 <= m THEN m - 1 + 1 ELSE 0) = m
    <3> HIDE DEF m
    <3> QED BY <2>3
  <2> QED BY <2>2, <2>4 DEF ButLast
<1> QED BY <1>1, <1>4, <1>5, SubSeqProperties DEF ButLast

(* Inserting at the upper bound keeps the array sorted (set_longevity).     *)
LEMMA InsertKeepsSorted ==
  ASSUME LifeTypeOK, Sorted, NEW x \in Singleton, NEW k \in 1 .. Len(trackers) + 1,
         UpperBound(k, Longevity[x]), trackers' = InsertedAt(trackers, k, x)
  PROVE  Sorted'
<1> DEFINE n == Len(trackers)
<1>1. /\ trackers \in Seq(Singleton)
      /\ Longevity \in [Singleton -> Nat]
  BY ObjectAssumption DEF LifeTypeOK
<1>2. /\ Len(trackers') = n + 1
      /\ \A i \in 1 .. n + 1 :
           trackers'[i] = IF i < k THEN trackers[i] ELSE IF i = k THEN x ELSE trackers[i - 1]
  <2>1. Len(trackers') = n + 1
    BY <1>1, InsertedType
  <2>2. \A i \in 1 .. n + 1 :
          trackers'[i] = IF i < k THEN trackers[i] ELSE IF i = k THEN x ELSE trackers[i - 1]
    BY DEF InsertedAt
  <2> QED BY <2>1, <2>2
<1> SUFFICES ASSUME NEW i \in 1 .. n + 1, NEW j \in 1 .. n + 1, i <= j
             PROVE  Longevity[trackers'[i]] <= Longevity[trackers'[j]]
  BY <1>2 DEF Sorted
<1>3. n \in Nat
  BY <1>1
<1>4. \A a \in 1 .. n : trackers[a] \in Singleton /\ Longevity[trackers[a]] \in Nat
  BY <1>1
<1>5. Longevity[x] \in Nat
  BY <1>1
<1>6. \A a \in 1 .. n : a < k => Longevity[trackers[a]] <= Longevity[x]
  BY <1>3 DEF UpperBound
<1>7. \A a \in 1 .. n : a >= k => Longevity[x] <= Longevity[trackers[a]]
  <2> SUFFICES ASSUME NEW a \in 1 .. n, a >= k
               PROVE  Longevity[x] <= Longevity[trackers[a]]
    OBVIOUS
  <2>1. k \in 1 .. n
    BY <1>3
  <2>2. Longevity[trackers[k]] > Longevity[x]
    BY <2>1 DEF UpperBound
  <2>3. Longevity[trackers[k]] <= Longevity[trackers[a]]
    BY <2>1 DEF Sorted
  <2> QED BY <2>1, <2>2, <2>3, <1>4, <1>5
<1>8. CASE j < k
  <2>1. i \in 1 .. n /\ j \in 1 .. n
    BY <1>8, <1>3
  <2>2. trackers'[i] = trackers[i] /\ trackers'[j] = trackers[j]
    BY <1>8, <1>2
  <2> QED BY <2>1, <2>2 DEF Sorted
<1>9. CASE i < k /\ j = k
  <2>1. i \in 1 .. n
    BY <1>9, <1>3
  <2>2. trackers'[i] = trackers[i] /\ trackers'[j] = x
    BY <1>9, <1>2
  <2> QED BY <2>1, <2>2, <1>6, <1>9
<1>10. CASE i < k /\ j > k
  <2>1. i \in 1 .. n /\ j - 1 \in 1 .. n /\ i <= j - 1
    BY <1>10, <1>3
  <2>2. trackers'[i] = trackers[i] /\ trackers'[j] = trackers[j - 1]
    BY <1>10, <1>2
  <2> QED BY <2>1, <2>2 DEF Sorted
<1>11. CASE i = k /\ j = k
  <2>1. trackers'[i] = x /\ trackers'[j] = x
    BY <1>11, <1>2
  <2> QED BY <2>1, <1>5
<1>12. CASE i = k /\ j > k
  <2>1. j - 1 \in 1 .. n /\ j - 1 >= k
    BY <1>12, <1>3
  <2>2. trackers'[i] = x /\ trackers'[j] = trackers[j - 1]
    BY <1>12, <1>2
  <2> QED BY <2>1, <2>2, <1>7
<1>13. CASE i > k
  <2>1. i - 1 \in 1 .. n /\ j - 1 \in 1 .. n /\ i - 1 <= j - 1
    BY <1>13, <1>3
  <2>2. trackers'[i] = trackers[i - 1] /\ trackers'[j] = trackers[j - 1]
    BY <1>13, <1>2
  <2> QED BY <2>1, <2>2 DEF Sorted
<1> QED BY <1>8, <1>9, <1>10, <1>11, <1>12, <1>13

LEMMA InitIInv == LifeInit => IInv
BY StartsAssumption, ObjectAssumption
   DEF LifeInit, IInv, LifeTypeOK, Sorted, GoneOnTop, NothingGoneInMain, SingletonsFindSingletons

LEMMA ConstructKeeps == ASSUME IInv, Construct PROVE IInv'
<1> USE ObjectAssumption
<1>1. PICK k \in 1 .. Len(trackers) + 1 :
        UpperBound(k, Longevity[Head(todo)]) /\ trackers' = InsertedAt(trackers, k, Head(todo))
  BY DEF Construct
<1>2. /\ Head(todo) \in Singleton /\ todo # <<>> /\ phase = "main"
      /\ handlers' = Append(handlers, AT_EXIT) /\ todo' = Tail(todo)
      /\ UNCHANGED <<saving, phase, gone, missing>>
  BY DEF Construct, Registered
<1>3. LifeTypeOK /\ Sorted /\ gone = {}
  BY <1>2 DEF IInv, NothingGoneInMain
<1>4. trackers' \in Seq(Singleton)
  BY <1>1, <1>2, <1>3, InsertedType DEF LifeTypeOK
<1>5. todo' \in Seq(Object)
  BY <1>2, <1>3 DEF LifeTypeOK
<1>6. handlers' \in Seq(Object \cup {AT_EXIT})
  BY <1>2, <1>3 DEF LifeTypeOK
<1>7. LifeTypeOK'
  BY <1>2, <1>3, <1>4, <1>5, <1>6 DEF LifeTypeOK
<1>8. Sorted'
  BY <1>1, <1>2, <1>3, InsertKeepsSorted
<1>9. GoneOnTop' /\ NothingGoneInMain'
  BY <1>2, <1>3 DEF GoneOnTop, NothingGoneInMain
<1>10. SingletonsFindSingletons'
  BY <1>2 DEF IInv, SingletonsFindSingletons
<1> QED BY <1>7, <1>8, <1>9, <1>10 DEF IInv

LEMMA ConstructStaticKeeps == ASSUME IInv, ConstructStatic PROVE IInv'
<1> USE ObjectAssumption
<1>1. LifeTypeOK'
  BY DEF IInv, LifeTypeOK, ConstructStatic, Object
<1> QED BY <1>1 DEF ConstructStatic, IInv, Sorted, GoneOnTop, NothingGoneInMain, SingletonsFindSingletons

LEMMA ExitKeeps == ASSUME IInv, Exit PROVE IInv'
BY DEF Exit, IInv, LifeTypeOK, Sorted, GoneOnTop, NothingGoneInMain, SingletonsFindSingletons

LEMMA ProcessEndsKeeps == ASSUME IInv, ProcessEnds PROVE IInv'
BY DEF ProcessEnds, IInv, LifeTypeOK, Sorted, GoneOnTop, NothingGoneInMain, SingletonsFindSingletons

LEMMA UsesType == ASSUME NEW x \in Object PROVE Uses(x) \subseteq Object /\ Uses(x) \subseteq DtorUses[x]
BY ObjectAssumption DEF Uses

(* What the destructor of the last tracker's singleton uses has a smaller
   longevity, and what is gone has not. *)
LEMMA AtExitKeeps == ASSUME IInv, AtExit PROVE IInv'
<1> USE ObjectAssumption
<1> DEFINE n == Len(trackers)
           x == trackers[n]
<1>1. /\ n > 0 /\ phase = "exit" /\ handlers # <<>>
      /\ gone' = gone \cup {x}
      /\ missing' = missing \cup {p \in {x} \X Object : p[2] \in Uses(p[1]) \cap gone}
      /\ trackers' = ButLast(trackers) /\ handlers' = ButLast(handlers)
      /\ UNCHANGED <<todo, saving, phase>>
  BY DEF AtExit, Calls, Destroyed
<1>2. LifeTypeOK /\ Sorted /\ GoneOnTop /\ SingletonsFindSingletons
  BY DEF IInv
<1>3. n \in Nat /\ n \in 1 .. n /\ x \in Singleton /\ x \in Object
  BY <1>1, <1>2 DEF LifeTypeOK, Object
<1>4. /\ trackers' \in Seq(Singleton) /\ Len(trackers') = n - 1
      /\ \A i \in 1 .. n - 1 : trackers'[i] = trackers[i]
  BY <1>1, <1>2, ButLastType DEF LifeTypeOK
<1>5. handlers' \in Seq(Object \cup {AT_EXIT})
  <2>1. Len(handlers) > 0
    BY <1>1, <1>2 DEF LifeTypeOK
  <2> QED BY <2>1, <1>1, <1>2, ButLastType DEF LifeTypeOK
<1>6. missing' \subseteq Object \X Object
  BY <1>1, <1>2, <1>3 DEF LifeTypeOK
<1>7. LifeTypeOK'
  BY <1>1, <1>2, <1>3, <1>4, <1>5, <1>6 DEF LifeTypeOK
<1>8. Sorted'
  <2> SUFFICES ASSUME NEW i \in 1 .. n - 1, NEW j \in 1 .. n - 1, i <= j
               PROVE  Longevity[trackers'[i]] <= Longevity[trackers'[j]]
    BY <1>4 DEF Sorted
  <2>1. i \in 1 .. n /\ j \in 1 .. n
    BY <1>3
  <2> QED BY <2>1, <1>2, <1>4 DEF Sorted
<1>9. GoneOnTop'
  <2> SUFFICES ASSUME NEW y \in gone' \cap Singleton, NEW i \in 1 .. n - 1
               PROVE  Longevity[trackers[i]] <= Longevity[y]
    BY <1>3, <1>4 DEF GoneOnTop
  <2>1. i \in 1 .. n /\ i <= n
    BY <1>3
  <2>2. CASE y = x
    BY <2>1, <2>2, <1>2, <1>3 DEF Sorted
  <2>3. CASE y \in gone
    BY <2>1, <2>3, <1>2 DEF GoneOnTop
  <2> QED BY <2>2, <2>3, <1>1
<1>10. NothingGoneInMain'
  BY <1>1 DEF NothingGoneInMain
<1>11. SingletonsFindSingletons'
  <2>1. \A u \in Singleton : u \in Uses(x) => u \notin gone
    <3> SUFFICES ASSUME NEW u \in Singleton, u \in Uses(x), u \in gone
                 PROVE  FALSE
      OBVIOUS
    <3>1. u \in DtorUses[x] \cap Singleton
      BY <1>3, UsesType
    <3>2. Longevity[u] < Longevity[x]
      BY <3>1, <1>3, LongevityAssumption
    <3>3. Longevity[x] <= Longevity[u]
      BY <1>2, <1>3 DEF GoneOnTop
    <3>4. Longevity[u] \in Nat /\ Longevity[x] \in Nat
      BY <1>3
    <3> QED BY <3>2, <3>3, <3>4
  <2> QED BY <2>1, <1>1, <1>2 DEF SingletonsFindSingletons
<1> QED BY <1>7, <1>8, <1>9, <1>10, <1>11 DEF IInv

LEMMA DestroyStaticKeeps == ASSUME IInv, DestroyStatic PROVE IInv'
<1> USE ObjectAssumption
<1>1. PICK x \in Static : Calls(x) /\ Destroyed({x})
  BY DEF DestroyStatic
<1>2. /\ phase = "exit" /\ handlers # <<>>
      /\ gone' = gone \cup {x}
      /\ missing' = missing \cup {p \in {x} \X Object : p[2] \in Uses(p[1]) \cap gone}
      /\ handlers' = ButLast(handlers)
      /\ UNCHANGED <<todo, saving, trackers, phase>>
  BY <1>1 DEF DestroyStatic, Calls, Destroyed
<1>3. x \in Object /\ x \notin Singleton
  BY DEF Object
<1>4. LifeTypeOK /\ Sorted /\ GoneOnTop /\ SingletonsFindSingletons
  BY DEF IInv
<1>5. handlers' \in Seq(Object \cup {AT_EXIT})
  <2>1. Len(handlers) > 0
    BY <1>2, <1>4 DEF LifeTypeOK
  <2> QED BY <2>1, <1>2, <1>4, ButLastType DEF LifeTypeOK
<1>6. missing' \subseteq Object \X Object
  BY <1>2, <1>3, <1>4 DEF LifeTypeOK
<1>7. LifeTypeOK'
  BY <1>2, <1>3, <1>4, <1>5, <1>6 DEF LifeTypeOK
<1>8. Sorted' /\ GoneOnTop' /\ NothingGoneInMain'
  BY <1>2, <1>3, <1>4 DEF Sorted, GoneOnTop, NothingGoneInMain
<1>9. SingletonsFindSingletons'
  BY <1>2, <1>3, <1>4 DEF SingletonsFindSingletons
<1> QED BY <1>7, <1>8, <1>9 DEF IInv

(* The array of trackers is sorted, and nothing of a smaller longevity than *)
(* a living singleton's is gone.                                            *)
THEOREM Inductive == LifeSpec => []IInv
<1>1. IInv /\ [LifeNext]_lifeVars => IInv'
  <2> SUFFICES ASSUME IInv, [LifeNext]_lifeVars PROVE IInv'
    OBVIOUS
  <2>1. CASE UNCHANGED lifeVars
    BY <2>1 DEF lifeVars, IInv, LifeTypeOK, Sorted, GoneOnTop, NothingGoneInMain, SingletonsFindSingletons
  <2> QED BY <2>1, ConstructKeeps, ConstructStaticKeeps, ExitKeeps, AtExitKeeps, DestroyStaticKeeps,
             ProcessEndsKeeps DEF LifeNext
<1> QED BY <1>1, InitIInv, PTL DEF LifeSpec

(* In whatever order the singletons are constructed, none is destroyed      *)
(* before another whose destructor uses it (at_exit_func).                  *)
THEOREM DependenciesOutlive == LifeSpec => []SingletonsFindSingletons
BY Inductive, PTL DEF IInv

(* The list of exit() is a prefix of the program's constructions, with
   at_exit_func for each singleton among them, and there are as many trackers as
   it has calls of at_exit_func. *)
HandlerOf(x) == IF x \in Singleton THEN AT_EXIT ELSE x
Seated(s) ==
  /\ Len(handlers) <= Len(s)
  /\ \A i \in 1 .. Len(handlers) : handlers[i] = HandlerOf(s[i])
  /\ Len(trackers) = Cardinality(MadeBefore(s, Len(handlers) + 1))
Apart(s) ==
  /\ \A i, j \in 1 .. Len(trackers) : trackers[i] = trackers[j] => i = j
  /\ \A i \in 1 .. Len(trackers) : trackers[i] \notin gone
  /\ \A y \in gone \cap Singleton : \E j \in DOMAIN s : s[j] = y
  /\ \A i \in 1 .. Len(trackers) : \E j \in DOMAIN s : s[j] = trackers[i]
StillToMake(s) ==
  phase = "main" =>
    /\ Len(handlers) + Len(todo) = Len(s)
    /\ \A i \in 1 .. Len(todo) : todo[i] = s[Len(handlers) + i]
    /\ \A i \in 1 .. Len(trackers) : \E j \in 1 .. Len(handlers) : s[j] = trackers[i]
SInv == /\ IInv
        /\ StaticsFindSingletons
        /\ \E s \in Starts : Seated(s) /\ Apart(s) /\ StillToMake(s)

(* One construction more: one singleton more, or none. *)
LEMMA MadeByOneMore ==
  ASSUME NEW s, NEW n \in Nat \ {0}
  PROVE  /\ IsFiniteSet(MadeBefore(s, n))
         /\ Cardinality(MadeBefore(s, n)) \in Nat
         /\ s[n] \in Singleton => Cardinality(MadeBefore(s, n + 1)) = Cardinality(MadeBefore(s, n)) + 1
         /\ s[n] \notin Singleton => Cardinality(MadeBefore(s, n + 1)) = Cardinality(MadeBefore(s, n))
<1>1. IsFiniteSet(1 .. n - 1)
  BY FS_Interval
<1>2. IsFiniteSet(MadeBefore(s, n))
  BY <1>1, FS_Subset DEF MadeBefore
<1>3. s[n] \in Singleton => MadeBefore(s, n + 1) = MadeBefore(s, n) \cup {n} /\ n \notin MadeBefore(s, n)
  BY DEF MadeBefore
<1>4. s[n] \notin Singleton => MadeBefore(s, n + 1) = MadeBefore(s, n)
  BY DEF MadeBefore
<1> QED BY <1>2, <1>3, <1>4, FS_AddElement, FS_CardinalityType

(* The trackers of the singletons that outlast one that is gone are fewer than
   all that outlast it. *)
LEMMA FewerThanLasting ==
  ASSUME NEW s \in Starts, IInv, Apart(s), NEW u \in gone \cap Singleton
  PROVE  Len(trackers) < Cardinality(Lasting(s, u)) /\ Cardinality(Lasting(s, u)) \in Nat
<1> DEFINE n == Len(trackers)
           T == {trackers[i] : i \in 1 .. n}
<1> USE ObjectAssumption, StartsAssumption
<1>1. trackers \in Seq(Singleton) /\ n \in Nat /\ s \in Seq(Object) /\ Len(s) \in Nat /\ DOMAIN s = 1 .. Len(s)
  BY DEF IInv, LifeTypeOK
<1>2. \A i \in 1 .. n : trackers[i] \in Singleton
  BY <1>1
<1>3. IsFiniteSet(T) /\ Cardinality(T) = n
  <2> DEFINE f == [i \in 1 .. n |-> trackers[i]]
  <2>1. f \in Surjection(1 .. n, T)
    BY DEF Surjection
  <2>2. f \in Injection(1 .. n, T)
    <3>1. \A i, j \in 1 .. n : f[i] = f[j] => i = j
      BY DEF Apart
    <3>2. f \in [1 .. n -> T]
      OBVIOUS
    <3> HIDE DEF f, T
    <3> QED BY <3>1, <3>2 DEF Injection, IsInjective
  <2>3. IsFiniteSet(1 .. n) /\ Cardinality(1 .. n) = n
    <3>1. n \in Int /\ 1 \in Int /\ n - 1 + 1 = n /\ (1 > n => n = 0)
      BY <1>1
    <3> HIDE DEF n
    <3> QED BY <3>1, FS_Interval
  <2> HIDE DEF f, T, n
  <2> QED BY <2>1, <2>2, <2>3, FS_Surjection
<1>4. IsFiniteSet(Lasting(s, u))
  <2> DEFINE R == {s[i] : i \in 1 .. Len(s)}
  <2>1. IsFiniteSet(1 .. Len(s))
    BY <1>1, FS_Interval
  <2>2. IsFiniteSet(R)
    <3> DEFINE f == [i \in 1 .. Len(s) |-> s[i]]
    <3>1. f \in Surjection(1 .. Len(s), R)
      BY DEF Surjection
    <3> QED BY <2>1, <3>1, FS_Surjection
  <2>3. Lasting(s, u) \subseteq R
    BY <1>1 DEF Lasting
  <2> QED BY <2>2, <2>3, FS_Subset
<1>5. T \cup {u} \subseteq Lasting(s, u)
  <2>1. u \in Lasting(s, u)
    BY DEF Lasting, Apart
  <2>2. \A i \in 1 .. n : trackers[i] \in Lasting(s, u)
    <3> TAKE i \in 1 .. n
    <3>1. Longevity[trackers[i]] <= Longevity[u]
      BY DEF IInv, GoneOnTop
    <3> QED BY <1>2, <3>1 DEF Lasting, Apart
  <2> QED BY <2>1, <2>2
<1>6. u \notin T
  BY DEF Apart
<1>7. Cardinality(T \cup {u}) = n + 1
  BY <1>3, <1>6, FS_AddElement
<1>8. n + 1 <= Cardinality(Lasting(s, u))
  BY <1>4, <1>5, <1>7, FS_Subset
<1> QED BY <1>1, <1>4, <1>8, FS_CardinalityType

LEMMA InitSInv == LifeInit => SInv
<1> SUFFICES ASSUME LifeInit PROVE SInv
  OBVIOUS
<1> DEFINE s == todo
<1>1. s \in Starts /\ s \in Seq(Object) /\ Len(s) \in Nat
  BY StartsAssumption DEF LifeInit
<1>2. trackers = <<>> /\ handlers = <<>> /\ gone = {} /\ missing = {} /\ Len(trackers) = 0 /\ Len(handlers) = 0
  BY DEF LifeInit
<1>3. MadeBefore(s, Len(handlers) + 1) = {}
  BY <1>2 DEF MadeBefore
<1>4. Seated(s)
  <2>1. Cardinality(MadeBefore(s, Len(handlers) + 1)) = 0
    BY <1>3, FS_EmptySet
  <2>2. 0 <= Len(s) /\ \A i \in 1 .. 0 : FALSE
    BY <1>1
  <2> QED BY <1>2, <2>1, <2>2 DEF Seated
<1>5. Apart(s)
  BY <1>2 DEF Apart
<1>6. StillToMake(s)
  <2>1. \A i \in 1 .. Len(s) : s[i] = s[0 + i]
    BY <1>1
  <2> QED BY <1>1, <1>2, <2>1 DEF StillToMake
<1>7. StaticsFindSingletons
  BY <1>2 DEF StaticsFindSingletons
<1> QED BY <1>1, <1>4, <1>5, <1>6, <1>7, InitIInv DEF SInv

(* A new element inserted between different ones: they all differ. *)
LEMMA InsertedApart ==
  ASSUME NEW n \in Nat, NEW k \in 1 .. n + 1, NEW f, NEW g, NEW x,
         \A a \in 1 .. n + 1 : /\ a < k => g[a] = f[a]
                               /\ a = k => g[a] = x
                               /\ a > k => g[a] = f[a - 1],
         \A a \in 1 .. n : f[a] # x,
         \A a, b \in 1 .. n : f[a] = f[b] => a = b,
         NEW i \in 1 .. n + 1, NEW j \in 1 .. n + 1, g[i] = g[j]
  PROVE  i = j
<1> DEFINE From(a) == IF a < k THEN a ELSE a - 1
<1>1. \A a \in 1 .. n + 1 : a # k => From(a) \in 1 .. n /\ g[a] = f[From(a)]
  OBVIOUS
<1>2. \A a, b \in 1 .. n + 1 : a # k /\ b # k /\ From(a) = From(b) => a = b
  OBVIOUS
<1>3. g[k] = x
  OBVIOUS
<1> HIDE DEF From
<1> QED BY <1>1, <1>2, <1>3

(* A singleton made takes a place of its own among the trackers. *)
LEMMA ConstructKeepsSInv == ASSUME SInv, Construct PROVE SInv'
<1> USE ObjectAssumption
<1> DEFINE m == Len(handlers)
           x == Head(todo)
           n == Len(trackers)
<1>1. PICK k \in 1 .. n + 1 : trackers' = InsertedAt(trackers, k, x)
  BY DEF Construct
<1>2. /\ x \in Singleton /\ todo # <<>> /\ phase = "main"
      /\ handlers' = Append(handlers, AT_EXIT) /\ todo' = Tail(todo)
      /\ UNCHANGED <<saving, phase, gone, missing>>
  BY DEF Construct, Registered
<1>3. IInv /\ IInv' /\ StaticsFindSingletons
  BY ConstructKeeps DEF SInv
<1>4. PICK s \in Starts : Seated(s) /\ Apart(s) /\ StillToMake(s)
  BY DEF SInv
<1>5. /\ trackers \in Seq(Singleton) /\ n \in Nat /\ todo \in Seq(Object) /\ Len(todo) \in Nat \ {0}
      /\ m \in Nat /\ handlers \in Seq(Object \cup {AT_EXIT}) /\ gone = {}
  BY <1>2, <1>3 DEF IInv, LifeTypeOK, NothingGoneInMain
<1>6. s \in Seq(Object) /\ Len(s) \in Nat /\ DOMAIN s = 1 .. Len(s) /\ \A i, j \in 1 .. Len(s) : s[i] = s[j] => i = j
  BY StartsAssumption
<1>7. x = s[m + 1] /\ m + 1 <= Len(s) /\ m + 1 \in 1 .. Len(s)
  <2>1. m + Len(todo) = Len(s) /\ \A i \in 1 .. Len(todo) : todo[i] = s[m + i]
    BY <1>2, <1>4 DEF StillToMake
  <2>2. 1 \in 1 .. Len(todo) /\ x = todo[1]
    BY <1>5
  <2>3. x = s[m + 1]
    BY <2>1, <2>2
  <2>4. m + 1 <= Len(s) /\ m + 1 \in 1 .. Len(s)
    <3>1. m \in Nat /\ Len(todo) \in Nat \ {0} /\ Len(s) \in Nat
      BY <1>5, <1>6
    <3> QED BY <3>1, <2>1
  <2> QED BY <2>3, <2>4
<1>8. /\ Len(trackers') = n + 1
      /\ \A i \in 1 .. n + 1 :
           trackers'[i] = IF i < k THEN trackers[i] ELSE IF i = k THEN x ELSE trackers[i - 1]
  BY <1>1, <1>2, <1>5, InsertedType DEF InsertedAt
<1>9. Len(handlers') = m + 1 /\ handlers'[m + 1] = AT_EXIT /\ \A i \in 1 .. m : handlers'[i] = handlers[i]
  BY <1>2, <1>5
<1>10. Seated(s)'
  <2>1. \A i \in 1 .. m + 1 : handlers'[i] = HandlerOf(s[i])
    <3> SUFFICES ASSUME NEW i \in 1 .. m + 1 PROVE handlers'[i] = HandlerOf(s[i])
      OBVIOUS
    <3>1. CASE i \in 1 .. m
      BY <3>1, <1>4, <1>9 DEF Seated
    <3>2. CASE i = m + 1
      BY <3>2, <1>2, <1>7, <1>9 DEF HandlerOf
    <3> QED BY <3>1, <3>2, <1>5
  <2>2. Cardinality(MadeBefore(s, m + 1 + 1)) = Cardinality(MadeBefore(s, m + 1)) + 1
    <3>1. m + 1 \in Nat \ {0}
      BY <1>5
    <3> QED BY <3>1, <1>2, <1>7, MadeByOneMore
  <2>3. Len(trackers') = Cardinality(MadeBefore(s, m + 1 + 1))
    BY <2>2, <1>4, <1>8 DEF Seated
  <2> QED BY <2>1, <2>3, <1>7, <1>9 DEF Seated
<1>11. \A i \in 1 .. n : trackers[i] # x
  <2> SUFFICES ASSUME NEW i \in 1 .. n, trackers[i] = x PROVE FALSE
    OBVIOUS
  <2>1. PICK j \in 1 .. m : s[j] = x
    BY <1>2, <1>4 DEF StillToMake
  <2> QED BY <2>1, <1>5, <1>6, <1>7
<1>12. \A i \in 1 .. n + 1 : i < k \/ i = k \/ (i > k /\ i - 1 \in 1 .. n)
  BY <1>5
<1>13. \A i \in 1 .. n + 1 : i < k => i \in 1 .. n
  BY <1>5
<1>14. \A i, j \in 1 .. n + 1 : trackers'[i] = trackers'[j] => i = j
  <2> SUFFICES ASSUME NEW i \in 1 .. n + 1, NEW j \in 1 .. n + 1, trackers'[i] = trackers'[j]
               PROVE  i = j
    OBVIOUS
  <2>1. \A a, b \in 1 .. n : trackers[a] = trackers[b] => a = b
    BY <1>4 DEF Apart
  <2>2. \A a \in 1 .. n + 1 : /\ a < k => trackers'[a] = trackers[a]
                              /\ a = k => trackers'[a] = x
                              /\ a > k => trackers'[a] = trackers[a - 1]
    BY <1>5, <1>8
  <2>3. n \in Nat
    BY <1>5
  <2> HIDE DEF n, x
  <2> QED BY <2>1, <2>2, <2>3, <1>11, InsertedApart
<1>15. \A i \in 1 .. n + 1 : \E j \in 1 .. m + 1 : s[j] = trackers'[i]
  <2> SUFFICES ASSUME NEW i \in 1 .. n + 1 PROVE \E j \in 1 .. m + 1 : s[j] = trackers'[i]
    OBVIOUS
  <2>1. \A a \in 1 .. n : \E j \in 1 .. m + 1 : s[j] = trackers[a]
    BY <1>2, <1>4, <1>5 DEF StillToMake
  <2>2. \E j \in 1 .. m + 1 : s[j] = x
    BY <1>5, <1>7
  <2> QED BY <2>1, <2>2, <1>8, <1>12, <1>13
<1>16. Apart(s)'
  <2>1. \A i \in 1 .. n + 1 : \E j \in DOMAIN s : s[j] = trackers'[i]
    <3>1. \A j \in 1 .. m + 1 : j \in DOMAIN s
      <4>1. m \in Nat /\ Len(s) \in Nat /\ m + 1 <= Len(s)
        BY <1>5, <1>6, <1>7
      <4> QED BY <4>1, <1>6
    <3> QED BY <3>1, <1>15
  <2> QED BY <2>1, <1>2, <1>5, <1>8, <1>14 DEF Apart
<1>17. StillToMake(s)'
  <2>1. Len(todo') = Len(todo) - 1 /\ \A i \in 1 .. Len(todo) - 1 : todo'[i] = todo[i + 1]
    BY <1>2, <1>5
  <2>2. m + Len(todo) = Len(s) /\ \A i \in 1 .. Len(todo) : todo[i] = s[m + i]
    BY <1>2, <1>4 DEF StillToMake
  <2>3. m + 1 + (Len(todo) - 1) = Len(s)
    <3>1. m \in Int /\ Len(todo) \in Int
      BY <1>5
    <3> QED BY <3>1, <2>2
  <2>4. \A i \in 1 .. Len(todo) - 1 : todo'[i] = s[m + 1 + i]
    <3> SUFFICES ASSUME NEW i \in 1 .. Len(todo) - 1 PROVE todo'[i] = s[m + 1 + i]
      OBVIOUS
    <3>1. i + 1 \in 1 .. Len(todo) /\ m + (i + 1) = m + 1 + i
      BY <1>5
    <3> QED BY <3>1, <2>1, <2>2
  <2> QED BY <2>1, <2>3, <2>4, <1>8, <1>9, <1>15 DEF StillToMake
<1>18. StaticsFindSingletons'
  BY <1>2, <1>3 DEF StaticsFindSingletons
<1> QED BY <1>3, <1>4, <1>10, <1>16, <1>17, <1>18 DEF SInv

LEMMA ConstructStaticKeepsSInv == ASSUME SInv, ConstructStatic PROVE SInv'
<1> USE ObjectAssumption
<1> DEFINE m == Len(handlers)
           x == Head(todo)
<1>2. /\ x \in Static /\ todo # <<>> /\ phase = "main"
      /\ handlers' = Append(handlers, x) /\ todo' = Tail(todo)
      /\ UNCHANGED <<saving, phase, trackers, gone, missing>>
  BY DEF ConstructStatic
<1>3. IInv /\ IInv' /\ StaticsFindSingletons
  BY ConstructStaticKeeps DEF SInv
<1>4. PICK s \in Starts : Seated(s) /\ Apart(s) /\ StillToMake(s)
  BY DEF SInv
<1>5. /\ todo \in Seq(Object) /\ Len(todo) \in Nat \ {0}
      /\ m \in Nat /\ handlers \in Seq(Object \cup {AT_EXIT})
  BY <1>2, <1>3 DEF IInv, LifeTypeOK
<1>6. x \in Object /\ x \notin Singleton
  BY <1>2 DEF Object
<1>7. s \in Seq(Object) /\ Len(s) \in Nat
  BY StartsAssumption
<1>8. x = s[m + 1] /\ m + 1 <= Len(s)
  BY <1>2, <1>4, <1>5, <1>7 DEF StillToMake
<1>9. Len(handlers') = m + 1 /\ handlers'[m + 1] = x /\ \A i \in 1 .. m : handlers'[i] = handlers[i]
  <2>1. x \in Object \cup {AT_EXIT}
    BY <1>6
  <2> HIDE DEF x
  <2> QED BY <2>1, <1>2, <1>5
<1>10. Seated(s)'
  <2>1. \A i \in 1 .. m + 1 : handlers'[i] = HandlerOf(s[i])
    <3> SUFFICES ASSUME NEW i \in 1 .. m + 1 PROVE handlers'[i] = HandlerOf(s[i])
      OBVIOUS
    <3>1. CASE i \in 1 .. m
      BY <3>1, <1>4, <1>9 DEF Seated
    <3>2. CASE i = m + 1
      BY <3>2, <1>6, <1>8, <1>9 DEF HandlerOf
    <3> QED BY <3>1, <3>2, <1>5
  <2>2. Cardinality(MadeBefore(s, m + 1 + 1)) = Cardinality(MadeBefore(s, m + 1))
    <3>1. m + 1 \in Nat \ {0}
      BY <1>5
    <3> QED BY <3>1, <1>6, <1>8, MadeByOneMore
  <2>3. Len(trackers') = Cardinality(MadeBefore(s, m + 1 + 1))
    BY <2>2, <1>2, <1>4 DEF Seated
  <2> QED BY <2>1, <2>3, <1>8, <1>9 DEF Seated
<1>11. Apart(s)'
  BY <1>2, <1>4 DEF Apart
<1>12. StillToMake(s)'
  <2>1. Len(todo') = Len(todo) - 1 /\ \A i \in 1 .. Len(todo) - 1 : todo'[i] = todo[i + 1]
    BY <1>2, <1>5
  <2>2. m + Len(todo) = Len(s) /\ \A i \in 1 .. Len(todo) : todo[i] = s[m + i]
    BY <1>2, <1>4 DEF StillToMake
  <2>3. m + 1 + (Len(todo) - 1) = Len(s)
    <3>1. m \in Int /\ Len(todo) \in Int
      BY <1>5
    <3> QED BY <3>1, <2>2
  <2>4. \A i \in 1 .. Len(todo) - 1 : todo'[i] = s[m + 1 + i]
    <3> SUFFICES ASSUME NEW i \in 1 .. Len(todo) - 1 PROVE todo'[i] = s[m + 1 + i]
      OBVIOUS
    <3>1. i + 1 \in 1 .. Len(todo) /\ m + (i + 1) = m + 1 + i
      BY <1>5
    <3> QED BY <3>1, <2>1, <2>2
  <2>5. \A i \in 1 .. Len(trackers) : \E j \in 1 .. m + 1 : s[j] = trackers[i]
    BY <1>2, <1>4, <1>5 DEF StillToMake
  <2> QED BY <2>1, <2>3, <2>4, <2>5, <1>2, <1>9 DEF StillToMake
<1>13. StaticsFindSingletons'
  BY <1>2, <1>3 DEF StaticsFindSingletons
<1> QED BY <1>3, <1>4, <1>10, <1>11, <1>12, <1>13 DEF SInv

LEMMA ExitKeepsSInv == ASSUME SInv, Exit PROVE SInv'
<1>1. IInv /\ IInv' /\ StaticsFindSingletons
  BY ExitKeeps DEF SInv
<1>2. phase' = "exit" /\ UNCHANGED <<todo, saving, trackers, handlers, gone, missing>>
  BY DEF Exit
<1>3. PICK s \in Starts : Seated(s) /\ Apart(s)
  BY DEF SInv
<1>4. Seated(s)' /\ Apart(s)'
  BY <1>2, <1>3 DEF Seated, Apart
<1>5. StillToMake(s)'
  BY <1>2 DEF StillToMake
<1>6. StaticsFindSingletons'
  BY <1>1, <1>2 DEF StaticsFindSingletons
<1> QED BY <1>1, <1>3, <1>4, <1>5, <1>6 DEF SInv

LEMMA ProcessEndsKeepsSInv == ASSUME SInv, ProcessEnds PROVE SInv'
<1>1. IInv /\ IInv' /\ StaticsFindSingletons
  BY ProcessEndsKeeps DEF SInv
<1>2. phase' = "over" /\ UNCHANGED <<todo, saving, trackers, handlers, gone, missing>>
  BY DEF ProcessEnds
<1>3. PICK s \in Starts : Seated(s) /\ Apart(s)
  BY DEF SInv
<1>4. Seated(s)' /\ Apart(s)'
  BY <1>2, <1>3 DEF Seated, Apart
<1>5. StillToMake(s)'
  BY <1>2 DEF StillToMake
<1>6. StaticsFindSingletons'
  BY <1>1, <1>2 DEF StaticsFindSingletons
<1> QED BY <1>1, <1>3, <1>4, <1>5, <1>6 DEF SInv

(* A handler called: the rest of the list is still the constructions' prefix. *)
LEMMA PrefixCalled ==
  ASSUME NEW s \in Starts, Seated(s), LifeTypeOK, handlers # <<>>, handlers' = ButLast(handlers)
  PROVE  /\ Len(handlers) \in Nat \ {0} /\ Len(handlers') = Len(handlers) - 1
         /\ Len(handlers') <= Len(s)
         /\ \A i \in 1 .. Len(handlers') : handlers'[i] = HandlerOf(s[i])
         /\ handlers[Len(handlers)] = HandlerOf(s[Len(handlers)])
         /\ Len(handlers) \in DOMAIN s /\ s[Len(handlers)] \in Object
<1> DEFINE m == Len(handlers)
<1>1. handlers \in Seq(Object \cup {AT_EXIT}) /\ m \in Nat \ {0}
  BY DEF LifeTypeOK
<1>2. Len(handlers') = m - 1 /\ \A i \in 1 .. m - 1 : handlers'[i] = handlers[i]
  BY <1>1, ButLastType
<1>3. s \in Seq(Object) /\ Len(s) \in Nat /\ DOMAIN s = 1 .. Len(s)
  BY StartsAssumption
<1>4. m <= Len(s) /\ \A i \in 1 .. m : handlers[i] = HandlerOf(s[i])
  BY DEF Seated
<1>5. m \in 1 .. m /\ m \in 1 .. Len(s) /\ m - 1 <= Len(s) /\ \A i \in 1 .. m - 1 : i \in 1 .. m
  <2> HIDE DEF m
  <2> QED BY <1>1, <1>3, <1>4
<1> QED BY <1>1, <1>2, <1>3, <1>4, <1>5

(* at_exit_func takes away one call and one tracker. *)
LEMMA AtExitKeepsSInv == ASSUME SInv, AtExit PROVE SInv'
<1> USE ObjectAssumption
<1> DEFINE n == Len(trackers)
           m == Len(handlers)
           x == trackers[n]
<1>1. IInv /\ IInv' /\ StaticsFindSingletons
  BY AtExitKeeps DEF SInv
<1>2. /\ n > 0 /\ phase = "exit" /\ handlers # <<>> /\ handlers[m] = AT_EXIT
      /\ gone' = gone \cup {x}
      /\ missing' = missing \cup {p \in {x} \X Object : p[2] \in Uses(p[1]) \cap gone}
      /\ trackers' = ButLast(trackers) /\ handlers' = ButLast(handlers)
      /\ phase' = "exit"
  BY DEF AtExit, Calls, Destroyed
<1>3. PICK s \in Starts : Seated(s) /\ Apart(s)
  BY DEF SInv
<1>4. LifeTypeOK /\ trackers \in Seq(Singleton) /\ n \in Nat /\ n \in 1 .. n /\ x \in Singleton
  BY <1>1, <1>2 DEF IInv, LifeTypeOK
<1>5. /\ m \in Nat \ {0} /\ Len(handlers') = m - 1
      /\ m - 1 <= Len(s)
      /\ \A i \in 1 .. m - 1 : handlers'[i] = HandlerOf(s[i])
      /\ HandlerOf(s[m]) = AT_EXIT /\ s[m] \in Object
  BY <1>2, <1>3, <1>4, PrefixCalled
<1>6. s[m] \in Singleton
  BY <1>5 DEF HandlerOf
<1>7. Len(trackers') = n - 1 /\ \A i \in 1 .. n - 1 : trackers'[i] = trackers[i] /\ i \in 1 .. n /\ i # n
  BY <1>2, <1>4, ButLastType
<1>8. Seated(s)'
  <2>1. n = Cardinality(MadeBefore(s, m)) + 1 /\ Cardinality(MadeBefore(s, m)) \in Nat
    BY <1>3, <1>5, <1>6, MadeByOneMore DEF Seated
  <2>2. n - 1 = Cardinality(MadeBefore(s, m)) /\ (m - 1) + 1 = m
    BY <2>1, <1>5
  <2> QED BY <2>2, <1>5, <1>7 DEF Seated
<1>9. Apart(s)'
  <2>1. /\ \A i, j \in 1 .. n : trackers[i] = trackers[j] => i = j
        /\ \A i \in 1 .. n : trackers[i] \notin gone
        /\ \A y \in gone \cap Singleton : \E j \in DOMAIN s : s[j] = y
        /\ \A i \in 1 .. n : \E j \in DOMAIN s : s[j] = trackers[i]
    BY <1>3 DEF Apart
  <2>2. \A i, j \in 1 .. n - 1 : trackers'[i] = trackers'[j] => i = j
    BY <2>1, <1>7
  <2>3. \A i \in 1 .. n - 1 : trackers'[i] \notin gone'
    <3> TAKE i \in 1 .. n - 1
    <3>1. i \in 1 .. n /\ n \in 1 .. n /\ i # n /\ trackers'[i] = trackers[i]
      BY <1>4, <1>7
    <3>2. trackers[i] \notin gone /\ trackers[i] # x
      BY <3>1, <2>1
    <3> QED BY <3>1, <3>2, <1>2
  <2>4. \A y \in gone' \cap Singleton : \E j \in DOMAIN s : s[j] = y
    BY <2>1, <1>2, <1>4
  <2>5. \A i \in 1 .. n - 1 : \E j \in DOMAIN s : s[j] = trackers'[i]
    BY <2>1, <1>7
  <2> QED BY <2>2, <2>3, <2>4, <2>5, <1>7 DEF Apart
<1>10. StillToMake(s)'
  BY <1>2 DEF StillToMake
<1>11. StaticsFindSingletons'
  <2>1. x \notin Static
    BY <1>4
  <2> QED BY <2>1, <1>1, <1>2 DEF StaticsFindSingletons
<1> QED BY <1>1, <1>3, <1>8, <1>9, <1>10, <1>11 DEF SInv

(* A singleton that a static uses is not gone: as many trackers are left as
   singletons were made before the static, and were it gone, fewer would be. *)
LEMMA DestroyStaticKeepsSInv == ASSUME SInv, DestroyStatic PROVE SInv'
<1> USE ObjectAssumption
<1> DEFINE m == Len(handlers)
<1>1. PICK x \in Static : Calls(x) /\ Destroyed({x})
  BY DEF DestroyStatic
<1>2. /\ phase = "exit" /\ handlers # <<>> /\ handlers[m] = x
      /\ gone' = gone \cup {x}
      /\ missing' = missing \cup {p \in {x} \X Object : p[2] \in Uses(p[1]) \cap gone}
      /\ handlers' = ButLast(handlers)
      /\ phase' = "exit" /\ trackers' = trackers
  BY <1>1 DEF DestroyStatic, Calls, Destroyed
<1>3. IInv /\ IInv' /\ StaticsFindSingletons
  BY DestroyStaticKeeps DEF SInv
<1>4. PICK s \in Starts : Seated(s) /\ Apart(s)
  BY DEF SInv
<1>5. LifeTypeOK /\ trackers \in Seq(Singleton) /\ x \in Object /\ x \notin Singleton /\ x # AT_EXIT
  BY <1>3 DEF IInv, LifeTypeOK, Object
<1>6. /\ m \in Nat \ {0} /\ Len(handlers') = m - 1
      /\ m - 1 <= Len(s)
      /\ \A i \in 1 .. m - 1 : handlers'[i] = HandlerOf(s[i])
      /\ HandlerOf(s[m]) = x /\ m \in DOMAIN s /\ s[m] \in Object
  BY <1>2, <1>4, <1>5, PrefixCalled
<1>7. s[m] = x
  BY <1>5, <1>6 DEF HandlerOf
<1>8. Len(trackers) = Cardinality(MadeBefore(s, m))
  BY <1>4, <1>5, <1>6, <1>7, MadeByOneMore DEF Seated
<1>9. Seated(s)'
  <2>1. (m - 1) + 1 = m
    BY <1>6
  <2> QED BY <2>1, <1>2, <1>6, <1>8 DEF Seated
<1>10. Apart(s)'
  <2>1. \A i \in 1 .. Len(trackers) : trackers[i] # x
    BY <1>5
  <2> QED BY <2>1, <1>2, <1>4, <1>5 DEF Apart
<1>11. StillToMake(s)'
  BY <1>2 DEF StillToMake
<1>12. \A u \in Singleton : u \in Uses(x) => u \notin gone
  <2> SUFFICES ASSUME NEW u \in Singleton, u \in Uses(x), u \in gone
               PROVE  FALSE
    OBVIOUS
  <2>1. u \in DtorUses[s[m]] \cap Singleton
    BY <1>5, <1>7, UsesType
  <2>2. Cardinality(Lasting(s, u)) <= Len(trackers)
    BY <2>1, <1>6, <1>7, <1>8, LateAssumption
  <2>3. Len(trackers) < Cardinality(Lasting(s, u))
    BY <1>3, <1>4, FewerThanLasting
  <2>4. Len(trackers) \in Nat
    BY <1>5
  <2>5. Cardinality(Lasting(s, u)) \in Int
    BY <1>3, <1>4, FewerThanLasting
  <2> QED BY <2>2, <2>3, <2>4, <2>5
<1>13. StaticsFindSingletons'
  BY <1>2, <1>3, <1>12 DEF StaticsFindSingletons
<1> QED BY <1>3, <1>4, <1>9, <1>10, <1>11, <1>13 DEF SInv

(* The list of exit() seats each static above as many calls of at_exit_func *)
(* as singletons were made before it, and there are as many trackers.       *)
THEOREM StaticsInvariant == LifeSpec => []SInv
<1>1. SInv /\ [LifeNext]_lifeVars => SInv'
  <2> SUFFICES ASSUME SInv, [LifeNext]_lifeVars PROVE SInv'
    OBVIOUS
  <2>1. CASE UNCHANGED lifeVars
    <3>1. IInv' /\ StaticsFindSingletons'
      BY <2>1 DEF lifeVars, SInv, IInv, LifeTypeOK, Sorted, GoneOnTop, NothingGoneInMain,
                  SingletonsFindSingletons, StaticsFindSingletons
    <3>2. \A s \in Starts : Seated(s) /\ Apart(s) /\ StillToMake(s) => Seated(s)' /\ Apart(s)' /\ StillToMake(s)'
      <4> TAKE s \in Starts
      <4>1. Seated(s) => Seated(s)'
        BY <2>1 DEF lifeVars, Seated
      <4>2. Apart(s) => Apart(s)'
        BY <2>1 DEF lifeVars, Apart
      <4>3. StillToMake(s) => StillToMake(s)'
        BY <2>1 DEF lifeVars, StillToMake
      <4> QED BY <4>1, <4>2, <4>3
    <3> QED BY <3>1, <3>2 DEF SInv
  <2> QED BY <2>1, ConstructKeepsSInv, ConstructStaticKeepsSInv, ExitKeepsSInv, AtExitKeepsSInv,
             DestroyStaticKeepsSInv, ProcessEndsKeepsSInv DEF LifeNext
<1> QED BY <1>1, InitSInv, PTL DEF LifeSpec

(* The destructor of a static finds the singletons it uses, if the static   *)
(* is made after as many singletons as outlast the one it uses: Kokkos is   *)
(* finalized after the last static has freed its arrays.                    *)
THEOREM StaticsSafe == LifeSpec => []StaticsFindSingletons
BY StaticsInvariant, PTL DEF SInv
=============================================================================
