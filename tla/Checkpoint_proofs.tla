-------------------------- MODULE Checkpoint_proofs --------------------------
(***************************************************************************)
(* Proofs about Checkpoint for every run length, interval, kind and number *)
(* of crashes, and every maximum number of checkpoints from three on where *)
(* a theorem says so.                                                      *)
(***************************************************************************)
EXTENDS Checkpoint, FiniteSetTheorems, TLAPS

-----------------------------------------------------------------------------
(* The list and the directory *)

LEMMA Numbers == /\ Iteration \subseteq Nat /\ IsFiniteSet(Iteration)
                 /\ MaxIteration \in Nat /\ MaxN \in Nat /\ MaxN >= 1
                 /\ Interval \in Nat /\ Interval >= 1 /\ MaxCrashes \in Nat
<1>1. MaxIteration \in Nat /\ MaxN \in Nat \ {0} /\ Interval \in Nat \ {0} /\ MaxCrashes \in Nat
  BY RunAssumption
<1>2. Iteration \subseteq Nat
  BY <1>1 DEF Iteration
<1>3. IsFiniteSet(Iteration)
  BY <1>1, FS_Interval DEF Iteration
<1>4. QED
  BY <1>1, <1>2, <1>3

LEMMA PairsFinite == /\ Pairs \subseteq Iteration /\ IsFiniteSet(Pairs)
                     /\ Cardinality(Pairs) \in Nat
<1>1. Pairs \subseteq Iteration
  BY DEF Pairs
<1>2. IsFiniteSet(Pairs)
  BY <1>1, Numbers, FS_Subset
<1>3. QED
  BY <1>1, <1>2, FS_CardinalityType

(* What detect_checkpoints makes of a directory. *)
LEMMA AscendingList ==
  ASSUME NEW S \in SUBSET Iteration, NEW s \in Ascending(S)
  PROVE  /\ s \in Seq(Iteration)
         /\ Len(s) = Cardinality(S)
         /\ DOMAIN s = 1 .. Len(s)
         /\ \A i, j \in DOMAIN s : (i <= j => s[i] <= s[j]) /\ (i < j => s[i] < s[j])
         /\ {s[k] : k \in DOMAIN s} = S
<1>1. IsFiniteSet(S) /\ Cardinality(S) \in Nat
  BY Numbers, FS_Subset, FS_CardinalityType
<1>2. s \in [1 .. Cardinality(S) -> S]
  BY DEF Ascending
<1>3. s \in [1 .. Cardinality(S) -> Iteration]
  BY <1>2
<1>4. s \in Seq(Iteration) /\ Len(s) = Cardinality(S) /\ DOMAIN s = 1 .. Len(s)
  BY <1>1, <1>3
<1>5. ASSUME NEW i \in DOMAIN s, NEW j \in DOMAIN s, i <= j
      PROVE  s[i] <= s[j]
  <2>1. i \in Nat /\ j \in Nat
    BY <1>1, <1>4
  <2>2. s[i] \in Nat /\ s[j] \in Nat
    BY <1>2, <1>5, Numbers
  <2>3. i < j => s[i] < s[j]
    BY DEF Ascending
  <2>4. QED
    BY <1>5, <2>1, <2>2, <2>3
<1>6. {s[k] : k \in DOMAIN s} = S
  BY <1>2 DEF Ascending
<1>7. QED
  BY <1>4, <1>5, <1>6 DEF Ascending

(* A list names at most as many iterations as it has entries. *)
LEMMA ListedSize ==
  ASSUME list \in Seq(Iteration)
  PROVE  /\ IsFiniteSet(Listed)
         /\ Cardinality(Listed) \in Nat
         /\ Cardinality(Listed) <= Len(list)
<1>1. Len(list) \in Nat /\ DOMAIN list = 1 .. Len(list) /\ list \in [1 .. Len(list) -> Iteration]
  OBVIOUS
<1>2. list \in Surjection(1 .. Len(list), Listed)
  BY <1>1 DEF Listed, Surjection
<1>3. IsFiniteSet(1 .. Len(list)) /\ Cardinality(1 .. Len(list)) = Len(list)
  BY <1>1, FS_Interval
<1>4. QED
  BY <1>2, <1>3, FS_Surjection, FS_CardinalityType

(* The directory holds no more than the list and the save in progress. *)
LEMMA PairsSize ==
  ASSUME list \in Seq(Iteration), Pairs \subseteq Listed \cup {iter}
  PROVE  Cardinality(Pairs) <= Len(list) + 1
<1>1. /\ IsFiniteSet(Listed \cup {iter})
      /\ Cardinality(Listed \cup {iter}) <= Cardinality(Listed) + 1
      /\ Cardinality(Listed \cup {iter}) \in Nat
  <2>1. IsFiniteSet(Listed) /\ Cardinality(Listed) \in Nat
    BY ListedSize
  <2>2. /\ IsFiniteSet(Listed \cup {iter})
        /\ Cardinality(Listed \cup {iter}) =
             IF iter \in Listed THEN Cardinality(Listed) ELSE Cardinality(Listed) + 1
    BY <2>1, FS_AddElement
  <2>3. QED
    BY <2>1, <2>2
<1>2. Cardinality(Pairs) <= Cardinality(Listed \cup {iter})
  BY <1>1, FS_Subset
<1>3. QED
  BY <1>1, <1>2, ListedSize, PairsFinite

LEMMA PairsSizeListed ==
  ASSUME list \in Seq(Iteration), Pairs \subseteq Listed
  PROVE  Cardinality(Pairs) <= Len(list)
<1>1. Cardinality(Pairs) <= Cardinality(Listed)
  BY ListedSize, FS_Subset
<1>2. QED
  BY <1>1, ListedSize, PairsFinite

-----------------------------------------------------------------------------
(* The steps *)

LEMMA InitInv == Init => IInv
<1> SUFFICES ASSUME Init PROVE IInv
  OBVIOUS
<1>1. TypeOK
  BY Numbers DEF Init, TypeOK, Places, Callers, Files, Iteration
<1>2. Pairs = {} /\ Complete = {}
  BY DEF Init, Pairs, Complete
<1>3. SizeBounded
  BY <1>2, FS_EmptySet, Numbers DEF Init, SizeBounded, Running
<1>4. Sorted /\ ListEndsAtIter /\ DiskIsListed /\ LoadedIsNewest /\ ScheduleFollows
  BY DEF Init, Sorted, ListEndsAtIter, DiskIsListed, LoadedIsNewest, ScheduleFollows,
         Running, BeforePush
<1>5. SavedIsKept
  BY <1>2 DEF Init, SavedIsKept
<1>6. QED
  BY <1>1, <1>3, <1>4, <1>5 DEF IInv

LEMMA SameFiles ==
  ASSUME UNCHANGED <<list, disk>>
  PROVE  /\ grid' = grid /\ data' = data /\ Pairs' = Pairs /\ Complete' = Complete /\ Listed' = Listed
         /\ Newest' = Newest /\ (Sorted /\ pc' # "load" => Sorted')
BY DEF disk, Pairs, Complete, Listed, Newest, Sorted

LEMMA DetectInv == IInv /\ Detect => IInv'
<1> SUFFICES ASSUME IInv, Detect PROVE IInv'
  OBVIOUS
<1> USE DEF IInv
<1>1. Pairs' = Pairs /\ Complete' = Complete /\ data' = data
  BY DEF Detect, disk, Pairs, Complete
<1>2. /\ list' \in Seq(Iteration)
      /\ Len(list') = Cardinality(Pairs)
      /\ DOMAIN list' = 1 .. Len(list')
      /\ \A i, j \in DOMAIN list' : /\ i <= j => list'[i] <= list'[j]
                                    /\ i < j => list'[i] < list'[j]
      /\ {list'[k] : k \in DOMAIN list'} = Pairs
  BY AscendingList, PairsFinite DEF Detect
<1>3. TypeOK'
  BY <1>2, Numbers DEF TypeOK, Detect, disk, Places, Callers, Iteration
<1>4. Sorted' /\ DiskIsListed'
  BY <1>1, <1>2 DEF Sorted, DiskIsListed, Listed, Detect, Running
<1>5. SizeBounded'
  BY <1>1, <1>2 DEF SizeBounded, Detect, Running
<1>6. SavedIsKept' /\ LoadedIsNewest' /\ ListEndsAtIter' /\ ScheduleFollows'
  BY <1>1 DEF SavedIsKept, LoadedIsNewest, ListEndsAtIter, ScheduleFollows, Detect, Running, BeforePush
<1>7. QED
  BY <1>3, <1>4, <1>5, <1>6

LEMMA FreshStartInv == IInv /\ FreshStart => IInv'
<1> SUFFICES ASSUME IInv, FreshStart PROVE IInv'
  OBVIOUS
<1> USE DEF IInv
<1>1. /\ Pairs' = Pairs /\ Complete' = Complete /\ Listed' = Listed /\ Sorted'
      /\ data' = data
  BY SameFiles DEF FreshStart
<1>2. TypeOK'
  BY DEF TypeOK, FreshStart, disk, Places
<1>3. DOMAIN list = {} /\ Pairs = {} /\ Complete = {}
  BY DEF FreshStart, DiskIsListed, Listed, Pairs, Complete
<1>4. saved = -1 /\ iter \in Nat /\ next \in Nat
  BY <1>3, Numbers DEF SavedIsKept, TypeOK
<1>5. DiskIsListed' /\ SizeBounded'
  BY <1>1, <1>3 DEF DiskIsListed, SizeBounded, FreshStart, Running
<1>6. ListEndsAtIter'
  BY <1>3, Numbers DEF ListEndsAtIter, FreshStart, Running, BeforePush, AfterPush, Copies
<1>9. SavedIsKept' /\ LoadedIsNewest'
  BY <1>1, <1>3, <1>4 DEF SavedIsKept, LoadedIsNewest, FreshStart, Running
<1>7. ScheduleFollows'
  BY <1>4, Numbers DEF ScheduleFollows, FreshStart, Running, BeforePush, LastSave
<1>8. QED
  BY <1>1, <1>2, <1>5, <1>6, <1>7, <1>9

LEMMA LoadInv == IInv /\ Load => IInv'
<1> SUFFICES ASSUME IInv, Load PROVE IInv'
  OBVIOUS
<1> USE DEF IInv
<1>1. /\ Pairs' = Pairs /\ Complete' = Complete /\ Listed' = Listed /\ Sorted'
      /\ data' = data
  BY SameFiles DEF Load
<1>2. /\ iter \in Nat /\ next \in Nat /\ Len(list) \in Nat /\ saved \in Int /\ crashes \in Nat
      /\ \A k \in DOMAIN list : list[k] \in Nat /\ k \in Nat
  BY Numbers DEF TypeOK
<1>3. Newest \in Iteration /\ Newest \in Nat /\ Newest = list[Len(list)] /\ Len(list) \in DOMAIN list
  <2>1. list \in Seq(Iteration) /\ list # <<>>
    BY DEF TypeOK, Load
  <2>2. Len(list) \in DOMAIN list /\ list[Len(list)] \in Iteration
    BY <2>1
  <2>3. QED
    BY <2>2, Numbers DEF Newest
<1>4. iter' = Newest /\ next' = Interval + Newest /\ next' \in Nat
  BY <1>3, Numbers DEF Load, ScheduleFollows
<1>5. TypeOK'
  BY <1>3, <1>4 DEF TypeOK, Load, disk, Places
<1>6. ListEndsAtIter'
  <2>1. \A k \in DOMAIN list : list[k] <= Newest
    BY <1>2, <1>3 DEF Sorted, TypeOK
  <2>2. ASSUME NEW k \in DOMAIN list, k <= Len(list) - 1
        PROVE  list[k] < Newest
    <3>1. k \in Nat /\ k < Len(list)
      BY <1>2, <2>2
    <3>2. QED
      BY <1>2, <1>3, <3>1 DEF Sorted, Load
  <2>3. QED
    BY <1>4, <2>1, <2>2 DEF ListEndsAtIter, Copies, Load, BeforePush, AfterPush
<1>7. DiskIsListed' /\ SizeBounded'
  BY <1>1, <1>2 DEF DiskIsListed, SizeBounded, Load, Running, BeforePush
<1>8. saved <= Newest /\ Newest <= saved
  <2>1. saved # -1 => \E k \in DOMAIN list : list[k] = saved
    BY DEF SavedIsKept, Load, DiskIsListed, Listed
  <2>2. saved <= Newest
    BY <1>2, <1>3, <2>1 DEF Sorted, TypeOK
  <2>3. data[Newest] = "whole"
    BY DEF Load, Complete
  <2>4. QED
    BY <1>3, <2>2, <2>3 DEF SavedIsKept
<1>9. SavedIsKept' /\ LoadedIsNewest'
  BY <1>1, <1>2, <1>3, <1>4, <1>8 DEF SavedIsKept, LoadedIsNewest, Load
<1>10. ScheduleFollows'
  <2>1. saved = Newest /\ saved # -1 /\ iter' <= next'
    BY <1>2, <1>3, <1>4, <1>8, Numbers
  <2>2. saved' = saved /\ pc' = "up"
    BY DEF Load
  <2>3. LastSave' = Newest
    BY <2>1, <2>2 DEF LastSave
  <2>4. next' <= Newest + Interval
    BY <1>3, <1>4, Numbers
  <2>5. QED
    BY <2>1, <2>2, <2>3, <2>4 DEF ScheduleFollows, BeforePush
<1>11. QED
  BY <1>1, <1>5, <1>6, <1>7, <1>9, <1>10

LEMMA LoadFailsInv == IInv /\ LoadFails => IInv'
<1> SUFFICES ASSUME IInv, LoadFails PROVE IInv'
  OBVIOUS
<1> USE DEF IInv
<1>1. /\ Pairs' = Pairs /\ Complete' = Complete /\ Listed' = Listed /\ Sorted'
      /\ data' = data
  BY SameFiles DEF LoadFails
<1>2. /\ iter \in Nat /\ next \in Nat /\ Len(list) \in Nat /\ saved \in Int /\ crashes \in Nat
      /\ \A k \in DOMAIN list : list[k] \in Nat /\ k \in Nat
  BY Numbers DEF TypeOK
<1>3. TypeOK'
  BY DEF TypeOK, LoadFails, disk, Places
<1>4. Cardinality(Pairs) <= MaxN + crashes
  <2>1. Len(list) <= MaxN + crashes /\ Pairs \subseteq Listed /\ list \in Seq(Iteration)
    BY DEF LoadFails, SizeBounded, DiskIsListed, TypeOK
  <2>2. QED
    BY <1>2, <2>1, PairsSizeListed, PairsFinite, Numbers
<1>5. SizeBounded'
  BY <1>1, <1>4 DEF SizeBounded, LoadFails, Running
<1>6. ListEndsAtIter' /\ DiskIsListed' /\ SavedIsKept' /\ LoadedIsNewest' /\ ScheduleFollows'
  BY <1>1 DEF ListEndsAtIter, DiskIsListed, SavedIsKept, LoadedIsNewest, ScheduleFollows,
              LoadFails, Running, BeforePush
<1>7. QED
  BY <1>1, <1>3, <1>5, <1>6

LEMMA StartupSaveInv == IInv /\ StartupSave => IInv'
<1> SUFFICES ASSUME IInv, StartupSave PROVE IInv'
  OBVIOUS
<1> USE DEF IInv
<1>1. /\ Pairs' = Pairs /\ Complete' = Complete /\ Listed' = Listed /\ Sorted'
      /\ data' = data
  BY SameFiles DEF StartupSave
<1>2. /\ iter \in Nat /\ next \in Nat /\ Len(list) \in Nat /\ saved \in Int /\ crashes \in Nat
      /\ \A k \in DOMAIN list : list[k] \in Nat /\ k \in Nat
  BY Numbers DEF TypeOK
<1>3. TypeOK' /\ pc' \in {"create grid", "loop"} /\ caller' = "startup"
  BY DEF TypeOK, StartupSave, disk, Places, Callers
<1>4. ListEndsAtIter'
  <2>1. Copies(1) /\ \A k \in DOMAIN list : list[k] <= iter
    BY DEF ListEndsAtIter, StartupSave, Running
  <2>4. Copies(1) => Copies(2)
    BY <1>2 DEF Copies
  <2>2. UNCHANGED <<list, iter>>
    BY DEF StartupSave
  <2>3. QED
    BY <1>3, <2>1, <2>2, <2>4 DEF ListEndsAtIter, Copies, BeforePush, AfterPush
<1>5. DiskIsListed' /\ SizeBounded'
  BY <1>1, <1>3 DEF DiskIsListed, SizeBounded, StartupSave, Running, BeforePush
<1>6. SavedIsKept' /\ LoadedIsNewest'
  BY <1>1, <1>3 DEF SavedIsKept, LoadedIsNewest, StartupSave, Running
<1>7. ScheduleFollows'
  <2>1. LastSave' = LastSave /\ next' = next /\ iter' = iter
    BY DEF LastSave, StartupSave
  <2>2. next <= LastSave + Interval /\ (Kind = "iteration" => iter <= next)
    BY DEF ScheduleFollows, StartupSave, Running
  <2>3. iter <= next => iter <= next + 1
    BY <1>2
  <2>4. QED
    BY <1>3, <2>1, <2>2, <2>3 DEF ScheduleFollows, BeforePush
<1>8. QED
  BY <1>1, <1>3, <1>4, <1>5, <1>6, <1>7

LEMMA AdvanceInv == IInv /\ Advance => IInv'
<1> SUFFICES ASSUME IInv, Advance PROVE IInv'
  OBVIOUS
<1> USE DEF IInv
<1>1. /\ Pairs' = Pairs /\ Complete' = Complete /\ Listed' = Listed /\ Sorted'
      /\ data' = data
  BY SameFiles DEF Advance
<1>2. /\ iter \in Nat /\ next \in Nat /\ Len(list) \in Nat /\ saved \in Int /\ crashes \in Nat
      /\ \A k \in DOMAIN list : list[k] \in Nat /\ k \in Nat
  BY Numbers DEF TypeOK
<1>3. TypeOK'
  <2>1. iter + 1 \in Iteration
    BY <1>2, Numbers DEF Advance, Iteration
  <2>2. QED
    BY <2>1 DEF TypeOK, Advance, disk, Places
<1>4. ListEndsAtIter'
  <2>1. \A k \in DOMAIN list : list[k] < iter + 1
    BY <1>2 DEF ListEndsAtIter, Advance, Running
  <2>2. QED
    BY <1>2, <2>1 DEF ListEndsAtIter, Advance, Copies, BeforePush, AfterPush
<1>5. DiskIsListed' /\ SizeBounded'
  BY <1>1 DEF DiskIsListed, SizeBounded, Advance, Running, BeforePush
<1>6. SavedIsKept' /\ LoadedIsNewest'
  <2>1. saved <= iter
    BY DEF LoadedIsNewest, Advance, Running
  <2>2. QED
    BY <1>1, <1>2, <2>1 DEF SavedIsKept, LoadedIsNewest, Advance, Running
<1>7. ScheduleFollows'
  BY <1>2, Numbers DEF ScheduleFollows, Advance, Running, BeforePush, LastSave
<1>8. QED
  BY <1>1, <1>3, <1>4, <1>5, <1>6, <1>7

LEMMA CheckDueInv == IInv /\ CheckDue => IInv'
<1> SUFFICES ASSUME IInv, CheckDue PROVE IInv'
  OBVIOUS
<1> USE DEF IInv
<1>1. /\ Pairs' = Pairs /\ Complete' = Complete /\ Listed' = Listed /\ Sorted'
      /\ data' = data
  BY SameFiles DEF CheckDue
<1>2. /\ iter \in Nat /\ next \in Nat /\ Len(list) \in Nat /\ saved \in Int /\ crashes \in Nat
      /\ \A k \in DOMAIN list : list[k] \in Nat /\ k \in Nat
  BY Numbers DEF TypeOK
<1>3. TypeOK' /\ pc' \in {"create grid", "loop"} /\ caller' = "loop"
  BY DEF TypeOK, CheckDue, disk, Places, Callers
<1>4. UNCHANGED <<iter, next, list, crashes, saved>>
  BY DEF CheckDue
<1>5. ListEndsAtIter'
  <2>1. Copies(0) /\ \A k \in DOMAIN list : list[k] <= iter
    BY DEF ListEndsAtIter, CheckDue, Running
  <2>2. Copies(0) => Copies(2)
    BY <1>2 DEF Copies
  <2>3. QED
    BY <1>3, <1>4, <2>1, <2>2 DEF ListEndsAtIter, Copies, BeforePush, AfterPush
<1>6. DiskIsListed' /\ SizeBounded'
  BY <1>1, <1>3, <1>4 DEF DiskIsListed, SizeBounded, CheckDue, Running, BeforePush
<1>7. SavedIsKept' /\ LoadedIsNewest'
  BY <1>1, <1>3, <1>4 DEF SavedIsKept, LoadedIsNewest, CheckDue, Running
<1>8. ScheduleFollows'
  <2>1. LastSave' = LastSave
    BY <1>4 DEF LastSave
  <2>2. next <= LastSave + Interval /\ (Kind = "iteration" => iter <= next + 1)
    BY DEF ScheduleFollows, CheckDue, Running
  <2>3. pc' = "loop" /\ Kind = "iteration" => iter <= next
    <3>1. Kind = "iteration" => (pc' = IF iter > next THEN "create grid" ELSE "loop")
      BY DEF CheckDue, Due
    <3>2. QED
      BY <1>2, <3>1
  <2>4. QED
    BY <1>3, <1>4, <2>1, <2>2, <2>3 DEF ScheduleFollows, BeforePush
<1>9. QED
  BY <1>1, <1>3, <1>5, <1>6, <1>7, <1>8

LEMMA TerminateInv == IInv /\ Terminate => IInv'
<1> SUFFICES ASSUME IInv, Terminate PROVE IInv'
  OBVIOUS
<1> USE DEF IInv
<1>1. /\ Pairs' = Pairs /\ Complete' = Complete /\ Listed' = Listed /\ Sorted'
      /\ data' = data
  BY SameFiles DEF Terminate
<1>2. /\ iter \in Nat /\ next \in Nat /\ Len(list) \in Nat /\ saved \in Int /\ crashes \in Nat
      /\ \A k \in DOMAIN list : list[k] \in Nat /\ k \in Nat
  BY Numbers DEF TypeOK
<1>3. TypeOK' /\ pc' \in {"create grid", "down"} /\ caller' = "exit"
  BY DEF TypeOK, Terminate, disk, Places, Callers
<1>4. UNCHANGED <<iter, next, list, crashes, saved>>
  BY DEF Terminate
<1>5. ListEndsAtIter'
  BY <1>3, <1>4 DEF ListEndsAtIter, Terminate, Copies, Running, BeforePush, AfterPush
<1>6. Pairs \subseteq Listed /\ Len(list) <= MaxN + crashes
  BY DEF DiskIsListed, SizeBounded, Terminate, Running, BeforePush
<1>7. Cardinality(Pairs) <= MaxN + crashes
  <2>1. Cardinality(Pairs) <= Len(list)
    BY <1>6, PairsSizeListed DEF TypeOK
  <2>2. QED
    BY <1>2, <1>6, <2>1, PairsFinite, Numbers
<1>8. DiskIsListed' /\ SizeBounded'
  BY <1>1, <1>3, <1>4, <1>6, <1>7 DEF DiskIsListed, SizeBounded, Running, BeforePush
<1>9. SavedIsKept' /\ LoadedIsNewest'
  BY <1>1, <1>3, <1>4 DEF SavedIsKept, LoadedIsNewest, Terminate, Running
<1>10. ScheduleFollows'
  <2>1. LastSave' = LastSave
    BY <1>4 DEF LastSave
  <2>2. next <= LastSave + Interval /\ (Kind = "iteration" => iter <= next)
    BY DEF ScheduleFollows, Terminate, Running
  <2>3. iter <= next => iter <= next + 1
    BY <1>2
  <2>4. QED
    BY <1>3, <1>4, <2>1, <2>2, <2>3 DEF ScheduleFollows, BeforePush, Running
<1>11. QED
  BY <1>1, <1>3, <1>5, <1>8, <1>9, <1>10

LEMMA RescheduleInv == IInv /\ Reschedule => IInv'
<1> SUFFICES ASSUME IInv, Reschedule PROVE IInv'
  OBVIOUS
<1> USE DEF IInv
<1>1. /\ Pairs' = Pairs /\ Complete' = Complete /\ Listed' = Listed /\ Sorted'
      /\ data' = data
  BY SameFiles DEF Reschedule
<1>2. /\ iter \in Nat /\ next \in Nat /\ Len(list) \in Nat /\ saved \in Int /\ crashes \in Nat
      /\ \A k \in DOMAIN list : list[k] \in Nat /\ k \in Nat
  BY Numbers DEF TypeOK
<1>3. TypeOK' /\ pc' \in {"loop", "down"} /\ (pc' = "loop" <=> caller # "exit")
  BY <1>2, Numbers DEF TypeOK, Reschedule, disk, Places, Callers
<1>4. UNCHANGED <<caller, iter, list, crashes, saved>> /\ next' = iter + Interval
  BY DEF Reschedule
<1>5. ListEndsAtIter'
  BY <1>3, <1>4 DEF ListEndsAtIter, Reschedule, Copies, Running, BeforePush, AfterPush
<1>6. Pairs \subseteq Listed /\ Len(list) <= MaxN + crashes
  BY DEF DiskIsListed, SizeBounded, Reschedule, Running, BeforePush
<1>7. Cardinality(Pairs) <= MaxN + crashes
  <2>1. Cardinality(Pairs) <= Len(list)
    BY <1>6, PairsSizeListed DEF TypeOK
  <2>2. QED
    BY <1>2, <1>6, <2>1, PairsFinite, Numbers
<1>8. DiskIsListed' /\ SizeBounded'
  BY <1>1, <1>3, <1>4, <1>6, <1>7 DEF DiskIsListed, SizeBounded, Running, BeforePush
<1>9. SavedIsKept' /\ LoadedIsNewest'
  BY <1>1, <1>3, <1>4 DEF SavedIsKept, LoadedIsNewest, Reschedule, Running
<1>10. ScheduleFollows'
  <2>1. LastSave' = iter
    BY <1>2, <1>4 DEF LastSave, Reschedule, SavedIsKept
  <2>2. iter <= iter + Interval
    BY <1>2, Numbers
  <2>3. iter + Interval <= iter + Interval
    BY <1>2, Numbers
  <2>4. QED
    BY <1>3, <1>4, <2>1, <2>2, <2>3 DEF ScheduleFollows, BeforePush
<1>11. QED
  BY <1>1, <1>3, <1>5, <1>8, <1>9, <1>10

LEMMA CrashInv == IInv /\ Crash => IInv'
<1> SUFFICES ASSUME IInv, Crash PROVE IInv'
  OBVIOUS
<1> USE DEF IInv
<1>1. /\ Pairs' = Pairs /\ Complete' = Complete /\ Listed' = Listed /\ Sorted'
      /\ data' = data
  BY SameFiles DEF Crash
<1>2. /\ iter \in Nat /\ next \in Nat /\ Len(list) \in Nat /\ saved \in Int /\ crashes \in Nat
      /\ \A k \in DOMAIN list : list[k] \in Nat /\ k \in Nat
  BY Numbers DEF TypeOK
<1>3. TypeOK' /\ pc' = "down"
  <2>1. crashes + 1 \in 0 .. MaxCrashes
    BY Numbers DEF TypeOK, Crash
  <2>2. QED
    BY <2>1 DEF TypeOK, Crash, disk, Places
<1>4. UNCHANGED <<caller, iter, next, list, saved>> /\ crashes' = crashes + 1
  BY DEF Crash
<1>5. list \in Seq(Iteration) /\ Cardinality(Pairs) \in Nat
  BY PairsFinite DEF TypeOK
<1>6. Cardinality(Pairs) <= MaxN + crashes + 1
  <2>1. CASE pc = "load"
    <3>1. Pairs \subseteq Listed /\ Len(list) <= MaxN + crashes
      BY <2>1 DEF DiskIsListed, SizeBounded
    <3>2. QED
      BY <1>2, <1>5, <3>1, PairsSizeListed, Numbers
  <2>2. CASE Running /\ pc \in {"remove grid", "remove data"}
    <3>1. Pairs \subseteq Listed /\ Len(list) <= MaxN + crashes + 1
      BY <2>2 DEF DiskIsListed, SizeBounded, BeforePush
    <3>2. QED
      BY <1>2, <1>5, <3>1, PairsSizeListed, Numbers
  <2>3. CASE Running /\ pc \notin {"remove grid", "remove data"}
    <3>1. Pairs \subseteq Listed \cup {iter} /\ Len(list) <= MaxN + crashes
      BY <2>3 DEF DiskIsListed, SizeBounded
    <3>2. QED
      BY <1>2, <1>5, <3>1, PairsSize, Numbers
  <2>4. QED
    BY <2>1, <2>2, <2>3 DEF Crash, Running
<1>7. SizeBounded'
  <2>1. Cardinality(Pairs) <= MaxN + crashes'
    BY <1>2, <1>4, <1>5, <1>6, Numbers
  <2>2. QED
    BY <1>1, <1>3, <2>1 DEF SizeBounded, Running
<1>8. ListEndsAtIter' /\ DiskIsListed' /\ LoadedIsNewest' /\ ScheduleFollows'
  BY <1>3 DEF ListEndsAtIter, DiskIsListed, LoadedIsNewest, ScheduleFollows, Running, BeforePush
<1>9. SavedIsKept'
  BY <1>1, <1>3, <1>4 DEF SavedIsKept
<1>10. QED
  BY <1>1, <1>3, <1>7, <1>8, <1>9

(* Writing the two files of iter. *)
LEMMA IfMax ==
  ASSUME NEW a \in Int, NEW b \in Int, b <= a
  PROVE  (IF a > b THEN a ELSE b) = a
OBVIOUS

LEMMA CreateGridInv == IInv /\ CreateGrid => IInv'
<1> SUFFICES ASSUME IInv, CreateGrid PROVE IInv'
  OBVIOUS
<1> USE DEF IInv
<1>2. /\ iter \in Nat /\ next \in Nat /\ Len(list) \in Nat /\ saved \in Int /\ crashes \in Nat
      /\ \A k \in DOMAIN list : list[k] \in Nat /\ k \in Nat
  BY Numbers DEF TypeOK
<1>3. TypeOK' /\ pc = "create grid" /\ pc' = "close grid"
  BY DEF TypeOK, CreateGrid, Places, Files
<1>4. UNCHANGED <<caller, iter, next, list, crashes, saved>> /\ data' = data
  BY DEF CreateGrid
<1>5. grid' = [grid EXCEPT ![iter] = "torn"] /\ iter \in Iteration /\ grid \in [Iteration -> Files]
  BY DEF CreateGrid, TypeOK
<1>6. Pairs \subseteq Pairs' /\ Pairs' \subseteq Pairs \cup {iter} /\ Listed' = Listed
  BY <1>4, <1>5 DEF Pairs, Listed
<1>7. Sorted' /\ ListEndsAtIter'
  BY <1>3, <1>4 DEF Sorted, ListEndsAtIter, Copies, Running, BeforePush, AfterPush
<1>8. DiskIsListed' /\ SizeBounded'
  BY <1>3, <1>4, <1>6 DEF DiskIsListed, SizeBounded, Running, BeforePush
<1>9. SavedIsKept' /\ LoadedIsNewest'
  BY <1>3, <1>4, <1>5, <1>6 DEF SavedIsKept, LoadedIsNewest, Running
<1>10. ScheduleFollows'
  <2>1. LastSave' = LastSave
    BY <1>4 DEF LastSave
  <2>2. QED
    BY <1>3, <1>4, <2>1 DEF ScheduleFollows, Running, BeforePush
<1>12. QED
  BY <1>3, <1>7, <1>8, <1>9, <1>10

LEMMA CloseGridInv == IInv /\ CloseGrid => IInv'
<1> SUFFICES ASSUME IInv, CloseGrid PROVE IInv'
  OBVIOUS
<1> USE DEF IInv
<1>2. /\ iter \in Nat /\ next \in Nat /\ Len(list) \in Nat /\ saved \in Int /\ crashes \in Nat
      /\ \A k \in DOMAIN list : list[k] \in Nat /\ k \in Nat
  BY Numbers DEF TypeOK
<1>3. TypeOK' /\ pc = "close grid" /\ pc' = "create data"
  BY DEF TypeOK, CloseGrid, Places, Files
<1>4. UNCHANGED <<caller, iter, next, list, crashes, saved>> /\ data' = data
  BY DEF CloseGrid
<1>5. grid' = [grid EXCEPT ![iter] = "whole"] /\ iter \in Iteration /\ grid \in [Iteration -> Files]
  BY DEF CloseGrid, TypeOK
<1>6. Pairs \subseteq Pairs' /\ Pairs' \subseteq Pairs \cup {iter} /\ Listed' = Listed
  BY <1>4, <1>5 DEF Pairs, Listed
<1>7. Sorted' /\ ListEndsAtIter'
  BY <1>3, <1>4 DEF Sorted, ListEndsAtIter, Copies, Running, BeforePush, AfterPush
<1>8. DiskIsListed' /\ SizeBounded'
  BY <1>3, <1>4, <1>6 DEF DiskIsListed, SizeBounded, Running, BeforePush
<1>9. SavedIsKept' /\ LoadedIsNewest'
  BY <1>3, <1>4, <1>5, <1>6 DEF SavedIsKept, LoadedIsNewest, Running
<1>10. ScheduleFollows'
  <2>1. LastSave' = LastSave
    BY <1>4 DEF LastSave
  <2>2. QED
    BY <1>3, <1>4, <2>1 DEF ScheduleFollows, Running, BeforePush
<1>12. QED
  BY <1>3, <1>7, <1>8, <1>9, <1>10

LEMMA CreateDataInv == IInv /\ CreateData => IInv'
<1> SUFFICES ASSUME IInv, CreateData PROVE IInv'
  OBVIOUS
<1> USE DEF IInv
<1>2. /\ iter \in Nat /\ next \in Nat /\ Len(list) \in Nat /\ saved \in Int /\ crashes \in Nat
      /\ \A k \in DOMAIN list : list[k] \in Nat /\ k \in Nat
  BY Numbers DEF TypeOK
<1>3. TypeOK' /\ pc = "create data" /\ pc' = "close data"
  BY DEF TypeOK, CreateData, Places, Files
<1>4. UNCHANGED <<caller, iter, next, list, crashes, saved>> /\ grid' = grid
  BY DEF CreateData
<1>5. data' = [data EXCEPT ![iter] = "torn"] /\ iter \in Iteration /\ data \in [Iteration -> Files]
  BY DEF CreateData, TypeOK
<1>6. Pairs \subseteq Pairs' /\ Pairs' \subseteq Pairs \cup {iter} /\ Listed' = Listed
  BY <1>4, <1>5 DEF Pairs, Listed
<1>7. Sorted' /\ ListEndsAtIter'
  BY <1>3, <1>4 DEF Sorted, ListEndsAtIter, Copies, Running, BeforePush, AfterPush
<1>8. DiskIsListed' /\ SizeBounded'
  BY <1>3, <1>4, <1>6 DEF DiskIsListed, SizeBounded, Running, BeforePush
<1>9. SavedIsKept' /\ LoadedIsNewest'
  BY <1>3, <1>4, <1>5, <1>6 DEF SavedIsKept, LoadedIsNewest, Running
<1>10. ScheduleFollows'
  <2>1. LastSave' = LastSave
    BY <1>4 DEF LastSave
  <2>2. QED
    BY <1>3, <1>4, <2>1 DEF ScheduleFollows, Running, BeforePush
<1>12. QED
  BY <1>3, <1>7, <1>8, <1>9, <1>10

LEMMA CloseDataInv == IInv /\ CloseData => IInv'
<1> SUFFICES ASSUME IInv, CloseData PROVE IInv'
  OBVIOUS
<1> USE DEF IInv
<1>2. /\ iter \in Nat /\ next \in Nat /\ Len(list) \in Nat /\ saved \in Int /\ crashes \in Nat
      /\ \A k \in DOMAIN list : list[k] \in Nat /\ k \in Nat
  BY Numbers DEF TypeOK
<1>3. TypeOK' /\ pc = "close data" /\ pc' = "push"
  BY DEF TypeOK, CloseData, Places, Files
<1>4. UNCHANGED <<caller, iter, next, list, crashes>> /\ grid' = grid
  BY DEF CloseData
<1>5. data' = [data EXCEPT ![iter] = "whole"] /\ iter \in Iteration /\ data \in [Iteration -> Files]
  BY DEF CloseData, TypeOK
<1>6. Pairs \subseteq Pairs' /\ Pairs' \subseteq Pairs \cup {iter} /\ Listed' = Listed
  BY <1>4, <1>5 DEF Pairs, Listed
<1>7. Sorted' /\ ListEndsAtIter'
  BY <1>3, <1>4 DEF Sorted, ListEndsAtIter, Copies, Running, BeforePush, AfterPush
<1>8. DiskIsListed' /\ SizeBounded'
  BY <1>3, <1>4, <1>6 DEF DiskIsListed, SizeBounded, Running, BeforePush
<1>9. saved <= iter /\ saved' = iter
  <2>1. saved <= iter
    BY <1>3 DEF LoadedIsNewest, Running
  <2>2. QED
    <3>1. (IF iter > saved THEN iter ELSE saved) = iter
      BY <1>2, <2>1, IfMax
    <3>2. QED
      BY <2>1, <3>1 DEF CloseData
<1>10. SavedIsKept' /\ LoadedIsNewest'
  <2>1. iter \in Pairs'
    <3>1. grid[iter] # "absent"
      BY <1>3 DEF SavedIsKept
    <3>2. QED
      BY <1>4, <1>5, <3>1 DEF Pairs
  <2>2. ASSUME NEW i \in Iteration, data'[i] = "whole"
        PROVE  i <= iter
    <3>1. i # iter => data[i] = "whole"
      BY <1>5, <2>2
    <3>2. i # iter => i <= saved
      BY <3>1 DEF SavedIsKept
    <3>3. i \in Nat
      BY Numbers
    <3>4. QED
      BY <1>2, <1>9, <3>2, <3>3
  <2>3. QED
    <3>0. iter <= iter
      BY <1>2
    <3>1. saved' = iter /\ iter' = iter /\ pc' = "push" /\ iter <= iter
      BY <1>3, <1>4, <1>9, <3>0
    <3>2. LoadedIsNewest'
      BY <3>1 DEF LoadedIsNewest
    <3>3. SavedIsKept'
      BY <2>1, <2>2, <3>1 DEF SavedIsKept
    <3>4. QED
      BY <3>2, <3>3
<1>11. ScheduleFollows'
  <2>1. LastSave' = iter /\ LastSave <= iter
    BY <1>2, <1>9 DEF LastSave
  <2>2. next <= iter + Interval
    <3>1. next <= LastSave + Interval
      BY <1>3 DEF ScheduleFollows, Running
    <3>2. LastSave \in Int
      BY <1>2 DEF LastSave
    <3>3. QED
      BY <1>2, <2>1, <3>1, <3>2, Numbers
  <2>3. QED
    BY <1>3, <1>4, <2>1, <2>2 DEF ScheduleFollows, Running, BeforePush
<1>12. QED
  BY <1>3, <1>7, <1>8, <1>9, <1>10, <1>11

LEMMA AppendFacts ==
  ASSUME NEW S, NEW q \in Seq(S), NEW x \in S
  PROVE  /\ Append(q, x) \in Seq(S) /\ Len(Append(q, x)) = Len(q) + 1
         /\ DOMAIN Append(q, x) = DOMAIN q \cup {Len(q) + 1}
         /\ Append(q, x)[Len(q) + 1] = x
         /\ \A k \in DOMAIN q : Append(q, x)[k] = q[k]
OBVIOUS

LEMMA PushInv == IInv /\ Push => IInv'
<1> SUFFICES ASSUME IInv, Push PROVE IInv'
  OBVIOUS
<1> USE DEF IInv
<1>2. /\ iter \in Nat /\ next \in Nat /\ Len(list) \in Nat /\ saved \in Int /\ crashes \in Nat
      /\ \A k \in DOMAIN list : list[k] \in Nat /\ k \in Nat
  BY Numbers DEF TypeOK
<1>3. iter \in Iteration /\ list \in Seq(Iteration) /\ pc = "push" /\ list' = Append(list, iter)
  BY DEF Push, TypeOK
<1>4. UNCHANGED <<caller, iter, next, disk, crashes, saved>>
  BY DEF Push
<1>5. /\ list' \in Seq(Iteration) /\ Len(list') = Len(list) + 1
      /\ DOMAIN list' = DOMAIN list \cup {Len(list) + 1}
      /\ list'[Len(list) + 1] = iter
      /\ \A k \in DOMAIN list : list'[k] = list[k]
  BY <1>3, AppendFacts
<1>6. pc' \in {"remove grid", "reschedule"} /\ (pc' = "remove grid" <=> Len(list) + 1 > MaxN)
  BY <1>5 DEF Push
<1>7. TypeOK'
  BY <1>4, <1>5, <1>6 DEF TypeOK, disk, Places
<1>8. \A k \in DOMAIN list : list[k] <= iter
  BY <1>3 DEF ListEndsAtIter, Running
<1>9. Sorted'
  <2> SUFFICES ASSUME NEW i \in DOMAIN list', NEW j \in DOMAIN list', i <= j
               PROVE  list'[i] <= list'[j]
    BY <1>6 DEF Sorted
  <2>1. CASE i \in DOMAIN list /\ j \in DOMAIN list
    BY <1>5, <2>1 DEF Sorted
  <2>2. CASE i \in DOMAIN list /\ j = Len(list) + 1
    BY <1>5, <1>8, <2>2
  <2>3. CASE i = Len(list) + 1 /\ j \in DOMAIN list
    <3>1. j \in 1 .. Len(list)
      BY <1>3, <2>3
    <3>2. QED
      BY <1>2, <2>3, <3>1
  <2>4. CASE i = Len(list) + 1 /\ j = Len(list) + 1
    BY <1>2, <1>5, <2>4
  <2>5. QED
    BY <1>5, <2>1, <2>2, <2>3, <2>4
<1>10. ListEndsAtIter'
  <2>1. \A k \in DOMAIN list' : list'[k] <= iter'
    BY <1>2, <1>4, <1>5, <1>8
  <2>2. ASSUME NEW n \in {0, 1, 2}, Copies(n)
        PROVE  Copies(n + 1)'
    <3> SUFFICES ASSUME NEW k \in DOMAIN list', k <= Len(list') - (n + 1)
                 PROVE  list'[k] < iter'
      BY DEF Copies
    <3>1. DOMAIN list = 1 .. Len(list)
      BY <1>3
    <3>2. k \in DOMAIN list /\ k <= Len(list) - n
      BY <1>2, <1>5, <3>1
    <3>3. QED
      BY <1>4, <1>5, <2>2, <3>2 DEF Copies
  <2>3. /\ caller = "startup" => Copies(1)
        /\ caller = "loop" => Copies(0)
        /\ caller = "exit" => Copies(2)
        /\ caller \in {"startup", "loop", "exit"}
    BY <1>3 DEF ListEndsAtIter, Running, BeforePush, TypeOK, Callers
  <2>4. Copies(1)' => Copies(2)'
    <3>1. \A k \in DOMAIN list' : k \in Nat
      BY <1>5
    <3>2. Len(list') \in Nat
      BY <1>5
    <3>3. QED
      BY <3>1, <3>2 DEF Copies
  <2>5. (caller = "startup" => Copies(2)') /\ (caller = "loop" => Copies(1)') /\ (caller = "exit" => Copies(3)')
    <3>1. (caller = "startup" => Copies(1 + 1)') /\ (caller = "loop" => Copies(0 + 1)') /\ (caller = "exit" => Copies(2 + 1)')
      BY <2>2, <2>3
    <3>2. QED
      BY <3>1
  <2>6. caller' = caller
    BY <1>4
  <2>7. QED
    BY <1>6, <2>1, <2>3, <2>4, <2>5, <2>6 DEF ListEndsAtIter, BeforePush, AfterPush
<1>11. Pairs' = Pairs /\ data' = data /\ Listed \cup {iter} \subseteq Listed'
  <2>1. Pairs' = Pairs /\ data' = data
    BY <1>4 DEF Pairs, disk
  <2>2. Listed \cup {iter} \subseteq Listed'
    BY <1>5 DEF Listed
  <2>3. QED
    BY <2>1, <2>2
<1>12. DiskIsListed'
  BY <1>3, <1>4, <1>6, <1>11 DEF DiskIsListed, Running, BeforePush
<1>13. SizeBounded'
  <2>1. Len(list) <= MaxN + crashes
    BY <1>3 DEF SizeBounded, Running
  <2>2. Len(list) + 1 <= MaxN + crashes + 1 /\ (~(Len(list) + 1 > MaxN) => Len(list) + 1 <= MaxN + crashes)
    BY <1>2, <2>1, Numbers
  <2>3. QED
    BY <1>4, <1>5, <1>6, <2>2 DEF SizeBounded, Running
<1>14. SavedIsKept' /\ LoadedIsNewest' /\ ScheduleFollows'
  <2>1. LastSave' = LastSave
    BY <1>4 DEF LastSave
  <2>2. QED
    BY <1>3, <1>4, <1>6, <1>11, <2>1 DEF SavedIsKept, LoadedIsNewest, ScheduleFollows, Running, BeforePush
<1>15. QED
  BY <1>7, <1>9, <1>10, <1>12, <1>13, <1>14

(* The entry the rotation removes is older than the one just written. *)
LEMMA FourthEntry ==
  ASSUME NEW S, NEW q \in Seq(S), NEW n \in Nat, n >= 3, Len(q) > n
  PROVE  /\ Len(q) - 3 >= 1 /\ Len(q) - 2 >= 1 /\ 1 \in DOMAIN q /\ q # <<>>
         /\ Head(q) = q[1] /\ q[1] \in S
OBVIOUS

LEMMA FrontIsOlder ==
  ASSUME IInv, MaxN >= 3, pc \in {"remove grid", "remove data"}
  PROVE  /\ list # <<>> /\ Head(list) = list[1] /\ 1 \in DOMAIN list
         /\ Head(list) \in Iteration /\ Head(list) < iter /\ saved = iter
<1>1. list \in Seq(Iteration) /\ MaxN \in Nat
  BY Numbers DEF IInv, TypeOK
<1>2. Len(list) > MaxN
  BY DEF IInv, SizeBounded
<1>3. /\ Len(list) - 3 >= 1 /\ Len(list) - 2 >= 1 /\ 1 \in DOMAIN list /\ list # <<>>
      /\ Head(list) = list[1] /\ list[1] \in Iteration
  BY <1>1, <1>2, FourthEntry
<1>4. Copies(3) \/ Copies(2)
  BY DEF IInv, ListEndsAtIter, Running, AfterPush
<1>5. list[1] < iter
  <2>1. 1 <= Len(list) - 3 /\ 1 <= Len(list) - 2
    BY <1>3
  <2>2. QED
    BY <1>3, <1>4, <2>1 DEF Copies
<1>6. saved = iter
  BY DEF IInv, SavedIsKept
<1>7. QED
  BY <1>3, <1>5, <1>6

LEMMA RemoveGridInv == MaxN >= 3 /\ IInv /\ RemoveGrid => IInv'
<1> SUFFICES ASSUME MaxN >= 3, IInv, RemoveGrid PROVE IInv'
  OBVIOUS
<1> USE DEF IInv
<1>2. /\ iter \in Nat /\ next \in Nat /\ Len(list) \in Nat /\ saved \in Int /\ crashes \in Nat
      /\ \A k \in DOMAIN list : list[k] \in Nat /\ k \in Nat
  BY Numbers DEF TypeOK
<1>3. pc = "remove grid" /\ pc' = "remove data" /\ data' = data
  BY DEF RemoveGrid
<1>4. UNCHANGED <<caller, iter, next, list, crashes, saved>>
  BY DEF RemoveGrid
<1>5. Head(list) \in Iteration /\ Head(list) < iter /\ saved = iter
  BY <1>3, FrontIsOlder
<1>6. grid' = [grid EXCEPT ![Head(list)] = "absent"] /\ grid \in [Iteration -> Files]
  BY DEF RemoveGrid, TypeOK
<1>7. TypeOK'
  BY <1>3, <1>4, <1>6 DEF TypeOK, Places, Files
<1>8. Pairs' \subseteq Pairs /\ Listed' = Listed /\ \A i \in Pairs : i # Head(list) => i \in Pairs'
  BY <1>3, <1>4, <1>6 DEF Pairs, Listed
<1>9. Sorted' /\ ListEndsAtIter'
  BY <1>3, <1>4 DEF Sorted, ListEndsAtIter, Copies, Running, BeforePush, AfterPush
<1>10. DiskIsListed' /\ SizeBounded'
  BY <1>3, <1>4, <1>8 DEF DiskIsListed, SizeBounded, Running, BeforePush
<1>11. SavedIsKept' /\ LoadedIsNewest'
  <2>1. saved # Head(list)
    BY <1>2, <1>5, Numbers
  <2>2. QED
    BY <1>3, <1>4, <1>8, <2>1 DEF SavedIsKept, LoadedIsNewest, Running
<1>12. ScheduleFollows'
  <2>1. LastSave' = LastSave
    BY <1>4 DEF LastSave
  <2>2. QED
    BY <1>3, <1>4, <2>1 DEF ScheduleFollows, Running, BeforePush
<1>13. QED
  BY <1>7, <1>9, <1>10, <1>11, <1>12

LEMMA TailFacts ==
  ASSUME NEW S, NEW q \in Seq(S), q # <<>>
  PROVE  /\ Tail(q) \in Seq(S) /\ Len(Tail(q)) = Len(q) - 1 /\ Len(q) - 1 \in Nat
         /\ DOMAIN Tail(q) = 1 .. Len(q) - 1
         /\ \A k \in DOMAIN Tail(q) : k \in Nat /\ k + 1 \in DOMAIN q /\ Tail(q)[k] = q[k + 1]
         /\ \A k \in DOMAIN q : k = 1 \/ (k - 1 \in DOMAIN Tail(q) /\ Tail(q)[k - 1] = q[k])
         /\ Head(q) = q[1]
OBVIOUS

LEMMA RemoveDataInv == MaxN >= 3 /\ IInv /\ RemoveData => IInv'
<1> SUFFICES ASSUME MaxN >= 3, IInv, RemoveData PROVE IInv'
  OBVIOUS
<1> USE DEF IInv
<1>2. /\ iter \in Nat /\ next \in Nat /\ Len(list) \in Nat /\ saved \in Int /\ crashes \in Nat
      /\ \A k \in DOMAIN list : list[k] \in Nat /\ k \in Nat
  BY Numbers DEF TypeOK
<1>3. pc = "remove data" /\ pc' = "reschedule" /\ grid' = grid /\ list' = Tail(list)
  BY DEF RemoveData
<1>4. UNCHANGED <<caller, iter, next, crashes, saved>>
  BY DEF RemoveData
<1>5. /\ list # <<>> /\ list \in Seq(Iteration)
      /\ Head(list) \in Iteration /\ Head(list) < iter /\ saved = iter
  BY <1>3, FrontIsOlder DEF TypeOK
<1>6. data' = [data EXCEPT ![Head(list)] = "absent"] /\ data \in [Iteration -> Files]
  BY DEF RemoveData, TypeOK
<1>7. /\ list' \in Seq(Iteration) /\ Len(list') = Len(list) - 1 /\ DOMAIN list' = 1 .. Len(list) - 1
      /\ \A k \in DOMAIN list' : k \in Nat /\ k + 1 \in DOMAIN list /\ list'[k] = list[k + 1]
      /\ \A k \in DOMAIN list : k = 1 \/ (k - 1 \in DOMAIN list' /\ list'[k - 1] = list[k])
      /\ Head(list) = list[1]
  BY <1>3, <1>5, TailFacts
<1>8. TypeOK'
  BY <1>3, <1>4, <1>6, <1>7 DEF TypeOK, Places, Files
<1>9. Sorted'
  <2> SUFFICES ASSUME NEW i \in DOMAIN list', NEW j \in DOMAIN list', i <= j
               PROVE  list'[i] <= list'[j]
    BY <1>3 DEF Sorted
  <2>1. i + 1 \in DOMAIN list /\ j + 1 \in DOMAIN list /\ i + 1 <= j + 1
    BY <1>7
  <2>2. QED
    BY <1>7, <2>1 DEF Sorted
<1>10. ListEndsAtIter'
  <2>1. ASSUME NEW n \in {2, 3}, Copies(n)
        PROVE  Copies(n)'
    <3> SUFFICES ASSUME NEW k \in DOMAIN list', k <= Len(list') - n
                 PROVE  list'[k] < iter'
      BY DEF Copies
    <3>1. k + 1 \in DOMAIN list /\ k + 1 <= Len(list) - n
      BY <1>2, <1>7
    <3>2. QED
      BY <1>4, <1>7, <2>1, <3>1 DEF Copies
  <2>2. Copies(2) \/ (caller = "exit" /\ Copies(3))
    BY <1>3 DEF ListEndsAtIter, Running, AfterPush
  <2>3. \A k \in DOMAIN list' : list'[k] <= iter'
    BY <1>3, <1>4, <1>7 DEF ListEndsAtIter, Running
  <2>4. QED
    BY <1>3, <1>4, <2>1, <2>2, <2>3 DEF ListEndsAtIter, BeforePush, AfterPush
<1>11. Pairs' \subseteq Pairs \ {Head(list)} /\ \A i \in Pairs : i # Head(list) => i \in Pairs'
  BY <1>3, <1>5, <1>6 DEF Pairs
<1>12. Listed \subseteq Listed' \cup {Head(list)}
  BY <1>7 DEF Listed
<1>13. DiskIsListed'
  BY <1>3, <1>11, <1>12 DEF DiskIsListed, Running, BeforePush
<1>14. SizeBounded'
  <2>1. Len(list) <= MaxN + crashes + 1
    BY <1>3 DEF SizeBounded, Running
  <2>2. Len(list) - 1 <= MaxN + crashes
    BY <1>2, <2>1, Numbers
  <2>3. QED
    BY <1>3, <1>4, <1>7, <2>2 DEF SizeBounded, Running
<1>15. SavedIsKept' /\ LoadedIsNewest'
  <2>1. saved # Head(list)
    BY <1>2, <1>5, Numbers
  <2>2. \A i \in Iteration : data'[i] = "whole" => data[i] = "whole"
    BY <1>6
  <2>3. QED
    BY <1>3, <1>4, <1>5, <1>11, <2>1, <2>2 DEF SavedIsKept, LoadedIsNewest, Running
<1>16. ScheduleFollows'
  <2>1. LastSave' = LastSave
    BY <1>4 DEF LastSave
  <2>2. QED
    BY <1>3, <1>4, <2>1 DEF ScheduleFollows, Running, BeforePush
<1>17. QED
  BY <1>8, <1>9, <1>10, <1>13, <1>14, <1>15, <1>16

LEMMA StutterInv == IInv /\ UNCHANGED vars => IInv'
<1> SUFFICES ASSUME IInv, UNCHANGED vars PROVE IInv'
  OBVIOUS
<1>1. UNCHANGED <<pc, caller, iter, next, list, grid, data, crashes, saved>>
  BY DEF vars, disk
<1>2. TypeOK' /\ Sorted' /\ ListEndsAtIter' /\ LoadedIsNewest'
  BY <1>1 DEF IInv, TypeOK, Sorted, ListEndsAtIter, LoadedIsNewest, Running, BeforePush, AfterPush, Copies
<1>3. DiskIsListed' /\ SizeBounded' /\ SavedIsKept' /\ ScheduleFollows'
  BY <1>1 DEF IInv, DiskIsListed, SizeBounded, SavedIsKept, ScheduleFollows, Running, BeforePush,
              Pairs, Listed, LastSave
<1>4. QED
  BY <1>2, <1>3 DEF IInv

-----------------------------------------------------------------------------
(* What a crash can fall back on: the list *)

LEMMA Values ==
  ASSUME IInv
  PROVE  /\ iter \in Nat /\ next \in Nat /\ Len(list) \in Nat /\ saved \in Int
         /\ list \in Seq(Iteration) /\ DOMAIN list = 1 .. Len(list)
         /\ \A k \in DOMAIN list : list[k] \in Nat /\ k \in Nat
<1>1. /\ iter \in Iteration /\ next \in Nat /\ list \in Seq(Iteration) /\ saved \in Iteration \cup {-1}
  BY DEF IInv, TypeOK
<1>2. iter \in Nat /\ saved \in Int
  <2>1. Iteration \subseteq Nat
    BY Numbers
  <2>2. QED
    BY <1>1, <2>1
<1>3. Len(list) \in Nat /\ DOMAIN list = 1 .. Len(list) /\ \A k \in DOMAIN list : list[k] \in Iteration
  BY <1>1
<1>4. \A k \in DOMAIN list : list[k] \in Nat /\ k \in Nat
  <2>1. Iteration \subseteq Nat
    BY Numbers
  <2>2. \A k \in 1 .. Len(list) : k \in Nat
    BY <1>3
  <2>3. QED
    BY <1>3, <2>1, <2>2
<1>5. QED
  BY <1>1, <1>2, <1>3, <1>4

(* The same list at the same iteration: what holds of it holds again. *)
LEMMA SameEntries ==
  ASSUME UNCHANGED <<list, iter>>
  PROVE  /\ OlderOnce' <=> OlderOnce
         /\ OlderTwice' <=> OlderTwice
         /\ Copies(0)' <=> Copies(0)
         /\ Copies(1)' <=> Copies(1)
         /\ Copies(2)' <=> Copies(2)
BY DEF OlderOnce, OlderTwice, Copies

(* Fewer copies are fewer than more. *)
LEMMA FewerCopies ==
  ASSUME IInv
  PROVE  /\ Copies(0) => Copies(1)
         /\ Copies(1) => Copies(2)
BY Values DEF Copies

LEMMA RepeatsAdvance ==
  ASSUME IInv, Repeats, Advance
  PROVE  Repeats'
<1>1. /\ pc = "loop" /\ pc' = "due" /\ iter' = iter + 1
      /\ UNCHANGED <<caller, list>>
  BY DEF Advance
<1>2. Running
  BY <1>1 DEF Running
<1>3. /\ OlderTwice /\ Copies(2)
      /\ (~AtStartup => OlderOnce /\ Copies(1))
  BY <1>1, <1>2 DEF Repeats, Spare, IInv, ListEndsAtIter
<1>4. OlderTwice'
  <2> SUFFICES ASSUME NEW j \in DOMAIN list, NEW k \in DOMAIN list, j + 1 < k
               PROVE  list[j] < list[k]
    BY <1>1 DEF OlderTwice
  <2>1. list[k] # iter => list[j] < list[k]
    BY <1>3 DEF OlderTwice
  <2>2. j <= Len(list) - 2
    BY Values
  <2>3. list[j] < iter
    BY <1>3, <2>2 DEF Copies
  <2>4. QED
    BY <2>1, <2>3
<1>5. ~AtStartup => OlderOnce'
  <2> SUFFICES ASSUME ~AtStartup, NEW j \in DOMAIN list, NEW k \in DOMAIN list, j < k
               PROVE  list[j] < list[k]
    BY <1>1 DEF OlderOnce
  <2>1. list[k] # iter => list[j] < list[k]
    BY <1>3 DEF OlderOnce
  <2>2. j <= Len(list) - 1
    BY Values
  <2>3. list[j] < iter
    BY <1>3, <2>2 DEF Copies
  <2>4. QED
    BY <2>1, <2>3
<1>6. Spare'
  BY <1>1 DEF Spare, BeforePush, AfterPush
<1>7. QED
  BY <1>1, <1>4, <1>5, <1>6 DEF Repeats, BeforePush, AfterPush

LEMMA RepeatsPush ==
  ASSUME IInv, Repeats, Push
  PROVE  Repeats'
<1>1. /\ pc = "push" /\ pc' \in {"remove grid", "reschedule"} /\ list' = Append(list, iter)
      /\ UNCHANGED <<caller, iter>>
  BY DEF Push
<1>2. Running /\ BeforePush /\ iter \in Iteration
  BY <1>1 DEF Running, BeforePush, IInv, TypeOK
<1>3. /\ DOMAIN list' = DOMAIN list \cup {Len(list) + 1} /\ Len(list') = Len(list) + 1
      /\ list'[Len(list) + 1] = iter
      /\ \A k \in DOMAIN list : list'[k] = list[k]
  <2>1. list \in Seq(Iteration) /\ iter \in Iteration /\ list' = Append(list, iter)
    BY <1>1, <1>2, Values
  <2>2. QED
    BY <2>1, AppendFacts
<1>4. ASSUME NEW j \in DOMAIN list', NEW k \in DOMAIN list', j < k, list'[k] # iter
      PROVE  j \in DOMAIN list /\ k \in DOMAIN list /\ list'[j] = list[j] /\ list'[k] = list[k]
  <2>1. k \in DOMAIN list
    BY <1>3, <1>4
  <2>2. j \in DOMAIN list
    <3>1. Len(list) \in Nat /\ k \in 1 .. Len(list)
      BY <2>1, Values
    <3>2. j # Len(list) + 1
      BY <1>4, <3>1
    <3>3. QED
      BY <1>3, <3>2
  <2>3. QED
    BY <1>3, <2>1, <2>2
<1>5. OlderOnce => OlderOnce'
  BY <1>1, <1>4 DEF OlderOnce
<1>6. OlderTwice => OlderTwice'
  <2> SUFFICES ASSUME OlderTwice, NEW j \in DOMAIN list', NEW k \in DOMAIN list',
                      j + 1 < k, list'[k] # iter
               PROVE  list'[j] < list'[k]
    BY <1>1 DEF OlderTwice
  <2>1. j < k
    BY <1>3, Values
  <2>2. QED
    BY <1>4, <2>1 DEF OlderTwice
<1>7. /\ Copies(0) => Copies(1)'
      /\ Copies(1) => Copies(2)'
  <2> SUFFICES ASSUME NEW n \in {0, 1}, Copies(n), NEW k \in DOMAIN list',
                      k <= Len(list') - (n + 1)
               PROVE  list'[k] < iter'
    BY DEF Copies
  <2>1. k \in DOMAIN list /\ k <= Len(list) - n
    BY <1>3, Values
  <2>2. QED
    BY <1>1, <1>3, <2>1 DEF Copies
<1>8. Spare => Spare'
  <2>1. caller = "exit" /\ Spare => Copies(1)
    BY <1>2 DEF Spare
  <2>2. caller = "loop" => Copies(0)
    BY <1>2 DEF IInv, ListEndsAtIter
  <2>3. QED
    BY <1>1, <1>7, <2>1, <2>2 DEF Spare, BeforePush
<1>9. QED
  BY <1>1, <1>2, <1>5, <1>6, <1>8 DEF Repeats

LEMMA RepeatsRemoveData ==
  ASSUME MaxN >= 3, IInv, Repeats, RemoveData
  PROVE  Repeats'
<1>1. /\ pc = "remove data" /\ pc' = "reschedule" /\ list' = Tail(list)
      /\ UNCHANGED <<caller, iter>>
  BY DEF RemoveData
<1>2. Running /\ AfterPush /\ list # <<>>
  BY <1>1, FrontIsOlder DEF Running, AfterPush
<1>3. /\ Len(list') = Len(list) - 1
      /\ \A k \in DOMAIN list' : k \in Nat /\ k + 1 \in DOMAIN list /\ list'[k] = list[k + 1]
  BY <1>1, <1>2, Values, TailFacts
<1>4. OlderOnce => OlderOnce'
  <2> SUFFICES ASSUME OlderOnce, NEW j \in DOMAIN list', NEW k \in DOMAIN list', j < k
               PROVE  list'[k] = iter \/ list'[j] < list'[k]
    BY <1>1 DEF OlderOnce
  <2>1. j + 1 \in DOMAIN list /\ k + 1 \in DOMAIN list /\ j + 1 < k + 1
    BY <1>3
  <2>2. QED
    BY <1>3, <2>1 DEF OlderOnce
<1>5. OlderTwice => OlderTwice'
  <2> SUFFICES ASSUME OlderTwice, NEW j \in DOMAIN list', NEW k \in DOMAIN list', j + 1 < k
               PROVE  list'[k] = iter \/ list'[j] < list'[k]
    BY <1>1 DEF OlderTwice
  <2>1. j + 1 \in DOMAIN list /\ k + 1 \in DOMAIN list /\ (j + 1) + 1 < k + 1
    BY <1>3
  <2>2. QED
    BY <1>3, <2>1 DEF OlderTwice
<1>6. /\ Copies(1) => Copies(1)'
      /\ Copies(2) => Copies(2)'
  <2> SUFFICES ASSUME NEW n \in {1, 2}, Copies(n), NEW k \in DOMAIN list', k <= Len(list') - n
               PROVE  list'[k] < iter'
    BY DEF Copies
  <2>1. k + 1 \in DOMAIN list /\ k + 1 <= Len(list) - n
    BY <1>3, Values
  <2>2. QED
    BY <1>1, <1>3, <2>1 DEF Copies
<1>7. Spare => Spare'
  BY <1>1, <1>2, <1>6 DEF Spare, BeforePush
<1>8. QED
  BY <1>1, <1>2, <1>4, <1>5, <1>7 DEF Repeats

LEMMA RepeatsSteps == MaxN >= 3 /\ IInv /\ Repeats /\ [Next]_vars => Repeats'
<1> SUFFICES ASSUME MaxN >= 3, IInv, Repeats, [Next]_vars PROVE Repeats'
  OBVIOUS
<1>1. CASE Detect \/ LoadFails \/ Crash
  BY <1>1 DEF Detect, LoadFails, Crash, Repeats, Running
<1>2. CASE FreshStart
  <2>1. list' = <<>> /\ pc' = "up"
    BY <1>2 DEF FreshStart
  <2>2. OlderOnce' /\ OlderTwice' /\ Spare'
    BY <2>1 DEF OlderOnce, OlderTwice, Spare, BeforePush, AfterPush
  <2>3. QED
    BY <2>1, <2>2 DEF Repeats, BeforePush, AfterPush
<1>3. CASE Load
  <2>1. pc = "load" /\ pc' = "up" /\ list' = list
    BY <1>3 DEF Load
  <2>2. \A j, k \in DOMAIN list : j < k => list[j] < list[k]
    BY <2>1 DEF IInv, Sorted
  <2>3. OlderOnce'
    BY <2>1, <2>2 DEF OlderOnce
  <2>4. OlderTwice'
    <3>1. \A j, k \in DOMAIN list : j + 1 < k => j < k
      BY Values
    <3>2. QED
      BY <2>1, <2>2, <3>1 DEF OlderTwice
  <2>5. Spare'
    BY <2>1 DEF Spare, BeforePush, AfterPush
  <2>6. QED
    BY <2>1, <2>3, <2>4, <2>5 DEF Repeats, BeforePush, AfterPush
<1>4. CASE StartupSave
  <2>1. /\ pc = "up" /\ pc' = (IF AtStartup THEN "create grid" ELSE "loop") /\ caller' = "startup"
        /\ UNCHANGED <<list, iter>>
    BY <1>4 DEF StartupSave
  <2>2. OlderOnce /\ OlderTwice /\ Copies(1)
    BY <2>1 DEF Repeats, Running, IInv, ListEndsAtIter
  <2>3. OlderOnce' /\ OlderTwice' /\ Copies(1)'
    BY <2>1, <2>2, SameEntries
  <2>4. ~AtStartup => Spare'
    BY <2>1, <2>3 DEF Spare, BeforePush, AfterPush
  <2>5. QED
    BY <2>1, <2>3, <2>4 DEF Repeats, BeforePush, AfterPush
<1>5. CASE Advance
  BY <1>5, RepeatsAdvance
<1>6. CASE CheckDue
  <2>1. /\ pc = "due" /\ pc' \in {"create grid", "loop"} /\ caller' = "loop"
        /\ UNCHANGED <<list, iter>>
    BY <1>6 DEF CheckDue
  <2>2. Copies(1)
    BY <2>1, FewerCopies DEF IInv, ListEndsAtIter, Running
  <2>3. Spare'
    BY <2>1, <2>2, SameEntries DEF Spare, BeforePush, AfterPush
  <2>4. OlderTwice /\ (~AtStartup => OlderOnce)
    BY <2>1 DEF Repeats, Running
  <2>5. QED
    BY <2>1, <2>3, <2>4, SameEntries DEF Repeats, BeforePush, AfterPush
<1>7. CASE Terminate
  <2>1. /\ pc = "loop" /\ pc' = (IF AtTermination THEN "create grid" ELSE "down")
        /\ caller' = "exit" /\ UNCHANGED <<list, iter>>
    BY <1>7 DEF Terminate
  <2>2. Spare => Spare'
    BY <2>1, SameEntries DEF Spare, BeforePush, AfterPush
  <2>3. QED
    BY <2>1, <2>2, SameEntries DEF Repeats, Running, BeforePush, AfterPush
<1>8. CASE CreateGrid \/ CloseGrid \/ CreateData \/ CloseData
  <2>1. /\ BeforePush /\ BeforePush' /\ Running /\ pc' \notin {"up", "loop"} /\ ~AfterPush'
        /\ UNCHANGED <<caller, list, iter>>
    BY <1>8 DEF CreateGrid, CloseGrid, CreateData, CloseData, BeforePush, AfterPush, Running
  <2>2. Spare => Spare'
    BY <2>1, SameEntries DEF Spare
  <2>3. QED
    BY <2>1, <2>2, SameEntries DEF Repeats
<1>9. CASE Push
  BY <1>9, RepeatsPush
<1>10. CASE RemoveGrid
  <2>1. /\ pc = "remove grid" /\ pc' = "remove data" /\ UNCHANGED <<caller, list, iter>>
    BY <1>10 DEF RemoveGrid
  <2>2. Spare => Spare'
    BY <2>1, SameEntries DEF Spare, BeforePush, AfterPush
  <2>3. QED
    BY <2>1, <2>2, SameEntries DEF Repeats, Running, BeforePush, AfterPush
<1>11. CASE RemoveData
  BY <1>11, RepeatsRemoveData
<1>12. CASE Reschedule
  <2>1. /\ pc = "reschedule" /\ pc' = (IF caller = "exit" THEN "down" ELSE "loop")
        /\ caller \in {"startup", "loop", "exit"} /\ UNCHANGED <<caller, list, iter>>
    BY <1>12 DEF Reschedule, IInv, TypeOK, Callers
  <2>2. caller = "loop" /\ Spare => Spare'
    BY <2>1, SameEntries DEF Spare, BeforePush, AfterPush
  <2>3. caller = "startup" => OlderOnce /\ AtStartup
    BY <2>1 DEF Repeats, Running, AfterPush
  <2>4. QED
    BY <2>1, <2>2, <2>3, SameEntries DEF Repeats, Running, BeforePush, AfterPush
<1>13. CASE UNCHANGED vars
  <2>1. UNCHANGED <<pc, caller, list, iter>>
    BY <1>13 DEF vars
  <2>2. QED
    BY <2>1, SameEntries DEF Repeats, Running, Spare, BeforePush, AfterPush
<1>14. QED
  BY <1>1, <1>2, <1>3, <1>4, <1>5, <1>6, <1>7, <1>8, <1>9, <1>10, <1>11, <1>12, <1>13
     DEF Next, Start, Evolve, Save

-----------------------------------------------------------------------------
(* What a crash can fall back on: the directory *)

(* A save touches the files of its own iteration only. *)
LEMMA SaveSteps ==
  ASSUME IInv, CreateGrid \/ CloseGrid \/ CreateData \/ CloseData
  PROVE  /\ Running /\ BeforePush /\ pc' # "remove data" /\ Running'
         /\ iter' = iter /\ list' = list
         /\ Pairs' = Pairs \/ Pairs' = Pairs \cup {iter}
         /\ Complete \ {iter} \subseteq Complete'
         /\ Saving' \/ iter \in Complete'
<1>1. iter \in Iteration /\ grid \in [Iteration -> Files] /\ data \in [Iteration -> Files]
  BY DEF IInv, TypeOK
<1>2. /\ Running /\ BeforePush /\ pc' # "remove data" /\ Running' /\ iter' = iter /\ list' = list
  BY DEF CreateGrid, CloseGrid, CreateData, CloseData, Running, BeforePush
<1>3. /\ \A i \in Iteration \ {iter} : grid'[i] = grid[i] /\ data'[i] = data[i]
      /\ grid[iter] # "absent" => grid'[iter] # "absent"
      /\ data[iter] # "absent" => data'[iter] # "absent"
  BY <1>1 DEF CreateGrid, CloseGrid, CreateData, CloseData
<1>4. Pairs' = Pairs \/ Pairs' = Pairs \cup {iter}
  BY <1>1, <1>3 DEF Pairs
<1>5. Complete \ {iter} \subseteq Complete'
  BY <1>3 DEF Complete
<1>6. Saving' \/ iter \in Complete'
  <2>1. CASE CloseData
    <3>1. grid[iter] = "whole"
      BY <2>1 DEF CloseData, IInv, SavedIsKept
    <3>2. QED
      BY <1>1, <2>1, <3>1 DEF CloseData, Complete
  <2>2. CASE CreateGrid \/ CloseGrid \/ CreateData
    BY <2>2 DEF CreateGrid, CloseGrid, CreateData, Saving
  <2>3. QED
    BY <2>1, <2>2
<1>7. QED
  BY <1>2, <1>4, <1>5, <1>6

(* A deletion takes the pair of the front of the list. *)
LEMMA RemoveSteps ==
  ASSUME MaxN >= 3, IInv, EntriesKept, RemoveGrid \/ RemoveData
  PROVE  /\ Running /\ Running' /\ iter' = iter /\ list # <<>> /\ 1 \in DOMAIN list
         /\ Head(list) = list[1] /\ Head(list) < iter
         /\ Pairs' = Pairs \ {Head(list)}
         /\ Complete' = Complete \ {Head(list)}
<1>1. /\ pc \in {"remove grid", "remove data"} /\ Running /\ Running' /\ iter' = iter
  BY DEF RemoveGrid, RemoveData, Running
<1>2. /\ list # <<>> /\ 1 \in DOMAIN list /\ Head(list) = list[1] /\ Head(list) < iter
      /\ Head(list) \in Iteration
  BY <1>1, FrontIsOlder
<1>3. grid \in [Iteration -> Files] /\ data \in [Iteration -> Files]
  BY DEF IInv, TypeOK
<1>4. CASE RemoveGrid
  <2>1. data' = data /\ grid' = [grid EXCEPT ![Head(list)] = "absent"]
    BY <1>4 DEF RemoveGrid
  <2>2. QED
    BY <1>1, <1>2, <1>3, <2>1 DEF Pairs, Complete
<1>5. CASE RemoveData
  <2>1. grid' = grid /\ data' = [data EXCEPT ![Head(list)] = "absent"]
    BY <1>5 DEF RemoveData
  <2>2. QED
    BY <1>1, <1>2, <1>3, <2>1 DEF Pairs, Complete
<1>6. QED
  BY <1>4, <1>5

(* Every other step leaves the files alone. *)
LEMMA OtherSteps ==
  ASSUME [Next]_vars,
         ~(CreateGrid \/ CloseGrid \/ CreateData \/ CloseData), ~(RemoveGrid \/ RemoveData)
  PROVE  grid' = grid /\ data' = data /\ Pairs' = Pairs /\ Complete' = Complete
<1>1. UNCHANGED disk
  BY DEF Next, Start, Evolve, Save, Detect, FreshStart, Load, LoadFails, StartupSave, Advance,
         CheckDue, Terminate, Push, Reschedule, Crash, vars
<1>2. QED
  BY <1>1 DEF disk, Pairs, Complete

LEMMA PairsUpToIter ==
  ASSUME IInv, Running
  PROVE  /\ \A i \in Pairs : i <= iter /\ i \in Nat
         /\ saved <= iter
<1>1. \A k \in DOMAIN list : list[k] <= iter
  BY DEF IInv, ListEndsAtIter
<1>2. \A i \in Listed : i <= iter
  BY <1>1 DEF Listed
<1>3. iter <= iter
  BY Values
<1>4. \A i \in Pairs : i <= iter
  BY <1>2, <1>3 DEF IInv, DiskIsListed
<1>5. saved <= iter
  BY Values DEF IInv, LoadedIsNewest
<1>6. \A i \in Pairs : i \in Nat
  BY Numbers, PairsFinite
<1>7. QED
  BY <1>4, <1>5, <1>6

(* The schedule: a job is never further than this behind its last save. *)
LEMMA CloseToLastSave ==
  ASSUME IInv, Running, Kind = "iteration"
  PROVE  iter - LastSave <= Interval + 1 /\ LastSave \in Int
<1>1. iter \in Nat /\ next \in Nat /\ saved \in Int /\ LastSave \in Int
  BY Values DEF LastSave
<1>2. next <= LastSave + Interval
  BY DEF IInv, ScheduleFollows
<1>3. CASE pc \in {"up", "loop", "due"} \/ BeforePush
  <2>1. iter <= next \/ iter <= next + 1
    BY <1>3 DEF IInv, ScheduleFollows
  <2>2. QED
    BY <1>1, <1>2, <2>1, Numbers
<1>4. CASE pc \in {"remove grid", "remove data", "reschedule"}
  <2>1. saved = iter
    BY <1>4 DEF IInv, SavedIsKept
  <2>2. LastSave = iter
    BY <1>1, <2>1 DEF LastSave
  <2>3. QED
    BY <1>1, <2>2, Numbers
<1>5. QED
  BY <1>3, <1>4 DEF IInv, TypeOK, Places, Running, BeforePush

(* An entry of the list that is not the front and not the present          *)
(* iteration keeps its files through a rotation.                           *)
LEMMA EntriesSteps ==
  MaxN >= 3 /\ IInv /\ Repeats /\ EntriesKept /\ [Next]_vars => EntriesKept'
<1> SUFFICES ASSUME MaxN >= 3, IInv, Repeats, EntriesKept, [Next]_vars PROVE EntriesKept'
  OBVIOUS
<1>1. CASE Detect \/ LoadFails \/ Crash \/ Terminate \/ Reschedule \/ StartupSave \/ Advance \/ CheckDue
           \/ UNCHANGED vars
  <2>1. /\ pc' # "remove data" \/ UNCHANGED vars
        /\ (Running' => Running /\ list' = list /\ pc # "remove data") \/ UNCHANGED vars
        /\ Pairs' = Pairs
    BY <1>1 DEF Detect, LoadFails, Crash, Terminate, Reschedule, StartupSave, Advance, CheckDue,
                Running, vars, disk, Pairs
  <2>2. CASE UNCHANGED vars
    BY <2>1, <2>2 DEF EntriesKept, vars, Running
  <2>3. CASE ~UNCHANGED vars
    BY <2>1, <2>3 DEF EntriesKept
  <2>4. QED
    BY <2>2, <2>3
<1>2. CASE FreshStart \/ Load
  <2>1. pc = "load" /\ pc' = "up" /\ list' = list /\ Pairs' = Pairs
    BY <1>2 DEF FreshStart, Load, disk, Pairs
  <2>2. \A k \in DOMAIN list : list[k] \in Pairs
    BY <2>1 DEF IInv, DiskIsListed, Listed
  <2>3. QED
    BY <2>1, <2>2 DEF EntriesKept
<1>3. CASE CreateGrid \/ CloseGrid \/ CreateData \/ CloseData
  <2>1. pc # "remove data"
    BY <1>3 DEF CreateGrid, CloseGrid, CreateData, CloseData
  <2>2. QED
    BY <1>3, <2>1, SaveSteps DEF EntriesKept
<1>4. CASE Push
  <2>1. /\ pc = "push" /\ pc' \in {"remove grid", "reschedule"} /\ list' = Append(list, iter)
        /\ Pairs' = Pairs
    BY <1>4 DEF Push, disk, Pairs
  <2>2. list \in Seq(Iteration) /\ iter \in Iteration /\ list' = Append(list, iter)
    BY <2>1, Values DEF IInv, TypeOK
  <2>3. /\ DOMAIN list' = DOMAIN list \cup {Len(list) + 1} /\ list'[Len(list) + 1] = iter
        /\ \A k \in DOMAIN list : list'[k] = list[k]
    BY <2>2, AppendFacts
  <2>4. iter \in Pairs
    <3>1. saved = iter
      BY <2>1 DEF IInv, SavedIsKept
    <3>2. iter # -1
      BY Values
    <3>3. QED
      BY <3>1, <3>2 DEF IInv, SavedIsKept
  <2>5. Running
    BY <2>1 DEF Running
  <2>6. QED
    BY <2>1, <2>3, <2>4, <2>5 DEF EntriesKept
<1>5. CASE RemoveGrid
  <2>1. /\ pc = "remove grid" /\ pc' = "remove data" /\ list' = list /\ Running
    BY <1>5 DEF RemoveGrid, Running
  <2>2. /\ Pairs' = Pairs \ {Head(list)} /\ Head(list) = list[1] /\ Head(list) < iter
        /\ 1 \in DOMAIN list
    BY <1>5, RemoveSteps
  <2>3. ASSUME NEW k \in DOMAIN list, k # 1, ~(k = 2 /\ list[2] = list[1])
        PROVE  list[k] \in Pairs \ {Head(list)}
    <3>1. list[k] \in Pairs
      BY <2>1, <2>3 DEF EntriesKept
    <3>2. CASE k = 2
      BY <2>2, <2>3, <3>1, <3>2
    <3>3. CASE k # 2
      <4>1. 1 + 1 < k
        BY <2>3, <3>3, Values
      <4>2. list[k] = iter \/ list[1] < list[k]
        BY <2>1, <2>2, <4>1 DEF Repeats, OlderTwice
      <4>3. list[1] \in Nat /\ list[k] \in Nat /\ iter \in Nat
        BY <2>2, Values
      <4>4. list[k] # list[1]
        BY <2>2, <4>2, <4>3
      <4>5. QED
        BY <2>2, <3>1, <4>4
    <3>4. QED
      BY <3>2, <3>3
  <2>4. QED
    BY <2>1, <2>2, <2>3 DEF EntriesKept
<1>6. CASE RemoveData
  <2>1. /\ pc = "remove data" /\ pc' = "reschedule" /\ list' = Tail(list) /\ Running
    BY <1>6 DEF RemoveData, Running
  <2>2. /\ Pairs' = Pairs \ {Head(list)} /\ list # <<>> /\ Head(list) \notin Pairs
    BY <1>6, <2>1, RemoveSteps DEF EntriesKept
  <2>3. list \in Seq(Iteration)
    BY Values
  <2>4. \A k \in DOMAIN list' : k \in Nat /\ k + 1 \in DOMAIN list /\ list'[k] = list[k + 1]
    BY <2>1, <2>2, <2>3, TailFacts
  <2>5. ASSUME NEW k \in DOMAIN list', k # 1
        PROVE  list'[k] \in Pairs'
    <3>1. k + 1 # 1 /\ k + 1 # 2
      <4>1. DOMAIN list' = 1 .. Len(list) - 1 /\ Len(list) - 1 \in Nat
        BY <2>1, <2>2, <2>3, TailFacts
      <4>2. k \in Nat /\ k >= 1
        BY <4>1
      <4>3. QED
        BY <2>5, <4>2
    <3>2. list[k + 1] \in Pairs
      BY <2>1, <2>4, <3>1 DEF EntriesKept
    <3>3. QED
      BY <2>2, <2>4, <3>2
  <2>6. QED
    BY <2>1, <2>5 DEF EntriesKept
<1>7. QED
  BY <1>1, <1>2, <1>3, <1>4, <1>5, <1>6 DEF Next, Start, Evolve, Save

(* Which pairs can be torn. *)
LEMMA TornSteps ==
  MaxN >= 3 /\ IInv /\ EntriesKept /\ OnlySavedTorn /\ OnlyNewestTorn /\ [Next]_vars
    => OnlySavedTorn' /\ OnlyNewestTorn'
<1> SUFFICES ASSUME MaxN >= 3, IInv, EntriesKept, OnlySavedTorn, OnlyNewestTorn, [Next]_vars
             PROVE  OnlySavedTorn' /\ OnlyNewestTorn'
  OBVIOUS
<1>1. CASE CreateGrid \/ CloseGrid \/ CreateData \/ CloseData
  <2>1. /\ Running /\ iter' = iter
        /\ Pairs' = Pairs \/ Pairs' = Pairs \cup {iter}
        /\ Complete \ {iter} \subseteq Complete'
        /\ Saving' \/ iter \in Complete'
    BY <1>1, SaveSteps
  <2>2. \A i \in Pairs' \ Complete' : i = iter
    BY <2>1 DEF OnlySavedTorn
  <2>3. OnlySavedTorn'
    BY <2>1, <2>2 DEF OnlySavedTorn
  <2>4. \A j \in Pairs' : j <= iter
    BY <2>1, PairsUpToIter, Values
  <2>5. QED
    BY <2>2, <2>3, <2>4 DEF OnlyNewestTorn
<1>2. CASE RemoveGrid \/ RemoveData
  <2>1. /\ Running /\ Pairs' = Pairs \ {Head(list)} /\ Complete' = Complete \ {Head(list)}
    BY <1>2, RemoveSteps
  <2>2. pc \in {"remove grid", "remove data"}
    BY <1>2 DEF RemoveGrid, RemoveData
  <2>3. Pairs \ Complete = {}
    BY <2>1, <2>2 DEF OnlySavedTorn, Saving
  <2>4. Pairs' \ Complete' = {}
    BY <2>1, <2>3
  <2>5. QED
    BY <2>4 DEF OnlySavedTorn, OnlyNewestTorn
<1>3. CASE ~(CreateGrid \/ CloseGrid \/ CreateData \/ CloseData) /\ ~(RemoveGrid \/ RemoveData)
  <2>1. Pairs' = Pairs /\ Complete' = Complete
    BY <1>3, OtherSteps
  <2>2. OnlyNewestTorn'
    BY <2>1 DEF OnlyNewestTorn
  <2>3. CASE Load \/ FreshStart
    <3>1. pc = "load"
      BY <2>3 DEF Load, FreshStart
    <3>2. Pairs = Listed
      BY <3>1 DEF IInv, DiskIsListed
    <3>3. ASSUME NEW i \in Pairs \ Complete
          PROVE  FALSE
      <4>1. PICK k \in DOMAIN list : list[k] = i
        BY <3>2 DEF Listed
      <4>2. list # <<>>
        BY <4>1
      <4>3. Load /\ Newest \in Complete
        BY <2>3, <4>2 DEF Load, FreshStart
      <4>4. Len(list) \in DOMAIN list /\ k <= Len(list)
        BY <4>1, Values
      <4>5. Newest \in Pairs
        BY <3>2, <4>4 DEF Newest, Listed
      <4>6. Newest <= i /\ i <= Newest
        BY <4>1, <4>4, <4>5 DEF OnlyNewestTorn, Newest, IInv, Sorted
      <4>7. i \in Nat /\ Newest \in Nat
        BY <4>1, <4>4, Values DEF Newest
      <4>8. i = Newest
        BY <4>6, <4>7
      <4>9. QED
        BY <4>3, <4>8
    <3>4. QED
      BY <2>1, <2>2, <3>3 DEF OnlySavedTorn
  <2>4. CASE ~(Load \/ FreshStart)
    <3>1. Running' => /\ Running
                      /\ Saving => Saving' /\ iter' = iter
      BY <1>3, <2>4 DEF Next, Start, Evolve, Save, Detect, LoadFails, StartupSave, Advance, CheckDue,
        Terminate, Push, Reschedule, Crash, vars, Running, Saving
    <3>2. QED
      BY <2>1, <2>2, <3>1 DEF OnlySavedTorn
  <2>5. QED
    BY <2>3, <2>4
<1>4. QED
  BY <1>1, <1>2, <1>3

(* A pair is at most Interval + 1 behind the one after it, also when the   *)
(* front of the list is taken away: what stays between is nearer.          *)
LEMMA GapSteps ==
  MaxN >= 3 /\ IInv /\ EntriesKept /\ OnlySavedTorn /\ NoGaps /\ [Next]_vars => NoGaps'
<1> SUFFICES ASSUME MaxN >= 3, IInv, EntriesKept, OnlySavedTorn, NoGaps, [Next]_vars,
                    Kind = "iteration"
             PROVE  NoGaps'
  BY DEF NoGaps
<1>1. CASE CreateGrid \/ CloseGrid \/ CreateData \/ CloseData
  <2>1. Running /\ (Pairs' = Pairs \/ Pairs' = Pairs \cup {iter})
    BY <1>1, SaveSteps
  <2>2. ASSUME iter \notin Pairs, NEW j \in Pairs \cup {iter}, NEW k \in Pairs \cup {iter}, k < j
        PROVE  \E i \in Pairs : i < j /\ j - i <= Interval + 1
    <3>1. iter \in Nat /\ saved \in Int /\ \A i \in Pairs : i \in Nat /\ i <= iter
      BY <2>1, Values, PairsUpToIter
    <3>2. k \in Pairs
      BY <2>2, <3>1
    <3>3. CASE j \in Pairs
      BY <2>2, <3>2, <3>3 DEF NoGaps
    <3>4. CASE j = iter
      <4>1. k \in Complete
        BY <2>1, <2>2, <3>2 DEF OnlySavedTorn
      <4>2. k <= saved /\ k \in Nat
        BY <3>1, <3>2, <4>1 DEF Complete, IInv, SavedIsKept
      <4>3. saved # -1
        BY <3>1, <4>2
      <4>4. saved \in Pairs /\ LastSave = saved
        BY <4>3 DEF IInv, SavedIsKept, LastSave
      <4>5. iter - saved <= Interval + 1
        BY <2>1, <4>4, CloseToLastSave
      <4>6. saved <= iter /\ saved # iter
        BY <2>1, <2>2, <4>4, PairsUpToIter
      <4>7. saved < iter
        BY <3>1, <4>6
      <4>8. QED
        BY <3>4, <4>4, <4>5, <4>7
    <3>5. QED
      BY <3>3, <3>4
  <2>3. CASE Pairs' = Pairs
    BY <2>3 DEF NoGaps
  <2>4. CASE Pairs' = Pairs \cup {iter} /\ iter \notin Pairs
    BY <2>2, <2>4 DEF NoGaps
  <2>5. QED
    <3>1. iter \in Pairs => Pairs \cup {iter} = Pairs
      OBVIOUS
    <3>2. QED
      BY <2>1, <2>3, <2>4, <3>1
<1>2. CASE RemoveGrid \/ RemoveData
  <2>1. /\ Running /\ Pairs' = Pairs \ {Head(list)} /\ Head(list) = list[1] /\ 1 \in DOMAIN list
    BY <1>2, RemoveSteps
  <2>2. Pairs \subseteq Listed
    BY <1>2 DEF RemoveGrid, RemoveData, IInv, DiskIsListed, Running, BeforePush
  <2>3. \A i \in Pairs : i \in Nat /\ Head(list) <= i
    <3>1. \A k \in DOMAIN list : 1 <= k
      BY Values
    <3>2. \A k \in DOMAIN list : list[1] <= list[k]
      BY <2>1, <3>1 DEF IInv, Sorted
    <3>3. \A i \in Pairs : i \in Nat
      BY <2>1, PairsUpToIter
    <3>4. QED
      BY <2>1, <2>2, <3>2, <3>3 DEF Listed
  <2>4. ASSUME NEW j \in Pairs', NEW k \in Pairs', k < j
        PROVE  \E i \in Pairs' : i < j /\ j - i <= Interval + 1
    <3>1. j \in Pairs /\ k \in Pairs /\ k # Head(list)
      BY <2>1
    <3>2. PICK i \in Pairs : i < j /\ j - i <= Interval + 1
      BY <2>4, <3>1 DEF NoGaps
    <3>3. CASE i # Head(list)
      BY <2>1, <3>2, <3>3
    <3>4. CASE i = Head(list)
      <4>1. i \in Nat /\ j \in Nat /\ k \in Nat /\ i <= k /\ Interval \in Nat
        BY <2>3, <3>1, <3>4, Numbers
      <4>2. j - k <= Interval + 1
        BY <3>2, <4>1
      <4>3. QED
        BY <2>4, <4>2
    <3>5. QED
      BY <3>3, <3>4
  <2>5. QED
    BY <2>4 DEF NoGaps
<1>3. CASE ~(CreateGrid \/ CloseGrid \/ CreateData \/ CloseData) /\ ~(RemoveGrid \/ RemoveData)
  BY <1>3, OtherSteps DEF NoGaps
<1>4. QED
  BY <1>1, <1>2, <1>3

(* What a rotation finds in the list. *)
LEMMA RotationCopies ==
  ASSUME IInv, Repeats, RemoveGrid
  PROVE  /\ OlderTwice /\ (OlderOnce \/ Spare) /\ (caller = "startup" => OlderOnce)
         /\ Copies(2) \/ Copies(3)
         /\ Spare /\ caller # "startup" => Copies(2)
<1>1. Running /\ AfterPush
  BY DEF Running, AfterPush, RemoveGrid
<1>2. OlderTwice /\ (OlderOnce \/ Spare) /\ (caller = "startup" => OlderOnce)
  BY <1>1 DEF Repeats
<1>3. Copies(2) \/ Copies(3)
  BY <1>1 DEF IInv, ListEndsAtIter
<1>4. Spare /\ caller # "startup" => Copies(2)
  BY <1>1, FewerCopies DEF Spare, IInv, TypeOK, Callers
<1>5. QED
  BY <1>2, <1>3, <1>4

LEMMA RotationFront ==
  ASSUME MaxN >= 3, IInv, EntriesKept, RemoveGrid
  PROVE  /\ Head(list) = list[1] /\ 1 \in DOMAIN list /\ iter \in Nat
         /\ Len(list) \in Nat /\ Len(list) > MaxN /\ MaxN \in Nat
         /\ DOMAIN list = 1 .. Len(list)
         /\ \A k \in DOMAIN list : list[k] \in Nat /\ (k # 1 => list[k] \in Pairs)
<1>1. Running /\ pc # "remove data"
  BY DEF Running, RemoveGrid
<1>2. Head(list) = list[1] /\ 1 \in DOMAIN list
  BY FrontIsOlder DEF RemoveGrid
<1>3. Len(list) > MaxN /\ MaxN \in Nat
  BY Numbers DEF IInv, SizeBounded, RemoveGrid
<1>4. \A k \in DOMAIN list : k # 1 => list[k] \in Pairs
  BY <1>1 DEF EntriesKept
<1>5. QED
  BY <1>2, <1>3, <1>4, Values

(* With room for three entries a rotation leaves an older pair beside the  *)
(* one just written when no older iteration is in the list twice and the   *)
(* present one is not there three times ...                                *)
LEMMA SecondOfThree ==
  ASSUME MaxN >= 3, IInv, EntriesKept, RemoveGrid, OlderOnce, Copies(2)
  PROVE  \E k \in Pairs : k # Head(list) /\ k < iter
<1>1. /\ Head(list) = list[1] /\ 1 \in DOMAIN list /\ iter \in Nat
      /\ Len(list) \in Nat /\ Len(list) > MaxN /\ MaxN \in Nat
      /\ DOMAIN list = 1 .. Len(list)
      /\ \A k \in DOMAIN list : list[k] \in Nat /\ (k # 1 => list[k] \in Pairs)
  BY RotationFront
<1>2. 2 \in DOMAIN list /\ 2 <= Len(list) - 2
  BY <1>1
<1>3. list[2] < iter
  BY <1>2 DEF Copies
<1>4. list[2] # iter
  BY <1>1, <1>2, <1>3
<1>5. list[1] < list[2]
  BY <1>1, <1>2, <1>4 DEF OlderOnce
<1>6. list[2] \in Pairs /\ list[2] # Head(list)
  BY <1>1, <1>2, <1>5
<1>7. QED
  BY <1>3, <1>6

(* ... and with room for four always. *)
LEMMA SecondOfFour ==
  ASSUME MaxN >= 4, IInv, Repeats, EntriesKept, RemoveGrid
  PROVE  \E k \in Pairs : k # Head(list) /\ k < iter
<1>0. MaxN \in Nat
  BY Numbers
<1>1. MaxN >= 3
  BY <1>0
<1>2. /\ Head(list) = list[1] /\ 1 \in DOMAIN list /\ iter \in Nat
      /\ Len(list) \in Nat /\ Len(list) > MaxN /\ MaxN \in Nat
      /\ DOMAIN list = 1 .. Len(list)
      /\ \A k \in DOMAIN list : list[k] \in Nat /\ (k # 1 => list[k] \in Pairs)
  BY <1>1, RotationFront
<1>3. /\ 2 \in DOMAIN list /\ 3 \in DOMAIN list
      /\ 2 <= Len(list) - 3 /\ 2 <= Len(list) - 2 /\ 3 <= Len(list) - 2
  BY <1>2
<1>4. CASE OlderOnce
  <2>1. Copies(2) \/ Copies(3)
    BY RotationCopies
  <2>2. list[2] < iter
    BY <1>3, <2>1 DEF Copies
  <2>3. list[2] # iter
    BY <1>2, <1>3, <2>2
  <2>4. list[1] < list[2]
    BY <1>2, <1>3, <1>4, <2>3 DEF OlderOnce
  <2>5. list[2] \in Pairs /\ list[2] # Head(list)
    BY <1>2, <1>3, <2>4
  <2>6. QED
    BY <2>2, <2>5
<1>5. CASE ~OlderOnce
  <2>1. OlderTwice /\ Copies(2)
    BY <1>5, RotationCopies
  <2>2. list[3] < iter
    BY <1>3, <2>1 DEF Copies
  <2>3. list[3] # iter
    BY <1>2, <1>3, <2>2
  <2>4. list[1] < list[3]
    BY <1>2, <1>3, <2>1, <2>3 DEF OlderTwice
  <2>5. list[3] \in Pairs /\ list[3] # Head(list)
    BY <1>2, <1>3, <2>4
  <2>6. QED
    BY <2>2, <2>5
<1>6. QED
  BY <1>4, <1>5

(* Without a save at start-up no iteration is there that often. *)
LEMMA SecondPair ==
  ASSUME MaxN >= 3, Roomy, IInv, Repeats, EntriesKept, RemoveGrid
  PROVE  \E k \in Pairs : k # Head(list) /\ k < iter
<1>1. CASE MaxN >= 4
  BY <1>1, SecondOfFour
<1>2. CASE ~AtStartup
  <2>1. Running /\ AfterPush
    BY DEF Running, AfterPush, RemoveGrid
  <2>2. OlderOnce /\ Spare /\ caller # "startup"
    BY <1>2, <2>1 DEF Repeats
  <2>3. Copies(2)
    BY <2>2, RotationCopies
  <2>4. QED
    BY <2>2, <2>3, SecondOfThree
<1>3. QED
  BY <1>1, <1>2, Zenon DEF Roomy

LEMMA AloneSteps ==
  MaxN >= 3 /\ IInv /\ Repeats /\ EntriesKept /\ RarelyAlone /\ [Next]_vars => RarelyAlone'
<1> SUFFICES ASSUME MaxN >= 3, IInv, Repeats, EntriesKept, RarelyAlone, [Next]_vars,
                    Kind = "iteration", Roomy
             PROVE  RarelyAlone'
  BY DEF RarelyAlone
<1>1. CASE CreateGrid \/ CloseGrid \/ CreateData \/ CloseData
  <2>1. Running /\ (Pairs' = Pairs \/ Pairs' = Pairs \cup {iter})
    BY <1>1, SaveSteps
  <2>2. ASSUME Pairs = {}
        PROVE  iter <= Interval + 1
    <3>1. saved = -1
      BY <2>2 DEF IInv, SavedIsKept
    <3>2. LastSave = 0
      BY <3>1 DEF LastSave
    <3>3. iter - 0 <= Interval + 1
      BY <2>1, <3>2, CloseToLastSave
    <3>4. QED
      BY <3>3, Values, Numbers
  <2>3. ASSUME iter \notin Pairs, NEW j \in Pairs \cup {iter}
        PROVE  j <= Interval + 1 \/ \E k \in Pairs \cup {iter} : k # j
    <3>1. CASE j \in Pairs
      BY <2>3, <3>1
    <3>2. CASE j = iter /\ Pairs = {}
      BY <2>2, <3>2
    <3>3. CASE j = iter /\ Pairs # {}
      BY <2>3, <3>3
    <3>4. QED
      BY <3>1, <3>2, <3>3
  <2>4. CASE Pairs' = Pairs
    BY <2>4 DEF RarelyAlone
  <2>5. CASE Pairs' = Pairs \cup {iter} /\ iter \notin Pairs
    BY <2>3, <2>5 DEF RarelyAlone
  <2>6. QED
    <3>1. iter \in Pairs => Pairs \cup {iter} = Pairs
      OBVIOUS
    <3>2. QED
      BY <2>1, <2>4, <2>5, <3>1
<1>2. CASE RemoveGrid
  <2>1. pc = "remove grid"
    BY <1>2 DEF RemoveGrid
  <2>2. Pairs' = Pairs \ {Head(list)} /\ Head(list) < iter /\ Head(list) = list[1] /\ 1 \in DOMAIN list
    BY <1>2, RemoveSteps
  <2>3. PICK k \in Pairs : k # Head(list) /\ k < iter
    BY <1>2, SecondPair
  <2>4. saved = iter
    BY <2>1 DEF IInv, SavedIsKept
  <2>5. iter \in Nat /\ Head(list) \in Nat /\ k \in Nat
    BY <2>2, Values, Numbers, PairsFinite
  <2>6. iter # -1 /\ iter # Head(list) /\ iter # k
    BY <2>2, <2>3, <2>5
  <2>7. iter \in Pairs
    BY <2>4, <2>6 DEF IInv, SavedIsKept
  <2>8. iter \in Pairs' /\ k \in Pairs'
    BY <2>2, <2>3, <2>6, <2>7
  <2>9. QED
    BY <2>6, <2>8 DEF RarelyAlone
<1>3. CASE RemoveData
  <2>1. Pairs' = Pairs \ {Head(list)} /\ Head(list) \notin Pairs
    BY <1>3, RemoveSteps DEF RemoveData, EntriesKept
  <2>2. Pairs' = Pairs
    BY <2>1
  <2>3. QED
    BY <2>2 DEF RarelyAlone
<1>4. CASE ~(CreateGrid \/ CloseGrid \/ CreateData \/ CloseData) /\ ~(RemoveGrid \/ RemoveData)
  BY <1>4, OtherSteps DEF RarelyAlone
<1>5. QED
  BY <1>1, <1>2, <1>3, <1>4

(* A job that runs has something to fall back on. *)
LEMMA LossWhileRunning ==
  ASSUME MaxN >= 3, IInv, OnlySavedTorn, NoGaps, RarelyAlone, Running
  PROVE  LossBounded
<1> SUFFICES ASSUME Kind = "iteration"
             PROVE  (\E i \in Fallbacks : iter - i <= Interval + 1) \/ AloneAndRewritten
  BY DEF LossBounded
<1>1. /\ iter \in Nat /\ saved \in Int /\ Interval \in Nat /\ MaxN \in Nat /\ saved <= iter
      /\ \A i \in Pairs : i \in Nat /\ i <= iter
  BY Values, Numbers, PairsUpToIter
<1>2. iter - LastSave <= Interval + 1
  BY CloseToLastSave
<1>3. CASE saved = -1
  BY <1>2, <1>3 DEF LastSave, Fallbacks
<1>4. CASE saved # -1 /\ saved \in Complete
  BY <1>2, <1>4 DEF LastSave, Fallbacks
<1>5. CASE saved # -1 /\ saved \notin Complete
  <2>1. saved \in Pairs
    BY <1>5 DEF IInv, SavedIsKept
  <2>2. saved = iter
    BY <1>5, <2>1 DEF OnlySavedTorn
  <2>3. CASE \E k \in Pairs : k # iter
    <3>1. PICK k \in Pairs : k # iter
      BY <2>3
    <3>2. k < iter
      BY <1>1, <3>1
    <3>3. PICK i \in Pairs : i < iter /\ iter - i <= Interval + 1
      BY <2>1, <2>2, <3>2 DEF NoGaps
    <3>4. i # iter
      BY <1>1, <3>3
    <3>5. i \in Complete
      BY <3>4 DEF OnlySavedTorn
    <3>6. QED
      BY <3>3, <3>5 DEF Fallbacks
  <2>4. CASE \A k \in Pairs : k = iter
    <3>1. Pairs = {iter}
      BY <2>1, <2>2, <2>4
    <3>2. CASE Roomy
      <4>1. iter <= Interval + 1
        BY <2>1, <2>2, <2>4, <3>2 DEF RarelyAlone
      <4>2. iter - 0 <= Interval + 1
        BY <1>1, <4>1
      <4>3. QED
        BY <4>2 DEF Fallbacks
    <3>3. CASE ~Roomy
      <4>1. ~(MaxN >= 4) /\ AtStartup
        BY <3>3, Zenon DEF Roomy
      <4>2. MaxN = 3
        BY <1>1, <4>1
      <4>3. QED
        BY <3>1, <4>1, <4>2 DEF AloneAndRewritten
    <3>4. QED
      BY <3>2, <3>3
  <2>5. QED
    BY <2>3, <2>4
<1>6. QED
  BY <1>3, <1>4, <1>5

LEMMA LossAtStart ==
  ASSUME iter = 0
  PROVE  LossBounded
<1>1. 0 - 0 <= Interval + 1
  BY Numbers
<1>2. QED
  BY <1>1 DEF LossBounded, Fallbacks

(* So has the directory after it ended, by itself or by a crash. *)
LEMMA LossSteps ==
  MaxN >= 3 /\ IInv /\ LossInv /\ [Next]_vars => (pc' = "down" => LossBounded')
<1> SUFFICES ASSUME MaxN >= 3, IInv, LossInv, [Next]_vars, pc' = "down"
             PROVE  LossBounded'
  OBVIOUS
<1>1. /\ iter' = iter /\ grid' = grid /\ data' = data
  BY DEF Next, Start, Evolve, Save, Detect, FreshStart, Load, LoadFails, StartupSave, Advance,
    CheckDue, Terminate, CreateGrid, CloseGrid, CreateData, CloseData, Push, RemoveGrid, RemoveData,
    Reschedule, Crash, vars, disk
<1>2. LossBounded
  <2>1. CASE pc = "down"
    BY <2>1 DEF LossInv
  <2>2. CASE pc = "load"
    BY <2>2, LossAtStart DEF IInv, ScheduleFollows
  <2>3. CASE Running
    BY <2>3, LossWhileRunning DEF LossInv
  <2>4. QED
    BY <2>1, <2>2, <2>3 DEF Running
<1>3. QED
  BY <1>1, <1>2 DEF LossBounded, Fallbacks, AloneAndRewritten, Complete, Pairs

LEMMA LossInvInit == Init => LossInv
<1> SUFFICES ASSUME Init PROVE LossInv
  OBVIOUS
<1>1. Pairs = {} /\ ~Running /\ pc # "remove data" /\ iter = 0
  BY DEF Init, Pairs, Running
<1>2. LossBounded
  BY <1>1, LossAtStart
<1>3. QED
  BY <1>1, <1>2 DEF LossInv, Repeats, EntriesKept, OnlySavedTorn, OnlyNewestTorn, NoGaps, RarelyAlone

-----------------------------------------------------------------------------
(* The theorems *)

(* With room for three checkpoints the list, the directory, the schedule   *)
(* and the history of saves agree in every state, crashes included: the    *)
(* inductive invariant of checkpoint_handler_impl_t.                       *)
THEOREM Inductive == MaxN >= 3 => (Spec => []IInv)
<1> SUFFICES ASSUME MaxN >= 3 PROVE Spec => []IInv
  OBVIOUS
<1>1. Init => IInv
  BY InitInv
<1>2. IInv /\ [Next]_vars => IInv'
  BY DetectInv, FreshStartInv, LoadInv, LoadFailsInv, StartupSaveInv, AdvanceInv, CheckDueInv,
     TerminateInv, CreateGridInv, CloseGridInv, CreateDataInv, CloseDataInv, PushInv,
     RemoveGridInv, RemoveDataInv, RescheduleInv, CrashInv, StutterInv
     DEF Next, Start, Evolve, Save
<1>3. QED
  BY <1>1, <1>2, PTL DEF Spec

(* delete_checkpoint never deletes the checkpoint just written, however    *)
(* often its iteration is in the list.                                     *)
THEOREM RotationIsSafe == MaxN >= 3 => (Spec => []RotationKeepsNewest)
<1> SUFFICES ASSUME MaxN >= 3 PROVE Spec => []RotationKeepsNewest
  OBVIOUS
<1>1. IInv => RotationKeepsNewest
  BY FrontIsOlder DEF RotationKeepsNewest
<1>2. Spec => []IInv
  BY Inductive
<1>3. QED
  BY <1>1, <1>2, PTL

(* A job that starts resumes from the latest checkpoint ever completed,    *)
(* whatever crashes and rotations came before.                             *)
THEOREM ResumeIsLatest == MaxN >= 3 => (Spec => []LoadedIsNewest)
<1> SUFFICES ASSUME MaxN >= 3 PROVE Spec => []LoadedIsNewest
  OBVIOUS
<1>1. IInv => LoadedIsNewest
  BY DEF IInv
<1>2. Spec => []IInv
  BY Inductive
<1>3. QED
  BY <1>1, <1>2, PTL

(* n crashes leave at most n checkpoints more than the maximum. *)
THEOREM PileIsBounded == MaxN >= 3 => (Spec => []PileBounded)
<1> SUFFICES ASSUME MaxN >= 3 PROVE Spec => []PileBounded
  OBVIOUS
<1>1. IInv => PileBounded
  <2> SUFFICES ASSUME IInv PROVE PileBounded
    OBVIOUS
  <2> USE DEF IInv
  <2>1. list \in Seq(Iteration) /\ Len(list) \in Nat /\ crashes \in Nat /\ Cardinality(Pairs) \in Nat
    BY PairsFinite, Numbers DEF TypeOK
  <2>2. CASE pc = "down"
    <3>1. Cardinality(Pairs) <= MaxN + crashes
      BY <2>2 DEF SizeBounded
    <3>2. Cardinality(Pairs) <= MaxN + crashes + 1
      BY <2>1, <3>1, Numbers
    <3>3. QED
      BY <2>2, <3>2 DEF PileBounded
  <2>3. CASE pc = "load" \/ pc \in {"loop", "remove grid", "remove data"}
    <3>1. Pairs \subseteq Listed
      BY <2>3 DEF DiskIsListed, Running, BeforePush
    <3>2. Cardinality(Pairs) <= Len(list)
      BY <2>1, <3>1, PairsSizeListed
    <3>3. Len(list) <= MaxN + crashes + 1 /\ (pc = "loop" => Len(list) <= MaxN + crashes)
      <4>1. Len(list) <= MaxN + crashes \/ Len(list) <= MaxN + crashes + 1
        BY <2>3 DEF SizeBounded, Running
      <4>2. Len(list) <= MaxN + crashes + 1
        BY <2>1, <4>1, Numbers
      <4>3. pc = "loop" => Len(list) <= MaxN + crashes
        BY DEF SizeBounded, Running
      <4>4. QED
        BY <4>2, <4>3
    <3>4. Cardinality(Pairs) <= MaxN + crashes + 1
      BY <2>1, <3>2, <3>3, Numbers
    <3>5. pc = "loop" => Cardinality(Pairs) <= MaxN + crashes
      BY <2>1, <3>2, <3>3, Numbers
    <3>6. QED
      BY <3>4, <3>5 DEF PileBounded
  <2>4. CASE Running /\ pc \notin {"loop", "remove grid", "remove data"}
    <3>1. Pairs \subseteq Listed \cup {iter} /\ Len(list) <= MaxN + crashes
      BY <2>4 DEF DiskIsListed, SizeBounded
    <3>2. Cardinality(Pairs) <= Len(list) + 1
      BY <2>1, <3>1, PairsSize
    <3>3. Cardinality(Pairs) <= MaxN + crashes + 1
      BY <2>1, <3>1, <3>2, Numbers
    <3>4. QED
      BY <2>4, <3>3 DEF PileBounded
  <2>5. QED
    BY <2>2, <2>3, <2>4 DEF Running
<1>2. Spec => []IInv
  BY Inductive
<1>3. QED
  BY <1>1, <1>2, PTL

(* What is in the list and on disk to fall back on: inductive together     *)
(* with IInv.                                                              *)
THEOREM FallbackInductive == MaxN >= 3 => (Spec => []LossInv)
<1> SUFFICES ASSUME MaxN >= 3 PROVE Spec => []LossInv
  OBVIOUS
<1>1. Init => LossInv
  BY LossInvInit
<1>2. IInv /\ LossInv /\ [Next]_vars => LossInv'
  BY RepeatsSteps, EntriesSteps, TornSteps, GapSteps, AloneSteps, LossSteps DEF LossInv
<1>3. Spec => []IInv
  BY Inductive
<1>4. QED
  BY <1>1, <1>2, <1>3, PTL DEF Spec

(* With an interval in iterations every job, and every directory a job     *)
(* left or a crash cut short, has a checkpoint that can be loaded (or the  *)
(* initial data) within the interval and the iteration being saved; the    *)
(* one exception is a lone pair that is written again with MaxN = 3 and    *)
(* checkpoint_at_startup.                                                  *)
THEOREM LossIsBounded == MaxN >= 3 => (Spec => []LossBounded)
<1> SUFFICES ASSUME MaxN >= 3 PROVE Spec => []LossBounded
  OBVIOUS
<1>1. IInv /\ LossInv => LossBounded
  <2> SUFFICES ASSUME IInv, LossInv PROVE LossBounded
    OBVIOUS
  <2>1. CASE pc = "down"
    BY <2>1 DEF LossInv
  <2>2. CASE pc = "load"
    BY <2>2, LossAtStart DEF IInv, ScheduleFollows
  <2>3. CASE Running
    BY <2>3, LossWhileRunning DEF LossInv
  <2>4. QED
    BY <2>1, <2>2, <2>3 DEF Running
<1>2. Spec => []IInv
  BY Inductive
<1>3. Spec => []LossInv
  BY FallbackInductive
<1>4. QED
  BY <1>1, <1>2, <1>3, PTL

(* With room for four checkpoints, or without the save at start-up, there  *)
(* is no exception: whatever was saved again, and wherever it crashed, the *)
(* loss is bounded.                                                        *)
THEOREM LossHasNoException ==
  MaxN >= 4 \/ (MaxN >= 3 /\ ~AtStartup) =>
    (Spec => [](Kind = "iteration" => \E i \in Fallbacks : iter - i <= Interval + 1))
<1> SUFFICES ASSUME MaxN >= 4 \/ (MaxN >= 3 /\ ~AtStartup)
             PROVE  Spec => [](Kind = "iteration" => \E i \in Fallbacks : iter - i <= Interval + 1)
  OBVIOUS
<1>1. MaxN >= 3
  BY Numbers
<1>2. LossBounded => (Kind = "iteration" => \E i \in Fallbacks : iter - i <= Interval + 1)
  BY Numbers DEF LossBounded, AloneAndRewritten
<1>3. Spec => []LossBounded
  BY <1>1, LossIsBounded
<1>4. QED
  BY <1>2, <1>3, PTL

(* A crash tears the last pair of the directory and no other.              *)
THEOREM LastPairTorn == MaxN >= 3 => (Spec => []OnlyNewestTorn)
<1> SUFFICES ASSUME MaxN >= 3 PROVE Spec => []OnlyNewestTorn
  OBVIOUS
<1>1. LossInv => OnlyNewestTorn
  BY DEF LossInv
<1>2. Spec => []LossInv
  BY FallbackInductive
<1>3. QED
  BY <1>1, <1>2, PTL

(* The files of a directory on which no job was killed, step by step. *)
LEMMA MatchSteps == FilesMatch /\ [Next]_vars => FilesMatch'
<1> SUFFICES ASSUME FilesMatch, [Next]_vars PROVE FilesMatch'
  OBVIOUS
<1> USE DEF FilesMatch, Matched
<1>1. CASE Start \/ Evolve
  <2>1. UNCHANGED <<grid, data, crashes>>
    BY <1>1 DEF Start, Evolve, Detect, FreshStart, Load, LoadFails, StartupSave, Advance, CheckDue,
                Terminate, disk
  <2>2. /\ pc \in {"down", "load", "up", "loop", "due"}
        /\ pc' \in {"down", "load", "up", "loop", "due", "create grid"}
    BY <1>1 DEF Start, Evolve, Detect, FreshStart, Load, LoadFails, StartupSave, Advance, CheckDue,
                Terminate, Due
  <2>3. QED
    BY <2>1, <2>2
<1>2. CASE CreateGrid
  BY <1>2 DEF CreateGrid, Files
<1>3. CASE CloseGrid
  BY <1>3 DEF CloseGrid, Files
<1>4. CASE CreateData
  BY <1>4 DEF CreateData, Files
<1>5. CASE CloseData
  BY <1>5 DEF CloseData, Files
<1>6. CASE Push
  <2>1. UNCHANGED <<grid, data, crashes>> /\ pc = "push" /\ pc' \in {"remove grid", "reschedule"}
    BY <1>6 DEF Push, disk
  <2>2. QED
    BY <2>1
<1>7. CASE RemoveGrid
  BY <1>7 DEF RemoveGrid, Files
<1>8. CASE RemoveData
  BY <1>8 DEF RemoveData, Files
<1>9. CASE Reschedule
  <2>1. UNCHANGED <<grid, data, crashes>> /\ pc = "reschedule" /\ pc' \in {"down", "loop"}
    BY <1>9 DEF Reschedule, disk
  <2>2. QED
    BY <2>1
<1>10. CASE Crash
  <2>1. UNCHANGED <<grid, data>> /\ crashes' = crashes + 1
    BY <1>10 DEF Crash, disk
  <2>2. crashes' \in Nat /\ crashes' # 0
    <3>1. crashes \in Nat
      OBVIOUS
    <3> HIDE DEF FilesMatch
    <3>2. QED
      BY <2>1, <3>1
  <2>3. QED
    BY <2>1, <2>2
<1>11. CASE UNCHANGED vars
  BY <1>11 DEF vars, disk
<1>12. QED
  BY <1>1, <1>2, <1>3, <1>4, <1>5, <1>6, <1>7, <1>8, <1>9, <1>10, <1>11 DEF Next, Save

(* Without a crash every file has its partner and is whole wherever a job  *)
(* starts, runs or ends, for any maximum number of checkpoints: what one   *)
(* job leaves the next can load.                                           *)
THEOREM FilesArePaired == Spec => []NoOrphans
<1>1. Init => FilesMatch
  BY DEF Init, FilesMatch, Matched, Files
<1>2. FilesMatch /\ [Next]_vars => FilesMatch'
  BY MatchSteps
<1>3. FilesMatch => NoOrphans
  BY DEF FilesMatch, Matched, NoOrphans
<1>4. QED
  BY <1>1, <1>2, <1>3, PTL DEF Spec

(* Iterations are numbers: one before another is not the other. *)
LEMMA Older == \A i, j \in Iteration : i < j => i # j
BY Numbers

(* From the end of a save to the end of the rotation, step by step. *)
LEMMA SavedSteps == MaxN >= 3 /\ IInv /\ JustSaved /\ [Next]_vars => JustSaved'
<1> SUFFICES ASSUME MaxN >= 3, IInv, JustSaved, [Next]_vars PROVE JustSaved'
  OBVIOUS
<1> USE DEF JustSaved, AfterPush
<1>1. iter \in Iteration /\ grid \in [Iteration -> Files] /\ data \in [Iteration -> Files]
  BY DEF IInv, TypeOK
<1>2. CASE Start \/ Evolve \/ CreateGrid \/ CloseGrid \/ CreateData \/ Reschedule \/ Crash
  BY <1>2 DEF Start, Evolve, Detect, FreshStart, Load, LoadFails, StartupSave, Advance, CheckDue,
              Terminate, CreateGrid, CloseGrid, CreateData, Reschedule, Crash
<1>3. CASE CloseData
  <2>1. grid[iter] = "whole"
    BY <1>3 DEF CloseData, IInv, SavedIsKept
  <2>2. QED
    BY <1>1, <1>3, <2>1 DEF CloseData, Complete
<1>4. CASE Push
  BY <1>4 DEF Push, disk, Complete
<1>5. CASE RemoveGrid
  <2>1. Head(list) \in Iteration /\ Head(list) < iter
    BY <1>5, FrontIsOlder DEF RemoveGrid
  <2>2. Head(list) # iter
    BY <1>1, <2>1, Older
  <2>3. QED
    BY <1>1, <1>5, <2>2 DEF RemoveGrid, Complete
<1>6. CASE RemoveData
  <2>1. Head(list) \in Iteration /\ Head(list) < iter
    BY <1>6, FrontIsOlder DEF RemoveData
  <2>2. Head(list) # iter
    BY <1>1, <2>1, Older
  <2>3. QED
    BY <1>1, <1>6, <2>2 DEF RemoveData, Complete
<1>7. CASE UNCHANGED vars
  BY <1>7 DEF vars, disk, Complete
<1>8. QED
  BY <1>2, <1>3, <1>4, <1>5, <1>6, <1>7 DEF Next, Save

(* A job that ends by itself after a save leaves the checkpoint of its     *)
(* last iteration, complete: the rotation of the exit, that may find the   *)
(* iteration three times in the list, has not touched it.                  *)
THEOREM ExitIsSaved == MaxN >= 3 => (Spec => EndLeavesLatest)
<1> SUFFICES ASSUME MaxN >= 3 PROVE Spec => EndLeavesLatest
  OBVIOUS
<1>1. Init => JustSaved
  BY DEF Init, JustSaved, AfterPush
<1>2. IInv /\ JustSaved /\ [Next]_vars => JustSaved'
  BY SavedSteps
<1>3. IInv /\ JustSaved => (pc = "reschedule" /\ pc' = "down" /\ crashes' = crashes =>
                              iter \in Complete /\ saved = iter)
  BY DEF IInv, SavedIsKept, JustSaved, AfterPush
<1>4. Spec => []IInv
  BY Inductive
<1>5. QED
  BY <1>1, <1>2, <1>3, <1>4, PTL DEF Spec, EndLeavesLatest
=============================================================================
