----------------------------- MODULE Checkpoint -----------------------------
(***************************************************************************)
(* checkpoint_handler_impl_t (src/system/checkpoint_handler.cpp), the      *)
(* files it keeps and the jobs that run one after the other on the same    *)
(* checkpoint directory.                                                   *)
(*                                                                         *)
(* All ranks of a job go through save, rotation and load together, so the  *)
(* job is one process here.  It can crash between any two file operations; *)
(* the next job finds what is left in the directory.  A file is "torn"     *)
(* from the moment it is opened for writing until it is closed.            *)
(***************************************************************************)
EXTENDS Integers, FiniteSets, Sequences

CONSTANTS
  MaxIteration,   \* where a run of terminate::ITERATION ends, and the bound on iter
  MaxN,           \* checkpoints::max_n_checkpoints
  Kind,           \* checkpoints::interval_kind
  Interval,       \* checkpoints::iteration_interval
  AtStartup,      \* checkpoints::checkpoint_at_startup
  AtTermination,  \* checkpoints::checkpoint_at_termination
  MaxCrashes      \* bound on the crashes of a behaviour

ASSUME RunAssumption ==
  /\ MaxIteration \in Nat
  /\ MaxN \in Nat \ {0}
  /\ Kind \in {"iteration", "walltime"}
  /\ Interval \in Nat \ {0}
  /\ AtStartup \in BOOLEAN /\ AtTermination \in BOOLEAN
  /\ MaxCrashes \in Nat

Iteration == 0 .. MaxIteration

VARIABLES
  pc,       \* where the job is
  caller,   \* which of the three calls of save_checkpoint is running
  iter,     \* grace::get_iteration()
  next,     \* next_checkpoint_iter
  list,     \* checkpoint_list
  grid,     \* the files checkpoint_grid_<i>.bin
  data,     \* the files checkpoint_data_<i>.h5
  crashes,  \* history: crashes so far
  saved     \* history: the latest iteration whose files were closed, -1 at first

disk == <<grid, data>>
vars == <<pc, caller, iter, next, list, disk, crashes, saved>>

Places  == {"down", "load", "up", "loop", "due", "create grid", "close grid", "create data",
            "close data", "push", "remove grid", "remove data", "reschedule"}
Callers == {"startup", "loop", "exit"}
Files   == {"absent", "torn", "whole"}

TypeOK ==
  /\ pc \in Places /\ caller \in Callers
  /\ iter \in Iteration /\ next \in Nat
  /\ list \in Seq(Iteration)
  /\ grid \in [Iteration -> Files] /\ data \in [Iteration -> Files]
  /\ crashes \in 0 .. MaxCrashes
  /\ saved \in Iteration \cup {-1}

Init ==
  /\ pc = "down" /\ caller = "startup"
  /\ iter = 0 /\ next = 0 /\ list = <<>>
  /\ grid = [i \in Iteration |-> "absent"]
  /\ data = [i \in Iteration |-> "absent"]
  /\ crashes = 0 /\ saved = -1

(* Iterations that have both files, and those a job can be resumed from. *)
Pairs    == {i \in Iteration : grid[i] # "absent" /\ data[i] # "absent"}
Complete == {i \in Iteration : grid[i] = "whole" /\ data[i] = "whole"}
Newest   == list[Len(list)]

Ascending(S) ==
  {s \in [1 .. Cardinality(S) -> S] :
     /\ \A i, j \in DOMAIN s : i < j => s[i] < s[j]
     /\ \A i \in S : \E k \in DOMAIN s : s[k] = i}
-----------------------------------------------------------------------------
(* Starting a job: the constructor and grace::initialize *)

(* A new handler lists the pairs of files by name: it opens none of them,  *)
(* and a data file without its grid file is only warned about.             *)
Detect ==
  /\ pc = "down"
  /\ list' \in Ascending(Pairs)
  /\ pc' = "load" /\ caller' = "startup"
  /\ iter' = 0 /\ next' = Interval
  /\ UNCHANGED <<disk, crashes, saved>>

FreshStart ==
  /\ pc = "load" /\ list = <<>>
  /\ pc' = "up"
  /\ UNCHANGED <<caller, iter, next, list, disk, crashes, saved>>

Load ==
  /\ pc = "load" /\ list # <<>> /\ Newest \in Complete
  /\ iter' = Newest /\ next' = next + Newest
  /\ pc' = "up"
  /\ UNCHANGED <<caller, list, disk, crashes, saved>>

(* p4est or HDF5 cannot open a torn file: the job ends with an error. *)
LoadFails ==
  /\ pc = "load" /\ list # <<>> /\ Newest \notin Complete
  /\ pc' = "down"
  /\ UNCHANGED <<caller, iter, next, list, disk, crashes, saved>>
-----------------------------------------------------------------------------
(* The main loop, as far as checkpoints are concerned *)

StartupSave ==
  /\ pc = "up"
  /\ pc' = IF AtStartup THEN "create grid" ELSE "loop"
  /\ caller' = "startup"
  /\ UNCHANGED <<iter, next, list, disk, crashes, saved>>

Advance ==
  /\ pc = "loop" /\ iter < MaxIteration
  /\ iter' = iter + 1
  /\ pc' = "due"
  /\ UNCHANGED <<caller, next, list, disk, crashes, saved>>

(* Mutant: the schedule is compared with >= of the iteration after it. *)
DueLate == IF Kind = "iteration" THEN {iter > next + 1} ELSE BOOLEAN

(* need_checkpoint: the clock of the job may or may not have passed the    *)
(* wall time of the next checkpoint.                                       *)
Due == IF Kind = "iteration" THEN {iter > next} ELSE BOOLEAN

CheckDue ==
  /\ pc = "due"
  /\ \E due \in Due : pc' = IF due THEN "create grid" ELSE "loop"
  /\ caller' = "loop"
  /\ UNCHANGED <<iter, next, list, disk, crashes, saved>>

(* A run may end before MaxIteration: by time, wall time, or a NaN found.  *)
(* The handler's destructor saves a last time.                             *)
Terminate ==
  /\ pc = "loop"
  /\ pc' = IF AtTermination THEN "create grid" ELSE "down"
  /\ caller' = "exit"
  /\ UNCHANGED <<iter, next, list, disk, crashes, saved>>
-----------------------------------------------------------------------------
(* save_checkpoint *)

CreateGrid ==
  /\ pc = "create grid" /\ pc' = "close grid"
  /\ grid' = [grid EXCEPT ![iter] = "torn"]
  /\ UNCHANGED <<caller, iter, next, list, data, crashes, saved>>

CloseGrid ==
  /\ pc = "close grid" /\ pc' = "create data"
  /\ grid' = [grid EXCEPT ![iter] = "whole"]
  /\ UNCHANGED <<caller, iter, next, list, data, crashes, saved>>

(* H5F_ACC_TRUNC: a file of the same iteration is emptied. *)
CreateData ==
  /\ pc = "create data" /\ pc' = "close data"
  /\ data' = [data EXCEPT ![iter] = "torn"]
  /\ UNCHANGED <<caller, iter, next, list, grid, crashes, saved>>

CloseData ==
  /\ pc = "close data" /\ pc' = "push"
  /\ data' = [data EXCEPT ![iter] = "whole"]
  /\ saved' = IF iter > saved THEN iter ELSE saved
  /\ UNCHANGED <<caller, iter, next, list, grid, crashes>>

(* Mutant: the rotation starts when the list is full. *)
PushRotatesEarly ==
  /\ pc = "push"
  /\ list' = Append(list, iter)
  /\ pc' = IF Len(list') >= MaxN THEN "remove grid" ELSE "reschedule"
  /\ UNCHANGED <<caller, iter, next, disk, crashes, saved>>
Push ==
  /\ pc = "push"
  /\ list' = Append(list, iter)
  /\ pc' = IF Len(list') > MaxN THEN "remove grid" ELSE "reschedule"
  /\ UNCHANGED <<caller, iter, next, disk, crashes, saved>>

(* Mutant: the back of the list is removed. *)
RemoveGridBack ==
  /\ pc = "remove grid" /\ pc' = "remove data"
  /\ grid' = [grid EXCEPT ![Newest] = "absent"]
  /\ UNCHANGED <<caller, iter, next, list, data, crashes, saved>>

(* delete_checkpoint, called once per save: the front of the list, grid    *)
(* file first.                                                             *)
RemoveGrid ==
  /\ pc = "remove grid" /\ pc' = "remove data"
  /\ grid' = [grid EXCEPT ![Head(list)] = "absent"]
  /\ UNCHANGED <<caller, iter, next, list, data, crashes, saved>>

(* Mutant: the data file is left behind. *)
RemoveDataKeepsFile ==
  /\ pc = "remove data" /\ pc' = "reschedule"
  /\ list' = Tail(list)
  /\ UNCHANGED <<caller, iter, next, disk, crashes, saved>>

RemoveData ==
  /\ pc = "remove data" /\ pc' = "reschedule"
  /\ data' = [data EXCEPT ![Head(list)] = "absent"]
  /\ list' = Tail(list)
  /\ UNCHANGED <<caller, iter, next, grid, crashes, saved>>

Reschedule ==
  /\ pc = "reschedule"
  /\ next' = iter + Interval
  /\ pc' = IF caller = "exit" THEN "down" ELSE "loop"
  /\ UNCHANGED <<caller, iter, list, disk, crashes, saved>>
-----------------------------------------------------------------------------
(* The job is killed: memory is lost, files stay as they are. *)
Crash ==
  /\ pc # "down" /\ crashes < MaxCrashes
  /\ pc' = "down"
  /\ crashes' = crashes + 1
  /\ UNCHANGED <<caller, iter, next, list, disk, saved>>

Start == Detect \/ FreshStart \/ Load \/ LoadFails
Evolve == StartupSave \/ Advance \/ CheckDue \/ Terminate
Save == CreateGrid \/ CloseGrid \/ CreateData \/ CloseData \/ Push
        \/ RemoveGrid \/ RemoveData \/ Reschedule

Next == Start \/ Evolve \/ Save \/ Crash

Spec == Init /\ [][Next]_vars
-----------------------------------------------------------------------------
(* Properties *)

Running == pc \notin {"down", "load"}

(* The rotation deletes an older iteration, never the files just written,  *)
(* although an iteration can be in the list up to three times: loaded,     *)
(* saved again at start-up and again at termination.  Needs MaxN >= 3.     *)
RotationKeepsNewest == pc \in {"remove grid", "remove data"} => Head(list) < iter

(* No crash and no rotation sends a later job back: a job that starts at   *)
(* all starts from the latest checkpoint ever completed.                   *)
LoadedIsNewest == Running => iter >= saved

(* Every crash leaves at most one checkpoint more than the maximum, and    *)
(* no later save removes it: a save deletes one checkpoint at most.        *)
PileBounded ==
  /\ Cardinality(Pairs) <= MaxN + crashes + 1
  /\ pc = "loop" => Cardinality(Pairs) <= MaxN + crashes

(* With interval_kind = "iteration" there is, while a job runs and after   *)
(* it, a checkpoint that p4est and HDF5 can open, or the initial data, not *)
(* more than Interval iterations and the one being saved behind it: also   *)
(* when a save reopens the files of an iteration saved before and a crash  *)
(* leaves them torn (the torn pair has to be taken away by hand first, see *)
(* Resumable).  The exception is a rotation with room for three entries,   *)
(* checkpoint_at_startup and the same iterations in the list again and     *)
(* again: it can leave one pair alone, and the save that writes it again   *)
(* has nothing to fall back on.                                            *)
Fallbacks == Complete \cup {0}
AloneAndRewritten == AtStartup /\ MaxN = 3 /\ Pairs = {iter}
LossBounded ==
  Kind = "iteration" =>
    (\E i \in Fallbacks : iter - i <= Interval + 1) \/ AloneAndRewritten

(* A job that was not killed leaves a checkpoint of its last iteration.    *)
EndLeavesLatest ==
  [][pc = "reschedule" /\ pc' = "down" /\ crashes' = crashes =>
       iter \in Complete /\ saved = iter]_vars

(* Without a crash no file outlives its partner or stays incomplete, except *)
(* in the middle of a rotation or a save: the next job can load what the    *)
(* last one left.                                                           *)
NoOrphans ==
  crashes = 0 /\ pc \in {"down", "load", "up", "loop"} =>
    \A i \in Iteration : grid[i] = data[i] /\ grid[i] # "torn"

(* The inductive invariant.  The list is sorted, ends at or before iter,   *)
(* and holds iter once, twice or three times depending on who is saving.   *)
Sorted ==
  \A i, j \in DOMAIN list : /\ i <= j => list[i] <= list[j]
                            /\ pc = "load" /\ i < j => list[i] < list[j]

BeforePush == pc \in {"create grid", "close grid", "create data", "close data", "push"}
AfterPush  == pc \in {"remove grid", "remove data", "reschedule"}

(* iter occurs at most n times in the list. *)
Copies(n) == \A k \in DOMAIN list : k <= Len(list) - n => list[k] < iter

ListEndsAtIter ==
  Running =>
    /\ \A k \in DOMAIN list : list[k] <= iter
    /\ pc = "up" => Copies(1)
    /\ pc = "loop" => Copies(2)
    /\ pc = "due" => Copies(0)
    /\ BeforePush => (caller = "startup" /\ Copies(1)) \/ (caller = "loop" /\ Copies(0))
                     \/ (caller = "exit" /\ Copies(2))
    /\ AfterPush => Copies(2) \/ (caller = "exit" /\ Copies(3))

(* What is on disk is in the list, or is being saved. *)
Listed == {list[k] : k \in DOMAIN list}
DiskIsListed ==
  /\ pc = "load" => Pairs = Listed
  /\ Running => Pairs \subseteq Listed \cup (IF BeforePush THEN {iter} ELSE {})

SizeBounded ==
  /\ pc = "down" => Cardinality(Pairs) <= MaxN + crashes
  /\ pc = "load" \/ (Running /\ pc \notin {"remove grid", "remove data"}) =>
       Len(list) <= MaxN + crashes
  /\ pc \in {"remove grid", "remove data"} => Len(list) > MaxN /\ Len(list) <= MaxN + crashes + 1

(* The latest completed checkpoint is never removed; a later save at the   *)
(* same iteration may tear it.  The grid file of a save comes first.       *)
SavedIsKept ==
  /\ saved # -1 => saved \in Pairs
  /\ \A i \in Iteration : data[i] = "whole" => i <= saved
  /\ pc \in {"create data", "close data"} => grid[iter] = "whole"
  /\ pc \in {"push", "remove grid", "remove data", "reschedule"} => saved = iter

(* The last save that was finished, or the initial data. *)
LastSave == IF saved = -1 THEN 0 ELSE saved

ScheduleFollows ==
  /\ pc = "load" => next = Interval /\ iter = 0
  /\ Running => next <= LastSave + Interval
  /\ pc \in {"up", "loop"} /\ Kind = "iteration" => iter <= next
  /\ pc = "due" /\ Kind = "iteration" => iter <= next + 1
  /\ BeforePush /\ Kind = "iteration" => iter <= next + 1

IInv ==
  TypeOK /\ Sorted /\ ListEndsAtIter /\ DiskIsListed /\ SizeBounded /\ SavedIsKept
  /\ LoadedIsNewest /\ ScheduleFollows

(* What a crash can fall back on, part by part.  The entries of the list:  *)
(* an iteration before the present one is there at most twice.             *)
OlderOnce ==
  \A j, k \in DOMAIN list : j < k => list[k] = iter \/ list[j] < list[k]
OlderTwice ==
  \A j, k \in DOMAIN list : j + 1 < k => list[k] = iter \/ list[j] < list[k]

(* The present iteration is there once less than it may be. *)
Spare ==
  /\ pc = "loop" => Copies(1)
  /\ caller = "exit" /\ BeforePush => Copies(1)
  /\ caller = "exit" /\ AfterPush => Copies(2)
  /\ caller = "loop" /\ AfterPush => Copies(1)

(* Either an older iteration or the present one is there too often: the    *)
(* first from a save at start-up of an earlier iteration of this job, the  *)
(* second from one of the present iteration.                               *)
Repeats ==
  Running =>
    /\ OlderTwice
    /\ OlderOnce \/ Spare
    /\ pc = "up" => OlderOnce
    /\ caller = "startup" /\ (BeforePush \/ AfterPush) => OlderOnce /\ AtStartup
    /\ ~AtStartup => OlderOnce /\ Spare

(* The files of every entry but the first are there; the second follows    *)
(* when it is the same iteration.                                          *)
EntriesKept ==
  /\ Running => \A k \in DOMAIN list :
       list[k] \in Pairs \/ k = 1 \/ (pc = "remove data" /\ k = 2 /\ list[2] = list[1])
  /\ pc = "remove data" => Head(list) \notin Pairs

(* A pair can be torn while its iteration is saved, and by a crash then.   *)
Saving == pc \in {"close grid", "create data", "close data"}
OnlySavedTorn == Running => \A i \in Pairs \ Complete : Saving /\ i = iter

(* Only the last pair of a directory is ever torn, whatever crashed.       *)
OnlyNewestTorn == \A i \in Pairs \ Complete, j \in Pairs : j <= i

(* The pairs of a directory follow each other at Interval + 1 at most.     *)
NoGaps ==
  Kind = "iteration" => \A j, k \in Pairs :
    k < j => \E i \in Pairs : i < j /\ j - i <= Interval + 1

(* A pair is alone at the start of the evolution only, or in the case      *)
(* LossBounded excepts.                                                    *)
Roomy == MaxN >= 4 \/ ~AtStartup
RarelyAlone ==
  Kind = "iteration" /\ Roomy =>
    \A j \in Pairs : j <= Interval + 1 \/ \E k \in Pairs : k # j

LossInv ==
  /\ Repeats /\ EntriesKept /\ OnlySavedTorn /\ OnlyNewestTorn /\ NoGaps /\ RarelyAlone
  /\ pc = "down" => LossBounded

(* While no job was killed: which files match, step by step of a save and  *)
(* of a deletion.  This part is inductive by itself, for any maximum.      *)
Matched(i) == grid[i] = data[i] /\ grid[i] # "torn"

FilesMatch ==
  /\ crashes \in Nat
  /\ grid \in [Iteration -> Files] /\ data \in [Iteration -> Files]
  /\ crashes = 0 => \A i \in Iteration :
       CASE pc = "close grid"                    -> i = iter \/ Matched(i)
         [] pc \in {"create data", "close data"} -> IF i = iter THEN grid[i] = "whole" ELSE Matched(i)
         [] pc = "remove data"                   -> IF i = Head(list) THEN grid[i] = "absent" ELSE Matched(i)
         [] OTHER                                -> Matched(i)

(* From the save to the end of the rotation the checkpoint just written    *)
(* can be loaded.                                                          *)
JustSaved == AfterPush \/ pc = "push" => iter \in Complete

(* What the documentation says, and the code does not do *)

(* "if left default latest available is loaded": a job resumes when there  *)
(* is a checkpoint to resume from.                                         *)
Resumable == pc = "load" /\ Complete # {} => Newest \in Complete
=============================================================================
