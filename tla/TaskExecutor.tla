---------------------------- MODULE TaskExecutor ----------------------------
(***************************************************************************)
(* grace::executor (include/grace/utils/task_queue.hh,                     *)
(* src/utils/task_queue.cpp) of one MPI rank and the two asynchronous      *)
(* devices it polls: the GPU streams and the MPI library.                  *)
(*                                                                         *)
(* run() is one thread; pc is its place in the polling loop and cursor the *)
(* iterator of the scan in progress.  Kernels and transfers finish at any  *)
(* moment between two of its steps, kernels of one stream in launch order. *)
(* apply_boundary_conditions() calls run() and then reset() once for every *)
(* ghost-zone fill, so a behaviour is an endless series of sweeps over the *)
(* same graph.                                                             *)
(***************************************************************************)
EXTENDS Integers, FiniteSets, SequencesExt

CONSTANTS
  Task,      \* the ids of task_list: positions in the vector, so numbers
  Kind,      \* task_t::kind
  Stream,    \* gpu_task_t::stream of each task (ignored for other kinds)
  Deps,      \* task_t::_dependencies, as a set: the factories never repeat one
  Faulty     \* kernels whose event may report an error

ASSUME TaskAssumption   == Task \in SUBSET Nat /\ IsFiniteSet(Task)
ASSUME KindAssumption   == Kind \in [Task -> {"GPU", "MPI", "CPU"}]
ASSUME DepsAssumption   == Deps \in [Task -> SUBSET Task]
ASSUME FaultyAssumption == Faulty \in SUBSET Task

(* The graph has no cycle: some numbering puts each task after the tasks   *)
(* it depends on.  (Ids do not: a send is created before the kernels that  *)
(* pack its buffer.)                                                       *)
Acyclic == \E depth \in [Task -> 0 .. Cardinality(Task)] :
             \A t \in Task : \A d \in Deps[t] : depth[d] < depth[t]

VARIABLES
  pc,           \* "idle", or the place of run(): see above
  cursor,       \* position of the scan in gpu_pending or mpi_pending
  status,       \* task_t::status
  pending,      \* runtime_task_view::pending
  ready,        \* executor::ready, FIFO
  gpu_pending,  \* executor::gpu_pending, in launch order
  mpi_pending,  \* executor::mpi_pending, in launch order
  work,         \* the event or request of a task: the device's side of it
  runs          \* history: launches of the task's body in this sweep

queues == <<ready, gpu_pending, mpi_pending>>
vars   == <<pc, cursor, status, pending, queues, work, runs>>

Places   == {"idle", "loop", "dispatch", "poll gpu", "poll mpi", "drained"}
Statuses == {"WAITING", "READY", "RUNNING", "COMPLETE"}
Works    == {"none", "in flight", "finished", "failed"}

TypeOK ==
  /\ pc \in Places
  /\ cursor \in Nat
  /\ status \in [Task -> Statuses]
  /\ pending \in [Task -> Nat]
  /\ ready \in Seq(Task) /\ gpu_pending \in Seq(Task) /\ mpi_pending \in Seq(Task)
  /\ work \in [Task -> Works]
  /\ runs \in [Task -> Nat]
-----------------------------------------------------------------------------
(* The order in which a set of tasks is pushed to a queue.  task_list is   *)
(* scanned by position, and a task registers itself in the _dependents of  *)
(* its dependencies when it is created, so both loops that push to ready   *)
(* visit increasing ids.                                                   *)
Ascending(S) ==
  {s \in [1 .. Cardinality(S) -> S] :
     /\ \A i, j \in DOMAIN s : i < j => s[i] < s[j]
     /\ \A t \in S : \E i \in DOMAIN s : s[i] = t}

Sources == {t \in Task : Deps[t] = {}}

(* The state build_executor_runtime leaves and reset() restores. *)
Built(sts, pnd) ==
  /\ sts = [t \in Task |-> IF t \in Sources THEN "READY" ELSE "WAITING"]
  /\ pnd = [t \in Task |-> Cardinality(Deps[t])]

Init ==
  /\ pc = "idle"
  /\ cursor = 0
  /\ Built(status, pending)
  /\ ready \in Ascending(Sources)
  /\ gpu_pending = <<>>
  /\ mpi_pending = <<>>
  /\ work = [t \in Task |-> "none"]
  /\ runs = [t \in Task |-> 0]
-----------------------------------------------------------------------------
(* executor::complete_and_release *)

(* The dependents whose counter the completion of t brings to zero. *)
Freed(t) == {s \in Task : t \in Deps[s] /\ pending[s] = 1}

(* queue is the ready queue the released tasks are pushed to. *)
CompleteAndRelease(t, queue) ==
  /\ status' = [s \in Task |-> IF s = t THEN "COMPLETE"
                               ELSE IF s \in Freed(t) THEN "READY" ELSE status[s]]
  /\ pending' = [s \in Task |-> IF t \in Deps[s] THEN pending[s] - 1 ELSE pending[s]]
  /\ \E released \in Ascending(Freed(t)) : ready' = queue \o released
-----------------------------------------------------------------------------
(* executor::run *)

Begin ==
  /\ pc = "idle"
  /\ pc' = "loop"
  /\ UNCHANGED <<cursor, status, pending, queues, work, runs>>

(* The condition of the while loop that ends the sweep. *)
Drained == ready = <<>> /\ gpu_pending = <<>> /\ mpi_pending = <<>>

LoopTest ==
  /\ pc = "loop"
  /\ pc' = IF Drained THEN "drained" ELSE "dispatch"
  /\ UNCHANGED <<cursor, status, pending, queues, work, runs>>

(* Each launch asserts that the task is READY (task_t::run). *)
Launch(t, outcome) ==
  /\ status[t] = "READY"
  /\ work' = [work EXCEPT ![t] = outcome]
  /\ runs' = [runs EXCEPT ![t] = @ + 1]

DispatchGpu ==
  /\ pc = "dispatch" /\ ready # <<>>
  /\ LET t == Head(ready) IN
       /\ Kind[t] = "GPU"
       /\ Launch(t, "in flight")
       /\ status' = [status EXCEPT ![t] = "RUNNING"]
       /\ gpu_pending' = Append(gpu_pending, t)
  /\ ready' = Tail(ready)
  /\ UNCHANGED <<pc, cursor, pending, mpi_pending>>

DispatchMpi ==
  /\ pc = "dispatch" /\ ready # <<>>
  /\ LET t == Head(ready) IN
       /\ Kind[t] = "MPI"
       /\ Launch(t, "in flight")
       /\ status' = [status EXCEPT ![t] = "RUNNING"]
       /\ mpi_pending' = Append(mpi_pending, t)
  /\ ready' = Tail(ready)
  /\ UNCHANGED <<pc, cursor, pending, gpu_pending>>

DispatchCpu ==
  /\ pc = "dispatch" /\ ready # <<>>
  /\ LET t == Head(ready) IN
       /\ Kind[t] = "CPU"
       /\ Launch(t, "finished")
       /\ CompleteAndRelease(t, Tail(ready))
  /\ UNCHANGED <<pc, cursor, gpu_pending, mpi_pending>>

(* Mutant: the scan of the kernels is skipped. *)
EndDispatchSkipsGpu ==
  /\ pc = "dispatch" /\ ready = <<>>
  /\ pc' = "poll mpi" /\ cursor' = 1
  /\ UNCHANGED <<status, pending, queues, work, runs>>

EndDispatch ==
  /\ pc = "dispatch" /\ ready = <<>>
  /\ pc' = "poll gpu" /\ cursor' = 1
  /\ UNCHANGED <<status, pending, queues, work, runs>>

(* Mutants: an event that reports an error counts as complete; the scan    *)
(* stops at the first kernel that is not finished.                         *)
PollGpuTakesFailed ==
  /\ pc = "poll gpu" /\ cursor <= Len(gpu_pending)
  /\ LET t == gpu_pending[cursor] IN
       \/ /\ work[t] # "in flight"
          /\ CompleteAndRelease(t, ready)
          /\ gpu_pending' = RemoveAt(gpu_pending, cursor)
          /\ UNCHANGED cursor
       \/ /\ work[t] = "in flight"
          /\ cursor' = cursor + 1
          /\ UNCHANGED <<status, pending, ready, gpu_pending>>
  /\ UNCHANGED <<pc, mpi_pending, work, runs>>
PollGpuInOrder ==
  /\ pc = "poll gpu" /\ cursor <= Len(gpu_pending)
  /\ LET t == gpu_pending[cursor] IN
       \/ /\ work[t] = "finished"
          /\ CompleteAndRelease(t, ready)
          /\ gpu_pending' = RemoveAt(gpu_pending, cursor)
          /\ UNCHANGED cursor
       \/ /\ work[t] # "finished"
          /\ cursor' = Len(gpu_pending) + 1
          /\ UNCHANGED <<status, pending, ready, gpu_pending>>
  /\ UNCHANGED <<pc, mpi_pending, work, runs>>

PollGpu ==
  /\ pc = "poll gpu" /\ cursor <= Len(gpu_pending)
  /\ LET t == gpu_pending[cursor] IN
       \/ /\ work[t] = "finished"
          /\ CompleteAndRelease(t, ready)
          /\ gpu_pending' = RemoveAt(gpu_pending, cursor)
          /\ UNCHANGED cursor
       \/ /\ work[t] # "finished"
          /\ cursor' = cursor + 1
          /\ UNCHANGED <<status, pending, ready, gpu_pending>>
  /\ UNCHANGED <<pc, mpi_pending, work, runs>>

EndPollGpu ==
  /\ pc = "poll gpu" /\ cursor > Len(gpu_pending)
  /\ pc' = "poll mpi" /\ cursor' = 1
  /\ UNCHANGED <<status, pending, queues, work, runs>>

(* Mutant: a request is taken for complete without MPI_Test. *)
PollMpiWithoutTest ==
  /\ pc = "poll mpi" /\ cursor <= Len(mpi_pending)
  /\ CompleteAndRelease(mpi_pending[cursor], ready)
  /\ mpi_pending' = RemoveAt(mpi_pending, cursor)
  /\ UNCHANGED <<pc, cursor, gpu_pending, work, runs>>

PollMpi ==
  /\ pc = "poll mpi" /\ cursor <= Len(mpi_pending)
  /\ LET t == mpi_pending[cursor] IN
       \/ /\ work[t] = "finished"
          /\ CompleteAndRelease(t, ready)
          /\ mpi_pending' = RemoveAt(mpi_pending, cursor)
          /\ UNCHANGED cursor
       \/ /\ work[t] # "finished"
          /\ cursor' = cursor + 1
          /\ UNCHANGED <<status, pending, ready, mpi_pending>>
  /\ UNCHANGED <<pc, gpu_pending, work, runs>>

EndPollMpi ==
  /\ pc = "poll mpi" /\ cursor > Len(mpi_pending)
  /\ pc' = "loop" /\ cursor' = 0
  /\ UNCHANGED <<status, pending, queues, work, runs>>

(* executor::reset, called by apply_boundary_conditions after run(): it    *)
(* forgets the queues, the events and the requests and rebuilds the rest.  *)
Reset ==
  /\ pc = "drained"
  /\ pc' = "idle"
  /\ Built(status', pending')
  /\ ready' \in Ascending(Sources)
  /\ gpu_pending' = <<>> /\ mpi_pending' = <<>>
  /\ work' = [t \in Task |-> "none"]
  /\ runs' = [t \in Task |-> 0]
  /\ UNCHANGED cursor
-----------------------------------------------------------------------------
(* The devices *)

(* Work launched before t on t's stream and not yet finished or failed. *)
AheadOnStream(t) ==
  {i \in DOMAIN gpu_pending :
     /\ \E j \in DOMAIN gpu_pending : i < j /\ gpu_pending[j] = t
     /\ Stream[gpu_pending[i]] = Stream[t]
     /\ work[gpu_pending[i]] = "in flight"}

KernelEnds(t) ==
  /\ Kind[t] = "GPU" /\ work[t] = "in flight" /\ AheadOnStream(t) = {}
  /\ \/ work' = [work EXCEPT ![t] = "finished"]
     \/ t \in Faulty /\ work' = [work EXCEPT ![t] = "failed"]
  /\ UNCHANGED <<pc, cursor, status, pending, queues, runs>>

TransferEnds(t) ==
  /\ Kind[t] = "MPI" /\ work[t] = "in flight"
  /\ work' = [work EXCEPT ![t] = "finished"]
  /\ UNCHANGED <<pc, cursor, status, pending, queues, runs>>
-----------------------------------------------------------------------------
Run ==
  \/ Begin \/ LoopTest
  \/ DispatchGpu \/ DispatchMpi \/ DispatchCpu \/ EndDispatch
  \/ PollGpu \/ EndPollGpu \/ PollMpi \/ EndPollMpi
  \/ Reset

Device(t) == KernelEnds(t) \/ TransferEnds(t)

Next == Run \/ \E t \in Task : Device(t)

Spec == Init /\ [][Next]_vars

(* The rank's thread keeps running its loop, and launched work ends.       *)
FairSpec == Spec /\ WF_vars(Run) /\ \A t \in Task : WF_vars(Device(t))
-----------------------------------------------------------------------------
(* Properties *)

(* A body runs only on finished results: no kernel or transfer is launched *)
(* while a task it depends on is still in flight, or has failed            *)
(* (ghost_exchange_pipeline.rst: "task ids that must complete before this  *)
(* task may run").  This is what keeps a pack from reading a ghost zone a  *)
(* restriction is still writing.                                           *)
LaunchedAfterDeps ==
  \A t \in Task : runs[t] > 0 => \A d \in Deps[t] : work[d] = "finished"

(* No task is launched twice in a sweep: a second launch would post a      *)
(* second message with the same tag, or re-record an event in use.         *)
LaunchedOnce == \A t \in Task : runs[t] <= 1

(* pending counts exactly the dependencies that have not been released,    *)
(* in every state of every sweep, the first after a reset() included.      *)
PendingCountsDeps ==
  \A t \in Task : pending[t] = Cardinality({d \in Deps[t] : status[d] # "COMPLETE"})

(* run() returns only when the whole graph has been launched and has       *)
(* finished: no ghost zone is used while a transfer into it is in flight,  *)
(* and none is skipped.                                                    *)
DrainedMeansDone ==
  pc = "drained" => \A t \in Task : status[t] = "COMPLETE" /\ work[t] = "finished"

(* Every launch finds its task READY, so the ASSERT of task_t::run never   *)
(* stops the program: whatever the queue holds was released and not run.   *)
QueuedTasksAreReady == \A i \in DOMAIN ready : status[ready[i]] = "READY"

(* The inductive invariant.  A queue holds a task once, and the status of  *)
(* a task says which one: READY in ready, RUNNING in the list of its kind, *)
(* WAITING or COMPLETE in none.  Status, launches, device work and counter *)
(* agree, in the middle of a scan too.                                     *)
Distinct(q) == \A i, j \in DOMAIN q : q[i] = q[j] => i = j
Holds(q, t) == \E i \in DOMAIN q : q[i] = t

QueuesMatchStatus ==
  /\ Distinct(ready) /\ Distinct(gpu_pending) /\ Distinct(mpi_pending)
  /\ \A t \in Task :
       /\ status[t] = "READY" <=> Holds(ready, t)
       /\ status[t] = "RUNNING" /\ Kind[t] = "GPU" <=> Holds(gpu_pending, t)
       /\ status[t] = "RUNNING" /\ Kind[t] = "MPI" <=> Holds(mpi_pending, t)

StatusMatchesWork ==
  \A t \in Task :
    /\ status[t] = "WAITING" <=> pending[t] > 0
    /\ status[t] \in {"WAITING", "READY"} => runs[t] = 0 /\ work[t] = "none"
    /\ status[t] = "RUNNING" => runs[t] = 1 /\ work[t] # "none" /\ Kind[t] # "CPU"
    /\ status[t] = "COMPLETE" => runs[t] = 1 /\ work[t] = "finished"

CursorInRange ==
  /\ pc \in {"poll gpu", "poll mpi"} => cursor >= 1
  /\ pc = "drained" => Drained

IInv ==
  TypeOK /\ QueuesMatchStatus /\ StatusMatchesWork /\ PendingCountsDeps /\ CursorInRange

(* Every sweep ends, whatever the order in which the devices answer, unless *)
(* a kernel fails.                                                         *)
SweepEnds == pc = "loop" ~> pc = "drained" \/ \E t \in Task : work[t] = "failed"

(* A failed kernel stalls what depends on it and nothing else: every other *)
(* task of the sweep completes (ghost_exchange_pipeline.rst: "a slow rank  *)
(* pair delays only its own downstream tasks, not the whole exchange").    *)
(* run() itself then polls for ever: query() reports FAILED and no branch  *)
(* of the scan takes it.                                                   *)
Upstream == [t \in Task |->
  {u \in Task : \A S \in SUBSET Task :
     Deps[t] \subseteq S /\ (\A s \in S : Deps[s] \subseteq S) => u \in S}]
OnlyDownstreamStalls ==
  \A t \in Task : pc = "loop" ~>
    status[t] = "COMPLETE" \/ \E u \in Upstream[t] \cup {t} : work[u] = "failed"

(* The executor implements its contract. *)
Contract == INSTANCE TaskGraph WITH
  started  <- {t \in Task : runs[t] > 0},
  finished <- {t \in Task : work[t] = "finished"}

ContractSpec == Contract!Spec
=============================================================================
