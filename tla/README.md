# GRACE: a TLA+ verification project

GRACE evolves general-relativistic magnetohydrodynamics, dynamical spacetimes
(Z4c) and M1 neutrino radiation on a p4est forest of octrees, with MPI between
ranks and Kokkos kernels on the devices of a rank. Its physics is floating-point
arithmetic over arrays, which a model checker cannot say much about. Its control
can be checked: what runs after what, what the ranks have to agree on, what
survives a restart, which object outlives which. This project models that control,
checks it with TLC on small instances, and proves the main results with TLAPS for
every value of the constants.

Paths are relative to the repository. Line numbers are those of the commit
modelled; `PROJECT.json` gives for each definition the lines it translates.

## 1. The system

### Parts that are modelled

**Asynchronous task executor** (`include/grace/utils/task_queue.hh`,
`src/utils/task_queue.cpp`). One thread per rank runs a graph of tasks: CPU bodies,
GPU kernels on streams, MPI sends and receives.
*State*: status of each task, number of pending dependencies, the queues `ready`,
`gpu_pending` and `mpi_pending`. *Operations*: `run()` (dispatch, scan of the two
pending queues, `complete_and_release`), `reset()`. *Interaction*: ghost filling
builds the graph once per mesh and replays it in every Runge-Kutta substep; the
executor learns of the devices only by polling. *Hard*: events and requests
complete between any two polls, and the scans erase from the list they walk; the
counters must be exactly back at the start of each replay; a kernel can report an
error that no branch of the scan takes. *Correct if*: each body is launched once,
after its dependencies have finished; nothing is in flight when `run()` returns;
`run()` returns unless a device fails.

**Checkpoint handler** (`src/system/checkpoint_handler.cpp`).
*State*: the list of checkpoints, the next one due, the files of the directory.
*Operations*: detect, load, save, rotate (`delete_checkpoint`), schedule; the
destructor saves a last time. *Interaction*: called by `initialize`, the main loop
and the exit handlers; a later process starts from the files. *Hard*: a crash
between any two file operations; one iteration saved up to three times (the one
loaded, saved again at start-up, and again at termination); a list with one entry
per save but one pair of files per iteration. *Correct if*: the rotation never
removes the newest checkpoint, a job resumes from the latest one completed, the
directory is bounded, and so is the work lost in a crash, counted from what can be loaded.

**Evolution loop** (`src/grace.cpp`, `src/system/runtime_functions.cpp`,
`src/system/nan_check.cpp`). The loop of `main()` on every rank.
*State*: iteration, time, time step, the request to terminate, the schedule, the
wall clock. *Operations*: the collectives (time step, evolution, regrid, output,
save, NaN scan, final save) and the decisions of each rank between them.
*Hard*: each rank decides by itself which collective it enters next. *Correct if*:
ranks that wait are always in the same collective with the same data; a NaN on one
rank stops all; every run ends on all ranks.

**Restart state** (`src/system/checkpoint_handler.cpp`,
`include/grace/IO/diagnostics/co_tracker.hh`, `src/physics/m1_trigger.cpp`,
`src/physics/b_field_injection.cpp`, `include/grace/evolution/boundary_outflow.hh`).
What a run carries besides its fields: the compact-object tracker and its merger
flag, the one-way switch of M1, the one-time injection of a magnetic field, the mass
counted at the outer boundary. *Hard*: part of it is in the checkpoint, part is
recomputed, part is lost; jobs of one run may have different parameter files.
*Correct if*: a restart recomputes what it replays exactly; nothing that happens
once happens twice or never.

**Ghost-zone filling** (`include/grace/amr/ghostzone_kernels/`,
`src/amr/amr_ghosts*.cpp`, `include/grace/amr/bc_*.hh`). For every local quadrant 6
faces, 12 edges and 8 corners are physical boundaries or have a coarser, equally
fine or finer neighbour on this or another rank. `update()` classifies them and
builds the task graph of restrictions, copies, packs, sends, receives, unpacks,
boundary kernels (in the state and in the coarse buffers, in two passes) and
prolongations. The cell-centred variables have one graph, the three face-staggered
directions another, which shares the interpolations between them.
*State*: the descriptors, the buckets, the graph, the buffers.
*Hard*: a task must wait for everything that fills the cells it reads, which depends
on the mesh around each quadrant; two ranks size and order a message independently;
kernels of a rank run at once on four streams. *Correct if*: in every order the
graph allows, kernels read updated cells and do not race, messages agree, and a
filled ghost layer holds this sweep's data.

**Ghost kernels** (`include/grace/amr/ghostzone_kernels/*_kernels.hh`,
`index_helpers.hh`). The loops behind those tasks, over the cell-centred and the three
face-staggered arrays of a quadrant. *State*: the arrays, their coarse buffers.
*Operations*: copy, pack and unpack between arrays of one or two spacings, restrict, the
boundary kernels, interpolation. *Hard*: the two ends of a message count cells with
their own offsets, halves and range checks, which differ for faces, edges and corners and
with the staggering; the divergence-preserving interpolation must leave alone the faces
that are fine already, and decides that from what lies beyond each element. *Correct if*:
each ghost cell is filled, from its own place in the mesh, and no fine face is replaced.

**Regrid transaction** (`src/amr/regrid.cpp`, `src/amr/regrid/`,
`include/grace/amr/regrid/`). *State*: the forest with the flags and minimum levels in
its quadrants' user data, the state arrays and the scratch arrays, the lists and
buffers of one transaction. *Operations*: flag, refine, coarsen, balance, walk over old
and new quadrants, exchange fine face data, prolong and restrict, partition, transfer,
swap, rebuild the ghost layer. *Hard*: three numberings of quadrants (old, new, and
after the partition) are walked in step; the flux through a face at a level jump is
the neighbour's and must survive the prolongation; balance splits quadrants no one
flagged. *Correct if*: each quadrant's data reach its new owner in its place, both sides
of every face agree, and every rank leaves the regrid.

**Particles module** (`src/particles/`, `include/grace/particles/`). Tracers, held by a
rank, in quadrants that may be another's. *State*: the containers, the shadow of the
geometry, the id counters. *Operations*: seed, advance (request, sample, answer, push,
boundary, cull, compact), rebalance, regrid, save and load. *Hard*: each call is a chain
of collectives that ranks without tracers must enter too; tracers change owner while
requests for them are under way; a restart may have another number of ranks. *Correct
if*: no tracer inside the domain is lost or doubled, its velocity is the one where it
is, new ids differ from old ones.

**Refluxing** (`src/evolution/refluxing.cpp`,
`src/amr/amr_ghosts_construct_reflux_buffers.cpp`). *State*: descriptors of the faces and
edges that quadrants share, the buffers of five kinds of messages. *Operations*:
registration, the order of keys in each message, fill, post, wait, correct. *Hard*: both
ends of a message sort their own keys; an edge may be shared by quadrants of two levels
and several ranks, and all have to arrive at the same value. *Correct if*: a flux
or EMF is the same on every quadrant that has it.

**Time integrator** (`src/evolution/evolve.cpp`). *State*: the state and its scratch and
staging buffers, the auxiliaries, the outflow accumulator. *Operations*: the schemes of
`evolve_impl`, `advance_substep` on every rank. *Hard*: a buffer is reused for different
stages, ghost zones and auxiliaries are stale until refreshed. *Correct if*: what a stage
reads is fresh and what a step adds up to has the order of the scheme.

**First-order flux correction** (`src/evolution/evolve.cpp`,
`flag_fofc_cells`, `apply_fofc_correction`). Each block tries the update of its cells and
of the ghost cells beside them, tags those that cannot be inverted and replaces the
fluxes of their faces. *Hard*: no message is sent, so the two blocks of a face must come
to the same verdict; the tags are of one substep. *Correct if*: exactly the faces of
spoilt cells are replaced, on both sides.

**Conservative-to-primitive inversion** (`src/physics/eos/c2p.cpp`,
`include/grace/physics/eos/*c2p.hh`). *Operations*: limits, the main and the backup
inversion, which of the two to trust, signals, floors, the write-back. *Hard*: every
exit leaves another subset of the stored variables to be reset, in five builds.
*Correct if*: afterwards the conserved variables are those of the primitives.

**Singletons and lifetimes** (`include/grace/utils/singleton_holder.hh`,
`include/grace/utils/lifetime_tracker.hh`, `src/system/grace_initialize.cpp`, the
destructors). *State*: the array of trackers sorted by longevity, the list of exit
handlers with the function statics among them. *Operations*: `set_longevity`,
`at_exit_func`, destruction. *Hard*: the two orders interleave, and the order of
construction depends on how the run started; the checkpoint handler's destructor
saves the whole state. *Correct if*: no destructor uses an object that is gone.

### How they interact

`initialize` constructs the singletons, then loads a checkpoint or sets initial data.
`main()` loops: time step, evolution (each substep fills ghosts by running the
executor's graph and meeting the other ranks at a barrier), regrid (which rebuilds
the ghost graph), output, tracker, M1 trigger, injection, checkpoint, NaN scan. When
`main` returns, `exit()` destroys the objects, and the checkpoint handler's destructor
writes the last checkpoint. The models meet at these seams: `RunLoop` takes
a save as one collective, `Checkpoint` opens it into file operations, and
`Restart` says what the file holds; `TaskExecutor` runs any graph, `GhostGraph`
builds one and `GhostFill` runs it as the contract `TaskGraph` promises. `Regrid` leaves
what `GhostMesh` assumes: 2:1 balance and whole families. `Particles` takes regrids as
given. `TimeStep` runs the scheme, and in each substep the messages of `Reflux`;
`FirstOrder` is what happens to a block's fluxes before them, and `ConservsToPrims` the
verdict on a cell, in the dry run and in the stage itself. `GhostCells` opens the groups of
cells that `GhostGraph`'s tasks move.

### Parts that are not modelled

| part | why |
| --- | --- |
| p4est forest and connectivity | a wrapper; `GhostMesh` states the library's results as neighbour relations of boxes |
| output and diagnostics | formatting and parallel writing; their times are in `RunLoop`, their state across restarts in `Restart` |
| spherical surfaces, initial data, physics kernels | numerics: fluxes, sources, Z4c, M1 closures and rates, equations of state, readers of tables. They are most of the repository's lines; the order in which a step calls them is in `TimeStep` |
| parameter parser, coordinates, variables | data without control; parameters become CONSTANTS with the ranges of `parameters/*.yaml` |
| MPI wrappers, profiling, errors | pass-through; an error aborts the process, which `Checkpoint` and `Restart` have as a crash |

## 2. The modules and the code

Each module has one action per operation of the code; each property of a run has at
least one *mutant*, an operator that changes a definition the way a plausible bug
would and that the run must then report. Mutants stand next to what they change and
are used by no action.

### `TaskGraph`, `TaskExecutor`, `MCTaskExecutor`

`TaskGraph` is the contract: in a sweep over a graph every task starts once, on
finished dependencies, and the next sweep starts when all have finished. It has two
sets for state.

`TaskExecutor` is the code. `pc` is the place in `run()`: `LoopTest` is the
condition of the `while`, `Dispatch{Gpu,Mpi,Cpu}` one turn of the dispatch loop,
`Poll{Gpu,Mpi}` one turn of a scan, with `cursor` for its iterator and the erasure
that leaves the iterator in place. `CompleteAndRelease` decrements the counters of
the dependents and pushes those that reach zero. `Reset` is `reset()`.
`KernelEnds` and `TransferEnds` are the devices: a kernel ends after those before it
on its stream, a transfer at any time, a kernel in `Faulty` may fail instead.
`runs` counts launches for the properties. The executor refines the contract under
the mapping `started` = launched, `finished` = the device's work has ended; a
`"CPU"` body does both in one step.

`MCTaskExecutor` has a graph of eight tasks with every kind feeding every other kind
on two streams.

### `Checkpoint`

One directory and the jobs that work on it one after the other; all ranks of a job
do the file operations together, so a job is one process. A checkpoint is a pair of
files, `checkpoint_grid_<i>.bin` and `checkpoint_data_<i>.h5`; each is `"absent"`,
`"torn"` from the moment it is opened for writing, or `"whole"`. `Detect` lists the
pairs by name without opening them; `Load` or `LoadFails` takes the last; `CreateGrid`
to `CloseData`, `Push`, `RemoveGrid`, `RemoveData`, `Reschedule` are the steps of
`save_checkpoint`, `caller` says which of its three callers is running; `Crash` may
come between any two steps. A run may end at any iteration. `Complete` are the pairs
that p4est and HDF5 can open; a save opens its two files anew, so an iteration that is
saved again leaves `Complete` until the second file is closed. `saved` records the latest
iteration whose files were ever closed: a history variable, used where the question is
what a later job resumes from, never for what a crash costs.

`LossBounded` is measured from the directory. While a job runs, between jobs and after
every crash, `Complete` (or iteration 0, the initial data) has an element at most
`Interval + 1` behind `iter`. A save that is cut short while it rewrites a good pair
takes the job back to the pair before, which the rotation has to have left. The
exception `AloneAndRewritten` is the case where it has not (section 5). What a job can
fall back on is not what the next one finds by itself: a torn newest pair has to be
taken away by hand first (`Resumable`, section 5).

### `RunLoop`, `MCRunLoop`

`place[r]` is where rank r is in `main()`'s loop. `Decide(r)` are the branches a rank
takes by itself (the head of the loop, the cadences of regrid, output and NaN scan,
`need_checkpoint`, the new schedule at the end of a save); `Together` are the
collectives, which need all ranks in the same place. `Tick` moves the wall clock,
between the decisions of two ranks too. A step may put NaNs on any set of ranks.
`written[r]` records the iteration of the last save rank r took part in, in the loop or
at the end; `TerminatesCleanly` relates it to the iteration at which NaNs stopped a run.
The several outputs of an iteration are one collective: they have cadences of the
same form, and none depends on a rank's own data.

### `Restart`

`orbit` is the physics: what each update of the tracker can find. `field` is the
evolved state as the list of what was done to it, so two histories can be compared.
The actions follow the order of an iteration in `main()` (`Step`, `Regrid`,
`Diagnose`, `Track`, `UpdateTrigger`, `Inject`, `SaveIfDue`) and of a start
(`Launch`, `Load` or `FreshStart`, `StartupCheck`, `StartupSave`, `InitialOutput`).
`File` is exactly what `save_checkpoint` writes; the separation and the boundary mass
are not in it. `seen` records the first result of each iteration. Saves come after
any iteration, as they do with the default wall-clock interval; a job may have the M1
trigger in its parameter file or not.

### `GhostMesh`, `GhostGraph`, `GhostFill`, `MCGhostFill`

`GhostMesh` is what `amr_ghosts` knows of the mesh. Quadrants are boxes of unit
cells; an element is a direction in {-1,0,1}^3. A ghost layer is a record that
`update()` fills step by step: neighbours, classes (`"same"`, `"coarser"`,
`"finer"`, `"phys"`, or `"virtual"` for the edge or corner in the middle of a coarser
face that p4est does not report and whose descriptor stays zero-initialised), the
boundary elements needed in coarse buffers, the boundary kernels each element
belongs to. `GhostGraph` is `build_task_list`: the tasks (`Tasks`), their
dependencies (`Deps`, with one operator for each factory: `BcDeps`, `ProlongDeps`,
`SendDeps`, `P2PDeps`), their streams, and what each reads and writes (`Moves`),
from the kernels. On a mesh that is `staggered` it is `build_task_list_face_stag`
(`StagTasks`, `StagDepsIn`, `StagMovesIn`): the same factories for each direction, then
interpolations that write all three, wait only for the elements next to theirs, and run
like everything else of that graph on one stream. The dependencies and the movements are translated from different
code (the factories' bookkeeping, and the index ranges of the kernels), which is
what makes comparing them worthwhile. A cell stands for the group of ghost cells of
one quadrant across one element, in the state or the coarse buffer, or for its slot
in a message. `GhostFill` runs the graphs of all ranks over messages and the barrier,
in any order the dependencies and the streams allow, and keeps the set of cells
written from data that was not updated (`stale`).

A task runs there in one step when its dependencies have finished. The executor's
part of that, that it launches no task earlier and every task, is `TaskExecutor`'s
contract. That it takes tasks from a queue adds an order between the kernels of one stream
(`Ahead`), which the code relies on and no dependency states. `Ordered` is the condition
on a graph that the proofs need; it is decided from `Deps`, `Moves` and the slots of the
messages alone. `MeshAssumption` of `GhostMesh` is what the proofs take of p4est's
forest, and TLC evaluates it on the meshes of every run.

### `GhostIndices`, `GhostCells`, `GhostExamples`, `MCGhostCells`

`GhostIndices` is the arithmetic of the kernels for one axis, since every index set is a
product over the axes: `Ghost` and `Phys` are `compute_indices`, `GhostRange`, `FinerRange`
and `CoarserRange` the range checks, `SlotIndex` what a slot of a message holds. A filled
region is a box, that is for each axis a set of pairs of the index written and the place
the data come from, both in the lattice of the array written. `GhostCells` is one
quadrant in a sweep: `CopyAll` (local copies, messages, restriction), `EarlyWalls`
(boundary kernels of the first pass, in the array and in the coarse buffer), `ProlongAll`,
`LateWalls` (the deferred pass). The classes of its neighbours are those of `GhostMesh`.
`HasFine` is `get_info`: whether the faces at an end of an element count as fine already.
`GhostExamples` has the meshes; `MCGhostFill` runs `GhostFill` and `GhostCells` side by
side, one resting while the other runs, `MCGhostCells` the second alone.

### `RegridMesh`, `PartitionTransfer`, `Regrid`, `MCRegrid`

`RegridMesh` has the leaves as paths in their trees, with the flag and minimum level of
`amr_flags.hh`, the callbacks p4est is given (`Evaluated`, `Split`, `Merged`), and what
p4est does with them. A leaf's data are integers for which restriction adds and
prolongation splits, so a flux that went astray shows. `PartitionTransfer` is who sends
which quadrants to whom between two partitions. `Regrid` is the transaction:
`HostRegrid` on all ranks, then on each `Prepare` (the walk, `Plan`, and the lists of fine
faces), `Exchange`, its data tasks in any order `Before` allows, `Partition`, the
transfers (`Post`, `DeliverQuads`, `Finish`) and `Cleanup` with the new ghost layer. `work[r]` is the transaction
object of rank r. `was` and `base` are histories for the properties.

### `Particles`, `MCParticles`

`pc[r]` is where rank r is in the call `phase`. Actions over one rank are its own loops
(`Seed`, `Resolve`, `Flag`, `Update`, `Pack`, ...), the others collectives all ranks enter
(`Width`, `Reduce`, `Exchange`, ...). Space is one axis; what was sampled is the place it
was sampled at, so a velocity from elsewhere shows. A file has the tracers in rank
order and the counters; a job may start with another number of ranks. What an exchange, a
compaction or a save makes of the ranks' sequences is `InOrder(f, P)`: the elements of `f` at
the places `P`, in rank order. `ForestsAssumption` says what p4est and the grid promise of a
forest: every place of the domain is in exactly one quadrant.

### `Reflux`, `TimeStep`, `MCTimeStep`

`Reflux` extends `GhostMesh`. A descriptor is a hanging or level face, or an edge with its
`Side`s; keys and slots are per message; a value is the set of contributions it is the
average of. `TimeStep` has the schemes as programs over buffers (`Copy`, `Sub`, `Implicit`,
`Bc`, `Aux`, `Lin`) and runs them: a content is a combination of the step's right-hand
sides, `Stale` one of an earlier step. In a `Sub`, each rank goes through the places of
`advance_substep` (compute, fill, post, wait, correct, add); `mail` holds the messages.

### `ConservsToPrims`, `FirstOrder`

`ConservsToPrims` is one call for one cell. Values are three levels relative to the floor
and the range of the equation of state; what a root finder returns is a choice.
`off` is which stored variables the primitives found so far do not give, `reset` which
will be written back. `FirstOrder` is a row of two blocks with their ghost cells:
`Fluxes`, `Flag`, `Compact`, `Apply` and `Add` on both, substep after substep; `bad` is
which cells of a substep are spoilt. `RowSpec` is its own specification; `MCTimeStep` checks a step, a row and a call in
one run, each while the others rest.

### `Lifetimes`, `GraceLifetimes`, `MCJobs`

`Lifetimes` is `lifetime_tracker` with `std::atexit`: `Construct` inserts a tracker by
`upper_bound` and registers `at_exit_func` once more, `ConstructStatic` registers the
destructor of a function static, and exit calls the handlers from the last
registered, each `at_exit_func` destroying the tracker of greatest longevity. `missing`
collects the uses of destroyed objects. `GraceLifetimes` is the executable's own
list: 16 singletons with `unique_objects_lifetimes`, 4 statics, what each destructor
uses, and the eight orders of construction `Startup` gives.
`MCJobs` runs the jobs of `Restart` and the life of one process side by side.

## 3. The runs

| run | instance | what it shows |
| --- | --- | --- |
| `executor_sweeps` | `TaskExecutor_sweeps.cfg`, 768 states | `ContractSpec` (the refinement of `TaskGraph`); `SweepEnds` and `OnlyDownstreamStalls` under fairness, with two kernels that may fail |
| `checkpoint_crash` | `Checkpoint_crash.cfg`, 35487 states | `RotationKeepsNewest`, and `LossBounded` over the pairs that can be loaded, through two crashes, in saves of an iteration for the second and third time too; `NoOrphans` without; `EndLeavesLatest` |
| `checkpoint_torn` | `Checkpoint_torn.cfg` | violates `Resumable` (finding 1) |
| `run_loop` | `RunLoop_all.cfg`, 26294 states | `TerminatesCleanly` (a run that NaNs stop at an iteration ends on all ranks at that iteration, after all have saved it) and `RunEnds` for three ranks; a rank in another collective than the rest would keep the run from ending |
| `jobs` | `Jobs.cfg`, 803723 states | `Replayed`, `LatchesFollowTheOrbit`, `InjectedOnce` and the inductive `SwitchInv`, through three jobs; `SingletonsFindSingletons`, `StaticsFindSingletons` at the exit of a job, in all eight orders of construction |
| `ghost_sweeps` | `GhostFill_sweeps.cfg`, 142336 states | `ReadyReads`, `NoRace`, `GraphOrdered`, `FilledFresh`, `SweepEnds` on seven meshes, `GraphOrdered` also for the face-staggered graph of a level jump; `CellsFilled`, `FineKept` for every quadrant of the seven and four staggerings |
| `staggered_corners` | `GhostFill_staggered.cfg` | violates `StencilAwaited` (finding 4) |
| `ghost_fine_data` | `GhostCells_fine_data.cfg` | violates `FineDataIsFine` (finding 3) |
| `regrid_meshes` | `Regrid_meshes.cfg` | `RestState`, `DataFollow`, `SharedFacesAgree`, `MinLevelsKept`, `RegridEnds` through two regrids in a row |
| `particles` | `Particles_jobs.cfg` | `EachOnce`, `SampledAfterRegrid`, `CountersAheadOfSameSize`, `OnlyOutsideIsDropped`, `CallsEnd` through steps, regrids, a save and a restart |
| `substeps` | `TimeStep_substeps.cfg`, 95912 states | `SharedFluxes`, `SharedEmfs`, `ReadsFresh`, `OrderConditions`, `StepEnds` for five schemes and three meshes; `FallbackIsExact` for a row of two blocks; `StoredAgree`, `DryRunPredicts` in five builds |
| `fofc_magnetised` | `FirstOrder_magnetised.cfg` | violates `SharedFacesIdentical` (finding 2) |

### The bounds, and why they are enough

*Executor.* Nothing is cut: a behaviour is an endless series of sweeps over one
graph. The graph has sources, chains, fan-in and fan-out between all three kinds,
and both a shared and a separate stream; other graphs are covered by the proofs.

*Checkpoint.* `MaxIteration` 6 with an interval of 1 and `MaxN` 3 rotates several times;
`need_checkpoint` compares with `>`, so a save comes every second iteration.
Start-up and final saves are on, which makes an iteration be saved three times.
Two crashes let the second hit what the first one left. The bound on the loss is below
the length of a run, so that it is not met by the initial data.
The interval kind `"iteration"` is the one whose loss can be bounded; with
`"walltime"` a save may or may not be due at any iteration.

*Run loop.* Steps of 1 and 2 against a final time of 3 and a save every time unit let
cadences by iteration and by time shift against each other. The time is 5 at most, so
`MaxIter` and `MaxTime`, which are bounds of the model only, never stop a rank. Three
ranks allow two to agree against one. `MaxWall` is 1 because no criterion here reads the
wall clock. Deadlock is not checked: a run ends.

*Restart.* Five iterations with an update of the tracker every second, a regrid every
third and an injection at the second; three jobs, so that a restart of a restarted
run is there. All orbits of two updates are checked. Deadlock is not checked in `jobs`: after
`MaxJobs` jobs nothing happens, and a process that exits ends.

*Ghost zones.* One rank with a level jump and walls at two, four or six sides (faces,
domain edges and domain corners); two ranks without a jump, and with one. In
`FourWalls` and `SixWalls` three refined boxes surround a coarse one, so that elements
with coarser, same and physical neighbours meet at one corner. `RefinedPeers` is such a
mesh split between two ranks, which brings the exchange of coarse buffers. Two
levels are what 2:1 balance lets a quadrant see on one side; a quadrant with a finer and
a coarser neighbour at once needs three and is not in the meshes. `n_device_streams` is
4 on six meshes (kernels overlap most) and 1, the default of `parameters/system.yaml`,
on `RefinedPeers`, whose orders would be too many. The graph is static, so `Deps`, `Moves` and
the rest are computed once for each mesh and the states are only the orders of tasks.
The face-staggered graph has three times the tasks, so it is checked as a graph
(`GraphOrdered`) on the mesh with a level jump and two ranks, which has every kind of
message and interpolation but no boundary, and no run goes through its sweeps: the theorems
do that for any `Ordered` graph. `FacePeers`, for the finding, has two ranks behind two faces of
one quadrant, the least for a virtual edge and its corner to be filled by another
message than the elements the corner waits for.

*Ghost cells.* The same meshes, every quadrant, the centred and the three staggered arrays.
`ngz` is 4, the default; `nx` is 10, the smallest even number larger than 2 `ngz`
(`parameters/amr.yaml:61`), and its half is no multiple of `ngz`,
so that an offset by a half and one by the ghosts
cannot be taken for each other. Deadlock is not checked, since a quadrant's walk ends; a
stuck sweep violates `SweepEnds`.

*Regrid.* Two axes (the third adds no case to the walk or to the faces, only more
children), two trees so that a face between trees is there, levels 0 to 2 so that
balance can split and a family merges beside a finer neighbour, two ranks. Criteria
follow a feature at three places, or ask to coarsen everywhere; two regrids, since the
second starts from what the first left.

*Particles.* Four places, coarse and fine meshes on two or three ranks, one of which may
have no quadrant; one tracer for each rank, two steps, two jobs. Rebalancing and
compaction are done every step and the threshold is 50 %, so that both outcomes of
`Reduce` come. Boundaries are periodic or reflecting, the two that bring a tracer back
into the domain and so to another owner.

*Time step.* Blocks of four cells an axis, the smallest with two subfaces of two cells;
equal quadrants, a level jump, refined boxes of both ranks across an edge. All schemes
run on the first mesh, Euler on the others, where only the messages matter. `y` is named
anew after each step, so behaviours are endless and states few.

*First-order correction.* Two blocks of two cells: each cell touches a face shared with
the other block or the outer one. At most two cells are spoilt per substep
(`MaxBad`); substeps follow each other without end, so that a tag which survived one
would show in the next.

*Lifetimes.* The real objects, and all orders `Startup` gives.

### The fairness assumed

`TaskExecutor`: weak fairness of `Run` (one thread, which never blocks: it polls) and
of `Device(t)` (a launched kernel ends or fails, a posted transfer ends).
`RunLoop`: weak fairness of each `Decide(r)` (a rank computes until the next
collective) and of `Together` (a collective all ranks have entered completes). The
wall clock has none. `GhostFill`: weak fairness of the
whole (`MCSpec`: something that can happen does), which is less than each rank's own
(`Fairness`): a sweep's steps are finitely many. A message arrives after it has been sent. `Regrid`,
`Particles` and `TimeStep`: weak fairness of the steps of a rank (`Step`, `Work`, `StepTurn`),
each of which is a computation, a collective all have entered or a message sent
before. `Checkpoint` and `Restart` have safety properties only (nothing says that a job is started
again), and so have `Lifetimes` and `GhostCells`, which are straight walks.

## 4. The proofs

The theorems hold for every value of the constants that the modules' assumptions
allow. TLC checked each formula first, the inductive invariants included; what is
proved is repeated as a property of a run only where it is also one of the properties
above, so the runs are spent on what has no proof.

**`TaskExecutor_proofs`**: any finite graph, any kinds, any streams, any set of
kernels that may fail. `IInv` has four parts besides the types. `QueuesMatchStatus`: a
queue holds a task once, and a task's status says which queue holds it.
`StatusMatchesWork`: status, launches and the device's work agree. `PendingCountsDeps`:
the counter is the number of dependencies not released. `CursorInRange`: a scan's
position, and empty queues once drained. `LaunchedAfterDeps` alone is not inductive:
that a task in `ready` has finished dependencies follows only from its counter being
zero and the counter being exact, in the middle of a scan too. From `Inductive` follow
`TypeCorrect`, `LaunchOrder`, `SingleLaunch` and `LaunchAsserts`. `EndOfSweep` and
`Implements` assume in addition that the graph is `Acyclic`: by well-founded induction
over the depth of a task, empty queues mean that all tasks have completed. Without that
a cycle would be skipped silently, since `run()` does not look for tasks left over.
The refinement maps each step of the loop to a start, a finish, both at once, the next
sweep, or a stutter.

**`Checkpoint_proofs`**: any run length, interval, interval kind and number of
crashes, for `MaxN >= 3`; the runs show what happens below. `IInv` says that the list
is sorted (`Sorted`) and ends at the current iteration with a bounded number of copies
of it that depends on the caller (`ListEndsAtIter`), that what is on disk is in the list
or being saved (`DiskIsListed`), that the list is bounded by the maximum and the crashes
(`SizeBounded`), that the latest completed pair is still there (`SavedIsKept`), and how
far the schedule lies ahead of it (`ScheduleFollows`). The front of a list longer than
three, with at most three copies of the newest iteration, is older: that is
`RotationIsSafe`, and the reason for `MaxN >= 3`. `ResumeIsLatest` and `PileIsBounded`
follow. `LossIsBounded` is about files and needs a second invariant over `IInv`,
`LossInv`. An older iteration is in the list twice at most, and if one is, the present
one has an entry to spare (`Repeats`), so that the front that a rotation removes leaves
another pair behind; every entry but the first still has its files (`EntriesKept`). Only
the iteration being saved is torn while a job runs (`OnlySavedTorn`), and only the last
pair of a directory whatever crashed (`OnlyNewestTorn`, the theorem `LastPairTorn`); the
pairs follow each other at `Interval + 1` at most (`NoGaps`), so the pair before a torn
one is near enough, if there is one (`RarelyAlone`). `LossHasNoException` says that the
exception of `LossBounded` does not arise with `MaxN >= 4`, nor without a save at
start-up. `FilesArePaired` (`NoOrphans`) needs no maximum: `FilesMatch` says
that without a crash the two files of an iteration are both there and whole or both absent
but for the one that the current step of a save or a removal is at. `ExitIsSaved`
(`EndLeavesLatest`) adds `JustSaved` to `IInv`: from a save until its rotation is over, the
checkpoint just written is complete.

**`RunLoop_proofs`**: any number of ranks, any cadences, steps and interval, for
criteria other than the wall clock (`NoWallClock`). Ranks between two collectives
may be in different places, so the invariant looks ahead: `Destination(r)` is the
collective rank r is on its way to with the data it has, and `SameDestination` says that
it is for all, with the same data on arrival. `RanksMeet`, `RanksAgree` and
`StopHolds` follow, the last with `StoppedAtHead`. `LastSaveComesFirst` is the safety
half of `TerminatesCleanly`, for every way a run ends but an abort: with
`checkpoint_at_termination` a rank that has left the program has written a checkpoint of
its last iteration, and so has every other rank, at the same one.

**`Jobs_proofs`**, about `Restart`: any number of jobs, parameter files, cadences and orbits.
`SwitchInv` says what the M1 switch and the flag `_m1_latch_restored` are between the
load and the start-up check, the only point where the check can tell a restart from a
fresh start. `OneWay` and `Unarmed` follow. The rest is four invariants, each resting on
those before. `TrackerInv`: what a job knows of the objects, and what is in the file, is a
function of the orbit up to the iteration it was updated for (`TrackerFollows`); the
functions `LocationAt`, `MergedAt`, `CloseAt`, `FiredAt` and `ActiveAt` are the history one
job alone would have made. `ActiveInv`: so is the M1 switch while the parameter file stays
the same, although the separation is in no checkpoint (`LatchesFollow`; the step that needs
care is a restart between the update that finds the objects close and the next).
`FieldInv`: a field counts its steps, and has an injection if and only if it is marked as
injected (`Injected`). `HistoryInv`: all jobs with one parameter file are at their place in one
history, `Computed` (`OneHistory`), from which `ReplaysExactly`: an iteration computed again
gives what it gave before.

About `Lifetimes`, in the same module: any singletons, statics, longevities and orders of
construction in which the longevities put dependencies first (`LongevityAssumption`). The
array is sorted, and what is destroyed had no smaller longevity than anything left: so no
singleton's destructor uses a destroyed singleton (`DependenciesOutlive`). A static has no
longevity; what protects the singletons it uses is its place in the order of construction.
`SInv`: the handlers `exit()` still has to call are a prefix of the constructions, each
singleton's being the one call that empties the array's top (`HandlerOf`), and there are as
many trackers as such calls left (`Seated`). When a static is destroyed, as many
singletons are left as were made before it; if at least as many as that outlast the one it
uses, that one is among them (`StaticsSafe`). The hypothesis is `LateAssumption`; like
`LongevityAssumption` it is about the program's lists, and TLC evaluates both on the real
ones in the run `jobs`.

**`GhostFill_proofs`**: any mesh, any number of ranks and streams whose graph is
`Ordered`: every read has a write upstream, of two conflicting tasks one is upstream of
the other, the ghosts have writers, and the two ends of a message list the same slots.
`Safe` says that what has finished is closed under its dependencies and nothing was
written from old data; `ReadsInOrder`, `NoRaces` and `GhostsFilled` follow. Whether the
code's graph is `Ordered` depends on the mesh: `GraphOrdered` checks it on each mesh of the
run. The theorems carry the result from one order of the tasks to all.

The same module proves both properties of `GhostCells`, for any mesh that `MeshAssumption` allows
(two levels, aligned, every cell in one quadrant), any even number of ghosts and any number
of cells. `EveryCellInPlace` is `SamePlace`, the part of `CellsFilled` that the forty range
checks of the kernels are about: a cell is written with data of its own place. What a sender
counts from its array and a receiver from its own differ by where the two arrays begin
(`Offset`, by the component of the element: `SamePlaces`, `FinerPlaces`, `CoarserPlaces`), and
that is where the mesh has the neighbour (`SameNeighbours`, `FinerNeighbours`,
`CoarserNeighbours`: by alignment a neighbour of the same size is level with the quadrant,
and of two sizes the smaller is in the half that `Half01` names). `NoFineReplaced` (`FineKept`):
`KernelsInv` says which element each box of the array belongs to; interpolation of an element
stays in its cells but for the plane at their end (`PlanesWrite`), so another element
differs along an axis that keeps the cells apart, or only along the axis of the
staggering, where `HasFine` has looked at that very element (`Apart`). `NoCellLeftOut`
(`NothingLeftOut`): a box for every point of the array. A point is in one element
(`ComponentOf`), by whose class its box is a copy, one of the finer neighbours' halves, a boundary
kernel or an interpolation (`SameCovers`, `FinerCovers`, `WallCovers`, `ProlongedCovers`); a
plane that interpolation leaves out is the extra plane of the neighbour `HasFine` found, or
one of those at a wall (`PointFilled`, from `StepsInv`). `NoStencilEmpty` (`StencilsFilled`):
before an interpolation its stencil stays in the elements of `Near` (`StencilNear`; the
widest reaches two cells, which is where four ghosts are needed, as `parameters/amr.yaml:80`
says), and the coarse buffer holds each of them (`CbufFilled`). The elements without a descriptor
are the hard case: under each there is one with a coarser neighbour (`Root`), whose loop
goes on into it on the side of the neighbour's other half (`CoarserFills`), and in the wall's
corners an edge kernel does (`WallBelow`). The three together are `CellsFilled`
(`EveryCellFilled`, for four ghosts or more).

**`PartitionTransfer_proofs`**: any number of ranks and any two partitions, ranks without
quadrants included. Sender and receiver compute the same range (`MessagesMatch`, which
rests on the partitions being monotone), and the ranges of a receiver's partners are
disjoint and cover its own (`EveryQuadrantArrivesOnce`). 

**`Substep_proofs`**: for `FirstOrder`, blocks of any size and any set of spoilt cells.
`FallbackInv` says what each phase of a substep owes the next: until the correction no
flux is first-order, from the flags on a face outside the doubtful ones (those that only a
magnetised ghost cell decides) is tagged exactly for a spoilt cell beside it, and the
compacted list is the tagged faces. `FallbackExact` follows, and `UnmagnetisedFacesAgree`:
without a magnetic field no face is doubtful, and the blocks decide the faces they share
alike without a message. For `ConservsToPrims`, every choice of `Builds`: `CallInv` follows
the two calls through the stages of an inversion side by side; `DryFollows` and
`UnclampedFollows` say how the dry call's variables relate to those of the stage's call at
each stage, and `Marked` that what a path changed is marked for resetting.
`StoredVariablesAgree` needs only the last; `DryRunDecides` needs both, since the two calls
take different branches from the same cell.

For `TimeStep`, any mesh of two levels, any number of ranks, every scheme (`FluxesAreShared`).
A coarse quadrant and its fine neighbours advance with the same flux only if four things
agree which different ranks compute alone, so `SharedFluxes` is far from inductive. `FluxInv`
(`FluxesInvariant`): a rank's fluxes are its own until it corrects them (`Uncorrected`) and
the fine averages afterwards (`Averaged`); what it advanced with is what it then had
(`InUse`); and every message posted holds the averages of the uncorrected fluxes in the slot
its receiver will read (`Posting`). The last holds because both ends order the same keys
(`SlotOfKey`, `SameKeys`, `FineFluxesArrive`), although one starts from its fine and the other
from its coarse quadrants. That the correction of one face does not undo another's, nor that of a fine
quadrant what its coarse neighbour was sent, is geometry: a place on a face is on no other
(`PlaceOfFaceCell`), and a fine quadrant has no finer neighbour (`HangingFaceFacts`). The
hypotheses are those of the mesh (`MeshAssumption`, as for the ghost zones), `NumbersAssumption`
(quadrants are numbered from 1 and ranks are numbers) and `CasesAssumption`; TLC evaluates
them in the run `substeps`.

For `ReadsFresh` (`StatesReadAreFresh`), of the same module, what matters is the order of the
operations in each scheme, ghost zones and auxiliaries after every write and before every read,
with buffers that change their roles from stage to stage. The proof runs the five programs on
what is known instead of what is held: `Knowledge` is which buffers are of this step (`live`),
which of them have the ghost zones of their interior (`fresh`) and which the auxiliaries are
computed from (`like`); `After` is what an operation leaves known, `Allowed` what it needs.
`ProgramsLead`: each program can be followed from what a step starts with (`Leads`, put
together with `LeadsOn`) to a fresh state with its own auxiliaries, which is what the next
step starts with. `ReadInv` (`ReadInvariant`) says that what is known at `pc` is so of the
buffers, and each operation preserves it (`CopyKeeps`, `LinearKeeps` and the others), whatever
the contents and the coefficients are.

**`Particles_proofs`**: any number of ranks, forests, flows, boundaries, cadences and
thresholds, and any sequence of steps, regrids, saves and restarts on other numbers of
ranks. None of the properties is inductive: between two collectives ranks are at
different places of a call, and tracers are in containers, in messages and in the file.
`IInv` (`TracersInvariant`) says for each stretch between two collectives (`Staged`) where
everything is: looked-up owners are those a search would find now (`LookedUp`), messages
carry the tracers of their senders to these owners (`Departing`), a container is the rank's
slice of the file or its own seeds (`Loaded`, `Seeded`), requests ask for, and answers
give, the place of the tracer they name (`Requesting`, `Asked`, `Answered`, `Received`), and
ids are below their counters (`Numbered`). Exchange, compaction and save are all `InOrder`, and
`ListsEachOnce` is what makes them safe: a list of places in an order contains each exactly
once. `EachTracerOnce` needs in addition that slices tile the file (`SlicesTile`,
`SlicesApart`); `CountersStayAhead` that counters travel with ids; `NoneLostInside` that
every place of the domain has an owner (`OwnersExist`), so that no tracer in it is for no rank.
`SampledWithEveryRebalance` assumes `RebalanceEvery = 1`, the default of
`parameters/particles.yaml`: with larger values the owner may be out of date, and the
property fails (section 5).

**Model-checked only.** All liveness (`SweepEnds`, `OnlyDownstreamStalls`,
`TerminatesCleanly`, `RunEnds`, `RegridEnds`, `CallsEnd`, `StepEnds`), which
is out of the prover's reach; `GraphOrdered`, which is about a class of meshes; the
invariants of `Regrid`, whose balanced forests are computed by folds over the leaves, so that
a proof would need induction over data; of `TimeStep`, `SharedEmfs`, and `OrderConditions`, which is about five tables of
coefficients.

## 5. Where the code and its documents disagree

1. **A torn checkpoint blocks every restart** (`checkpoint_torn`). A crash while a
   checkpoint is written leaves its files in the directory. `detect_checkpoints` lists
   by name and `load_checkpoint` takes the last (`checkpoint_handler.cpp:1251`), so the
   job stops with an error although older complete checkpoints exist;
   `checkpoint_handler.hh:62` says "if left default latest available is loaded".
2. **Two blocks may rewrite a shared face differently** (`fofc_magnetised`). The trial
   update of a ghost cell adds the curl of the electric field, which is computed for the
   interior only (`evolve.cpp:1418` says that shared faces are rewritten identically).
   A block may then tag a ghost cell that its neighbour, whose interior it is, does not.
   Without a magnetic field the verdicts agree (`FallbackIsExact`).
3. **Normal faces on the domain boundary that nobody fills** (`ghost_fine_data`). Where a
   quadrant's ghosts beside a domain boundary are interpolated, `get_info`
   (`prolongation_task_factories.hh:509-517`, `533-563`) reports fine data at the end on the
   boundary, because the descriptor of a physical element has `level_diff` as constructed,
   `SAME`. `div_free_prolong_op` then leaves the face on the boundary alone
   (`prolongation_kernels.hh:283-332`), and the boundary kernels start one face further out
   (`phys_bc_task_factories.hh:329-401`), so the face keeps an older field. The comment at
   `prolongation_kernels.hh:124-125` says that the flag means fine data, and
   `ghost_exchange_pipeline.rst:358-366` that the interpolation keeps ∇·B = 0 to round-off.
4. **A staggered corner does not wait for the message it reads** (`staggered_corners`). In
   the face-staggered graph the interpolation of a corner waits for what fills the corner
   and its three edges (`prolongation_task_factories.hh:618-634`), not for its faces. Where the edge is
   virtual, in the middle of a coarser face, its coarse ghosts are filled with that face's; the
   local copy records its task at the virtual elements too (`copy_task_factories.hh:300-341`),
   the unpack of a message does not (`pack_unpack_task_factories.hh:599-613`), and the
   interpolation reads the task id 0 the descriptor was made with. The neighbours behind
   two such faces may be on different ranks, and the kernel can run before the second
   message is there. `ghost_exchange_pipeline.rst:206` says "Prolongation depends on every
   ghost slot its stencil reads." The cell-centred interpolations read the same ids, but wait
   for the faces as well (`get_*_prolong_dependencies`), so `ReadyReads` holds for them.

The models reach other disagreements, which a configuration of theirs shows and the
project keeps no run for:

- *A maximum of one checkpoint deletes the only one* (`Checkpoint`, `MaxN = 1`,
  `RotationKeepsNewest`). The list has an entry per save; an iteration saved twice is its
  own oldest entry (`checkpoint_handler.cpp:1202`). `parameters/checkpoints.yaml:13` allows 1.
- *With the default maximum of three a crash can cost all that was computed*
  (`Checkpoint`, `MaxN = 3` and `AtStartup`, `LossBounded` without its exception). Three
  entries can be one iteration: loaded, saved again at start-up and once more at
  termination. When a rotation has left that pair alone, the save of the next start-up
  opens its files anew (`checkpoint_handler.cpp:413-431`), and a crash then leaves
  nothing that can be loaded. `checkpoint_at_startup` is off by default.
- *Wall-clock criteria are read on each rank's own clock* (`RunLoop`, `Kind =
  "walltime"`, `RunEnds`). `need_checkpoint` (`checkpoint_handler.cpp:1274`, the default
  kind) and `check_termination_condition` (`runtime_functions.cpp:108`) compare unreduced
  stopwatches, so one rank may enter the collective save and another not.
- *The first diagnostic lines after a restart miss boundary mass*
  (`Restart.LinesCoverInterval`). The counter of `boundary_outflow.hh:206` is not in the
  checkpoint, against "mass that left the grid during this output interval" (`:56-57`).
- *The outflow of a step is summed over stages with each stage's own factor*
  (`TimeStep.OutflowIsWhatLeft` with `WallCases`; `evolve.cpp:2092`), so for schemes whose
  stages overlap it is not what left the grid.
- *After a restart tracers sample an empty shadow* (`Particles.Sampled`). `initialize`
  returns after a load (`particles_module.cpp:597-600`) before the geometry is refreshed,
  so tracers stand still until the next regrid. `SampledAfterRegrid` is what does hold.
- *The final save of a fresh run with tracers uses a destroyed object*
  (`GraceLifetimes.SingletonsFindAll`). The particles module is a function static made after
  all singletons (`particles_module.cpp:82`), so exit destroys it first, against
  `singleton_holder.rst:105-106`. Only builds with `GRACE_ENABLE_PARTICLES`.

Smaller observations met while reading:

- A save comes one iteration later than `iteration_interval` says:
  `checkpoint_handler.cpp:1270` compares with `>`. `LossBounded` has the `+ 1`.
- A crash between a save and its rotation leaves a checkpoint too many for good, one
  for each such crash (`PileBounded` counts them).
- `query()` can report a failed kernel, and no scan handles it: `run()` polls for ever.
- `checkpointing.rst:132` speaks of a single HDF5 file; a checkpoint is a pair.
- The message at `checkpoint_handler.cpp:1260` names the oldest checkpoint as the most
  recent.
- The checkpoint of an iteration is written before its NaN scan (`grace.cpp:227`), so
  the newest may hold the NaNs the scan then stops the run for.
- `iter % regrid_every` is evaluated before `regrid_every > 0` (`grace.cpp:131`).
- The second boundary pass has no dependency on the first
  (`phys_bc_task_factories.hh:1218`), whose edges it reads. It is right because both
  are on one stream and the first is launched earlier, while
  `ghost_exchange_pipeline.rst` says that ordering is enforced by dependency
  edges, "never by stream membership". `LaunchedBefore` models this.
- The branch of `unpack_dependencies` for unfilled edges
  (`phys_bc_task_factories.hh:713-723`) is not reached on any mesh of the runs; it
  computes its faces from the bits of `edge_dir`, where the edge's index is meant.
- Particles: `compute_min_quad_width` (`particles_module.cpp:592`) is called before any
  geometry is there and yields infinity, so the drift check is off until the first regrid.
  After a load with another number of ranks a rank counts only its own tags in its own
  slice, against "No collisions either way." (`particle_checkpoint.cpp:339`);
  `CountersAheadOfSameSize` is what holds. `rebalance_every > 1` gives tracers whose owner is
  out of date zeros, though `particles.yaml` says it only delays the lookup. A checkpoint
  saved with the module disabled loads as one with no tracers, and nothing is seeded.
  MPI counts are `int` (`partition.hh:185`, `particle_distributor.cpp:184`).
- Time integrator: `imex1` (`evolve.cpp:357-362`) would lose the explicit update, but the
  schema rejects it (`parameters/evolution.yaml:8`). In `imex222` "reset s2 = xi1" does not
  give xi1 and is overwritten; the second implicit solve (`evolve.cpp:424`) reads
  auxiliaries from before the linear updates. `GRACE_SAME_LEVEL_FACE_AVERAGE` is defined by
  no build.
- Inversion: `c2p.hh:398-404` and `c2p.cpp:223-228` say that `limit_conservatives` and the
  velocity clamps do not count as flooring; the code counts them (`c2p.cpp:308`,
  `485-489`). With muons YMU is not reset after a velocity clamp, and the entropy backup
  leaves TAU as it was, against `c2p.hh:395-396`: both are exceptions in `StoredAgree`. A
  density above the table aborts unless lenient, where the comment says the cell is reset.
- Flux correction: it recomputes M1 fluxes from a state that is not normalised, which
  `m1.hh:1038-1047` expects. The dry run takes the floor branch that skips
  `limit_primitives`, so without `always_enforce_floors` it can accept a cold cell the stage
  then limits: the exception in `DryRunPredicts`.
- `destroy()` leaves `instance_` set, so a later `get()` does not reach the assertion
  `singleton_holder.rst` promises (`singleton_holder.hh:189`).

## 6. What is abstracted

- Arithmetic on fields; in `GhostFill` ghost cells are groups, and kernels are what they read
  and write. `GhostCells` has the cells but no values: of an interpolation what it reads and
  writes, of a restriction only what it writes.
- Restart tracks stars. Punctures keep their location when they are not found, and
  checkpoints older than the M1 trigger restore no switch: neither is modelled.
- `GhostMesh` takes 2:1 balance and whole families of eight from the regrid: `Regrid` checks
  the first (`RestState`) and has the second from p4est's partition. The Sommerfeld boundary
  kernels' extra reads are left out.
- `Regrid`: what a criterion computes is a parameter; x, y and z copies of a task are one
  task; collectives of p4est are one step.
- `TimeStep`: coefficients are rounded to 1/12000 and compared with a tolerance of 24;
  operations without messages are done by all ranks at once; the right-hand sides are terms;
  the mesh with an edge between refined boxes has two ranks.
- `FirstOrder`: one axis, without the optional correction of edges; verdicts are arbitrary;
  the M1 species are one system. `ConservsToPrims`: three levels; the signals of the
  temperature branch and the diagnostics are left out.
- A crash takes the whole job, memory is lost at once and files keep what was written;
  operating-system caches and partial removal of a file are not modelled.
- Errors end the process without exit handlers (`abort`), so they are crashes.

## 7. Plan

The modules came in the order of importance: executor, checkpoint, run loop, restart
state, ghost zones, lifetimes; then the condition on graphs, the regrid, the particles,
refluxing and the time integrator, the flux correction and the inversion, the ghost kernels,
the face-staggered graph.
Left:

1. `GraphOrdered` for the face-staggered graph on meshes with walls, whose tables are too large
   for one run with the others.
2. Proofs: `SharedEmfs` of `TimeStep`, `RestState` of `Regrid`.

`hazards` in `PROJECT.json` lists what is hard to test in this code, at its line, with
the properties that cover it.
