------------------------------- MODULE Regrid -------------------------------
(***************************************************************************)
(* The regrid of main()'s loop (regrid_transaction_t): every rank flags    *)
(* its quadrants, p4est changes the forest, the ranks copy, restrict and   *)
(* prolong their data into the scratch arrays, exchange the fine face data *)
(* that a prolongation must not lose, and send quadrants to their new      *)
(* owners; then the ghost layer is built anew.                             *)
(*                                                                         *)
(* The x, y and z copies of a task (lists, buffers, tags) differ only in   *)
(* the axis and are one task here, with the axis in each descriptor.       *)
(***************************************************************************)
EXTENDS RegridMesh, PartitionTransfer

CONSTANTS Meshes,       \* initial meshes: [leaves : sequence of paths, min : path -> minimum level]
          Criteria(_),  \* what the refinement criterion may say of each leaf's path
          MaxRegrids    \* bound: regrids in a behaviour

VARIABLES pc,       \* place of each rank in the transaction
          forest,   \* leaves of each rank
          layer,    \* the forest when the ghost layer was last built
          data,     \* getstate(), getstaggeredstate(): data of each local quadrant
          scratch,  \* getscratch(), getstaggeredscratch()
          work,     \* members of the rank's transaction
          done,     \* its tasks that have run
          inbox,    \* face messages that have arrived, by sender
          gfq,      \* [old, new]: global quadrant offsets
          moved,    \* <<sender, receiver>> of the quadrants delivered
          base,     \* history: minimum levels of the initial mesh
          was,      \* history: contents of the mesh when the regrid began
          regrids

vars == <<pc, forest, layer, data, scratch, work, done, inbox, gfq, moved, base, was, regrids>>

All(place) == \A r \in Ranks : pc[r] = place
SetAll(place) == pc' = [r \in Ranks |-> place]
Go(r, from, to) == pc[r] = from /\ pc' = [pc EXCEPT ![r] = to]

Places(f) == UNION {{[rank |-> r, at |-> i] : i \in DOMAIN f[r]} : r \in Ranks}
Contents(f, d) == [p \in PathsOf(f) |->
                     LET o == CHOOSE o \in Places(f) : f[o.rank][o.at].path = p IN d[o.rank][o.at]]

-----------------------------------------------------------------------------
(* The offsets of a forest: the running count of its leaves. *)
Offsets(f) == [q \in 0 .. NRanks |-> Len(GlobalLeaves(f, q))]
(* p4est_partition_ext(allow_for_coarsening = 1): a cut where the uniform
   partition has it, or at the nearest place that splits no family. *)
Splits(leaves, n) == \E i \in DOMAIN leaves : i <= n /\ n < i + NChildren - 1 /\ Family(leaves, i)
Cuts(leaves, r) == LET ideal == (r * Len(leaves)) \div NRanks
                       free  == {n \in 0 .. Len(leaves) : ~Splits(leaves, n)}
                       Far(n) == IF n < ideal THEN ideal - n ELSE n - ideal
                   IN {n \in free : \A k \in free : Far(n) <= Far(k)}
Partitions(leaves) == {off \in [0 .. NRanks -> UNION {Cuts(leaves, r) : r \in 0 .. NRanks}] :
                         /\ \A r \in 0 .. NRanks : off[r] \in Cuts(leaves, r)
                         /\ \A r \in Ranks : off[r] <= off[r + 1]}
Dealt(leaves, off) == [r \in Ranks |-> SubSeq(leaves, off[r] + 1, off[r + 1])]

NoWork == [plan |-> <<>>, min |-> <<>>, local |-> {},
           want |-> [q \in Ranks |-> <<>>], give |-> [q \in Ranks |-> <<>>], fine |-> {}]
Silence == [r \in Ranks |-> [q \in Ranks |-> <<>>]]

Init ==
  \E m \in Meshes :
    LET leaves == [i \in DOMAIN m.leaves |-> Leaf(m.leaves[i], "DEFAULT", m.min[m.leaves[i]])]
    IN \E off \in Partitions(leaves) :
         /\ forest = Dealt(leaves, off)
         /\ layer = forest
         /\ data = [r \in Ranks |-> [i \in DOMAIN forest[r] |-> Filled(forest[r][i].path)]]
         /\ scratch = data
         /\ gfq = [old |-> off, new |-> off]
         /\ work = [r \in Ranks |-> NoWork]
         /\ pc = [r \in Ranks |-> "criterion"]
         /\ done = [r \in Ranks |-> {}]
         /\ inbox = Silence
         /\ moved = {}
         /\ base = m.min
         /\ was = Contents(forest, data)
         /\ regrids = 0

-----------------------------------------------------------------------------
Rested(f) == [r \in Ranks |-> [i \in DOMAIN f[r] |-> [f[r][i] EXCEPT !.flag = "DEFAULT"]]]

(* evaluate_criterion and execute_host_side_regrid: p4est's calls are
   collective and raise the forest's revision, on all ranks alike, when the
   number of leaves changes. *)
HostRegrid ==
  /\ All("criterion")
  /\ regrids < MaxRegrids
  /\ regrids' = regrids + 1
  /\ \E criterion \in Criteria(PathsOf(forest)) :
       LET flagged   == [r \in Ranks |-> [i \in DOMAIN forest[r] |->
                           Evaluated(forest[r][i], criterion[forest[r][i].path])]]
           refined   == [r \in Ranks |-> Refined(flagged[r])]
           coarsened == [r \in Ranks |-> Coarsened(refined[r])]
           balanced  == Balanced(coarsened)
           changed   == \/ Count(flagged) # Count(refined)
                        \/ Count(refined) # Count(coarsened)
                        \/ Count(coarsened) # Count(balanced)
       IN \/ /\ changed
             /\ forest' = balanced
             /\ work' = [r \in Ranks |-> [NoWork EXCEPT !.min =
                           [i \in DOMAIN forest[r] |-> forest[r][i].min]]]
             /\ was' = Contents(forest, data)
             /\ SetAll("prepare")
          \/ /\ ~changed
             /\ forest' = Rested(balanced)
             /\ UNCHANGED <<work, was, pc>>
  /\ done' = [r \in Ranks |-> {}]
  /\ inbox' = Silence
  /\ moved' = {}
  /\ UNCHANGED <<layer, data, scratch, gfq, base>>

(* prepare_device_side: where each new quadrant has its data from, an old
   quadrant and, for the children of a prolonged one, the child; or the first
   of the old family. *)
Plan(leaves) ==
  [i \in DOMAIN leaves |->
     LET Prior(flag) == Cardinality({j \in 1 .. (i - 1) : leaves[j].flag = flag})
         np == Prior("NEED_PROLONGATION")
         nr == Prior("NEED_RESTRICTION")
     IN [kind  |-> IF leaves[i].flag \in {"NEED_PROLONGATION", "NEED_RESTRICTION"}
                   THEN leaves[i].flag ELSE "KEEP",
         old   |-> 1 + (i - 1 - np - nr) + np \div NChildren + nr * NChildren,
         child |-> np % NChildren]]

(* Mutant: only neighbours on this rank are looked at. *)
FineFacesLocal(r, plan) ==
  UNION {LET p == layer[r][plan[i].old].path
         IN UNION {{[dst |-> i, face |-> f, src |-> o] :
                      o \in {o \in Places(layer) :
                               LET q == layer[o.rank][o.at].path
                               IN /\ o.rank = r /\ Level(q) = Level(p) + 1
                                  /\ {<<p, f, q>>, <<Append(p, plan[i].child), f, q>>} \subseteq Across}}
                   : f \in Faces}
         : i \in {i \in DOMAIN plan : plan[i].kind = "NEED_PROLONGATION"}}
(* build_buffers: the face f of a child of a prolonged quadrant that lies on
   a finer neighbour of it in the ghost layer. *)
FineFaces(r, plan) ==
  UNION {LET p == layer[r][plan[i].old].path
         IN UNION {{[dst |-> i, face |-> f, src |-> o] :
                      o \in {o \in Places(layer) :
                               LET q == layer[o.rank][o.at].path
                               IN /\ Level(q) = Level(p) + 1
                                  /\ {<<p, f, q>>, <<Append(p, plan[i].child), f, q>>} \subseteq Across}}
                   : f \in Faces}
         : i \in {i \in DOMAIN plan : plan[i].kind = "NEED_PROLONGATION"}}

Prepare(r) ==
  /\ Go(r, "prepare", "alltoall")
  /\ LET plan == Plan(forest[r])
         faces == FineFaces(r, plan)
         Of(q) == {d \in faces : d.src.rank = q}
     IN /\ work' = [work EXCEPT ![r] =
                      [@ EXCEPT !.plan = plan, !.local = Of(r),
                                !.fine = {<<d.dst, d.face>> : d \in faces},
                                !.want = [q \in Ranks |-> IF q = r THEN <<>> ELSE SetToSeq(Of(q))]]]
        /\ forest' = [forest EXCEPT ![r] =
                        [i \in DOMAIN @ |-> IF plan[i].kind = "KEEP"
                                            THEN [@[i] EXCEPT !.min = work[r].min[plan[i].old]] ELSE @[i]]]
  /\ scratch' = [scratch EXCEPT ![r] = [i \in DOMAIN forest[r] |-> Unset]]
  /\ UNCHANGED <<layer, data, done, inbox, gfq, moved, base, was, regrids>>

(* MPI_Alltoall of the counts and MPI_Alltoallv of the descriptors. *)
Exchange ==
  /\ All("alltoall")
  /\ SetAll("tasks")
  /\ work' = [r \in Ranks |-> [work[r] EXCEPT !.give = [q \in Ranks |-> work[q].want[r]]]]
  /\ UNCHANGED <<forest, layer, data, scratch, done, inbox, gfq, moved, base, was, regrids>>

-----------------------------------------------------------------------------
(* The task list. Tasks of one stream run in the order of their launches;
   those without dependencies are launched first. *)
Packs(r)   == {<<"pack", q>> : q \in {q \in Ranks : work[r].give[q] # <<>>}}
Unpacks(r) == {<<"unpack", q>> : q \in {q \in Ranks : work[r].want[q] # <<>>}}
TasksOf(r) == {<<"fcopy">>, <<"keep">>, <<"restrict">>, <<"prolong">>, <<"fprolong">>}
              \cup Packs(r) \cup Unpacks(r)
(* Mutant: the dependencies of the face prolongation are not passed on. *)
BeforeNone(r, t) ==
  CASE t[1] = "pack"     -> {<<"fcopy">>} \cup {u \in Packs(r) : u[2] < t[2]}
    [] t[1] = "keep"     -> {<<"fcopy">>} \cup Packs(r)
    [] t[1] = "unpack"   -> {<<"keep">>}
    [] t[1] = "prolong"  -> {<<"restrict">>}
    [] t[1] = "fprolong" -> {<<"prolong">>}
    [] OTHER -> {}
(* The tasks that a task runs after: those ahead on its stream, and the
   dependencies of the face prolongation. *)
Before(r, t) ==
  CASE t[1] = "pack"     -> {<<"fcopy">>} \cup {u \in Packs(r) : u[2] < t[2]}
    [] t[1] = "keep"     -> {<<"fcopy">>} \cup Packs(r)
    [] t[1] = "unpack"   -> {<<"keep">>}
    [] t[1] = "prolong"  -> {<<"restrict">>}
    [] t[1] = "fprolong" -> {<<"prolong">>, <<"fcopy">>} \cup Unpacks(r)
    [] OTHER -> {}
Run(r, t) ==
  /\ pc[r] = "tasks"
  /\ t \in TasksOf(r) \ done[r]
  /\ Before(r, t) \subseteq done[r]
  /\ done' = [done EXCEPT ![r] = @ \cup {t}]
  /\ UNCHANGED <<pc, forest, layer, data, work, gfq, moved, base, was, regrids>>

(* New quadrants of a kind are given Value(i); faces in D are given Value(d). *)
WriteKind(r, kind, Value(_)) ==
  scratch' = [scratch EXCEPT ![r] = [i \in DOMAIN @ |->
                IF work[r].plan[i].kind = kind THEN Value(i) ELSE @[i]]]
WriteFaces(r, D, Value(_)) ==
  scratch' = [scratch EXCEPT ![r] = [i \in DOMAIN @ |-> [@[i] EXCEPT !.face = [f \in Faces |->
                LET ds == {d \in D : d.dst = i /\ d.face = f}
                IN IF ds = {} THEN scratch[r][i].face[f] ELSE Value(CHOOSE d \in ds : TRUE)]]]]
(* A fine neighbour's face is the opposite one. *)
FaceOf(r, d) == data[r][d.src.at].face[Opposite(d.face)]

FaceCopy(r) ==
  /\ Run(r, <<"fcopy">>)
  /\ WriteFaces(r, work[r].local, LAMBDA d : FaceOf(r, d))
  /\ UNCHANGED inbox
Pack(r, q) == Run(r, <<"pack", q>>) /\ UNCHANGED <<scratch, inbox>>
Keep(r) ==
  /\ Run(r, <<"keep">>)
  /\ WriteKind(r, "KEEP", LAMBDA i : data[r][work[r].plan[i].old])
  /\ UNCHANGED inbox
RestrictData(r) ==
  /\ Run(r, <<"restrict">>)
  /\ WriteKind(r, "NEED_RESTRICTION", LAMBDA i :
        Restricted([c \in 1 .. NChildren |-> data[r][work[r].plan[i].old + c - 1]]))
  /\ UNCHANGED inbox
ProlongData(r) ==
  /\ Run(r, <<"prolong">>)
  /\ WriteKind(r, "NEED_PROLONGATION", LAMBDA i :
        [scratch[r][i] EXCEPT !.cell =
           Part(data[r][work[r].plan[i].old].cell, work[r].plan[i].child, NChildren)])
  /\ UNCHANGED inbox
ProlongFaces(r) ==
  /\ Run(r, <<"fprolong">>)
  /\ WriteKind(r, "NEED_PROLONGATION", LAMBDA i :
        LET t == work[r].plan[i]
            face == [f \in Faces |-> IF <<i, f>> \in work[r].fine THEN scratch[r][i].face[f]
                                     ELSE FromCoarse(data[r][t.old], t.child, f)]
        IN [scratch[r][i] EXCEPT !.face = face, !.mid = Middle(face)])
  /\ UNCHANGED inbox
(* The send task runs when its buffer is packed; the message arrives later. *)
Deliver(s, r) ==
  /\ <<"pack", r>> \in done[s]
  /\ inbox[r][s] = <<>>
  /\ inbox' = [inbox EXCEPT ![r][s] =
                 [k \in DOMAIN work[s].give[r] |-> FaceOf(s, work[s].give[r][k])]]
  /\ UNCHANGED <<pc, forest, layer, data, scratch, work, done, gfq, moved, base, was, regrids>>
Unpack(r, q) ==
  /\ inbox[r][q] # <<>>
  /\ Run(r, <<"unpack", q>>)
  /\ WriteFaces(r, ToSet(work[r].want[q]), LAMBDA d :
        inbox[r][q][CHOOSE k \in DOMAIN work[r].want[q] : work[r].want[q][k] = d])
  /\ UNCHANGED inbox

-----------------------------------------------------------------------------
(* The barrier after the tasks, and partition_grid. *)
Partition ==
  /\ All("tasks")
  /\ \A r \in Ranks : done[r] = TasksOf(r)
  /\ LET leaves == GlobalLeaves(forest, NRanks)
     IN \E off \in Partitions(leaves) :
          /\ gfq' = [old |-> Offsets(forest), new |-> off]
          /\ forest' = Dealt(leaves, off)
  /\ SetAll("post")
  /\ UNCHANGED <<layer, data, scratch, work, done, inbox, moved, base, was, regrids>>

Sent(s, d) == Exchanged(gfq.old, gfq.new, s, d)
(* Mutant: the old and the new offsets are taken for each other. *)
ExpectedSwapped(d, s) == Exchanged(gfq.old, gfq.new, d, s)
Expected(d, s) == Exchanged(gfq.new, gfq.old, d, s)
(* Quadrants gs of a rank's scratch array, put in another's state array. *)
Placed(d, s, gs, into) ==
  [i \in DOMAIN into |-> LET g == gfq.new[d] + i - 1
                         IN IF g \in gs THEN scratch[s][Slot(gfq.old, s, g) + 1] ELSE into[i]]

(* execute_partition: the state is reallocated, the rank's own quadrants are
   copied, the others' requested and sent. *)
Post(r) ==
  /\ Go(r, "post", "transfer")
  /\ data' = [data EXCEPT ![r] = Placed(r, r, Expected(r, r), [i \in DOMAIN forest[r] |-> Unset])]
  /\ UNCHANGED <<forest, layer, scratch, work, done, inbox, gfq, moved, base, was, regrids>>
DeliverQuads(s, d) ==
  /\ s # d
  /\ {pc[s], pc[d]} \subseteq {"transfer", "cleanup"}
  /\ Sent(s, d) # {}
  /\ <<s, d>> \notin moved
  /\ data' = [data EXCEPT ![d] = Placed(d, s, Sent(s, d), @)]
  /\ moved' = moved \cup {<<s, d>>}
  /\ UNCHANGED <<pc, forest, layer, scratch, work, done, inbox, gfq, base, was, regrids>>
(* grace_transfer_fixed_end waits for every receive and every send. *)
Finish(r) ==
  /\ \A q \in Ranks \ {r} : /\ Expected(r, q) # {} => <<q, r>> \in moved
                            /\ Sent(r, q) # {} => <<r, q>> \in moved
  /\ Go(r, "transfer", "cleanup")
  /\ UNCHANGED <<forest, layer, data, scratch, work, done, inbox, gfq, moved, base, was, regrids>>
(* Mutant: the ghost layer is left as it was. *)
CleanupStaleLayer ==
  /\ All("cleanup")
  /\ scratch' = data
  /\ forest' = Rested(forest)
  /\ work' = [r \in Ranks |-> NoWork]
  /\ SetAll("criterion")
  /\ UNCHANGED <<layer, data, done, inbox, gfq, moved, base, was, regrids>>
(* The barrier, cleanup, and main()'s update of the ghost layer. *)
Cleanup ==
  /\ All("cleanup")
  /\ scratch' = data
  /\ forest' = Rested(forest)
  /\ layer' = forest'
  /\ work' = [r \in Ranks |-> NoWork]
  /\ SetAll("criterion")
  /\ UNCHANGED <<data, done, inbox, gfq, moved, base, was, regrids>>

Device(r) == FaceCopy(r) \/ Keep(r) \/ RestrictData(r) \/ ProlongData(r) \/ ProlongFaces(r)
Step == \/ Exchange \/ Partition \/ Cleanup
        \/ \E r \in Ranks : Prepare(r) \/ Device(r) \/ Post(r) \/ Finish(r)
        \/ \E r, q \in Ranks : Pack(r, q) \/ Unpack(r, q) \/ Deliver(r, q) \/ DeliverQuads(r, q)
(* The evolution goes on without a further regrid. *)
Settled == All("criterion") /\ regrids = MaxRegrids /\ UNCHANGED vars
Next == HostRegrid \/ Step \/ Settled
(* A regrid that began goes on: kernels that were launched end, messages
   arrive, ranks reach their collective calls. *)
Spec == Init /\ [][Next]_vars /\ WF_vars(Step)

-----------------------------------------------------------------------------
InRest == All("criterion")

(* Between regrids the arrays have one entry for each local quadrant, the
   second copy is equal, the ghost layer is that of the forest, the forest
   is balanced and no quadrant keeps a flag. *)
RestState ==
  InRest =>
    /\ \A r \in Ranks : Len(data[r]) = Len(forest[r]) /\ \A i \in DOMAIN forest[r] : forest[r][i].flag = "DEFAULT"
    /\ scratch = data
    /\ layer = forest
    /\ TwoToOne(forest)

(* A quadrant that was there before a regrid has the data it had; a new one
   has its part of its parent's, with fluxes inside it that follow from those
   through its faces, or the sum of its children's; on whichever rank it now
   is. *)
DataFollow ==
  InRest =>
    LET now == Contents(forest, data)
    IN \A p \in DOMAIN now :
         \/ p \in DOMAIN was /\ now[p] = was[p]
         \/ /\ Level(p) > 0
            /\ Parent(p) \in DOMAIN was
            /\ now[p].cell = Part(was[Parent(p)].cell, Last(p), NChildren)
            /\ now[p].mid = Middle(now[p].face)
         \/ /\ \A c \in Children : Append(p, c) \in DOMAIN was
            /\ now[p] = Restricted([c \in 1 .. NChildren |-> was[Append(p, c - 1)]])

(* The flux through a face is one number, whichever side it is read from: a
   coarse face has the sum of the fine ones on it. This is what the exchange
   of fine face data is for: the divergence of the magnetic field stays
   zero across the new level boundaries. *)
SharedFacesAgree ==
  InRest =>
    LET now == Contents(forest, data)
    IN \A p \in DOMAIN now : \A f \in Faces :
         LET across == {q \in DOMAIN now : <<p, f, q>> \in Across}
         IN (across # {} /\ \A q \in across : Level(q) >= Level(p)) =>
               now[p].face[f] = MapThenSumSet(LAMBDA q : now[q].face[Opposite(f)], across)

(* Every leaf keeps the minimum level its place had in the initial mesh, and
   is never coarser, however often it was refined and coarsened. *)
MinLevelsKept ==
  InRest =>
    \A r \in Ranks : \A i \in DOMAIN forest[r] :
      LET l == forest[r][i]
      IN /\ Level(l.path) >= l.min
         /\ \A b \in DOMAIN base : (IsPrefix(b, l.path) \/ IsPrefix(l.path, b)) => l.min = base[b]

(* A regrid that began ends on every rank. *)
RegridEnds == ~InRest ~> InRest
=============================================================================
