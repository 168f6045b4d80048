----------------------------- MODULE GhostGraph -----------------------------
(***************************************************************************)
(* The task graph build_task_list makes of a mesh for the cell-centred     *)
(* variables, or build_task_list_face_stag for the three face-staggered    *)
(* ones: which tasks each rank has, what each waits for, and which cells   *)
(* each reads and writes.                                                  *)
(*                                                                         *)
(* A cell here is a group of ghost cells handled together: the ghosts (or, *)
(* at Zero, the interior) of one quadrant across one element, in the state *)
(* ("view") or in the coarse buffers ("cbuf"), with the finer neighbour    *)
(* they come from if there is one; or that group's slot in a send or       *)
(* receive buffer or in a message.  A quadrant's own interior is up to     *)
(* date when a sweep begins, so reads of it are left out.                  *)
(***************************************************************************)
EXTENDS GhostMesh

CONSTANT n_device_streams   \* in the run on each mesh

Task(r, op, el, bc, p) == [rank |-> r, op |-> op, el |-> el, bc |-> bc, peer |-> p]
Cell(store, q, d)        == <<"mem", store, q, d, 0>>
FromFiner(q, d, n)       == <<"mem", "view", q, d, n>>
Slot(buf, store, q, d, p) == <<buf, store, q, d, p>>  \* what q sends across d to rank p

LocalOps  == {"copy", "copy_to_cbuf", "copy_from_cbuf"}
PackOps   == {"pack", "pack_to_cbuf", "pack_finer"}
UnpackOps == {"unpack", "unpack_to_cbuf", "unpack_from_cbuf"}
(* The elements an operation handles: its neighbours are as fine, coarser or
   finer. *)
Handles(op) == CASE op \in {"copy", "pack", "unpack"} -> "same"
                 [] op \in {"copy_to_cbuf", "pack_to_cbuf", "unpack_to_cbuf"} -> "coarser"
                 [] op \in {"copy_from_cbuf", "pack_finer", "unpack_from_cbuf"} -> "finer"

BcOp(op) == op \in {"fused_bc", "bc", "cbuf_bc", "late_bc"}
(* build_remote_buffers: the buckets.  An item is an element of a local
   quadrant with a neighbour on rank t.peer. *)
Items(g, t) == {x \in Mine(g, t.rank) \X Dir :
                  /\ Kind(x[2]) = t.el
                  /\ g.class[x[1]][x[2]] = Handles(t.op)
                  /\ \E n \in g.neighbours[x[1]][x[2]] : Rank(g, n) = t.peer}
P2PItems(g, t) == IF t.op \in {"copy", "pack", "unpack"}
                  THEN {x \in Items(g, t) : PeerToPeer(g, x[1], x[2])} ELSE {}
CopyTasks(g, r) ==
  {t \in {Task(r, op, el, 0, p) : op \in LocalOps \cup PackOps \cup UnpackOps,
                                  el \in FACE .. CORNER, p \in Ranks(g)} :
     /\ (t.op \in LocalOps) <=> (t.peer = r)
     /\ Items(g, t) # {}}

(* insert_phys_bc_tasks, insert_deferred_phys_bc_tasks: the kernels a boundary
   element is put in, in the view ("bc", or "fused_bc"), in the coarse buffer
   ("cbuf_bc") and in the view after prolongation ("late_bc"). *)
BcOps(g, q, d) ==
  IF d \in g.cbuf[q]       THEN {"cbuf_bc", "late_bc"}
  ELSE IF Deferred(g, q, d) THEN {"late_bc"}
  ELSE IF Fused(g, q, d)    THEN {"fused_bc"} ELSE {"bc"}
WithOps(g) == [g EXCEPT !.ops = [q \in Quads(g) |-> [d \in Dir |-> BcOps(g, q, d)]]]
BcTask(g, q, d, op) == IF op = "fused_bc" THEN Task(Rank(g, q), op, FACE, FACE, Rank(g, q))
                       ELSE Task(Rank(g, q), op, Kind(d), BcType(g, q, d), Rank(g, q))
BcItems(g, r) == {x \in Mine(g, r) \X Dir : g.class[x[1]][x[2]] = "phys"}
BcTasks(g, r) == UNION {{BcTask(g, x[1], x[2], op) : op \in g.ops[x[1]][x[2]]} : x \in BcItems(g, r)}
ItemsOfBc(g, t) == {x \in BcItems(g, t.rank) :
                      /\ t.op \in g.ops[x[1]][x[2]]
                      /\ BcTask(g, x[1], x[2], t.op) = t}

ProlongItems(g, r, el) == {x \in Mine(g, r) \X Dir : Kind(x[2]) = el /\ Prolonged(g, x[1], x[2])}
ProlongTasks(g, r) == {Task(r, "prolong", el, 0, r) : el \in {k \in FACE .. CORNER : ProlongItems(g, r, k) # {}}}

WithCbuf(g, r)   == {q \in Mine(g, r) : NeedsCbuf(g, q)}
RestrictTask(r)  == Task(r, "restrict", 0, 0, r)
RestrictTasks(g, r) == IF WithCbuf(g, r) = {} THEN {} ELSE {RestrictTask(r)}

Peers(g, r)     == {t.peer : t \in {u \in CopyTasks(g, r) : u.op \in PackOps}}
MpiTasks(g, r)  == {Task(r, op, 0, 0, p) : op \in {"send", "recv"}, p \in Peers(g, r)}

TasksOf(g, r) == MpiTasks(g, r) \cup RestrictTasks(g, r) \cup CopyTasks(g, r)
                   \cup BcTasks(g, r) \cup ProlongTasks(g, r)
WithTasks(g) == [g EXCEPT !.tasks = UNION {TasksOf(g, r) : r \in Ranks(g)}]

(* update(), a step at a time. *)
Blanks     == [m \in Meshes |-> Blank(m)]
Located    == [m \in Meshes |-> WithNeighbours(Blanks[m])]
Classified == [m \in Meshes |-> WithClasses(Located[m])]
Tagged     == [m \in Meshes |-> WithTags(Classified[m])]
Bucketed   == [m \in Meshes |-> WithOps(Tagged[m])]
Listed     == [m \in Meshes |-> WithTasks(Bucketed[m])]
(* build_task_list_face_stag: each staggering has the tasks of the cell-centred
   graph, but for the interpolations, which handle all three. *)
OfStag(t, s)  == [rank |-> t.rank, op |-> t.op, el |-> t.el, bc |-> t.bc, peer |-> t.peer,
                  stag |-> IF t.op = "prolong" THEN 0 ELSE s]
Centred(t)    == Task(t.rank, t.op, t.el, t.bc, t.peer)
StagTasks(T)  == {OfStag(t, s) : t \in T, s \in Axis}
Tasks == [m \in Meshes |-> IF m.staggered THEN StagTasks(Listed[m].tasks) ELSE Listed[m].tasks]

(* data.*.task_id: the task that fills q's ghosts across an internal element
   from neighbour n. *)
Filler(g, q, d, n) ==
  LET local == Rank(g, n) = Rank(g, q) IN
  Task(Rank(g, q),
       CASE g.class[q][d] = "same"    -> IF local THEN "copy" ELSE "unpack"
         [] g.class[q][d] = "coarser" -> IF local THEN "copy_to_cbuf" ELSE "unpack_to_cbuf"
         [] g.class[q][d] = "finer"   -> IF local THEN "copy_from_cbuf" ELSE "unpack_from_cbuf",
       Kind(d), 0, Rank(g, n))
(* Of the neighbours behind e, those that touch element d (get_cids_edge_face,
   get_cid_corner_face for finer ones). *)
Touching(g, q, e, d) ==
  LET p == g.quads[q].pos  s == g.quads[q].size IN
  Over(g, {c \in Across(g, q, e) : \A i \in Axis : e[i] = 0 =>
             (d[i] = 1 => c[i] = p[i] + s - 1) /\ (d[i] = -1 => c[i] = p[i])})

(* Task 0, which the zero-initialised descriptor of a virtual element names
   until a local copy_to_cbuf overwrites it. *)
FirstTask(g, r) == IF Peers(g, r) = {} THEN RestrictTask(r)
                   ELSE Task(r, "send", 0, 0, CHOOSE p \in Peers(g, r) : \A o \in Peers(g, r) : p <= o)
VirtualFillers(g, q, v) ==
  LET fillers == UNION {{Filler(g, q, d, n) : n \in g.neighbours[q][d]} :
                          d \in {e \in Dir : g.class[q][e] = "coarser" /\ v \in g.virtual[q][e]}}
      local   == {t \in fillers : t.op = "copy_to_cbuf"}
  IN IF local = {} THEN {FirstTask(g, Rank(g, q))} ELSE local

(* unpack_dependencies: what one boundary element waits for.  In the second
   pass the prolongation has replaced the task ids of coarser elements. *)
BcItemDeps(g, t, q, d) ==
  LET under == Without(d, g.phys[q][d]) IN
  IF t.bc # FACE THEN {}
  ELSE IF Kind(d) = FACE THEN (IF t.op = "cbuf_bc" THEN {RestrictTask(t.rank)} ELSE {})
  ELSE IF t.op = "late_bc" /\ g.class[q][under] = "coarser"
       THEN {Task(t.rank, "prolong", Kind(under), 0, t.rank)}
  ELSE {Filler(g, q, under, n) : n \in Touching(g, q, under, d)}
(* Mutant: kernels wait only for what fills the interior side. *)
BcGroupDepsNone(g, t) == {}

(* Kernels wait for whole kernels of the same pass: EDGE-EDGE for FACE-FACE,
   CORNER-EDGE for EDGE-FACE, CORNER-CORNER for EDGE-EDGE, and in the coarse
   buffers CORNER-FACE for EDGE-FACE. *)
BcGroupDeps(g, t) ==
  LET Kernel(el, bc) == {Task(t.rank, t.op, el, bc, t.rank)}
      Face == IF t.op = "bc" THEN {Task(t.rank, "fused_bc", FACE, FACE, t.rank)} ELSE {}
  IN g.tasks \cap
     (CASE t.el = EDGE /\ t.bc = EDGE     -> Kernel(FACE, FACE) \cup Face
        [] t.el = CORNER /\ t.bc = EDGE   -> Kernel(EDGE, FACE) \cup Face
        [] t.el = CORNER /\ t.bc = CORNER -> Kernel(EDGE, EDGE)
        [] t.el = CORNER /\ t.bc = FACE /\ t.op = "cbuf_bc" -> Kernel(EDGE, FACE)
        [] OTHER -> {})
BcDeps(g, t) == BcGroupDeps(g, t) \cup UNION {BcItemDeps(g, t, x[1], x[2]) : x \in ItemsOfBc(g, t)}

(* Mutant: an item waits for its own filler, not for those of the elements
   around it that it reads. *)
ProlongItemDepsOwn(g, q, c) ==
  IF g.class[q][c] = "virtual" THEN VirtualFillers(g, q, c)
  ELSE {Filler(g, q, c, n) : n \in g.neighbours[q][c]}

(* insert_prolongation_tasks: an item waits for its own filler and those of
   the filled elements it reads. *)
ProlongItemDeps(g, q, c) ==
  (IF g.class[q][c] = "virtual" THEN VirtualFillers(g, q, c) ELSE {}) \cup
  UNION {IF g.class[q][e] = "phys" THEN {BcTask(g, q, e, "cbuf_bc")}
         ELSE {Filler(g, q, e, n) : n \in g.neighbours[q][e]} :
         e \in {e \in Near[c] \ {Zero} : g.class[q][e] # "virtual"}}
ProlongDeps(g, t) == UNION {ProlongItemDeps(g, x[1], x[2]) : x \in ProlongItems(g, t.rank, t.el)}

Packs(g, t) == {u \in g.tasks : u.op \in PackOps /\ u.rank = t.rank /\ u.peer = t.peer}
(* Mutant: a rank sends to a peer after it has received from it. *)
SendDepsRecvFirst(g, t) == Packs(g, t) \cup {Task(t.rank, "recv", 0, 0, t.peer)}
SendDeps(g, t) == Packs(g, t)
P2PDeps(g, t) == IF P2PItems(g, t) = {} THEN {} ELSE {RestrictTask(t.rank)}
DepsOf(g, t) ==
  CASE t.op = "send" -> SendDeps(g, t)
    [] t.op \in UnpackOps -> {Task(t.rank, "recv", 0, 0, t.peer)}
    [] t.op \in {"copy", "pack"} -> P2PDeps(g, t)
    [] t.op \in {"copy_from_cbuf", "pack_to_cbuf"} -> {RestrictTask(t.rank)}
    [] BcOp(t.op) -> BcDeps(g, t)
    [] t.op = "prolong" -> ProlongDeps(g, t)
    [] OTHER -> {}
DepsIn(g) == [t \in g.tasks |-> DepsOf(g, t)]

(* insert_div_preserving_prolongation_tasks: an item waits for what fills it
   and the elements beside it, in all three staggerings. Task 0 is not one of
   this graph. *)
Beside(c) == {e \in Place \ {c} : \E i \in Axis : /\ c[i] # 0 => e[i] = 0
                                                /\ \A j \in Axis \ {i} : e[j] = c[j]}
FillersOf(g, q, e) ==
  CASE g.class[q][e] = "virtual" -> {t \in VirtualFillers(g, q, e) : t.op = "copy_to_cbuf"}
    [] g.class[q][e] = "phys"    -> {BcTask(g, q, e, "cbuf_bc")}
    [] OTHER                     -> {Filler(g, q, e, n) : n \in g.neighbours[q][e]}
(* Mutant: an item waits only for what fills it. *)
StagItemDepsOwn(g, q, c) == FillersOf(g, q, c)
StagItemDeps(g, q, c) == UNION {FillersOf(g, q, e) : e \in ({c} \cup Beside(c)) \ {Zero}}
StagDepsOf(g, t) ==
  IF t.op = "prolong"
  THEN StagTasks(UNION {StagItemDeps(g, x[1], x[2]) : x \in ProlongItems(g, t.rank, t.el)})
  ELSE {OfStag(u, t.stag) : u \in DepsOf(g, Centred(t))}
StagDepsIn(g) == [t \in StagTasks(g.tasks) |-> StagDepsOf(g, t)]
Deps == [m \in Meshes |-> IF m.staggered THEN StagDepsIn(Listed[m]) ELSE DepsIn(Listed[m])]

(* build_task_list takes four streams from a pool that goes round, and
   build_task_list_face_stag one. A stream runs its kernels in the order of
   their launches. *)
Stream(n, t) == (CASE t.op \in LocalOps                -> 0
                   [] t.op \in PackOps \cup UnpackOps  -> 1
                   [] BcOp(t.op)                       -> 2
                   [] t.op \in {"restrict", "prolong"} -> 3) % n
Kernel(t) == t.op \notin {"send", "recv"}
(* What must have finished before a task of T can be launched. *)
Ancestors(deps, T) ==
  LET up[n \in 0 .. Cardinality(DOMAIN deps)] ==
        IF n = 0 THEN UNION {deps[t] : t \in T}
        ELSE LET below == up[n - 1] IN below \cup UNION {deps[t] : t \in below}
  IN up[Cardinality(DOMAIN deps)]
(* Kernels are created in this order. *)
Batch(t) == CASE t.op = "late_bc" -> 3 [] t.op = "prolong" -> 2 [] OTHER -> 1
(* The executor launches a task as soon as it sees the last of its dependencies
   finished, and two that wait for the same one in the order they were created.
   The kernels of t's stream that are ahead of it whatever the timing: what they
   wait for has finished before t's last dependency starts, or with it. *)
Ahead(n, deps, t) ==
  LET up == Ancestors(deps, deps[t]) IN
  {u \in DOMAIN deps \ {t} : /\ Kernel(t) /\ Kernel(u)
                            /\ u.rank = t.rank /\ Stream(n, u) = Stream(n, t)
                            /\ deps[t] # {}
                            /\ deps[u] \subseteq IF Batch(u) < Batch(t) THEN up \cup deps[t] ELSE up}
LaunchedIn(n, deps) == [t \in DOMAIN deps |-> Ahead(n, deps, t)]
LaunchedBefore == [m \in Meshes |-> LaunchedIn(IF m.staggered THEN 1 ELSE n_device_streams[m], Deps[m])]
WaitsFor == [m \in Meshes |-> [t \in DOMAIN Deps[m] |-> Deps[m][t] \cup LaunchedBefore[m][t]]]

(* What has finished before a task starts, by chains of at most 2, 4 and 8. *)
Widened(order) == [t \in DOMAIN order |-> order[t] \cup UNION {order[u] : u \in order[t]}]
TwoBack  == [m \in Meshes |-> Widened(WaitsFor[m])]
FourBack == [m \in Meshes |-> Widened(TwoBack[m])]
Upstream == [m \in Meshes |-> Widened(FourBack[m])]

(***************************************************************************)
(* Data movement: <<cell, the cells it is computed from>>                  *)
(***************************************************************************)
(* The boundary kernels step back along the boundary's normal (apply_bc_impl),
   from a ghost on several boundaries diagonally. *)
Behind(g, q, d) == {e \in Place \ {d} : \A i \in Axis : e[i] = d[i] \/ (i \in g.phys[q][d] /\ e[i] = 0)}
BcReads(g, t, q, d) ==
  IF t.op = "cbuf_bc" THEN {Cell("cbuf", q, e) : e \in Behind(g, q, d)}
  ELSE UNION {IF g.class[q][e] = "finer" THEN {FromFiner(q, e, n) : n \in Touching(g, q, e, d)}
              ELSE {Cell("view", q, e)} : e \in Behind(g, q, d) \ {Zero}}
(* In the coarse buffers the EDGE-FACE kernel runs on by the ghost width at
   both ends, and so fills the virtual corners of the boundary plane. *)
BcTargets(g, t, q, d) ==
  {d} \cup {c \in Dir : /\ t.op = "cbuf_bc" /\ Kind(d) = EDGE /\ Kind(c) = CORNER
                        /\ Within(d, c) /\ g.class[q][c] = "virtual"}
BcMoves(g, t) ==
  UNION {{<<Cell(IF t.op = "cbuf_bc" THEN "cbuf" ELSE "view", x[1], c), BcReads(g, t, x[1], c)>> :
            c \in BcTargets(g, t, x[1], x[2])} : x \in ItemsOfBc(g, t)}

(* What a local copy or an unpack writes across d; the data of the neighbour n
   is `src'.  Coarse data also fills the virtual elements in the same box. *)
Fill(g, t, q, d, n, src) ==
  CASE Handles(t.op) = "same"    -> {<<Cell("view", q, d), src>>}
    [] Handles(t.op) = "coarser" -> {<<Cell("cbuf", q, e), src>> : e \in {d} \cup g.virtual[q][d]}
    [] Handles(t.op) = "finer"   -> {<<FromFiner(q, d, n), src>>}
Source(g, t, q, d, n) ==
  LET store == IF Handles(t.op) = "finer" THEN "cbuf" ELSE "view" IN
  IF t.op \in UnpackOps THEN {Slot("recv", store, n, Opposite(d), t.rank)}
  ELSE IF store = "cbuf" THEN {Cell("cbuf", n, Zero)} ELSE {}
P2PSource(t, d, n) == IF t.op \in UnpackOps THEN {Slot("recv", "cbuf", n, Opposite(d), t.rank)}
                      ELSE {Cell("cbuf", n, Zero)}
FillMoves(g, t) ==
  UNION {UNION {Fill(g, t, x[1], x[2], n, Source(g, t, x[1], x[2], n)) :
                  n \in {n \in g.neighbours[x[1]][x[2]] : Rank(g, n) = t.peer}} : x \in Items(g, t)}
  \cup {<<Cell("cbuf", x[1], x[2]), UNION {P2PSource(t, x[2], n) : n \in g.neighbours[x[1]][x[2]]}>> :
          x \in P2PItems(g, t)}
PackMoves(g, t) ==
  LET toCbuf == t.op = "pack_to_cbuf" IN
  {<<Slot("send", IF toCbuf THEN "cbuf" ELSE "view", x[1], x[2], t.peer),
     IF toCbuf THEN {Cell("cbuf", x[1], Zero)} ELSE {}>> : x \in Items(g, t)}
  \cup {<<Slot("send", "cbuf", x[1], x[2], t.peer), {Cell("cbuf", x[1], Zero)}>> : x \in P2PItems(g, t)}

(* process_key_arrays: the slots of the message from r to p, as r and as p
   count them, each from its own buckets. *)
SendSlotsIn(g) == [r \in Ranks(g) |-> [p \in Ranks(g) |->
  {v[1] : v \in UNION {PackMoves(g, t) : t \in {u \in g.tasks : u.op \in PackOps /\ u.rank = r /\ u.peer = p}}}]]
RecvSlotsIn(g) == [r \in Ranks(g) |-> [p \in Ranks(g) |->
  UNION {UNION {v[2] : v \in FillMoves(g, t)} :
           t \in {u \in g.tasks : u.op \in UnpackOps /\ u.rank = r /\ u.peer = p}}]]
SendSlots == [m \in Meshes |-> SendSlotsIn(Listed[m])]
RecvSlots == [m \in Meshes |-> RecvSlotsIn(Listed[m])]
As(buf, s) == Slot(buf, s[2], s[3], s[4], s[5])

ProlongMoves(g, t) == {<<Cell("view", x[1], x[2]), {Cell("cbuf", x[1], e) : e \in Near[x[2]]}>> :
                         x \in ProlongItems(g, t.rank, t.el)}

MovesOf(g, t, sends, recvs) ==
  CASE t.op = "send"     -> {<<As("net", s), {s}>> : s \in sends[t.rank][t.peer]}
    [] t.op = "recv"     -> {<<s, {As("net", s)}>> : s \in recvs[t.rank][t.peer]}
    [] t.op = "restrict" -> {<<Cell("cbuf", q, Zero), {}>> : q \in WithCbuf(g, t.rank)}
    [] t.op \in PackOps  -> PackMoves(g, t)
    [] t.op = "prolong"  -> ProlongMoves(g, t)
    [] BcOp(t.op) -> BcMoves(g, t)
    [] OTHER -> FillMoves(g, t)
MovesIn(g, sends, recvs) == [t \in g.tasks |-> MovesOf(g, t, sends, recvs)]

(* div_free_prolong_op interpolates the planes of each component from coarse
   cells a step away along one axis, and reads fine planes of all three that
   lie between the element and others of the same level. *)
StagReads(g, q, c, s) ==
  {Append(Cell("cbuf", q, e), s) : e \in {c} \cup Beside(c)}
  \cup {Append(Cell("view", q, e), o) : e \in {b \in Beside(c) \ {Zero} : g.class[q][b] = "same"}, o \in Axis}
StagProlongMoves(g, t) ==
  UNION {{<<Append(Cell("view", x[1], x[2]), s), StagReads(g, x[1], x[2], s)>> : s \in Axis} :
           x \in ProlongItems(g, t.rank, t.el)}
StagMovesOf(g, t, sends, recvs) ==
  IF t.op = "prolong" THEN StagProlongMoves(g, t)
  ELSE {<<Append(v[1], t.stag), {Append(c, t.stag) : c \in v[2]}>> : v \in MovesOf(g, Centred(t), sends, recvs)}
StagMovesIn(g, sends, recvs) == [t \in StagTasks(g.tasks) |-> StagMovesOf(g, t, sends, recvs)]
Moves == [m \in Meshes |-> IF m.staggered THEN StagMovesIn(Listed[m], SendSlots[m], RecvSlots[m])
                           ELSE MovesIn(Listed[m], SendSlots[m], RecvSlots[m])]

WritesIn(moves) == [t \in DOMAIN moves |-> {v[1] : v \in moves[t]}]
ReadsIn(moves)  == [t \in DOMAIN moves |-> UNION {v[2] : v \in moves[t]}]
Writes == [m \in Meshes |-> WritesIn(Moves[m])]
Reads  == [m \in Meshes |-> ReadsIn(Moves[m])]
WritersIn(writes, cells) == [c \in cells |-> {t \in DOMAIN writes : c \in writes[t]}]
AllIn(f) == UNION {f[t] : t \in DOMAIN f}
Cells   == [m \in Meshes |-> AllIn(Writes[m]) \cup AllIn(Reads[m])]
Writers == [m \in Meshes |-> WritersIn(Writes[m], Cells[m])]
(* For each cell t reads, the tasks that write it. *)
SourcesIn(reads, writers) == [t \in DOMAIN reads |-> {writers[c] : c \in reads[t]}]
Sources == [m \in Meshes |-> SourcesIn(Reads[m], Writers[m])]
(* The tasks of t's rank that may not run while t does. *)
ConflictsIn(writes, reads) == [t \in DOMAIN writes |->
  {u \in DOMAIN writes \ {t} : /\ u.rank = t.rank
                                /\ \/ writes[t] \cap (writes[u] \cup reads[u]) # {}
                                   \/ reads[t] \cap writes[u] # {}}]
Conflicts == [m \in Meshes |-> ConflictsIn(Writes[m], Reads[m])]

(* The ghosts a sweep owes to rank r, and for each the tasks that write it. *)
GhostsIn(g) == [r \in Ranks(g) |->
  UNION {IF g.class[x[1]][x[2]] = "finer"
         THEN {FromFiner(x[1], x[2], n) : n \in g.neighbours[x[1]][x[2]]}
         ELSE {Cell("view", x[1], x[2])} : x \in Mine(g, r) \X Dir}]
StagGhostsIn(g) == [r \in Ranks(g) |-> {Append(c, s) : c \in GhostsIn(g)[r], s \in Axis}]
Ghosts == [m \in Meshes |-> IF m.staggered THEN StagGhostsIn(Listed[m]) ELSE GhostsIn(Listed[m])]
(* A ghost no task writes has the empty set. *)
WrittenBy(writes, ghosts) == [r \in DOMAIN ghosts |->
  {{t \in DOMAIN writes : c \in writes[t]} : c \in ghosts[r]}]
GhostSources == [m \in Meshes |-> WrittenBy(Writes[m], Ghosts[m])]
=============================================================================
