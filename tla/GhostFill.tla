----------------------------- MODULE GhostFill -----------------------------
(***************************************************************************)
(* Sweeps of ghost filling (grace::amr::apply_boundary_conditions): every  *)
(* rank's executor runs its task graph, its tasks in any order their       *)
(* dependencies allow, then meets the others at a barrier.                 *)
(*                                                                         *)
(* A task may have been running for a while when it finishes, and it takes *)
(* effect then.  ReadyReads says that what it reads is right already when  *)
(* it may start, and NoRace that nothing that may run beside it changes    *)
(* that.                                                                   *)
(***************************************************************************)
EXTENDS GhostGraph

VARIABLES
  mesh,      \* the mesh of this run
  done,      \* the tasks that have finished in this sweep
  stale,     \* cells this sweep has written from data it had not yet updated
  waiting    \* the ranks at the barrier

vars == <<mesh, done, stale, waiting>>

Fresh(c) == c \notin stale /\ Writers[mesh][c] \cap done # {}
ReadsFresh(t) == /\ Reads[mesh][t] \cap stale = {}
                 /\ \A W \in Sources[mesh][t] : W \cap done # {}

Init == /\ mesh \in Meshes
        /\ done = {}
        /\ stale = {}
        /\ waiting = {}

(* t has been launched and is, or may be, the next to run on its stream. *)
Ready(t) == WaitsFor[mesh][t] \subseteq done
Runnable == {t \in Tasks[mesh] \ done : Ready(t)}
Effect(t) ==
  /\ done' = done \cup {t}
  /\ stale' = (stale \ Writes[mesh][t])
                \cup (IF ReadsFresh(t) THEN {}
                      ELSE {v[1] : v \in {w \in Moves[mesh][t] : \E c \in w[2] : ~Fresh(c)}})
  /\ UNCHANGED <<mesh, waiting>>

(* A device kernel: restriction, copy, (un)packing, boundary, prolongation. *)
Launch(t) == Kernel(t) /\ Effect(t)
Send(t)   == t.op = "send" /\ Effect(t)
(* A message arrives after the peer has sent it. *)
SendOf(t) == [t EXCEPT !.op = "send", !.rank = t.peer, !.peer = t.rank]
Recv(t)   == /\ t.op = "recv"
             /\ SendOf(t) \in done
             /\ Effect(t)
Work(r) == \E t \in {u \in Tasks[mesh] \ done : u.rank = r /\ Ready(u)} : Launch(t) \/ Send(t) \/ Recv(t)

(* The executor's run() returns; reset(), fence, barrier. *)
Leave(r) == /\ r \notin waiting
            /\ \A t \in Tasks[mesh] : t.rank = r => t \in done
            /\ waiting' = waiting \cup {r}
            /\ UNCHANGED <<mesh, done, stale>>
NextSweep == /\ waiting = Ranks(mesh)
             /\ done' = {} /\ stale' = {} /\ waiting' = {}
             /\ UNCHANGED mesh

Next == (\E r \in Ranks(mesh) : Work(r) \/ Leave(r)) \/ NextSweep
(* Every rank keeps polling its executor, and messages arrive. *)
Fairness == /\ \A r \in UNION {Ranks(m) : m \in Meshes} :
                 WF_vars(r \in Ranks(mesh) /\ (Work(r) \/ Leave(r)))
            /\ WF_vars(NextSweep)
Spec == Init /\ [][Next]_vars /\ Fairness

(***************************************************************************)
(* What the graph of a mesh promises                                       *)
(***************************************************************************)
(* Each cell a task reads is written by a task upstream of it; for a message
   that arrives, by its send. *)
ReadsOrdered(m) == \A t \in Tasks[m] : \A W \in Sources[m][t] :
  IF t.op = "recv" THEN SendOf(t) \in W ELSE W \cap Upstream[m][t] # {}
ConflictsOrdered(m) ==
  \A t \in Tasks[m] : \A u \in Conflicts[m][t] : u \in Upstream[m][t] \/ t \in Upstream[m][u]
GhostsOwned(m) == \A r \in Ranks(m) : \A W \in GhostSources[m][r] : \E t \in W \cap Tasks[m] : t.rank = r
MessagesMatch(m) == \A t \in {u \in Tasks[m] : u.op = "recv"} :
  {As("net", s) : s \in SendSlots[m][t.peer][t.rank]} = {As("net", s) : s \in RecvSlots[m][t.rank][t.peer]}
Ordered == [m \in Meshes |-> ReadsOrdered(m) /\ ConflictsOrdered(m) /\ GhostsOwned(m) /\ MessagesMatch(m)]

(***************************************************************************)
(* Properties                                                              *)
(***************************************************************************)
(* Two ranks size and order a message from their own descriptors: it holds *)
(* exactly the slots its receiver unpacks. And in each rank's graph every  *)
(* read comes after a write of the same cells, and of two tasks that touch *)
(* the same cells one is upstream of the other (build_task_list).          *)
GraphOrdered == Ordered[mesh]

(* "Prolongation depends on every ghost slot its stencil reads": whatever  *)
(* writes a cell that an interpolation kernel reads is upstream of it.     *)
StencilAwaited == \A t \in {u \in Tasks[mesh] : u.op = "prolong"} :
  \A W \in Sources[mesh][t] : W \cap Upstream[mesh][t] # {}

(* Whatever order the executor picks, everything a task reads has been     *)
(* brought up to date in this sweep before its dependencies let it start:  *)
(* the graph orders every read after its write (build_task_list, whose     *)
(* only synchronisation is the dependency edges).                          *)
ReadyReads == \A t \in Runnable : t.op # "recv" => ReadsFresh(t)

(* Two tasks of a rank that may run at the same time never touch the same  *)
(* cells, unless both only read them: kernels run on separate streams.     *)
NoRace == LET L == Runnable IN \A t \in L : Conflicts[mesh][t] \cap L = {}

(* A rank that has reached the barrier has every ghost of its quadrants,   *)
(* boundary and prolonged ones included, computed from this sweep's data.  *)
FilledFresh == \A r \in waiting : /\ Ghosts[mesh][r] \cap stale = {}
                                  /\ \A W \in GhostSources[mesh][r] : W \cap done # {}

(* No cycle of dependencies within a rank or through the messages between  *)
(* ranks holds a sweep up.                                                 *)
SweepEnds == []<>(waiting = Ranks(mesh))
=============================================================================
