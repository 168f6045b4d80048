------------------------------ MODULE Particles ------------------------------
(***************************************************************************)
(* Tracer particles (particles_module_t): which rank holds a tracer, which *)
(* rank owns the quadrant it is in, and the collective calls by which they *)
(* fetch the fluid's velocity, change ranks and go through a checkpoint.   *)
(*                                                                         *)
(* Space is one axis of Length places, each less than half the finest cell *)
(* wide; a tracer that left the domain is at -1 or Length. A quadrant is a *)
(* half-open interval <<lo, hi>>. Of the sampled fields there is only      *)
(* where they were read: {x} for the fluid at place x, {} for zeros.       *)
(***************************************************************************)
EXTENDS Slices, Integers, Sequences, FiniteSets, FiniteSetsExt

CONSTANTS Length,          \* places of the domain
          Forests,         \* set of [rank -> sequence of its quadrants]
          Flows,           \* set of [place -> displacement in a step]
          Boundaries,      \* subset of {"periodic", "reflect", "open"}
          TracersPerRank,  \* n_tracers_per_rank
          RebalanceEvery, CompactEvery,
          Threshold,       \* imbalance_threshold, in percent
          MaxIter, MaxJobs \* bounds: steps of a run, jobs of a behaviour

VARIABLES forest,    \* quadrants of each rank, what p4est searches
          shadow,    \* fluid_topology_shadow_t::local_geometry of each rank
          tr,        \* tracer container of each rank
          counter,   \* next_local_id of each rank
          found,     \* owners a rank has looked up for its tracers
          migrate,   \* should_migrate
          wire,      \* what a rank is about to send, or has received
          pc, phase, \* place of each rank, and the call it is in
          iter, flow, boundary,
          file, job,
          restored,  \* history: loaded, and no regrid since
          rescaled   \* history: loaded with another number of ranks

vars == <<forest, shadow, tr, counter, found, migrate, wire, pc, phase, iter, flow,
          boundary, file, job, restored, rescaled>>
mesh == <<forest, shadow>>
run  == <<phase, iter, flow, boundary, file, job, restored, rescaled>>

Ranks  == DOMAIN forest
Inside == 0 .. (Length - 1)
NoRank == -1
NoQuad == 0
None   == [r \in Ranks |-> <<>>]

All(place) == \A r \in Ranks : pc[r] = place
SetAll(place) == pc' = [r \in Ranks |-> place]
Go(r, from, to) == pc[r] = from /\ pc' = [pc EXCEPT ![r] = to]
AtRest == All("rest")

-----------------------------------------------------------------------------
(* Mutant: a point on a quadrant's lower face is in neither quadrant. *)
HoldsOpen(quad, x) == quad[1] < x /\ x < quad[2]
Holds(quad, x) == quad[1] <= x /\ x < quad[2]
(* What p4est and the grid promise of the forests: every place of the domain
   is in one quadrant of one rank, and no quadrant reaches beyond. *)
Extent(quad) == quad[1] .. (quad[2] - 1)
ASSUME LengthAssumption == Length \in Nat \ {0}
ASSUME ForestsAssumption ==
  \A f \in Forests :
    /\ IsFiniteSet(DOMAIN f) /\ DOMAIN f = 0 .. (Cardinality(DOMAIN f) - 1)
    /\ \A r \in DOMAIN f : f[r] \in Seq(Int \X Int)
    /\ \A r \in DOMAIN f : \A i \in DOMAIN f[r] :
         0 <= f[r][i][1] /\ f[r][i][1] < f[r][i][2] /\ f[r][i][2] <= Length
    /\ \A x \in Inside : \E r \in DOMAIN f : \E i \in DOMAIN f[r] : x \in Extent(f[r][i])
    /\ \A q, r \in DOMAIN f : \A i \in DOMAIN f[q], k \in DOMAIN f[r] : \A x \in Inside :
         x \in Extent(f[q][i]) /\ x \in Extent(f[r][k]) => q = r /\ i = k
ASSUME FlowsAssumption == \A f \in Flows : \A x \in Inside : f[x] \in Int

QuadAt(quads, x) == IF \E i \in DOMAIN quads : Holds(quads[i], x)
                    THEN CHOOSE i \in DOMAIN quads : Holds(quads[i], x) ELSE NoQuad
(* find_owner: every rank knows the partition, only the owner its quadrants. *)
OwnerRank(x) == IF \E q \in Ranks : QuadAt(forest[q], x) # NoQuad
                THEN CHOOSE q \in Ranks : QuadAt(forest[q], x) # NoQuad ELSE NoRank
FindOwner(r, x) == [rank |-> OwnerRank(x), quad |-> IF OwnerRank(x) = r THEN QuadAt(forest[r], x) ELSE NoQuad]

(* Of a sequence for each rank, f: where its elements are, and those at the
   places P, in the order of the ranks. *)
Places(f)   == UNION {{<<r, i>> : i \in DOMAIN f[r]} : r \in DOMAIN f}
Ahead(p, q) == p[1] < q[1] \/ (p[1] = q[1] /\ p[2] < q[2])
Before(P, p) == {q \in P : Ahead(q, p)}
Nth(P, n)   == CHOOSE p \in P : Cardinality(Before(P, p)) = n - 1
InOrder(f, P)  == [n \in 1 .. Cardinality(P) |-> f[Nth(P, n)[1]][Nth(P, n)[2]]]
InRankOrder(f) == InOrder(f, Places(f))

(* distribution_plan_t and migrate: elements for no rank are dropped, what
   arrives is in the order of the senders. *)
SentTo(r) == {p \in Places(wire) : wire[p[1]][p[2]].to = r}
Exchanged == [r \in Ranks |-> InOrder(wire, SentTo(r))]
Exchange(from, to) == All(from) /\ SetAll(to) /\ wire' = Exchanged
Enter(from, to) == All(from) /\ SetAll(to)

-----------------------------------------------------------------------------
(* initialize without a file: seed_local fills its quadrants in turn and
   refreshes the shadow; seed_density_weighted keeps the candidates in dense
   matter, so fewer tracers, in any of the quadrants. *)
Seeds(r) == UNION {[1 .. n -> DOMAIN forest[r]] : n \in 0 .. TracersPerRank}
Seed(r) ==
  /\ Go(r, "seed", "rest")
  /\ shadow' = [shadow EXCEPT ![r] = forest[r]]
  /\ \E quads \in Seeds(r) :
       /\ tr' = [tr EXCEPT ![r] =
                   [i \in DOMAIN quads |->
                      [id |-> <<r, i - 1>>, pos |-> (forest[r][quads[i]][1] + forest[r][quads[i]][2]) \div 2,
                       status |-> "default", owner |-> r, quad |-> quads[i]]]]
       /\ counter' = [counter EXCEPT ![r] = Len(tr'[r])]
  /\ UNCHANGED <<forest, found, migrate, wire, run>>
(* compute_min_quad_width's Allreduce, in initialize and in on_regrid. *)
Width == /\ Enter("width", CASE phase = "start" -> "seed" [] phase = "load" -> "read" [] OTHER -> "resolve")
         /\ UNCHANGED <<mesh, tr, counter, found, migrate, wire, run>>

-----------------------------------------------------------------------------
(* rebalance: look up, agree, flag, route, move. *)
Resolve(r) ==
  /\ Go(r, "resolve", "reduce")
  /\ found' = [found EXCEPT ![r] = [i \in DOMAIN tr[r] |-> FindOwner(r, tr[r][i].pos)]]
  /\ UNCHANGED <<mesh, tr, counter, migrate, wire, run>>
Moving(r) == Cardinality({i \in DOMAIN found[r] : found[r][i].rank \notin {r, NoRank}})
Reduce ==
  /\ Enter("reduce", "flag")
  /\ migrate' = (100 * MapThenSumSet(Moving, Ranks) >
                   Threshold * MapThenSumSet(LAMBDA r : Len(tr[r]), Ranks))
  /\ UNCHANGED <<mesh, tr, counter, found, wire, run>>
Flag(r) ==
  /\ Go(r, "flag", "cull")
  /\ tr' = [tr EXCEPT ![r] = [i \in DOMAIN @ |->
              IF found[r][i].rank = NoRank THEN [@[i] EXCEPT !.status = "outside"] ELSE @[i]]]
  /\ UNCHANGED <<mesh, counter, found, migrate, wire, run>>
Cull == /\ Enter("cull", "update")
        /\ UNCHANGED <<mesh, tr, counter, found, migrate, wire, run>>
After == IF phase = "advance" THEN "pack" ELSE "rest"
Leaving(r) == [i \in DOMAIN tr[r] |-> [to |-> found[r][i].rank, body |-> tr[r][i]]]
Routed(r) == [i \in DOMAIN tr[r] |->
                [tr[r][i] EXCEPT !.owner = found[r][i].rank, !.quad = found[r][i].quad]]
(* Mutant: a rank without tracers has nothing to move and returns. *)
UpdateEarlyOut(r) ==
  /\ Go(r, "update", IF migrate /\ tr[r] # <<>> THEN "migrate" ELSE After)
  /\ tr' = [tr EXCEPT ![r] = Routed(r)]
  /\ wire' = [wire EXCEPT ![r] = IF migrate THEN Leaving(r) ELSE <<>>]
  /\ found' = [found EXCEPT ![r] = <<>>]
  /\ UNCHANGED <<mesh, counter, migrate, run>>
Update(r) ==
  /\ Go(r, "update", IF migrate THEN "migrate" ELSE After)
  /\ tr' = [tr EXCEPT ![r] = Routed(r)]
  /\ wire' = [wire EXCEPT ![r] = IF migrate THEN Leaving(r) ELSE <<>>]
  /\ found' = [found EXCEPT ![r] = <<>>]
  /\ UNCHANGED <<mesh, counter, migrate, run>>
Migrate ==
  /\ Enter("migrate", After)
  /\ tr' = [r \in Ranks |-> [i \in DOMAIN Exchanged[r] |->
              LET t == Exchanged[r][i].body
              IN [t EXCEPT !.owner = r, !.quad = FindOwner(r, t.pos).quad]]]
  /\ wire' = None
  /\ UNCHANGED <<mesh, counter, found, migrate, run>>

-----------------------------------------------------------------------------
(* advance_step. *)
Iteration == iter - 1
Due(every) == every > 0 /\ Iteration % every = 0
Kept(r) == {p \in Places(tr) : p[1] = r /\ tr[r][p[2]].status = "default"}
Compacted(r) == IF Due(CompactEvery) THEN InOrder(tr, Kept(r)) ELSE tr[r]
(* compact, and the requests of fetch_at_positions. *)
Pack(r) ==
  /\ Go(r, "pack", "request")
  /\ tr' = [tr EXCEPT ![r] = Compacted(r)]
  /\ wire' = [wire EXCEPT ![r] = [i \in DOMAIN tr'[r] |->
                [to |-> tr'[r][i].owner,
                 body |-> [rank |-> r, idx |-> i, quad |-> tr'[r][i].quad, pos |-> tr'[r][i].pos]]]]
  /\ UNCHANGED <<mesh, counter, found, migrate, run>>
Request == Exchange("request", "fulfil") /\ UNCHANGED <<mesh, tr, counter, found, migrate, run>>
(* The quadrant is looked for in the shadow, whose geometry also gives the
   place in the state array's row of that number. *)
Elsewhere == Length
Read(r, quad, x) ==
  LET hint == quad \in DOMAIN shadow[r] /\ Holds(shadow[r][quad], x)
      q    == IF hint THEN quad ELSE QuadAt(shadow[r], x)
  IN IF q = NoQuad THEN {}
     ELSE IF q \in DOMAIN forest[r] /\ forest[r][q] = shadow[r][q] THEN {x} ELSE {Elsewhere}
Fulfil(r) ==
  /\ Go(r, "fulfil", "respond")
  /\ wire' = [wire EXCEPT ![r] = [k \in DOMAIN @ |->
                [to |-> @[k].body.rank,
                 body |-> [idx |-> @[k].body.idx, value |-> Read(r, @[k].body.quad, @[k].body.pos)]]]]
  /\ UNCHANGED <<mesh, tr, counter, found, migrate, run>>
Respond == Exchange("respond", "push") /\ UNCHANGED <<mesh, tr, counter, found, migrate, run>>
(* The view of fetched values is zero where no answer came. *)
Fetched(r, i) == UNION {wire[r][k].body.value : k \in {n \in DOMAIN wire[r] : wire[r][n].body.idx = i}}
Moved(r, i) == IF Fetched(r, i) \cap Inside = {} THEN tr[r][i].pos
               ELSE tr[r][i].pos + flow[CHOOSE x \in Fetched(r, i) \cap Inside : TRUE]
Push(r) ==
  /\ Go(r, "push", "drift")
  /\ tr' = [tr EXCEPT ![r] = [i \in DOMAIN @ |-> [@[i] EXCEPT !.pos = Moved(r, i)]]]
  /\ wire' = [wire EXCEPT ![r] = <<>>]
  /\ UNCHANGED <<mesh, counter, found, migrate, run>>
(* assert_no_regime3_drift: its Allreduce; no step of a place exceeds it. *)
Drift == /\ Enter("drift", "bcs")
         /\ UNCHANGED <<mesh, tr, counter, found, migrate, wire, run>>
Bounded(x) == CASE boundary = "periodic" -> x % Length
                [] boundary = "reflect"  -> IF x < 0 THEN 0 ELSE x
                [] OTHER -> x
PositionBcs(r) ==
  /\ Go(r, "bcs", "rest")
  /\ tr' = [tr EXCEPT ![r] = [i \in DOMAIN @ |-> [@[i] EXCEPT !.pos = Bounded(tr[r][i].pos)]]]
  /\ UNCHANGED <<mesh, counter, found, migrate, wire, run>>

-----------------------------------------------------------------------------
(* save_particles_to_checkpoint, one collective sequence of writes: the
   tracers in the order of the ranks, and the id counters unless there is no
   tracer at all. *)
NoFile == [size |-> 0, iter |-> 0, leaves |-> <<>>, tracers |-> <<>>, counters |-> <<>>]
Save ==
  /\ AtRest /\ phase \in {"advance", "regrid"}
  /\ phase' = "save"
  /\ LET all == InRankOrder(tr)
     IN file' = [size |-> Cardinality(Ranks), iter |-> iter, leaves |-> InRankOrder(forest),
                 tracers |-> [i \in DOMAIN all |-> [id |-> all[i].id, pos |-> all[i].pos, status |-> all[i].status]],
                 counters |-> IF all = <<>> THEN <<>> ELSE counter]
  /\ UNCHANGED <<mesh, tr, counter, found, migrate, wire, pc, iter, flow, boundary, job, restored, rescaled>>

(* A rank's slice of the tracers (Slices). *)
Slice(r) == LET n == Len(file.tracers)
                o == SliceOffset(n, r, Cardinality(Ranks))
            IN SubSeq(file.tracers, o + 1, o + SliceCount(n, r, Cardinality(Ranks)))
(* load_particles_from_checkpoint; without tracers in the file it ends here. *)
Load(r) ==
  /\ Go(r, "read", IF file.tracers = <<>> THEN "rest" ELSE "counters")
  /\ tr' = [tr EXCEPT ![r] = [i \in DOMAIN Slice(r) |->
              [id |-> Slice(r)[i].id, pos |-> Slice(r)[i].pos, status |-> Slice(r)[i].status,
               owner |-> NoRank, quad |-> NoQuad]]]
  /\ UNCHANGED <<mesh, counter, found, migrate, wire, run>>
(* The counters saved, or with another number of ranks the highest number any
   rank sees beside its own tag in its slice. *)
OwnNumbers(r) == {tr[r][i].id[2] : i \in {k \in DOMAIN tr[r] : tr[r][k].id[1] = r}}
HighestSeen == LET seen == UNION {OwnNumbers(r) : r \in Ranks}
               IN IF seen = {} THEN 0 ELSE Max(seen) + 1
(* Mutant: the counters are always worked out from the slices. *)
CountersByScan ==
  /\ Enter("counters", "owners")
  /\ counter' = [r \in Ranks |-> HighestSeen]
  /\ UNCHANGED <<mesh, tr, found, migrate, wire, run>>
Counters ==
  /\ Enter("counters", "owners")
  /\ counter' = IF file.size = Cardinality(Ranks) THEN file.counters ELSE [r \in Ranks |-> HighestSeen]
  /\ UNCHANGED <<mesh, tr, found, migrate, wire, run>>
(* compute_export_ranks_quad_owner, and the plan of migrate_topology. *)
Export(r) ==
  /\ Go(r, "owners", "migrate")
  /\ wire' = [wire EXCEPT ![r] = [i \in DOMAIN tr[r] |-> [to |-> OwnerRank(tr[r][i].pos), body |-> tr[r][i]]]]
  /\ UNCHANGED <<mesh, tr, counter, found, migrate, run>>

-----------------------------------------------------------------------------
(* The calls of main(): a step of the evolution, and after it a regrid that
   changed the forest. *)
Evolve ==
  /\ AtRest /\ iter < MaxIter
  /\ iter' = iter + 1
  /\ phase' = "advance"
  /\ flow' \in Flows
  /\ SetAll(IF RebalanceEvery > 0 /\ iter % RebalanceEvery = 0 THEN "resolve" ELSE "pack")
  /\ UNCHANGED <<mesh, tr, counter, found, migrate, wire, boundary, file, job, restored, rescaled>>
Regrid ==
  /\ AtRest /\ phase = "advance"
  /\ forest' \in {f \in Forests : DOMAIN f = Ranks} \ {forest}
  /\ phase' = "regrid"
  /\ restored' = FALSE
  /\ SetAll("refresh")
  /\ UNCHANGED <<shadow, tr, counter, found, migrate, wire, iter, flow, boundary, file, job, rescaled>>
(* on_regrid: the shadow first, then as in a step. *)
(* Mutant: the geometry of before the regrid is kept. *)
RefreshNot(r) ==
  /\ Go(r, "refresh", "width")
  /\ UNCHANGED <<mesh, tr, counter, found, migrate, wire, run>>
Refresh(r) ==
  /\ Go(r, "refresh", "width")
  /\ shadow' = [shadow EXCEPT ![r] = forest[r]]
  /\ UNCHANGED <<forest, tr, counter, found, migrate, wire, run>>

(* A job starts: without a checkpoint it seeds; with one it has the saved
   mesh, dealt to its ranks, and empty containers. *)
StartOn(f) ==
  /\ forest' = f
  /\ shadow' = [r \in DOMAIN f |-> <<>>] /\ tr' = shadow' /\ found' = shadow' /\ wire' = shadow'
  /\ counter' = [r \in DOMAIN f |-> 0]
  /\ pc' = [r \in DOMAIN f |-> "width"]
(* A crash, or a run that ended, at any time, and the next job. *)
NextJob ==
  /\ job < MaxJobs
  /\ job' = job + 1
  /\ \E f \in Forests :
       /\ file # NoFile => InRankOrder(f) = file.leaves
       /\ StartOn(f)
       /\ phase' = IF file = NoFile THEN "start" ELSE "load"
       /\ restored' = (file # NoFile)
       /\ rescaled' = (file # NoFile /\ (rescaled \/ Cardinality(DOMAIN f) # file.size))
  /\ iter' = file.iter
  /\ UNCHANGED <<migrate, flow, boundary, file>>

Init ==
  /\ forest \in Forests
  /\ shadow = None /\ tr = None /\ found = None /\ wire = None
  /\ counter = [r \in Ranks |-> 0]
  /\ pc = [r \in Ranks |-> "width"]
  /\ phase = "start" /\ migrate = FALSE /\ iter = 0
  /\ flow \in Flows /\ boundary \in Boundaries
  /\ file = NoFile /\ job = 1
  /\ restored = FALSE /\ rescaled = FALSE

RankStep(r) == \/ Seed(r) \/ Load(r) \/ Export(r) \/ Refresh(r)
               \/ Resolve(r) \/ Flag(r) \/ Update(r)
               \/ Pack(r) \/ Fulfil(r) \/ Push(r) \/ PositionBcs(r)
Collective == Width \/ Counters \/ Reduce \/ Cull \/ Migrate \/ Request \/ Respond \/ Drift
Work == Collective \/ \E r \in Ranks : RankStep(r)
Settled == AtRest /\ iter = MaxIter /\ UNCHANGED vars
Next == Work \/ Evolve \/ Regrid \/ Save \/ NextJob \/ Settled
(* A call that began goes on on every rank; nothing makes main() call again. *)
Spec == Init /\ [][Next]_vars /\ WF_vars(Work)

-----------------------------------------------------------------------------
(* No tracer is in two containers, nor twice in one: not across a migration,
   nor a restart in which other ranks read other slices of the file. *)
EachOnce ==
  \A q, r \in Ranks : \A i \in DOMAIN tr[q], k \in DOMAIN tr[r] :
     tr[q][i].id = tr[r][k].id => q = r /\ i = k

(* At every push, a tracer in the domain moves with the fluid at its place:
   some rank held its quadrant, was asked, and read the right row. True of a
   job that seeded its tracers, or has had a regrid. *)
Sampled == \A r \in Ranks : pc[r] = "push" =>
             \A i \in DOMAIN tr[r] : tr[r][i].pos \in Inside => Fetched(r, i) = {tr[r][i].pos}
SampledAfterRegrid == ~restored => Sampled

(* A tracer leaves the containers only from outside the domain. While ranks
   read the checkpoint, those still in the file count. *)
Held == UNION {{[id |-> s[i].id, pos |-> s[i].pos] : i \in DOMAIN s} :
                 s \in {tr[r] : r \in Ranks} \cup (IF \E r \in Ranks : pc[r] = "read" THEN {file.tracers} ELSE {})}
OnlyOutsideIsDropped ==
  [][job' = job => \A t \in Held : t.pos \in Inside => \E u \in Held' : u.id = t.id]_vars

(* The next id a rank would give is above all with its tag, wherever they are.
   True as long as the number of ranks does not change. *)
CountersAhead ==
  (\A r \in Ranks : pc[r] \notin {"width", "seed", "read", "counters"}) =>
     \A r \in Ranks : \A i \in DOMAIN tr[r] :
        tr[r][i].id[1] \in Ranks => tr[r][i].id[2] < counter[tr[r][i].id[1]]
CountersAheadOfSameSize == ~rescaled => CountersAhead

(* Every call ends on every rank, with or without tracers. *)
CallsEnd == []<>AtRest
=============================================================================
