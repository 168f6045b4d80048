------------------------------ MODULE TimeStep ------------------------------
(***************************************************************************)
(* One time step after another: evolve_impl() runs a Runge-Kutta scheme    *)
(* over the state and its scratch buffers, and advance_substep(), on every *)
(* rank, computes fluxes and EMFs, makes the shared ones agree (Reflux)    *)
(* and adds them.                                                          *)
(*                                                                         *)
(* What a buffer holds is a combination of terms: the state y the step     *)
(* began with, and dt times the right-hand side at each evaluation, in     *)
(* order: explicit (F) or implicit (G). Coefficients are in units of       *)
(* 1/Scale. The interior and the ghost zones of a buffer may differ.       *)
(***************************************************************************)
EXTENDS Reflux, FiniteSetsExt

CONSTANT Cases   \* what is run: [mesh, scheme]

Scale == 12000
Terms == 1 .. 5                     \* y, and at most four evaluations
Stale == <<>>                       \* something of an earlier step
Y     == [k \in Terms |-> IF k = 1 THEN Scale ELSE 0]
Times(a, b) == (a * b) \div Scale
Sum(terms, k) == MapThenSumSet(LAMBDA n : Times(terms[n][1], terms[n][2][k]), DOMAIN terms)
(* The combination of a sequence of <<coefficient, content>>. *)
Combine(terms) == IF \E n \in DOMAIN terms : terms[n][2] = Stale THEN Stale
                  ELSE [k \in Terms |-> Sum(terms, k)]

(***************************************************************************)
(* evolve_impl: the operations of a step, for each time_stepper. A buffer  *)
(* is "state", "p" (the scratch state) or "pp" (the staging buffer).       *)
(***************************************************************************)
Buffers == {"state", "p", "pp"}
Copy(dst, src)    == [op |-> "copy", new |-> dst, old |-> src]
AdvanceTracers    == [op |-> "tracers", old |-> "state"]
Sub(w, new, old)  == [op |-> "sub", w |-> w, new |-> new, old |-> old]
Implicit(w, new, old) == [op |-> "implicit", w |-> w, new |-> new, old |-> old]
Bc(buf)           == [op |-> "bc", new |-> buf]
Aux(buf)          == [op |-> "aux", old |-> buf]
Lin(dst, terms)   == [op |-> "lin", new |-> dst, terms |-> terms]
(* A substep with what follows it. *)
Stage(w, new, old) == <<Sub(w, new, old), Bc(new), Aux(new)>>

EulerStep == Stage(12000, "state", "p")
(* Mutant: the auxiliaries of the first stage before its ghost zones. *)
Rk2AuxFirst == <<Sub(6000, "p", "state"), Aux("p"), Bc("p")>> \o Stage(12000, "state", "p")
Rk2Step   == Stage(6000, "p", "state") \o Stage(12000, "state", "p")
(* Mutant: the last stage is taken from the first stage's buffer. *)
Rk3LastFromFirst ==
  Stage(12000, "p", "state") \o <<Lin("pp", <<<<9000, "state">>, <<3000, "p">>>>)>>
    \o Stage(3000, "pp", "p") \o <<Lin("state", <<<<4000, "state">>, <<8000, "p">>>>)>>
    \o Stage(8000, "state", "pp")
Rk3Step   ==
  Stage(12000, "p", "state") \o <<Lin("pp", <<<<9000, "state">>, <<3000, "p">>>>)>>
    \o Stage(3000, "pp", "p") \o <<Lin("state", <<<<4000, "state">>, <<8000, "pp">>>>)>>
    \o Stage(8000, "state", "pp")
Rk4Step   ==
  <<Lin("pp", <<<<0, "state">>, <<12000, "p">>>>)>> \o Stage(14325, "pp", "state")
    \o <<Lin("p", <<<<12000, "p">>, <<2612, "pp">>>>), Lin("state", <<<<1453, "pp">>, <<8661, "p">>>>)>>
    \o Stage(1191, "state", "pp")
    \o <<Lin("p", <<<<12000, "p">>, <<12790, "state">>>>), Lin("pp", <<<<-46126, "state">>, <<25455, "p">>>>)>>
    \o Stage(13580, "pp", "state")
    \o <<Lin("state", <<<<6556, "pp">>, <<2384, "p">>>>)>> \o Stage(3728, "state", "pp")
lambda    == 3515
Imex222Step ==
  <<Copy("pp", "state"), Implicit(lambda, "pp", "state"), Aux("pp")>> \o Stage(12000, "p", "pp")
    \o <<Lin("pp", <<<<40971, "pp">>, <<-40971, "state">>>>),
         Lin("state", <<<<6000, "state">>, <<6000, "p">>, <<6000, "pp">>>>),
         Lin("p", <<<<12000, "p">>, <<4971, "pp">>>>), Bc("p"),
         Lin("pp", <<<<20485, "pp">>, <<-12000, "p">>>>),
         Implicit(lambda, "pp", "p"),
         Lin("state", <<<<12000, "state">>, <<20485, "pp">>, <<-20485, "p">>>>), Aux("pp")>>
    \o Stage(6000, "state", "pp")
Schemes == [euler |-> EulerStep, rk2 |-> Rk2Step, rk3 |-> Rk3Step, rk4 |-> Rk4Step, imex222 |-> Imex222Step]
Programs == [s \in DOMAIN Schemes |->
               <<Copy("p", "state"), AdvanceTracers>> \o Schemes[s] \o <<Copy("p", "state")>>]
ASSUME CasesAssumption == \A c \in Cases : c.mesh \in Meshes /\ c.scheme \in DOMAIN Schemes

VARIABLES
  job,       \* a member of Cases
  pc,        \* the operation of the step under way
  inner,     \* what each buffer holds in its interior
  ghost,     \* and in its ghost zones
  aux,       \* the auxiliaries: <<interior, ghost zones>> of what they were computed from
  evals,     \* the evaluations of this step: [part, at]
  doing,     \* what each rank does in advance_substep
  flux, emf, \* of each quadrant: place -> value; {} before they are computed
  mail,      \* kind of message -> sender -> receiver -> contents
  used,      \* the fluxes and EMFs the state was advanced with
  outflow    \* of each rank: the weight of each term in outflow_mass
data == <<inner, ghost, aux, evals>>
swap == <<flux, emf, mail, used, outflow>>
vars == <<job, pc, data, doing, swap>>

g         == RefluxOf[job.mesh]
Procs     == Ranks(job.mesh)
Program   == Programs[job.scheme]
Finished  == pc > Len(Program)
Op        == Program[pc]
Doing(op) == ~Finished /\ Op.op = op
Zeros     == [k \in Terms |-> 0]
NoValues(m) == [q \in Quads(m) |-> <<>>]
NoMail    == [kind \in Kinds |-> <<>>]

Init ==
  /\ job \in Cases
  /\ pc = 1
  /\ inner = [b \in Buffers |-> IF b = "state" THEN Y ELSE Stale]
  /\ ghost = inner
  /\ aux = <<Y, Y>>
  /\ evals = <<>>
  /\ doing = [r \in Procs |-> "compute"]
  /\ flux = NoValues(job.mesh) /\ emf = NoValues(job.mesh)
  /\ used = [flux |-> NoValues(job.mesh), emf |-> NoValues(job.mesh)]
  /\ mail = NoMail
  /\ outflow = [r \in Procs |-> Zeros]

(***************************************************************************)
(* The operations but the substep: the same on every rank, and no rank     *)
(* reads another's data in them but in apply_boundary_conditions, a        *)
(* GhostFill sweep that every rank enters.                                 *)
(***************************************************************************)
Done == pc' = pc + 1 /\ UNCHANGED <<job, doing, swap>>
Put(b, in, gz) == inner' = [inner EXCEPT ![b] = in] /\ ghost' = [ghost EXCEPT ![b] = gz]

CopyBuffer ==
  /\ Doing("copy")
  /\ Put(Op.new, inner[Op.old], ghost[Op.old])
  /\ UNCHANGED <<aux, evals>> /\ Done
(* particles_module_t::advance_step samples state and aux (see Particles). *)
PushTracers == Doing("tracers") /\ UNCHANGED data /\ Done
(* linop_apply, ghost zones included. *)
LinearUpdate ==
  /\ Doing("lin")
  /\ Put(Op.new, Combine([n \in DOMAIN Op.terms |-> <<Op.terms[n][1], inner[Op.terms[n][2]]>>]),
                 Combine([n \in DOMAIN Op.terms |-> <<Op.terms[n][1], ghost[Op.terms[n][2]]>>]))
  /\ UNCHANGED <<aux, evals>> /\ Done
ApplyBoundaryConditions ==
  /\ Doing("bc")
  /\ ghost' = [ghost EXCEPT ![Op.new] = inner[Op.new]]
  /\ UNCHANGED <<inner, aux, evals>> /\ Done
ComputeAuxiliaries ==
  /\ Doing("aux")
  /\ aux' = <<inner[Op.old], ghost[Op.old]>>
  /\ UNCHANGED <<inner, ghost, evals>> /\ Done

Plus(content, w) == IF content = Stale THEN Stale ELSE [content EXCEPT ![Len(evals) + 2] = @ + w]
(* advance_implicit_substep: new = old + w G(new), ghost zones included. *)
ImplicitSubstep ==
  /\ Doing("implicit")
  /\ Put(Op.new, Plus(inner[Op.old], Op.w), Plus(ghost[Op.old], Op.w))
  /\ evals' = Append(evals, [part |-> "G", at |-> Plus(inner[Op.old], Op.w)])
  /\ UNCHANGED aux /\ Done

(***************************************************************************)
(* advance_substep on rank r.                                              *)
(***************************************************************************)
Calling(r, what) == Doing("sub") /\ doing[r] = what
Then(r, what) == doing' = [doing EXCEPT ![r] = what] /\ UNCHANGED <<job, pc, data>>
OnRank(r, new, old) == [q \in DOMAIN old |-> IF Rank(g, q) = r THEN new[q] ELSE old[q]]

ComputeFluxes(r) ==
  /\ Calling(r, "compute")
  /\ flux' = OnRank(r, RawFluxes(job.mesh), flux)
  /\ emf'  = OnRank(r, RawEmfs(job.mesh), emf)
  /\ Then(r, "fill flux buffers") /\ UNCHANGED <<mail, used, outflow>>

Sends(kind) == IF kind = "flux" THEN flux ELSE emf
Fill(r, kinds) ==
  mail' = [kind \in Kinds |-> IF kind \notin kinds THEN mail[kind]
             ELSE [s \in DOMAIN mail[kind] \cup {r} |->
                     IF s = r THEN Posted(g, kind, Sends(kind), r) ELSE mail[kind][s]]]
FillFluxBuffers(r) ==
  /\ Calling(r, "fill flux buffers")
  /\ Fill(r, {"flux"})
  /\ Then(r, "fill emf buffers") /\ UNCHANGED <<flux, emf, used, outflow>>
FillEmfBuffers(r) ==
  /\ Calling(r, "fill emf buffers")
  /\ Fill(r, Kinds \ {"flux"})
  /\ Then(r, "correct fluxes") /\ UNCHANGED <<flux, emf, used, outflow>>

CorrectFluxes(r) ==
  /\ Calling(r, "correct fluxes")
  /\ Completed(g, mail, "flux", r)
  /\ flux' = CorrectedFluxes(g, flux, mail, r)
  /\ Then(r, "add fluxes") /\ UNCHANGED <<emf, mail, used, outflow>>
(* boundary_outflow_t::accumulate weighs a flux with dt dtfact. *)
Accumulated(r) == IF \E x \in g.boundary : Rank(g, x[1]) = r
                  THEN [outflow EXCEPT ![r][Len(evals) + 2] = @ + Op.w] ELSE outflow
AddFluxes(r) ==
  /\ Calling(r, "add fluxes")
  /\ outflow' = Accumulated(r)
  /\ used' = [used EXCEPT !.flux = OnRank(r, flux, @)]
  /\ Then(r, "correct emfs") /\ UNCHANGED <<flux, emf, mail>>
CorrectEmfs(r) ==
  /\ Calling(r, "correct emfs")
  /\ \A kind \in Kinds \ {"flux"} : Completed(g, mail, kind, r)
  /\ emf' = CorrectedEmfs(g, emf, mail, r)
  /\ Then(r, "update ct") /\ UNCHANGED <<flux, mail, used, outflow>>
UpdateCT(r) ==
  /\ Calling(r, "update ct")
  /\ used' = [used EXCEPT !.emf = OnRank(r, emf, @)]
  /\ Then(r, "barrier") /\ UNCHANGED <<flux, emf, mail, outflow>>

Advanced == Doing("sub") /\ \A r \in Procs : doing[r] = "barrier"
(* mpi_barrier: the interior of new has gained w F(old) on every rank. *)
EndSubstep ==
  /\ Advanced
  /\ inner' = [inner EXCEPT ![Op.new] = Plus(@, Op.w)]
  /\ evals' = Append(evals, [part |-> "F", at |-> inner[Op.old]])
  /\ pc' = pc + 1
  /\ doing' = [r \in Procs |-> "compute"]
  /\ flux' = NoValues(job.mesh) /\ emf' = flux' /\ mail' = NoMail
  /\ used' = [flux |-> flux', emf |-> flux']
  /\ UNCHANGED <<job, ghost, aux, outflow>>

(* The next call of evolve: the state it finds is its y. An output follows
   every step, so that outflow_mass is flushed. *)
Renamed(content) == IF content = inner["state"] THEN Y ELSE Stale
NextStep ==
  /\ Finished
  /\ pc' = 1 /\ evals' = <<>>
  /\ inner' = [b \in Buffers |-> Renamed(inner[b])]
  /\ ghost' = [b \in Buffers |-> Renamed(ghost[b])]
  /\ aux' = <<Renamed(aux[1]), Renamed(aux[2])>>
  /\ outflow' = [r \in Procs |-> Zeros]
  /\ UNCHANGED <<job, doing, flux, emf, mail, used>>

Substep(r) == \/ ComputeFluxes(r) \/ FillFluxBuffers(r) \/ FillEmfBuffers(r) \/ CorrectFluxes(r)
              \/ AddFluxes(r) \/ CorrectEmfs(r) \/ UpdateCT(r)
Next == \/ CopyBuffer \/ PushTracers \/ LinearUpdate \/ ApplyBoundaryConditions
        \/ ComputeAuxiliaries \/ ImplicitSubstep \/ EndSubstep \/ NextStep
        \/ \E r \in Procs : Substep(r)
Spec     == Init /\ [][Next]_vars
FairSpec == Spec /\ WF_vars(Next)

(***************************************************************************)
(* Properties.                                                             *)
(***************************************************************************)
(* The fluxes of the four fine cells across cell <<i, j>> of a coarse face. *)
FourAcross(fluxes, d, i, j) ==
  UNION {fluxes[d.fine[ChildAt(i, j)]]
           [<<FaceAxis(d.face), OnFace(OppositeFace(d.face), ((2 * i) % nx) + a, ((2 * j) % nx) + b)>>] :
         a \in {0, 1}, b \in {0, 1}}
(* A coarse quadrant advances with the flux that left its fine neighbours:
   at every cell of a face between levels, the mean of the four fine fluxes
   that they used themselves (refluxing.cpp, after reflux_correct_fluxes). *)
SharedFluxes ==
  Advanced => \A q \in Quads(g) : \A d \in g.hanging[q] : \A i \in Cell, j \in Cell :
    used.flux[q][<<FaceAxis(d.face), OnFace(d.face, i, j)>>] = FourAcross(used.flux, d, i, j)

(* div B stays zero where quadrants meet: whatever rank, level and order of
   messages, all copies of an EMF agree, a coarse one being the mean of the
   two fine ones on it (refluxing.cpp, after reflux_correct_emfs). *)
SharedEmfs ==
  Advanced => \A x \in SharedOf[job.mesh] :
    used.emf[x[1]][x[2]] = UNION {used.emf[x[3]][h] : h \in x[4]}

(* Fluxes, and the tracers, read a state whose ghost zones are those of its
   interior, with the auxiliaries of that same state; the state a substep
   adds to has its own interior's in its ghost zones, where the first-order
   correction tries the update (FirstOrder). *)
ReadsFresh ==
  /\ Doing("sub") \/ Doing("tracers") =>
       LET y == inner[Op.old] IN y # Stale /\ ghost[Op.old] = y /\ aux = <<y, y>>
  /\ Doing("sub") => ghost[Op.new] = inner[Op.new]

Order  == [euler |-> 1, rk2 |-> 2, rk3 |-> 3, rk4 |-> 4, imex222 |-> 2]
Near1(a, b) == a - b \in -24 .. 24
Evals(part) == {k \in DOMAIN evals : evals[k].part = part}
(* The weights of a combination's evaluations applied to x. *)
Dot(content, part, x(_)) == MapThenSumSet(LAMBDA k : Times(content[k + 1], x(k)), Evals(part))
One(k)  == Scale
Parts   == {p \in {"F", "G"} : Evals(p) # {}}
C(part, k) == Dot(evals[k].at, part, One)
(* At the end of a step the state satisfies the order conditions of its
   scheme, up to the coefficients' rounding: y once, and the weights of the
   evaluations at the states they were made at (Butcher's trees up to the
   scheme's order, explicit and implicit parts crossed). *)
OrderConditions ==
  Finished =>
    LET n == Order[job.scheme]
        b(part, x(_)) == Dot(inner["state"], part, x)
        c(k)   == C("F", k)
        c2(k)  == Times(c(k), c(k))
        c3(k)  == Times(c(k), c2(k))
        Ac(k)  == Dot(evals[k].at, "F", c)
        cAc(k) == Times(c(k), Ac(k))
        Ac2(k) == Dot(evals[k].at, "F", c2)
        AAc(k) == Dot(evals[k].at, "F", Ac)
    IN /\ Near1(inner["state"][1], Scale)
       /\ \A p \in Parts : Near1(b(p, One), Scale)
       /\ n >= 2 => \A p, s \in Parts : Near1(b(p, LAMBDA k : C(s, k)), Scale \div 2)
       /\ n >= 3 => Near1(b("F", c2), Scale \div 3) /\ Near1(b("F", Ac), Scale \div 6)
       /\ n >= 4 => /\ Near1(b("F", c3), Scale \div 4) /\ Near1(b("F", cAc), Scale \div 8)
                    /\ Near1(b("F", Ac2), Scale \div 12) /\ Near1(b("F", AAc), Scale \div 24)

(* Every rank finishes every step: no rank waits for a message that is not
   sent, or sends one that is not received. *)
StepEnds == []<>Finished

(* boundary_outflow.hh: "mass that left the grid during this output
   interval": a rank's outflow_mass weighs every flux as the state does. *)
OutflowIsWhatLeft ==
  Finished => \A x \in g.boundary : \A k \in Evals("F") :
    Near1(outflow[Rank(g, x[1])][k + 1], inner["state"][k + 1])
=============================================================================
