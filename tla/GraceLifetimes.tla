--------------------------- MODULE GraceLifetimes ---------------------------
(***************************************************************************)
(* The global objects of the grace executable, in the orders in which      *)
(* grace::initialize and main construct them, and what the destructors of  *)
(* each use.                                                               *)
(***************************************************************************)
EXTENDS Lifetimes

GraceSingleton == {"config", "mpi", "profiling", "kokkos", "streams", "p4est", "runtime", "connectivity",
                   "forest", "coordinates", "variables", "ghosts", "eos", "surfaces", "co_tracker", "checkpoints"}
(* The loggers are spdlog's registry; topology is fluid_topology_shadow_t. *)
GraceStatic == {"loggers", "particles", "topology", "outflow"}

(* unique_objects_lifetimes *)
GraceLongevity == [x \in GraceSingleton |->
  CASE x = "config"  -> 0  [] x = "mpi"     -> 1  [] x = "profiling" -> 2
    [] x = "kokkos"  -> 3  [] x = "streams" -> 4  [] x = "p4est"     -> 5
    [] x = "runtime" -> 6  [] x = "connectivity" -> 7  [] x = "forest" -> 8
    [] x = "coordinates" -> 9  [] x = "variables" -> 10 [] x = "ghosts" -> 11
    [] x = "eos" -> 12 [] x \in {"surfaces", "co_tracker"} -> 13 [] x = "checkpoints" -> 14]

(* Destructors that free Kokkos or p4est data need the library; that of the
   checkpoint handler saves the state of nearly everything. *)
GraceDtorUses == [x \in GraceSingleton \cup GraceStatic |->
  CASE x \in {"coordinates", "variables", "eos", "surfaces", "particles", "outflow"} -> {"kokkos"}
    [] x \in {"forest", "connectivity"} -> {"p4est"}
    [] x = "ghosts" -> {"kokkos", "p4est", "streams"}
    [] x = "checkpoints" -> {"config", "mpi", "kokkos", "p4est", "runtime", "connectivity", "forest",
                             "variables", "co_tracker", "loggers", "particles"}
    [] OTHER -> {}]

If(b, s) == IF b THEN s ELSE <<>>
(* initialize, load_checkpoint when restarting, and the first step. *)
Startup(profiled, traced, restarted) ==
  <<"config", "mpi", "kokkos", "loggers", "streams">> \o If(profiled, <<"profiling">>)
  \o <<"p4est", "checkpoints", "connectivity", "forest", "variables", "runtime", "coordinates", "eos", "co_tracker">>
  \o If(traced /\ restarted, <<"particles", "topology">>)
  \o <<"ghosts", "surfaces">>
  \o If(traced /\ ~restarted, <<"particles", "topology">>)
  \o <<"outflow">>
(* With and without the profiler and the particles, fresh and restarted. *)
GraceStarts == {Startup(profiled, traced, restarted) :
                  profiled \in BOOLEAN, traced \in BOOLEAN, restarted \in BOOLEAN}

(* The final save finds every object it writes (particle_checkpoint.cpp).   *)
SingletonsFindAll == missing \cap (Singleton \X Object) = {}
=============================================================================
