--------------------------- MODULE MCTaskExecutor ---------------------------
(***************************************************************************)
(* An instance of TaskExecutor: a graph with tasks of every kind, two      *)
(* streams, and fan-in and fan-out between tasks of different kinds.       *)
(***************************************************************************)
EXTENDS TaskExecutor

(* As in a halo exchange a receive (1) and a restriction (2) feed kernels on
   two streams, and a send (5) waits for the kernels that pack it; 0 and 3 are
   synchronous. *)
MixedTask   == 0 .. 7
MixedKind   == [t \in MixedTask |-> CASE t \in {0, 3} -> "CPU" [] t \in {1, 5} -> "MPI" [] OTHER -> "GPU"]
MixedStream == [t \in MixedTask |-> IF t \in {4, 7} THEN "pup" ELSE "copy"]
MixedDeps   == [t \in MixedTask |-> CASE t = 2 -> {0} [] t = 3 -> {1, 2} [] t = 5 -> {2, 4}
                                      [] t = 6 -> {1} [] t = 7 -> {3, 6} [] OTHER -> {}]
(* Two kernels may fail, or not. *)
MixedFaulty == {2, 4}

ASSUME Acyclic
=============================================================================
