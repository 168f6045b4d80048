------------------------------ MODULE TaskGraph ------------------------------
(***************************************************************************)
(* What GRACE's asynchronous executor promises to the ghost exchange       *)
(* (doc/developer_guide/ghost_exchange_pipeline.rst, "The task graph"):    *)
(* in every sweep over a graph of tasks each task's body is launched once, *)
(* after every task it depends on has finished, and the sweep ends when    *)
(* all of them have.  Nothing is said of queues, counters, polling order   *)
(* or devices: TaskExecutor implements this specification.                 *)
(***************************************************************************)
EXTENDS Integers, FiniteSets

CONSTANTS
  Task,    \* the task ids of the graph
  Deps     \* Deps[t]: the tasks whose results t reads

VARIABLES
  started,  \* tasks whose body was launched in this sweep
  finished  \* tasks whose effects are complete in this sweep

vars == <<started, finished>>

TypeOK == started \in SUBSET Task /\ finished \in SUBSET Task

Init == started = {} /\ finished = {}

(* A body is launched on the finished results of its dependencies. *)
Start(t) ==
  /\ t \notin started
  /\ Deps[t] \subseteq finished
  /\ started' = started \cup {t}
  /\ UNCHANGED finished

(* A launched body takes effect: a kernel ends, a transfer lands. *)
Finish(t) ==
  /\ t \in started \ finished
  /\ finished' = finished \cup {t}
  /\ UNCHANGED started

(* A synchronous body starts and takes effect at once. *)
Execute(t) ==
  /\ t \notin started
  /\ Deps[t] \subseteq finished
  /\ started' = started \cup {t}
  /\ finished' = finished \cup {t}

(* The next sweep begins only after the whole graph has taken effect. *)
NewSweep ==
  /\ finished = Task
  /\ started' = {}
  /\ finished' = {}

Next ==
  \/ \E t \in Task : Start(t) \/ Finish(t) \/ Execute(t)
  \/ NewSweep

Spec == Init /\ [][Next]_vars
=============================================================================
