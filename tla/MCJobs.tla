------------------------------- MODULE MCJobs -------------------------------
(***************************************************************************)
(* What jobs carry over in their checkpoints, and the global objects of    *)
(* one process, each checked while the other rests.                        *)
(***************************************************************************)
EXTENDS Restart, GraceLifetimes

MCVars == <<vars, lifeVars>>

LifeRests == /\ phase = "rest" /\ saving = FALSE
             /\ todo = <<>> /\ trackers = <<>> /\ handlers = <<>>
             /\ gone = {} /\ missing = {}
JobsRest == /\ Init
            /\ orbit = [i \in Updates |-> "far"]
            /\ armed = CHOOSE b \in Parfiles : TRUE

MCInit == (Init /\ LifeRests) \/ (JobsRest /\ LifeInit)
MCNext == \/ phase = "rest" /\ Next /\ UNCHANGED lifeVars
          \/ phase # "rest" /\ LifeNext /\ UNCHANGED vars
MCSpec == MCInit /\ [][MCNext]_MCVars
=============================================================================
