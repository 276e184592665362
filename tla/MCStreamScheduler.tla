------------------------- MODULE MCStreamScheduler -------------------------
(* Small instances of StreamScheduler for TLC.                             *)
EXTENDS StreamScheduler, TLC

\* The DAG of every window, as the code pins it.
FullTopology ==
    "WINDOW" :> {}
    @@ "QA_COARSE" :> {"WINDOW"}
    @@ "QA_DENSE" :> {"QA_COARSE"}
    @@ "EVENT_PROPOSAL" :> {"QA_COARSE", "QA_DENSE"}
    @@ "WINDOW_REDUCTION" :> {"WINDOW", "QA_COARSE", "QA_DENSE", "EVENT_PROPOSAL"}

\* Its last stage alone.
ReductionOnly == "WINDOW_REDUCTION" :> {}

\* Two processes: a worker and its restarted self; or two workers.
CONSTANTS p1, p2, w1, w2
SameWorker == p1 :> w1 @@ p2 :> w1
TwoWorkers == p1 :> w1 @@ p2 :> w2
OneProc == p1 :> w1

Symmetry == Permutations(Payloads)
=============================================================================
