--------------------------- MODULE MCHeimdallRun ---------------------------
(* Instances of HeimdallRun for TLC: overlapping runs of one Agent. *)
EXTENDS HeimdallRun, TLC

CONSTANTS a1, r1, r2

OneRun  == r1 :> a1
TwoRuns == OneRun @@ (r2 :> a1)

\* Sound here: the runs are of one Agent, and nothing names one of them.
Interchangeable == Permutations(Runs)
=============================================================================
