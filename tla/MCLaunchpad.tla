---------------------------- MODULE MCLaunchpad ----------------------------
(* Instances of Launchpad for TLC: one Agent, whose runs and requests race. *)
EXTENDS Launchpad, TLC

CONSTANTS a1, r1, r2, r3

OneRun    == r1 :> a1
TwoRuns   == OneRun @@ (r2 :> a1)
ThreeRuns == TwoRuns @@ (r3 :> a1)

\* Sound here: AgentOf is constant over Runs, and nothing names a request.
Interchangeable == Permutations(Runs) \cup Permutations(Requests)
=============================================================================
