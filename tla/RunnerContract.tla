--------------------------- MODULE RunnerContract ---------------------------
(***************************************************************************)
(* What AgentService relies on of an AgentRunner: a run it starts settles  *)
(* at most once, by a result, an error, or RunCancelledError; the last     *)
(* only if the runner was told to cancel it.  A crash of the process       *)
(* settles nothing: the runs it interrupts never answer.                   *)
(***************************************************************************)

CONSTANT Runs

VARIABLES stage, told

Init == stage = [r \in Runs |-> "idle"] /\ told = {}

Start(r) ==
  /\ stage[r] = "idle"
  /\ stage' = [stage EXCEPT ![r] = "running"]
  /\ UNCHANGED told

Tell(r) ==
  /\ stage[r] = "running"
  /\ told' = told \cup {r}
  /\ UNCHANGED stage

Settle(r, how) ==
  /\ stage[r] = "running"
  /\ how = "cancelled" => r \in told
  /\ stage' = [stage EXCEPT ![r] = how]
  /\ UNCHANGED told

Crash ==
  /\ stage' = [r \in Runs |-> IF stage[r] = "running" THEN "lost" ELSE stage[r]]
  /\ UNCHANGED told

Next ==
  \/ \E r \in Runs : \/ Start(r) \/ Tell(r)
                     \/ \E how \in {"resolved", "rejected", "cancelled"} : Settle(r, how)
  \/ Crash

Spec == Init /\ [][Next]_<<stage, told>>
=============================================================================
