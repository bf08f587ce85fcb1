--------------------------- MODULE MCLaunchpadFair ---------------------------
(* Two servers in one state space, which share Launchpad's variables: the calm   *)
(* one, whose runs do not outlive runMaxAgeMs and whose Agent is neither stopped *)
(* nor deleted, with the constants of the configuration; and the watched one,    *)
(* whose runs may, with one request at a time and two runs.                      *)
EXTENDS MCLaunchpad

CONSTANTS h1, h2

VARIABLE server     \* which of the two this behaviour is of

WatchedOperations == {"create", "send", "stop", "delete", "cancel"}

Watched == INSTANCE Launchpad WITH Offered <- WatchedOperations, Watchdog <- TRUE

\* Bound: the requests that reach the watched server.
FewRequests == phase'[h2] = "idle" /\ job'[h1].run # r3

BothInit == Init /\ server \in {"calm", "watched"}

BothNext ==
  \/ server = "calm" /\ Next /\ UNCHANGED server
  \/ server = "watched" /\ Watched!Next /\ FewRequests /\ UNCHANGED server

\* The sweep finds a run only where runs may outlive runMaxAgeMs. Fairness brings no
\* request, so FewRequests keeps nothing fair from happening.
BothFair ==
  /\ BothInit /\ [][BothNext]_<<vars, server>>
  /\ ServerFairness
  /\ \A r \in Runs : WF_vars(server = "watched" /\ Watched!Sweep(r))

-----------------------------------------------------------------------------
\* Of the watched server every run closes (EveryRunCloses, Launchpad), whatever the
\* runner does. Of the calm one only those close that the runner answers for.
WatchedRunsClose == server = "watched" => EveryRunCloses
=============================================================================
