-------------------------- MODULE MCHeimdallRecon --------------------------
(* HeimdallRun with a history: the runs one of whose reconnaissance containers *)
(* ended after a cancel, so that its spawn threw RunCancelledError.            *)
EXTENDS MCHeimdallRun

VARIABLE cut

EndsCancelled(r) == spawn[r] \in {"recon1", "recon2"} /\ pc[r] = "running" /\ result'[r] = "cancelled"

HistoryInit == Init /\ cut = {}
HistoryNext == Next /\ cut' = cut \cup {r \in told : EndsCancelled(r)}
HistorySpec == HistoryInit /\ [][HistoryNext]_<<vars, cut>>

\* "A cancel now reports as cancelled" (HEIMDALL.md:243): a run whose recon container
\* ended after a cancel, which answered true, does not come to execution.
CancelledNeverExecutes == \A r \in cut : spawn[r] # "exec"
=============================================================================
