---------------------------- MODULE MCPolicyChange ----------------------------
(* Adjudication with a history of the approvals a change of policy found: what   *)
(* index.ts:152 says becomes of them. HistorySpec only records.                  *)
EXTENDS MCAdjudication

VARIABLE found    \* the approvals that held for the Agent when its policy was last changed

HoldingFor(a) == {x \in db.precedents : x.agent = a /\ x.decision = "approved" /\ x.live}

\* A request to put a policy, which changes it or not.
Puts(a, p) == PutPolicy(a, p) /\ found' = IF policy[a] = p THEN {} ELSE HoldingFor(a)

HistoryInit == Init /\ found = {}
HistoryNext ==
    \/ \E a \in Agents, p \in Policies : Puts(a, p)
    \/ PolicyWritten /\ UNCHANGED found
    \/ Commit /\ UNCHANGED found
    \/ WriteFails /\ UNCHANGED found
    \/ Crash /\ UNCHANGED found
    \/ PrecedentExpires /\ UNCHANGED found
    \/ \E readable \in BOOLEAN : Boot(readable) /\ UNCHANGED found
    \/ \E r \in Runs : LoadPolicy(r) /\ UNCHANGED found
    \/ \E r \in Runs : Plans(r) /\ UNCHANGED found
    \/ \E r \in Runs : FailsClosed(r) /\ UNCHANGED found
    \/ \E r \in Runs : Observes(r) /\ UNCHANGED found
    \/ \E r \in Runs : Adjudicates(r) /\ UNCHANGED found
    \/ \E r \in Runs : Denying(r) /\ UNCHANGED found
    \/ \E r \in Runs : JournalFails(r) /\ UNCHANGED found
    \/ \E r \in Runs : Parks(r) /\ UNCHANGED found
    \/ \E r \in Runs : RemembersDecision(r) /\ UNCHANGED found
    \/ \E r \in Runs : Refuses(r) /\ UNCHANGED found
    \/ \E r \in Runs : Approves(r) /\ UNCHANGED found
    \/ \E r \in Runs : Launch(r) /\ UNCHANGED found
    \/ \E r \in Runs : LaunchFails(r) /\ UNCHANGED found
    \/ \E r \in Runs : PermitExpires(r) /\ UNCHANGED found
    \/ \E r \in Runs : Reports(r) /\ UNCHANGED found
    \/ \E r \in Runs : SavesFailure(r) /\ UNCHANGED found
    \/ \E r \in Runs, a \in Agents : Start(r, a) /\ UNCHANGED found
    \/ \E r \in Runs, d \in {"approved", "denied"} : Decide(r, d) /\ UNCHANGED found
    \/ \E r \in Runs, e \in Items : Acts(r, e) /\ UNCHANGED found
    \/ \E r \in Runs, q \in Requests : Asks(r, q) /\ UNCHANGED found
    \/ \E r \in Runs, readable \in BOOLEAN : (Fails(r, readable) \/ Reconciles(r, readable)) /\ UNCHANGED found
HistorySpec == HistoryInit /\ [][HistoryNext]_<<vars, found>>

\* "A policy change invalidates approval precedents": once the request is answered, none of
\* the approvals it found holds any more.
PolicyChangeInvalidates ==
    [][ edit # NoEdit /\ edit' = NoEdit /\ UNCHANGED <<health, faults>> => found \cap db'.precedents = {} ]_<<vars, found>>
===============================================================================
