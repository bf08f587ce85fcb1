-------------------------------- MODULE Ledger --------------------------------
(* heimdall/store.ts: what HeimdallStore keeps, and what each of its mutations    *)
(* does to it. Adjudication.tla says in which order they run, when they reach the *)
(* disk, and what a failed write or a crash leaves.                               *)
(*                                                                                *)
(* The ledger is append-only and mutations run one at a time, so which entry an   *)
(* entry's hash links to is its position; kept here is the set of entries.        *)
EXTENDS Engine

CONSTANT MaxRuns    \* how many run records are kept

ASSUME LedgerAssumption == MaxRuns \in Nat \ {0}

EmptyDb == [events |-> {}, precedents |-> {}, runs |-> << >>]

\* The records of the runs, and whether one more would drive another out.
Held(db) == {db.runs[i] : i \in DOMAIN db.runs}
Full(db) == Len(db.runs) >= MaxRuns

AppendEvent(db, event) == [db EXCEPT !.events = @ \cup {event}]

SamePlace(x, p) == x.fp = p.fp /\ x.agent = p.agent

\* Memory may tighten by itself. It may never loosen by itself.
FaultyKeepsDenial(db, p) == FALSE
KeepsDenial(db, p) ==
    p.decision = "approved" /\ \E x \in db.precedents : SamePlace(x, p) /\ x.decision = "denied"

RecordPrecedent(db, p) ==
    IF KeepsDenial(db, p) THEN db
    ELSE [db EXCEPT !.precedents = {x \in @ : ~ SamePlace(x, p)} \cup {p}]

\* Approvals of another term sheet are dropped; denials are permanent.
SurvivesVersion(x, version) == x.decision = "denied" \/ x.version = version
InvalidateApprovals(db, version) ==
    [db EXCEPT !.precedents = {x \in @ : SurvivesVersion(x, version)}]

\* A record takes the place of its run's last one, or comes last; beyond the bound the
\* oldest goes.
Placed(s, record) ==
    IF \E i \in DOMAIN s : s[i].run = record.run
    THEN [i \in DOMAIN s |-> IF s[i].run = record.run THEN record ELSE s[i]]
    ELSE Append(s, record)
Newest(s) == IF Len(s) > MaxRuns THEN SubSeq(s, Len(s) - MaxRuns + 1, Len(s)) ELSE s
SaveRun(db, record) == [db EXCEPT !.runs = Newest(Placed(@, record))]

Apply(db, op, version) ==
    CASE op.kind = "append"     -> AppendEvent(db, op.arg)
      [] op.kind = "precedent"  -> RecordPrecedent(db, op.arg)
      [] op.kind = "invalidate" -> InvalidateApprovals(db, version)
      [] op.kind = "save"       -> SaveRun(db, op.arg)

\* initialize: what the file holds, with the runs a restart cut short closed; nothing
\* at all when the file cannot be read, is no JSON or is of another version.
Reclosed(x) == IF x.outcome = "awaiting-approval" THEN [x EXCEPT !.outcome = "failed"] ELSE x
Loaded(db, readable) ==
    IF readable THEN [db EXCEPT !.runs = [i \in DOMAIN @ |-> Reclosed(@[i])]] ELSE EmptyDb

\* What an adjudication sees of the memory.
PrecedentsOf(db, agent) == {x \in db.precedents : x.agent = agent}
RunsFor(db, agent)      == {x \in Held(db) : x.agent = agent}

\* metrics: a run is contained when something the agent did was refused.
AgentDenials(record) == {d \in record.denials : ~ d.platform}
Contained(db) == {x \in Held(db) : x.outcome = "denied" \/ AgentDenials(x) # {}}
==============================================================================
