-------------------------- MODULE AdjudicationProofs --------------------------
(* Theorems about Adjudication, for any number of runs and Agents, any world of   *)
(* paths, hosts and commands, any policies, replies, items and requests, and any  *)
(* number of failed writes, crashes and deployed term sheets.                     *)
EXTENDS Adjudication, FiniteSetTheorems, SequenceTheorems, TLAPS

-----------------------------------------------------------------------------
(* The inductive invariant *)

\* The records the program builds have their fields, and no others.
PermitFields == {"run", "agent", "version", "tier", "verdicts", "doors", "requiresHumanApproval", "denied",
                 "expired", "requestHash", "approvedHash"}
DoorFields   == {"writes", "reads", "hosts", "commands"}
IsPermit(p) == p = [f \in PermitFields |-> p[f]] /\ p.doors = [f \in DoorFields |-> p.doors[f]]

IsSidecar(s) == s = [f \in {"run", "hosts", "expired"} |-> s[f]]

CallFields == {"agent", "policy", "manifest", "taint", "permit", "todo", "decision", "outcome", "sidecar",
               "actual", "sent", "denials", "unread", "halted", "report", "barred", "vouched",
               "earned"}
IsCall(c) == c = [f \in CallFields |-> c[f]]

\* What a run may declare, after Planner has made a capability of it.
Capabilities == {Capability(NormaliseCapability(c)) : c \in {x \in Declared : Valid(NormaliseCapability(x))}}

\* An action the report may call undeclared of a run the broker let pass.
Excused(a) ==
    \/ a.id[1] = "diff"
    \/ LET s == UnwrapShellCommand(a.target)
       IN  a.op = "EXEC" /\ s.segs # << >> /\ ~ Begins(s.text, s.segs[1])

\* The tiers of what a run asked for: nothing is left conditional, what was refused
\* before is forbidden, and what opens by itself is earned or was approved.
Judged(c) ==
    \A k \in DOMAIN c.permit.verdicts :
        LET tier == c.permit.verdicts[k].tier IN
        /\ tier \in {"T0", "T1", "T3", "T4"}
        /\ Fingerprint(k) \in c.barred => tier = "T4"
        /\ tier \in {"T0", "T1"} => k \in c.earned \/ Fingerprint(k) \in c.vouched

\* The locals of a run, wherever it is.
LocalsOK(c) ==
    /\ IsCall(c) /\ IsPermit(c.permit) /\ IsSidecar(c.sidecar)
    /\ c.manifest = [capabilities |-> c.manifest.capabilities, long |-> c.manifest.long]
    /\ c.manifest.long \in BOOLEAN /\ c.manifest.capabilities \subseteq Capabilities
    /\ c.agent \in Agents \cup {"none"} /\ c.policy \in Policies /\ c.outcome \in Outcomes
    /\ c.taint \in DOMAIN Taints /\ c.todo \subseteq Fingerprints
    /\ c.barred \subseteq Fingerprints /\ c.vouched \subseteq Fingerprints
    /\ c.decision \in {"none", "approved", "denied"}
    /\ c.denials \subseteq Denials /\ c.unread \subseteq Denials /\ c.halted \in BOOLEAN
    /\ DOMAIN c.permit.verdicts \subseteq Capabilities
    /\ Judged(c)
    /\ \A a \in c.report : Excused(a)

Places == Waiting \ {"writing"}

\* The entries a run has put on the ledger by the time it is at s.
Evidence(s) ==
    CASE s \in {"loading", "planning"}                       -> {"attribution"}
      [] s \in {"refusing", "observing", "scoring", "refused"} -> {"attribution", "recon"}
      [] s \in {"denying", "parking", "parked", "cleared", "running"} -> {"attribution", "recon", "permit"}
      [] s = "remembering" -> {"attribution", "recon", "permit", "approval"}
      [] s \in {"reporting", "resolved"} -> {"attribution", "recon", "permit", "reconciliation"}
      [] OTHER                           -> {}

\* What is decided of a run that is at s.
OutcomeAt(s) ==
    CASE s \in {"denying"}                  -> {"failed", "denied"}
      [] s \in {"refusing", "refused"}      -> {"denied"}
      [] s \in {"parked", "remembering"}    -> {"awaiting-approval"}
      [] s \in {"cleared", "running"}       -> {"failed", "awaiting-approval"}
      [] s \in {"reporting", "resolved"}    -> {"completed"}
      [] OTHER                              -> {"failed"}

DecisionAt(s) ==
    CASE s \in {"loading", "planning", "refusing", "observing", "scoring", "denying", "parking", "parked"} ->
            {"none"}
      [] s = "remembering" -> {"approved", "denied"}
      [] s = "cleared"     -> {"none", "approved"}
      [] OTHER             -> {"none", "approved", "denied"}

\* Nothing of it has run yet.
NotRun(c) == c.denials = {} /\ c.actual = {} /\ c.sent = {} /\ c.unread = {} /\ ~ c.halted

\* The verdicts a run executes with, and the doors they open, the provider's aside.
GrantedTo(c) ==
    OfTier(c.permit, {"T0", "T1"}) \cup (IF c.decision = "approved" THEN OfTier(c.permit, {"T3"}) ELSE {})
OpensFor(c, caps) ==
    LET d == Doors(caps, c.permit.verdicts)
        o == c.permit.doors
    IN  /\ o.writes = d.writes /\ o.reads = d.reads /\ o.commands = d.commands
        /\ o.hosts = d.hosts \cup {ProviderHost}
        /\ Intact(c.permit)

\* The report finds a grant for an action.
Covered(a, doors) ==
    /\ a.op \in {"FS_WRITE", "FS_DELETE"} =>
          \E g \in doors.writes : PathMatchesGrant(StripContainerPrefix(a.target), g)
    /\ a.op = "EXEC" => \E g \in doors.commands : TextBegins(UnwrapShellCommand(a.target), g)

\* A run in execution and its sidecar hold the same permit; of an agent that was not
\* stopped everything seen was let pass.
InExecution(c) ==
    /\ c.sidecar.hosts = c.permit.doors.hosts /\ c.sidecar.expired = c.permit.expired
    /\ c.sent \subseteq c.permit.doors.hosts
    /\ ~ c.halted => /\ c.denials = {}
                     /\ \A a \in c.actual : Excused(a) \/ Covered(a, c.permit.doors)

BeforeDecision == {"parking", "parked", "remembering"}
Execution      == {"cleared", "running"}

\* What holds of a run that is at s, or will be when the mutation it awaits is done;
\* w is what it depends on of the rest of the state.
PlacedOK(r, s, c, w) ==
    /\ c.agent \in Agents
    /\ \A t \in Evidence(s) : Entry(r, t) \in w.events
    /\ c.outcome \in OutcomeAt(s) /\ c.decision \in DecisionAt(s)
    /\ s \in Execution /\ c.outcome = "awaiting-approval" => Entry(r, "approval") \in w.events
    /\ s \notin {"running", "reporting", "resolved", "failing", "rejected"} => NotRun(c)
    /\ s \in BeforeDecision \cup Execution \cup {"denying"} => c.permit.version = w.version
    /\ s \in BeforeDecision \cup Execution => OfTier(c.permit, {"T4"}) = {}
    /\ s \in BeforeDecision => OpensFor(c, OfTier(c.permit, {"T0", "T1"}))
    /\ s = "remembering" /\ c.decision = "approved" =>
          \A fp \in c.todo : <<c.agent, fp, c.permit.version>> \in w.approvals
    /\ s \in Execution => /\ OfTier(c.permit, {"T3"}) # {} => c.decision = "approved"
                          /\ OpensFor(c, GrantedTo(c))
    /\ s = "running" => InExecution(c)

World        == [events |-> db.events, version |-> version, approvals |-> approvals]
After(w, op) == [w EXCEPT !.events = @ \cup (IF op.kind = "append" THEN {op.arg} ELSE {})]

\* What a run awaits fits what it will do next.
OpFits(op, c) ==
    /\ op.kind = "append" => op.arg.type # "denial"
    /\ op.kind = "precedent" => op.then \in {"denying", "remembering"}
    /\ op.kind = "save" => op.arg.run = op.of
    /\ op.then \in {"refused", "resolved", "rejected"} => op.kind = "save"
    /\ op.then = "refused" => op.arg.outcome = "denied" /\ op.arg.denials = {}
    /\ op.then = "resolved" => op.arg.outcome = "completed" /\ op.arg.denials = c.denials
    /\ op.then = "rejected" => op.arg.denials = c.denials

ApprovedOnly(S, given) ==
    \A x \in S : x.decision = "approved" /\ x.live => <<x.agent, x.fp, x.version>> \in given

OpOK(op) ==
    /\ op.then = "none" => op.kind \in {"append", "invalidate"}
    /\ op.then # "none" => /\ op.of \in Runs /\ stage[op.of] = "writing"
                           /\ PlacedOK(op.of, op.then, call[op.of], After(World, op))
                           /\ OpFits(op, call[op.of])
    /\ op.kind = "precedent" => ApprovedOnly({op.arg}, approvals)

Locals == call = [r \in Runs |-> call[r]] /\ \A r \in Runs : LocalsOK(call[r])
AllPlaced == \A r \in Runs : stage[r] \in Places => PlacedOK(r, stage[r], call[r], World)
Idle   == \A r \in Runs : stage[r] = "idle" => call[r] = NoCall(r)
Queued == /\ \A i \in DOMAIN queue : OpOK(queue[i])
          /\ \A i, j \in DOMAIN queue :
                queue[i].then # "none" /\ queue[j].then # "none" /\ queue[i].of = queue[j].of => i = j
Down   == health = "down" => queue = << >> /\ \A r \in Runs : ~ IsLive(r)
Sound  == ~ faults => db = disk /\ health = "up"

\* The memory is never behind the file, holds the refusals acknowledged and, of the
\* approvals that hold, none that was not given.
DeniedIn(d, agent, fp) == \E y \in d.precedents : y.agent = agent /\ y.fp = fp /\ y.decision = "denied"
Memory ==
    /\ disk.events \subseteq db.events
    /\ \A x \in disk.precedents : x.decision = "denied" => DeniedIn(db, x.agent, x.fp)
    /\ \A x \in refusals : DeniedIn(disk, x[1], x[2])
    /\ ApprovedOnly(db.precedents, approvals) /\ ApprovedOnly(disk.precedents, approvals)

\* The answers that were given; a record may have made room for as many newer ones as are
\* kept.
Recorded(d, r) == Full(d) \/ \E x \in Held(d) : x.run = r
AnsweredIn(d, r, s) ==
    /\ \A t \in Evidence(s) : Entry(r, t) \in d.events
    /\ Recorded(d, r)
    /\ \A x \in Held(d) : x.run = r =>
          /\ x.outcome = (IF s = "refused" THEN "denied" ELSE "completed")
          /\ AgentDenials(x) # {} => Entry(r, "denial") \in d.events
Answers == \A r \in Runs : stage[r] \in {"refused", "resolved"} =>
               AnsweredIn(db, r, stage[r]) /\ AnsweredIn(disk, r, stage[r])

\* The note of a refused action, on the ledger or on its way there, and the denials
\* of the run it is about.
Noting(op, r) == op.kind = "append" /\ op.arg = Entry(r, "denial")
Noted(r) == Entry(r, "denial") \in db.events \/ \E i \in DOMAIN queue : Noting(queue[i], r)
HasDenials(d, r) == Recorded(d, r) /\ \A x \in Held(d) : x.run = r => AgentDenials(x) # {}
Counted(r) ==
    /\ stage[r] # "idle"
    /\ stage[r] \in Waiting => AgentDenials(call[r]) # {}
    /\ stage[r] = "resolved" => HasDenials(db, r) /\ HasDenials(disk, r)
    /\ stage[r] = "rejected" /\ ~ faults /\ Entry(r, "approval") \notin db.events => HasDenials(db, r)
NotesCount == \A r \in Runs : Noted(r) => Counted(r)
NotesFirst ==
    /\ \A r \in Runs : stage[r] = "reporting" /\ AgentDenials(call[r]) # {} => Entry(r, "denial") \in db.events
    /\ \A j \in DOMAIN queue :
          queue[j].then \in {"reporting", "resolved"} /\ AgentDenials(call[queue[j].of]) # {} =>
             \/ Entry(queue[j].of, "denial") \in db.events
             \/ \E i \in 1..(j - 1) : Noting(queue[i], queue[j].of)

\* The inductive invariant.
IInv == /\ TypeOK /\ Locals /\ AllPlaced /\ Idle /\ Queued /\ Down /\ Sound
        /\ Memory /\ Answers /\ NotesCount /\ NotesFirst
-----------------------------------------------------------------------------
(* What an adjudication makes of a capability *)

Tiers == {"T0", "T1", "T2", "T3", "T4"}

\* The conditional band never comes out of the resolution.
LEMMA NothingConditional ==
  ASSUME NEW k, NEW pol, NEW ctx
  PROVE  ResolveConditional(k, pol, ctx).tier \in {"T0", "T1", "T3", "T4"}
<1>1. ScoreCapability(k, pol, ctx) \in Tiers
  BY DEF ScoreCapability, TierFor, Tiers
<1>2. QED
  BY <1>1 DEF ResolveConditional, Tiers

\* What the memory holds a denial of is forbidden whatever it scores.
LEMMA ForbiddenByMemory ==
  ASSUME NEW k, NEW pol, NEW ctx, ForbiddenPrior(k, ctx)
  PROVE  ResolveConditional(k, pol, ctx).tier = "T4"
<1>1. ScoreCapability(k, pol, ctx) = "T4"
  BY DEF ScoreCapability, Forbidden
<1>2. QED
  BY <1>1 DEF ResolveConditional

\* An approval in force is all the memory adds to a verdict, but for denials.
LEMMA OnlyApprovalsHelp ==
  ASSUME NEW k, NEW pol, NEW taint, NEW seen, NEW memory \in SUBSET Precedents, NEW n, NEW v, NEW ctx,
         ctx = [taint |-> taint, files |-> seen, precedents |-> memory, completedRuns |-> n, version |-> v],
         ~ HasValidPrecedent(k, ctx)
  PROVE  ResolveConditional(k, pol, ctx) = ResolveConditional(k, pol, Unhelped(ctx))
<1> DEFINE less == Unhelped(ctx)
           kept == {y \in memory : ~ (y.decision = "approved" /\ y.version = v /\ y.live)}
           as(x) == IF x.decision = "approved" THEN [x EXCEPT !.decision = "spent"] ELSE x
<1>1. less.taint = ctx.taint /\ less.files = ctx.files /\ less.completedRuns = ctx.completedRuns
      /\ less.version = ctx.version
  BY DEF Unhelped
<1>2. less.precedents = {as(x) : x \in kept}
  BY DEF Unhelped
<1>a. ASSUME NEW x \in memory
      PROVE  /\ as(x).fp = x.fp /\ as(x).decision # "approved"
             /\ (as(x).decision = "denied") <=> (x.decision = "denied")
  <2>1. x = [fp |-> x.fp, agent |-> x.agent, decision |-> x.decision, version |-> x.version, live |-> x.live]
    BY DEF Precedents
  <2>2. CASE x.decision = "approved"
    <3>1. as(x) = [fp |-> x.fp, agent |-> x.agent, decision |-> "spent", version |-> x.version, live |-> x.live]
      BY <2>1, <2>2
    <3> HIDE DEF as
    <3>2. QED
      BY <2>2, <3>1
  <2>3. CASE x.decision # "approved"
    BY <2>3
  <2>4. QED
    BY <2>2, <2>3
<1>c. \A y \in less.precedents : \E x \in kept : y = as(x)
  BY <1>2
<1>d. \A x \in kept : as(x) \in less.precedents
  BY <1>2
<1>k. ctx.precedents = memory /\ kept \subseteq memory
  OBVIOUS
<1>b. \A x \in memory : x.fp = Fingerprint(k) => x \in kept
  BY DEF HasValidPrecedent
<1> HIDE DEF less, as, kept
<1>3. ~ HasValidPrecedent(k, less)
  BY <1>a, <1>c, <1>k DEF HasValidPrecedent
<1>4. ForbiddenPrior(k, ctx) <=> ForbiddenPrior(k, less)
  <2>1. ASSUME NEW x \in ctx.precedents, x.fp = Fingerprint(k), x.decision = "denied"
        PROVE  \E y \in less.precedents : y.fp = Fingerprint(k) /\ y.decision = "denied"
    <3>1. x \in memory /\ x \in kept
      BY <1>b, <1>k, <2>1
    <3>2. as(x) \in less.precedents /\ as(x).fp = Fingerprint(k) /\ as(x).decision = "denied"
      BY <1>a, <1>d, <2>1, <3>1
    <3>3. QED
      BY <3>2
  <2>2. ASSUME NEW y \in less.precedents, y.fp = Fingerprint(k), y.decision = "denied"
        PROVE  \E x \in ctx.precedents : x.fp = Fingerprint(k) /\ x.decision = "denied"
    <3>1. PICK x \in kept : y = as(x)
      BY <1>c
    <3>2. x \in memory /\ x.fp = Fingerprint(k) /\ x.decision = "denied"
      BY <1>a, <1>k, <2>2, <3>1
    <3>3. QED
      BY <1>k, <3>2
  <2>3. QED
    BY <2>1, <2>2 DEF ForbiddenPrior
<1>5. Forbidden(k, ctx) = Forbidden(k, less)
  BY <1>4 DEF Forbidden
<1>6. (\E x \in ctx.precedents : x.fp = Fingerprint(k)) <=> (\E x \in less.precedents : x.fp = Fingerprint(k))
  BY <1>a, <1>b, <1>c, <1>d, <1>k
<1>7. ContextPoints(k, ctx) = ContextPoints(k, less)
  BY <1>1, <1>6 DEF ContextPoints
<1>8. BasePoints(k, pol, ctx) = BasePoints(k, pol, less)
  BY <1>1, <1>7 DEF BasePoints
<1>9. Points(k, pol, ctx) = Points(k, pol, less)
  BY <1>3, <1>8 DEF Points
<1>10. ScoreCapability(k, pol, ctx) = ScoreCapability(k, pol, less)
  BY <1>5, <1>9 DEF ScoreCapability
<1>11. Narrowable(k, pol, ctx) <=> Narrowable(k, pol, less)
  BY <1>1 DEF Narrowable
<1>12. QED
  BY <1>1, <1>3, <1>10, <1>11 DEF ResolveConditional, less

\* The tier of a run is one of its tiers, and none is above it.
LEMMA RunTierIsHighest ==
  ASSUME NEW tiers, tiers \subseteq Tiers
  PROVE  /\ RunTier(tiers) \in tiers \cup {"T0"}
         /\ \A u \in tiers : Rank[u] <= Rank[RunTier(tiers)]
<1>1. \E t \in tiers \cup {"T0"} : \A u \in tiers : Rank[u] <= Rank[t]
  <2>1. CASE "T4" \in tiers
    BY <2>1 DEF Tiers, Rank
  <2>2. CASE "T4" \notin tiers /\ "T3" \in tiers
    BY <2>2 DEF Tiers, Rank
  <2>3. CASE tiers \cap {"T3", "T4"} = {} /\ "T2" \in tiers
    BY <2>3 DEF Tiers, Rank
  <2>4. CASE tiers \cap {"T2", "T3", "T4"} = {} /\ "T1" \in tiers
    BY <2>4 DEF Tiers, Rank
  <2>5. CASE tiers \subseteq {"T0"}
    BY <2>5 DEF Rank
  <2>6. QED
    BY <2>1, <2>2, <2>3, <2>4, <2>5 DEF Tiers
<1>2. QED
  BY <1>1 DEF RunTier

-----------------------------------------------------------------------------
(* What a step of one run leaves of the others *)

\* More on the ledger and more approvals take nothing away.
LEMMA PlacedStays ==
  ASSUME NEW r, NEW s, NEW c, NEW w, NEW x, w.events \subseteq x.events, w.approvals \subseteq x.approvals,
         w.version = x.version, PlacedOK(r, s, c, w)
  PROVE  PlacedOK(r, s, c, x)
BY DEF PlacedOK

\* Precedents that were approved are still approved when a person has approved more.
LEMMA ApprovedStay ==
  ASSUME NEW S, NEW given, NEW more, given \subseteq more, ApprovedOnly(S, given)
  PROVE  ApprovedOnly(S, more)
BY DEF ApprovedOnly

\* A queue with more at its end.
LEMMA Lengthened ==
  ASSUME NEW T, NEW s \in Seq(T), NEW t \in Seq(T)
  PROVE  /\ s \o t \in Seq(T)
         /\ Len(s \o t) = Len(s) + Len(t) /\ Len(s) \in Nat /\ Len(t) \in Nat
         /\ DOMAIN (s \o t) = 1..(Len(s) + Len(t)) /\ DOMAIN s = 1..Len(s) /\ DOMAIN t = 1..Len(t)
         /\ \A i \in DOMAIN s : i \in DOMAIN (s \o t) /\ (s \o t)[i] = s[i]
         /\ \A i \in DOMAIN t : Len(s) + i \in DOMAIN (s \o t) /\ (s \o t)[Len(s) + i] = t[i]
         /\ \A i \in DOMAIN (s \o t) : i \in DOMAIN s \/ \E j \in DOMAIN t : i = Len(s) + j
<1>1. Len(s) \in Nat /\ Len(t) \in Nat /\ DOMAIN s = 1..Len(s) /\ DOMAIN t = 1..Len(t)
      /\ s \o t \in Seq(T) /\ Len(s \o t) = Len(s) + Len(t) /\ DOMAIN (s \o t) = 1..(Len(s) + Len(t))
  OBVIOUS
<1>2. \A i \in DOMAIN s : i \in DOMAIN (s \o t) /\ (s \o t)[i] = s[i]
  BY <1>1
<1>3. \A i \in DOMAIN t : Len(s) + i \in DOMAIN (s \o t) /\ (s \o t)[Len(s) + i] = t[i]
  BY <1>1
<1>4. ASSUME NEW i \in DOMAIN (s \o t), i \notin DOMAIN s
      PROVE  \E j \in DOMAIN t : i = Len(s) + j
  <2>1. i - Len(s) \in DOMAIN t /\ i = Len(s) + (i - Len(s))
    BY <1>1, <1>4
  <2>2. QED
    BY <2>1
<1>5. QED
  BY <1>1, <1>2, <1>3, <1>4

\* With the file and the counter as they were, the world a run sees only gains approvals.
LEMMA WorldFacts ==
  ASSUME UNCHANGED <<db, version>>, approvals \subseteq approvals'
  PROVE  /\ World.events = db.events /\ World.version = version /\ World.approvals = approvals
         /\ World'.events = db.events /\ World'.version = version /\ World'.approvals = approvals'
         /\ \A op : /\ After(World, op).events \subseteq After(World', op).events
                    /\ After(World, op).approvals \subseteq After(World', op).approvals
                    /\ After(World, op).version = After(World', op).version
BY DEF World, After

\* A step of run r: it goes to s with the locals c and leaves mutations in the queue.
RunStep(r, s, c, added) ==
    /\ queue' = queue \o added
    /\ stage' = [stage EXCEPT ![r] = s] /\ call' = [call EXCEPT ![r] = c]
    /\ UNCHANGED <<db, disk, health, version, files, refusals>>
    /\ approvals \subseteq approvals' /\ approvals' \subseteq Agents \X Fingerprints \X (1..MaxVersion)
    /\ events' \in 0..MaxEvents /\ faults' \in BOOLEAN /\ (faults => faults')

\* What such a step has to establish.
Adds(r, s, c, added) ==
    /\ added \in Seq(Mutations)
    /\ \A i \in DOMAIN added :
          LET op == added[i] IN
          /\ op.of = r /\ (op.kind = "append" => op.arg.run = r)
          /\ op.then = "none" => op.kind = "append"
          /\ op.then # "none" => /\ s = "writing" /\ PlacedOK(r, op.then, c, After(World', op))
                                 /\ OpFits(op, c)
          /\ op.kind = "precedent" => ApprovedOnly({op.arg}, approvals')
    /\ \A i, j \in DOMAIN added : added[i].then # "none" /\ added[j].then # "none" => i = j
Arrives(r, s, c) ==
    /\ s \in {"writing", "rejected"} \cup (Places \ {"reporting"})
    /\ LocalsOK(c)
    /\ s \in Places => PlacedOK(r, s, c, World')
NotesFollow(r, s, c, added) ==
    /\ Noted(r) \/ (\E i \in DOMAIN added : Noting(added[i], r)) =>
          /\ s \in Waiting => AgentDenials(c) # {}
          /\ s = "rejected" /\ ~ faults' /\ Entry(r, "approval") \notin db.events => HasDenials(db, r)
    /\ \A j \in DOMAIN added : added[j].then \in {"reporting", "resolved"} /\ AgentDenials(c) # {} =>
          Noted(r) \/ \E i \in 1..(j - 1) : Noting(added[i], r)

\* Any step of one run that arrives in order, queues what fits and counts what it
\* carries keeps the invariant: what the lemmas on the single steps come down to.
LEMMA RunStepKeeps ==
  ASSUME IInv, NEW r \in Runs, NEW s, NEW c, NEW added, health # "down", stage[r] \in Places \cup {"idle"},
         RunStep(r, s, c, added), Adds(r, s, c, added), Arrives(r, s, c), NotesFollow(r, s, c, added)
  PROVE  IInv'
<1> USE DEF IInv
<1>q. queue \in Seq(Mutations) /\ added \in Seq(Mutations) /\ queue' = queue \o added
  BY DEF TypeOK, Adds, RunStep
<1>l. /\ queue' \in Seq(Mutations)
      /\ Len(queue) \in Nat /\ DOMAIN queue = 1..Len(queue) /\ DOMAIN added = 1..Len(added) /\ Len(added) \in Nat
      /\ \A i \in DOMAIN queue : i \in DOMAIN queue' /\ queue'[i] = queue[i]
      /\ \A i \in DOMAIN added : Len(queue) + i \in DOMAIN queue' /\ queue'[Len(queue) + i] = added[i]
      /\ \A i \in DOMAIN queue' : i \in DOMAIN queue \/ \E j \in DOMAIN added : i = Len(queue) + j
  BY <1>q, Lengthened
<1>s. /\ stage \in [Runs -> {"idle"} \cup Waiting \cup Ended]
      /\ stage'[r] = s /\ \A x \in Runs \ {r} : stage'[x] = stage[x]
  BY DEF TypeOK, RunStep
<1>c. /\ call'[r] = c /\ \A x \in Runs \ {r} : call'[x] = call[x]
      /\ call' = [x \in Runs |-> call'[x]]
  BY DEF Locals, RunStep
<1>u. UNCHANGED <<db, disk, health, version, files, refusals>> /\ approvals \subseteq approvals'
  BY DEF RunStep
<1>d. stage[r] # "writing" /\ stage[r] \notin Ended /\ "idle" \notin Waiting
  BY DEF Places, Waiting, Ended
<1>e. s # "idle" /\ s \notin {"refused", "resolved", "reporting"}
  BY DEF Arrives, Places, Waiting
<1>w. World'.events = World.events /\ World'.version = World.version /\ World.approvals \subseteq World'.approvals
  BY <1>u, WorldFacts
<1>1. TypeOK'
  <2>1. LocalsOK(c)
    BY DEF Arrives
  <2>2. stage' \in [Runs -> {"idle"} \cup Waiting \cup Ended]
    BY <1>s DEF Arrives, Places, Waiting, Ended, RunStep
  <2>3. \A x \in Runs :
          LET k == call'[x] IN
          /\ k.agent \in Agents \cup {"none"} /\ k.policy \in Policies /\ k.outcome \in Outcomes
          /\ k.taint \in DOMAIN Taints /\ k.todo \subseteq Fingerprints
          /\ k.barred \subseteq Fingerprints /\ k.vouched \subseteq Fingerprints
          /\ k.decision \in {"none", "approved", "denied"}
          /\ k.denials \cup k.unread \subseteq Denials /\ k.halted \in BOOLEAN
    BY <2>1, <1>c DEF TypeOK, LocalsOK
  <2>4. QED
    BY <1>l, <1>u, <2>2, <2>3 DEF TypeOK, RunStep, files
<1>2. Locals'
  BY <1>c DEF Locals, Arrives
<1>3. AllPlaced'
  <2>1. ASSUME NEW x \in Runs \ {r}, stage[x] \in Places
        PROVE  PlacedOK(x, stage[x], call[x], World')
    BY <2>1, <1>w, PlacedStays DEF AllPlaced
  <2>2. QED
    BY <2>1, <1>s, <1>c DEF AllPlaced, Arrives
<1>4. Idle'
  BY <1>s, <1>c, <1>e DEF Idle
<1>5. Queued'
  <2>1. ASSUME NEW i \in DOMAIN queue
        PROVE  OpOK(queue[i])' /\ (queue[i].then # "none" => queue[i].of # r)
    <3>1. OpOK(queue[i]) /\ queue'[i] = queue[i]
      BY <1>l DEF Queued
    <3>2. queue[i].then # "none" => queue[i].of # r
      BY <3>1, <1>d DEF OpOK
    <3>3. queue[i].then # "none" =>
            PlacedOK(queue[i].of, queue[i].then, call[queue[i].of], After(World', queue[i]))
      BY <3>1, <1>u, WorldFacts, PlacedStays DEF OpOK
    <3>4. queue[i].kind = "precedent" => ApprovedOnly({queue[i].arg}, approvals')
      BY <3>1, <1>u, ApprovedStay DEF OpOK
    <3>5. QED
      BY <3>1, <3>2, <3>3, <3>4, <1>s, <1>c DEF OpOK
  <2>2. ASSUME NEW i \in DOMAIN added
        PROVE  OpOK(added[i])' /\ added[i].of = r
    BY <1>s, <1>c DEF OpOK, Adds
  <2>3. ASSUME NEW i \in DOMAIN queue'
        PROVE  OpOK(queue[i])'
    <3>1. CASE i \in DOMAIN queue
      BY <2>1, <3>1
    <3>2. CASE \E j \in DOMAIN added : i = Len(queue) + j
      <4>1. PICK j \in DOMAIN added : i = Len(queue) + j
        BY <3>2
      <4>2. queue'[i] = added[j]
        BY <4>1, <1>l
      <4>3. OpOK(added[j])'
        BY <2>2
      <4>4. QED
        BY <4>2, <4>3 DEF OpOK
    <3>3. QED
      BY <3>1, <3>2, <1>l
  <2>4. ASSUME NEW i \in DOMAIN queue', NEW j \in DOMAIN queue',
               queue'[i].then # "none", queue'[j].then # "none", queue'[i].of = queue'[j].of
        PROVE  i = j
    <3>1. CASE i \in DOMAIN queue /\ j \in DOMAIN queue
      BY <2>4, <3>1, <1>l DEF Queued
    <3>2. CASE i \in DOMAIN queue /\ j \notin DOMAIN queue
      BY <2>1, <2>2, <2>4, <3>2, <1>l
    <3>3. CASE i \notin DOMAIN queue /\ j \in DOMAIN queue
      BY <2>1, <2>2, <2>4, <3>3, <1>l
    <3>4. CASE i \notin DOMAIN queue /\ j \notin DOMAIN queue
      <4>1. PICK k \in DOMAIN added : i = Len(queue) + k
        BY <3>4, <1>l
      <4>2. PICK l \in DOMAIN added : j = Len(queue) + l
        BY <3>4, <1>l
      <4>3. added[k].then # "none" /\ added[l].then # "none"
        BY <4>1, <4>2, <2>4, <1>l
      <4>4. QED
        BY <4>1, <4>2, <4>3 DEF Adds
    <3>5. QED
      BY <3>1, <3>2, <3>3, <3>4
  <2>5. QED
    BY <2>3, <2>4 DEF Queued
<1>6. Down'
  BY <1>u DEF Down
<1>7. Sound'
  BY <1>u DEF Sound, RunStep
<1>8. Memory'
  <2>1. ApprovedOnly(db.precedents, approvals') /\ ApprovedOnly(disk.precedents, approvals')
    BY <1>u, ApprovedStay DEF Memory
  <2>2. QED
    BY <2>1, <1>u DEF Memory, DeniedIn
<1>9. Answers'
  BY <1>s, <1>u, <1>e DEF Answers, AnsweredIn
<1>10. NotesCount'
  <2>1. ASSUME NEW x \in Runs \ {r}, Noted(x)'
        PROVE  Noted(x)
    <3>1. ASSUME NEW i \in DOMAIN added
          PROVE  ~ Noting(added[i], x)
      <4>1. added[i].kind = "append" => added[i].arg.run = r
        BY DEF Adds
      <4>2. QED
        BY <4>1 DEF Noting, Entry
    <3>2. QED
      BY <2>1, <3>1, <1>l, <1>u DEF Noted
  <2>2. Noted(r)' => Noted(r) \/ \E i \in DOMAIN added : Noting(added[i], r)
    BY <1>l, <1>u DEF Noted
  <2>3. ASSUME NEW x \in Runs \ {r}
        PROVE  Noted(x)' => Counted(x)'
    BY <2>1, <1>s, <1>c, <1>u DEF NotesCount, Counted, HasDenials, RunStep
  <2>4. Noted(r)' => Counted(r)'
    BY <2>2, <1>s, <1>c, <1>u, <1>e DEF NotesFollow, Counted, HasDenials
  <2>5. QED
    BY <2>3, <2>4 DEF NotesCount
<1>11. NotesFirst'
  <2>1. ASSUME NEW j \in DOMAIN queue, queue[j].then \in {"reporting", "resolved"},
               AgentDenials(call'[queue[j].of]) # {}
        PROVE  Entry(queue[j].of, "denial") \in db.events \/ \E i \in 1..(j - 1) : Noting(queue'[i], queue[j].of)
    <3>1. OpOK(queue[j]) /\ queue[j].then # "none"
      BY <2>1 DEF Queued
    <3>2. queue[j].of \in Runs \ {r}
      BY <3>1, <1>d DEF OpOK
    <3>3. \A i \in 1..(j - 1) : i \in DOMAIN queue
      BY <1>l
    <3>4. QED
      BY <2>1, <3>2, <3>3, <1>c, <1>l DEF NotesFirst
  <2>2. ASSUME NEW j \in DOMAIN added, added[j].then \in {"reporting", "resolved"}, AgentDenials(c) # {}
        PROVE  Entry(r, "denial") \in db.events \/ \E i \in 1..(Len(queue) + j - 1) : Noting(queue'[i], r)
    <3>1. CASE Entry(r, "denial") \in db.events
      BY <3>1
    <3>2. CASE \E i \in DOMAIN queue : Noting(queue[i], r)
      <4>1. PICK i \in DOMAIN queue : Noting(queue[i], r)
        BY <3>2
      <4>2. i \in 1..(Len(queue) + j - 1) /\ queue'[i] = queue[i]
        BY <1>l
      <4>3. QED
        BY <4>1, <4>2
    <3>3. CASE \E i \in 1..(j - 1) : Noting(added[i], r)
      <4>1. PICK i \in 1..(j - 1) : Noting(added[i], r)
        BY <3>3
      <4>2. i \in DOMAIN added /\ Len(queue) + i \in 1..(Len(queue) + j - 1)
        BY <1>l
      <4>3. QED
        BY <4>1, <4>2, <1>l
    <3>4. QED
      BY <2>2, <3>1, <3>2, <3>3 DEF NotesFollow, Noted
  <2>3. ASSUME NEW x \in Runs, stage'[x] = "reporting", AgentDenials(call'[x]) # {}
        PROVE  Entry(x, "denial") \in db'.events
    BY <2>3, <1>s, <1>c, <1>u, <1>e DEF NotesFirst
  <2>4. ASSUME NEW j \in DOMAIN queue', queue'[j].then \in {"reporting", "resolved"},
               AgentDenials(call'[queue'[j].of]) # {}
        PROVE  \/ Entry(queue'[j].of, "denial") \in db'.events
               \/ \E i \in 1..(j - 1) : Noting(queue'[i], queue'[j].of)
    <3>1. CASE j \in DOMAIN queue
      BY <2>1, <2>4, <3>1, <1>l, <1>u
    <3>2. CASE \E k \in DOMAIN added : j = Len(queue) + k
      <4>1. PICK k \in DOMAIN added : j = Len(queue) + k
        BY <3>2
      <4>2. queue'[j] = added[k] /\ added[k].of = r
        BY <4>1, <1>l DEF Adds
      <4>3. Entry(r, "denial") \in db.events \/ \E i \in 1..(Len(queue) + k - 1) : Noting(queue'[i], r)
        BY <2>2, <2>4, <4>2, <1>c
      <4>4. j - 1 = Len(queue) + k - 1 /\ queue'[j].of = r /\ db' = db
        BY <4>1, <4>2, <1>u, <1>l
      <4>5. QED
        BY <4>3, <4>4
    <3>3. QED
      BY <3>1, <3>2, <1>l
  <2>5. QED
    BY <2>3, <2>4 DEF NotesFirst
<1>12. QED
  BY <1>1, <1>2, <1>3, <1>4, <1>5, <1>6, <1>7, <1>8, <1>9, <1>10, <1>11

-----------------------------------------------------------------------------
(* The steps of a run *)

\* The locals a run starts with, and ends with.
LEMMA NoCallOK ==
  ASSUME NEW r \in Runs
  PROVE  LocalsOK(NoCall(r)) /\ NotRun(NoCall(r)) /\ NoCall(r).outcome = "failed"
         /\ NoCall(r).decision = "none" /\ NoCall(r).denials = {}
<1> DEFINE p == NoPermit(r)
<1>1. /\ p.verdicts = [k \in {} |-> ResolveConditional(k, PolicyOf[DefaultPolicy], NoContext)]
      /\ IsPermit(p)
  BY DEF NoPermit, BuildPermit, NoManifest, Doors, IsPermit, PermitFields, DoorFields
<1>2. DOMAIN p.verdicts = {}
  BY <1>1
<1> HIDE DEF p
<1>3. NoCall(r) = [agent |-> "none", policy |-> DefaultPolicy, manifest |-> NoManifest, taint |-> "none",
                   permit |-> p, todo |-> {}, decision |-> "none", outcome |-> "failed",
                   sidecar |-> SidecarPermit(p), actual |-> {}, sent |-> {}, denials |-> {},
                   unread |-> {}, halted |-> FALSE, report |-> {}, barred |-> {}, vouched |-> {},
                   earned |-> {}]
  BY DEF NoCall, p
<1>4. IsCall(NoCall(r)) /\ IsPermit(NoCall(r).permit) /\ IsSidecar(NoCall(r).sidecar)
  <2>1. NoCall(r).permit = p /\ NoCall(r).sidecar = SidecarPermit(p)
    BY <1>3
  <2>2. IsSidecar(SidecarPermit(p))
    BY DEF SidecarPermit, IsSidecar
  <2>3. IsCall(NoCall(r))
    BY <1>3 DEF IsCall, CallFields
  <2>4. QED
    BY <1>1, <2>1, <2>2, <2>3
<1>5. Judged(NoCall(r))
  BY <1>2, <1>3 DEF Judged
<1>6. DefaultPolicy \in Policies
  BY AdjudicationAssumption
<1> DEFINE n == NoCall(r)
<1>7. /\ n.agent = "none" /\ n.policy = DefaultPolicy /\ n.taint = "none" /\ n.todo = {}
      /\ n.decision = "none" /\ n.outcome = "failed" /\ n.actual = {} /\ n.sent = {} /\ n.denials = {}
      /\ n.unread = {} /\ n.halted = FALSE /\ n.report = {} /\ n.barred = {} /\ n.vouched = {}
      /\ n.manifest = [capabilities |-> {}, long |-> FALSE] /\ DOMAIN n.permit.verdicts = {}
  BY <1>2, <1>3 DEF NoManifest
<1> HIDE DEF n
<1>8. LocalsOK(n)
  <2>1. n.manifest.capabilities = {} /\ n.manifest.long = FALSE
    BY <1>7
  <2>2. n.taint \in DOMAIN Taints /\ n.outcome \in Outcomes
    BY <1>7 DEF Taints, Outcomes
  <2>3. QED
    BY <1>4, <1>5, <1>6, <1>7, <2>1, <2>2 DEF LocalsOK, n
<1>9. QED
  BY <1>7, <1>8 DEF NotRun, n

\* A run that awaits a mutation.
LEMMA AwaitsKeeps ==
  ASSUME IInv, NEW r \in Runs, NEW op \in Mutations, NEW c, health # "down", stage[r] \in Places \cup {"idle"},
         Awaits(r, op, c), UNCHANGED refusals,
         approvals \subseteq approvals', approvals' \subseteq Agents \X Fingerprints \X (1..MaxVersion),
         op.of = r, op.kind = "append" => op.arg.run = r, op.then \notin {"none", "reporting"},
         op.then = "resolved" => stage[r] = "reporting",
         op.kind = "precedent" => ApprovedOnly({op.arg}, approvals'),
         LocalsOK(c), c.denials = call[r].denials,
         PlacedOK(r, op.then, c, After(World', op)), OpFits(op, c)
  PROVE  IInv'
<1> DEFINE added == <<op>>
<1>1. queue' = queue \o added /\ added \in Seq(Mutations) /\ DOMAIN added = {1} /\ added[1] = op
  BY DEF Awaits, IInv, TypeOK
<1> HIDE DEF added
<1>2. RunStep(r, "writing", c, added)
  BY <1>1 DEF RunStep, Awaits, IInv, TypeOK, trouble
<1>3. Adds(r, "writing", c, added)
  BY <1>1 DEF Adds
<1>4. Arrives(r, "writing", c)
  BY DEF Arrives, Places
<1>5. \A i \in DOMAIN added : ~ Noting(added[i], r)
  BY <1>1 DEF Noting, OpFits, Entry
<1>6. Noted(r) => AgentDenials(c) # {}
  BY DEF IInv, NotesCount, Counted, Places, AgentDenials
<1>7. op.then = "resolved" /\ AgentDenials(c) # {} => Noted(r)
  BY DEF IInv, NotesFirst, Noted, AgentDenials
<1>8. NotesFollow(r, "writing", c, added)
  BY <1>1, <1>5, <1>6, <1>7 DEF NotesFollow
<1>9. QED
  BY <1>2, <1>3, <1>4, <1>8, RunStepKeeps

\* A run that goes on without the store, or ends with an error.
LEMMA GoesOnKeeps ==
  ASSUME IInv, NEW r \in Runs, NEW s, NEW c, health # "down", stage[r] \in Places \cup {"idle"},
         GoesOn(r, s, c), UNCHANGED <<refusals, approvals>>,
         events' \in 0..MaxEvents, faults' \in BOOLEAN, faults => faults',
         s \in (Places \ {"reporting"}) \cup {"rejected"},
         s # "rejected" => LocalsOK(c) /\ c.denials = call[r].denials /\ PlacedOK(r, s, c, World),
         s = "rejected" /\ ~ faults' /\ Noted(r) => Entry(r, "approval") \in db.events
  PROVE  IInv'
<1> DEFINE k == IF s \in Ended THEN NoCall(r) ELSE c
<1>1. queue' = queue \o << >> /\ << >> \in Seq(Mutations) /\ DOMAIN << >> = {}
  BY DEF GoesOn, IInv, TypeOK
<1>2. s \in Ended <=> s = "rejected"
  BY DEF Ended, Places, Waiting
<1>3. RunStep(r, s, k, << >>)
  BY <1>1 DEF RunStep, GoesOn, IInv, TypeOK
<1>4. Adds(r, s, k, << >>)
  BY <1>1 DEF Adds
<1>5. World' = World
  BY DEF World, GoesOn
<1>6. Arrives(r, s, k)
  <2>1. LocalsOK(k)
    BY <1>2, NoCallOK
  <2>2. s \in Places => PlacedOK(r, s, k, World')
    BY <1>2, <1>5 DEF Places, Waiting
  <2>3. QED
    BY <2>1, <2>2 DEF Arrives
<1>7. Noted(r) /\ s # "rejected" => AgentDenials(k) # {}
  BY <1>2 DEF IInv, NotesCount, Counted, Places, AgentDenials
<1>8. NotesFollow(r, s, k, << >>)
  BY <1>1, <1>7 DEF NotesFollow, Waiting
<1>9. QED
  BY <1>3, <1>4, <1>6, <1>8, RunStepKeeps

\* The mutations a run asks for have their types.
LEMMA AppendsFits ==
  ASSUME NEW r \in Runs, NEW type \in EventTypes, NEW then \in Waiting \cup {"none"}, NEW op,
         op = Appends(r, type, then)
  PROVE  /\ op \in Mutations /\ op.of = r /\ op.kind = "append" /\ op.arg = Entry(r, type) /\ op.then = then
         /\ op.arg.run = r /\ op.arg.type = type
<1>1. Entry(r, type) \in [run : Runs, type : EventTypes]
  BY DEF Entry
<1>2. op \in [of : Runs, kind : {"append"}, arg : [run : Runs, type : EventTypes],
              then : Waiting \cup {"none"}]
  BY <1>1 DEF Appends
<1>3. QED
  BY <1>2 DEF Appends, Mutations, Entry

\* One mutation that saves a run (store.ts, saveRun).
LEMMA SavesFits ==
  ASSUME NEW r \in Runs, NEW outcome \in Outcomes, NEW denials \in SUBSET Denials,
         NEW then \in Waiting \cup Ended, call[r].agent \in Agents, NEW op, op = Saves(r, outcome, denials, then)
  PROVE  /\ op \in Mutations /\ op.of = r /\ op.kind = "save" /\ op.then = then
         /\ op.arg.run = r /\ op.arg.outcome = outcome /\ op.arg.denials = denials
<1>1. Record(r, call[r], outcome, denials) \in Records
  BY DEF Record, Records
<1>2. op \in [of : Runs, kind : {"save"}, arg : Records, then : Waiting \cup Ended]
  BY <1>1 DEF Saves
<1>3. QED
  BY <1>2 DEF Saves, Mutations, Record

\* One mutation that remembers a decision (store.ts, recordPrecedent).
LEMMA RemembersFits ==
  ASSUME NEW r \in Runs, NEW fp \in Fingerprints, NEW decision \in {"approved", "denied"},
         NEW then \in Waiting, call[r].agent \in Agents, call[r].permit.version \in 1..MaxVersion, NEW op,
         op = Remembers(r, Precedent(r, fp, decision), then)
  PROVE  /\ op \in Mutations /\ op.of = r /\ op.kind = "precedent" /\ op.then = then
         /\ op.arg.agent = call[r].agent /\ op.arg.fp = fp /\ op.arg.decision = decision
         /\ op.arg.version = call[r].permit.version
<1>1. Precedent(r, fp, decision) \in Precedents
  BY DEF Precedent, Precedents
<1>2. op \in [of : Runs, kind : {"precedent"}, arg : Precedents, then : Waiting]
  BY <1>1 DEF Remembers
<1>3. QED
  BY <1>2 DEF Remembers, Mutations, Precedent

\* The world a run finds when the mutation it awaits is done.
LEMMA AfterFits ==
  ASSUME UNCHANGED <<db, version>>, NEW op
  PROVE  LET w == After(World', op) IN
         /\ w.version = version /\ w.approvals = approvals'
         /\ op.kind = "append" => w.events = db.events \cup {op.arg}
         /\ op.kind # "append" => w.events = db.events
BY DEF After, World

\* What may be declared is remembered under a fingerprint, and its command can be read.
LEMMA CapabilityFacts ==
  ASSUME NEW k \in Capabilities
  PROVE  Fingerprint(k) \in Fingerprints /\ k.op \in Ops /\ k.command \in Scripts /\ IsCommand(k.command)
<1>1. PICK c \in Declared : Valid(NormaliseCapability(c)) /\ k = Capability(NormaliseCapability(c))
  BY DEF Capabilities
<1> DEFINE n == NormaliseCapability(c)
<1>2. /\ n.op \in Ops /\ n.command = c.command /\ n.class = c.class /\ n.host \in Hosts \cup {NoHost}
      /\ n.paths \in {c.paths, c.files}
  BY <1>1, RepliesAssumption DEF NormaliseCapability, Valid
<1>3. k = Capability(n)
  BY <1>1
<1> HIDE DEF n
<1>4. /\ k.op = n.op /\ k.host = n.host /\ k.command = c.command /\ k.paths = Relativize(n.paths)
      /\ k.class \in {n.class, "undeclared"}
  BY <1>2, <1>3 DEF Capability
<1>5. k.paths \subseteq Paths
  BY <1>2, <1>4, RepliesAssumption DEF Relativize
<1>6. k.class \in Classes \cup {"-"}
  BY <1>2, <1>4, RepliesAssumption DEF Classes
<1>7. k.command \in Scripts /\ IsCommand(k.command)
  BY <1>4, ScriptsAssumption DEF Scripts
<1>8. Bin(k.command) \in Words \cup {"none"}
  BY <1>7 DEF Bin, IsCommand
<1>9. QED
  BY <1>2, <1>4, <1>5, <1>6, <1>7, <1>8 DEF Fingerprint, Fingerprints, Classes

\* A plan is made of what may be declared.
LEMMA PlanFacts ==
  ASSUME NEW r \in Runs, NEW replies \in [1..2 -> Replies[r] \cup {NoReply}], NEW m \in Plan(replies)
  PROVE  /\ m = [capabilities |-> m.capabilities, long |-> m.long]
         /\ m.long \in BOOLEAN /\ m.capabilities \subseteq Capabilities
<1> DEFINE good == {i \in 1..2 : Parses(replies[i])}
<1>1. good # {} /\ m = ParseManifest(replies[Min(good)])
  BY DEF Plan
<1>2. Min(good) \in good
  <2>1. \E i \in good : \A j \in good : i =< j
    BY <1>1
  <2>2. QED
    BY <2>1 DEF Min
<1>3. PICK reply \in Replies[r] \cup {NoReply} : Parses(reply) /\ m = ParseManifest(reply)
  BY <1>1, <1>2
<1>4. reply \in Replies[r]
  BY <1>3 DEF Parses, NoReply
<1>5. reply.long \in BOOLEAN
  BY <1>4, LongAssumption
<1>6. reply.entries \subseteq Declared
  BY <1>4 DEF Declared
<1>7. {Capability(c) : c \in {x \in Normalised(reply) : Valid(x)}} \subseteq Capabilities
  BY <1>6 DEF Normalised, Capabilities
<1>8. QED
  BY <1>3, <1>5, <1>7 DEF ParseManifest

\* What is known of a run that takes a step of its own.
LEMMA AtPlace ==
  ASSUME IInv, NEW r \in Runs, stage[r] \in Places
  PROVE  /\ LocalsOK(call[r]) /\ PlacedOK(r, stage[r], call[r], World)
         /\ IsCall(call[r]) /\ call[r].agent \in Agents
         /\ \A t \in Evidence(stage[r]) : Entry(r, t) \in db.events
         /\ World = [events |-> db.events, version |-> version, approvals |-> approvals]
         /\ approvals \subseteq Agents \X Fingerprints \X (1..MaxVersion)
<1>1. PlacedOK(r, stage[r], call[r], World)
  BY DEF IInv, AllPlaced
<1>2. LocalsOK(call[r])
  BY DEF IInv, Locals
<1>3. QED
  BY <1>1, <1>2 DEF PlacedOK, LocalsOK, World, IInv, TypeOK

\* The first step: the attribution.
LEMMA StartKeeps ==
  ASSUME IInv, NEW r \in Runs, NEW a \in Agents, Start(r, a)
  PROVE  IInv'
<1> DEFINE n == NoCall(r)
           c == [call[r] EXCEPT !.agent = a]
           op == Appends(r, "attribution", "loading")
<1>1. call[r] = n /\ stage[r] = "idle" /\ health # "down" /\ Awaits(r, op, c)
      /\ UNCHANGED <<db, version, refusals, approvals>>
  BY DEF Start, IInv, Idle, Awaits
<1>2. LocalsOK(n) /\ NotRun(n) /\ n.outcome = "failed" /\ n.decision = "none"
  BY NoCallOK
<1> HIDE DEF n
<1>3. /\ c = [n EXCEPT !.agent = a] /\ IsCall(n)
      /\ IsCall(c) /\ c.agent = a /\ c.permit = n.permit /\ c.manifest = n.manifest /\ c.sidecar = n.sidecar
      /\ c.policy = n.policy /\ c.outcome = n.outcome /\ c.taint = n.taint /\ c.todo = n.todo
      /\ c.barred = n.barred /\ c.decision = n.decision /\ c.denials = n.denials /\ c.unread = n.unread
      /\ c.halted = n.halted /\ c.report = n.report /\ c.earned = n.earned /\ c.vouched = n.vouched /\ c.actual = n.actual
      /\ c.sent = n.sent
  BY <1>1, <1>2 DEF LocalsOK, IsCall, CallFields
<1> HIDE DEF c
<1>4. DOMAIN n.permit.verdicts = {}
  BY DEF n, NoCall, NoPermit, BuildPermit, NoManifest
<1>5. LocalsOK(c)
  BY <1>1, <1>2, <1>3, <1>4 DEF LocalsOK, Judged
<1>o. op = Appends(r, "attribution", "loading")
  OBVIOUS
<1> HIDE DEF op
<1>t. "attribution" \in EventTypes /\ "loading" \in Waiting \cup {"none"}
  BY DEF EventTypes, Waiting
<1>6. /\ op \in Mutations /\ op.of = r /\ op.kind = "append" /\ op.arg = Entry(r, "attribution")
      /\ op.then = "loading" /\ op.arg.run = r /\ op.arg.type = "attribution"
  BY <1>o, <1>t, AppendsFits
<1>7. Entry(r, "attribution") \in After(World', op).events
  BY <1>1, <1>6, AfterFits
<1>8. PlacedOK(r, op.then, c, After(World', op))
  BY <1>2, <1>3, <1>6, <1>7
     DEF PlacedOK, Evidence, OutcomeAt, DecisionAt, NotRun, Execution, BeforeDecision
<1>9. OpFits(op, c)
  BY <1>6 DEF OpFits
<1>10. approvals' \subseteq Agents \X Fingerprints \X (1..MaxVersion)
  BY <1>1 DEF IInv, TypeOK
<1>11. QED
  BY <1>1, <1>3, <1>5, <1>6, <1>8, <1>9, <1>10, AwaitsKeeps

\* A run that waits for an entry, for its record to be kept, for a precedent.
LEMMA AppendKeeps ==
  ASSUME IInv, NEW r \in Runs, NEW type \in EventTypes \ {"denial"}, NEW then \in Places \ {"reporting"}, NEW c,
         health # "down", stage[r] \in Places, Awaits(r, Appends(r, type, then), c), UNCHANGED refusals,
         approvals \subseteq approvals', approvals' \subseteq Agents \X Fingerprints \X (1..MaxVersion),
         LocalsOK(c), c.denials = call[r].denials,
         \A w : w.events = db.events \cup {Entry(r, type)} /\ w.version = version /\ w.approvals = approvals'
                   => PlacedOK(r, then, c, w)
  PROVE  IInv'
<1> DEFINE op == Appends(r, type, then)
<1>1. op = Appends(r, type, then) /\ Awaits(r, op, c)
  OBVIOUS
<1> HIDE DEF op
<1>2. then \in Waiting \cup {"none"} /\ then \notin {"none", "reporting", "resolved", "refused", "rejected"}
  BY DEF Places, Waiting
<1>3. /\ op \in Mutations /\ op.of = r /\ op.kind = "append" /\ op.arg = Entry(r, type)
      /\ op.then = then /\ op.arg.run = r /\ op.arg.type = type
  BY <1>1, <1>2, AppendsFits
<1>4. PlacedOK(r, op.then, c, After(World', op))
  BY <1>1, <1>3, AfterFits DEF Awaits
<1>5. OpFits(op, c)
  BY <1>2, <1>3 DEF OpFits
<1>6. QED
  BY <1>1, <1>2, <1>3, <1>4, <1>5, AwaitsKeeps

\* A step that saves the run and waits for the write keeps the invariant.
LEMMA SaveKeeps ==
  ASSUME IInv, NEW r \in Runs, NEW outcome \in Outcomes, NEW denials \in SUBSET Denials,
         NEW then \in (Places \ {"reporting"}) \cup {"refused", "resolved", "rejected"}, NEW c,
         health # "down", stage[r] \in Places, Awaits(r, Saves(r, outcome, denials, then), c),
         UNCHANGED <<refusals, approvals>>, then = "resolved" => stage[r] = "reporting",
         LocalsOK(c), c.denials = call[r].denials, call[r].agent \in Agents,
         then = "refused" => outcome = "denied" /\ denials = {},
         then = "resolved" => outcome = "completed" /\ denials = c.denials,
         then = "rejected" => denials = c.denials,
         \A w : w.events = db.events /\ w.version = version /\ w.approvals = approvals
                   => PlacedOK(r, then, c, w)
  PROVE  IInv'
<1> DEFINE op == Saves(r, outcome, denials, then)
<1>1. op = Saves(r, outcome, denials, then) /\ Awaits(r, op, c)
  OBVIOUS
<1> HIDE DEF op
<1>2. then \in Waiting \cup Ended /\ then \notin {"none", "reporting"}
  BY DEF Places, Waiting, Ended
<1>3. /\ op \in Mutations /\ op.of = r /\ op.kind = "save" /\ op.then = then
      /\ op.arg.run = r /\ op.arg.outcome = outcome /\ op.arg.denials = denials
  BY <1>1, <1>2, SavesFits
<1>4. PlacedOK(r, op.then, c, After(World', op))
  BY <1>1, <1>3, AfterFits DEF Awaits
<1>5. OpFits(op, c)
  BY <1>2, <1>3 DEF OpFits
<1>6. approvals' \subseteq Agents \X Fingerprints \X (1..MaxVersion)
  BY DEF IInv, TypeOK
<1>7. QED
  BY <1>1, <1>2, <1>3, <1>4, <1>5, <1>6, AwaitsKeeps

\* A step that remembers a decision and waits for the write keeps the invariant: an
\* approval is remembered only after a person gave it.
LEMMA RememberKeeps ==
  ASSUME IInv, NEW r \in Runs, NEW fp \in Fingerprints, NEW decision \in {"approved", "denied"},
         NEW then \in {"denying", "remembering"}, NEW c,
         health # "down", stage[r] \in Places, Awaits(r, Remembers(r, Precedent(r, fp, decision), then), c),
         UNCHANGED <<refusals, approvals>>,
         LocalsOK(c), c.denials = call[r].denials,
         call[r].agent \in Agents, call[r].permit.version \in 1..MaxVersion,
         decision = "approved" => <<call[r].agent, fp, call[r].permit.version>> \in approvals,
         \A w : w.events = db.events /\ w.version = version /\ w.approvals = approvals
                   => PlacedOK(r, then, c, w)
  PROVE  IInv'
<1> DEFINE op == Remembers(r, Precedent(r, fp, decision), then)
<1>1. op = Remembers(r, Precedent(r, fp, decision), then) /\ Awaits(r, op, c)
  OBVIOUS
<1> HIDE DEF op
<1>2. then \in Waiting
  BY DEF Waiting
<1>3. /\ op \in Mutations /\ op.of = r /\ op.kind = "precedent" /\ op.then = then
      /\ op.arg.agent = call[r].agent /\ op.arg.fp = fp /\ op.arg.decision = decision
      /\ op.arg.version = call[r].permit.version
  BY <1>1, <1>2, RemembersFits
<1>4. PlacedOK(r, op.then, c, After(World', op))
  BY <1>1, <1>3, AfterFits DEF Awaits
<1>5. OpFits(op, c)
  BY <1>3 DEF OpFits
<1>6. approvals' \subseteq Agents \X Fingerprints \X (1..MaxVersion)
  BY DEF IInv, TypeOK
<1>7. ApprovedOnly({op.arg}, approvals')
  BY <1>3 DEF ApprovedOnly
<1>8. QED
  BY <1>1, <1>2, <1>3, <1>4, <1>5, <1>6, <1>7, AwaitsKeeps

\* Reading the policy, or finding the file half written, keeps the invariant.
LEMMA LoadPolicyKeeps ==
  ASSUME IInv, NEW r \in Runs, LoadPolicy(r)
  PROVE  IInv'
<1> DEFINE name == PolicyRead(policy[call[r].agent])
           c == [call[r] EXCEPT !.policy = name]
<1>1. health # "down" /\ GoesOn(r, "planning", c) /\ UNCHANGED <<trouble, refusals, approvals>>
  BY DEF LoadPolicy, Alive
<1>2. stage[r] = "loading" /\ "loading" \in Places
  BY DEF LoadPolicy, Alive, Places, Waiting
<1>3. /\ LocalsOK(call[r]) /\ PlacedOK(r, "loading", call[r], World)
      /\ IsCall(call[r]) /\ call[r].agent \in Agents
  BY <1>2, AtPlace
<1>4. name \in Policies
  BY <1>3, AdjudicationAssumption DEF IInv, TypeOK, PolicyRead
<1> HIDE DEF name
<1>5. LocalsOK(c)
  BY <1>3, <1>4 DEF LocalsOK, IsCall, CallFields, Judged
<1>6. PlacedOK(r, "planning", c, World) /\ c.denials = call[r].denials
  BY <1>3 DEF PlacedOK, Evidence, OutcomeAt, DecisionAt, NotRun, Execution, BeforeDecision, IsCall, CallFields
<1> HIDE DEF c
<1>7. "planning" \in Places \ {"reporting"}
  BY DEF Places, Waiting
<1>8. QED
  BY <1>1, <1>2, <1>5, <1>6, <1>7, GoesOnKeeps DEF IInv, TypeOK, trouble

\* Parsing the plan keeps the invariant, whether it is read or fails closed.
LEMMA PlansKeeps ==
  ASSUME IInv, NEW r \in Runs, Plans(r)
  PROVE  IInv'
<1>1. stage[r] = "planning" /\ stage[r] \in Places /\ health # "down" /\ UNCHANGED <<refusals, approvals>>
  BY DEF Plans, Alive, Places, Waiting
<1>2. LocalsOK(call[r]) /\ PlacedOK(r, "planning", call[r], World) /\ IsCall(call[r])
      /\ approvals \subseteq Agents \X Fingerprints \X (1..MaxVersion) /\ World.events = db.events
  BY <1>1, AtPlace DEF World
<1>3. "recon" \in EventTypes \ {"denial"} /\ {"refusing", "observing"} \subseteq Places \ {"reporting"}
  BY DEF EventTypes, Places, Waiting
<1>4. CASE Awaits(r, Appends(r, "recon", "refusing"), [call[r] EXCEPT !.outcome = "denied"])
  <2> DEFINE c == [call[r] EXCEPT !.outcome = "denied"]
  <2>1. LocalsOK(c) /\ c.denials = call[r].denials
    BY <1>2 DEF LocalsOK, IsCall, CallFields, Judged, Outcomes
  <2>2. ASSUME NEW w, w.events = db.events \cup {Entry(r, "recon")}, w.version = version
        PROVE  PlacedOK(r, "refusing", c, w)
    BY <1>2, <2>2 DEF PlacedOK, Evidence, OutcomeAt, DecisionAt, NotRun, Execution, BeforeDecision, IsCall, CallFields
  <2> HIDE DEF c
  <2>3. Awaits(r, Appends(r, "recon", "refusing"), c)
    BY <1>4 DEF c
  <2>4. QED
    BY <1>1, <1>2, <1>3, <2>1, <2>2, <2>3, AppendKeeps
<1>5. ASSUME NEW replies \in [1..2 -> Replies[r] \cup {NoReply}], NEW m \in Plan(replies),
             Awaits(r, Appends(r, "recon", "observing"), [call[r] EXCEPT !.manifest = m])
      PROVE  IInv'
  <2> DEFINE c == [call[r] EXCEPT !.manifest = m]
  <2>1. LocalsOK(c) /\ c.denials = call[r].denials
    BY <1>2, PlanFacts DEF LocalsOK, IsCall, CallFields, Judged
  <2>2. ASSUME NEW w, w.events = db.events \cup {Entry(r, "recon")}, w.version = version
        PROVE  PlacedOK(r, "observing", c, w)
    BY <1>2, <2>2 DEF PlacedOK, Evidence, OutcomeAt, DecisionAt, NotRun, Execution, BeforeDecision, IsCall, CallFields
  <2> HIDE DEF c
  <2>3. Awaits(r, Appends(r, "recon", "observing"), c)
    BY <1>5 DEF c
  <2>4. QED
    BY <1>1, <1>2, <1>3, <2>1, <2>2, <2>3, AppendKeeps
<1>6. QED
  BY <1>4, <1>5 DEF Plans

\* Saving a run whose plan could not be read as denied keeps the invariant.
LEMMA FailsClosedKeeps ==
  ASSUME IInv, NEW r \in Runs, FailsClosed(r)
  PROVE  IInv'
<1>1. stage[r] = "refusing" /\ stage[r] \in Places /\ health # "down" /\ UNCHANGED <<refusals, approvals>>
      /\ Awaits(r, Saves(r, "denied", {}, "refused"), call[r])
  BY DEF FailsClosed, Alive, Places, Waiting
<1>2. LocalsOK(call[r]) /\ PlacedOK(r, "refusing", call[r], World) /\ call[r].agent \in Agents
      /\ World.events = db.events
  BY <1>1, AtPlace DEF World
<1>3. ASSUME NEW w, w.events = db.events, w.version = version
      PROVE  PlacedOK(r, "refused", call[r], w)
  BY <1>2, <1>3 DEF PlacedOK, Evidence, OutcomeAt, DecisionAt, Execution, BeforeDecision
<1>4. "denied" \in Outcomes /\ {} \in SUBSET Denials
  BY DEF Outcomes
<1>5. QED
  BY <1>1, <1>2, <1>3, <1>4, SaveKeeps

\* Reconnaissance keeps the invariant: the taint and the bars it computes are those of
\* what it found.
LEMMA ObservesKeeps ==
  ASSUME IInv, NEW r \in Runs, Observes(r)
  PROVE  IInv'
<1>1. stage[r] = "observing" /\ stage[r] \in Places /\ health # "down" /\ UNCHANGED <<refusals, approvals>>
  BY DEF Observes, Alive, Places, Waiting
<1>2. LocalsOK(call[r]) /\ PlacedOK(r, "observing", call[r], World) /\ IsCall(call[r])
      /\ approvals \subseteq Agents \X Fingerprints \X (1..MaxVersion) /\ World.events = db.events
  BY <1>1, AtPlace DEF World
<1>3. "taint" \in EventTypes \ {"denial"} /\ "scoring" \in Places \ {"reporting"}
  BY DEF EventTypes, Places, Waiting
<1>4. CASE GoesOn(r, "scoring", call[r]) /\ UNCHANGED trouble
  <2>1. PlacedOK(r, "scoring", call[r], World)
    BY <1>2 DEF PlacedOK, Evidence, OutcomeAt, DecisionAt, Execution, BeforeDecision
  <2>2. QED
    BY <1>1, <1>2, <1>3, <1>4, <2>1, GoesOnKeeps DEF IInv, TypeOK, trouble
<1>5. ASSUME NEW p, Awaits(r, Appends(r, "taint", "scoring"),
                           [call[r] EXCEPT !.taint = IF p \in Inside THEN "workspace" ELSE "external"])
      PROVE  IInv'
  <2> DEFINE t == IF p \in Inside THEN "workspace" ELSE "external"
             c == [call[r] EXCEPT !.taint = t]
  <2>1. t \in DOMAIN Taints
    BY DEF Taints
  <2> HIDE DEF t
  <2>2. LocalsOK(c) /\ c.denials = call[r].denials
    BY <1>2, <2>1 DEF LocalsOK, IsCall, CallFields, Judged
  <2>3. ASSUME NEW w, w.events = db.events \cup {Entry(r, "taint")}, w.version = version
        PROVE  PlacedOK(r, "scoring", c, w)
    BY <1>2, <2>3 DEF PlacedOK, Evidence, OutcomeAt, DecisionAt, NotRun, Execution, BeforeDecision, IsCall, CallFields
  <2> HIDE DEF c
  <2>4. Awaits(r, Appends(r, "taint", "scoring"), c)
    BY <1>5 DEF c, t
  <2>5. QED
    BY <1>1, <1>2, <1>3, <2>2, <2>3, <2>4, AppendKeeps
<1>6. QED
  BY <1>4, <1>5 DEF Observes

\* A journal that cannot be written rejects the call and keeps the invariant.
LEMMA JournalFailsKeeps ==
  ASSUME IInv, NEW r \in Runs, JournalFails(r)
  PROVE  IInv'
<1>1. /\ stage[r] \in Places /\ health # "down" /\ GoesOn(r, "rejected", call[r])
      /\ UNCHANGED <<refusals, approvals>> /\ events' \in 0..MaxEvents /\ faults' = TRUE
  BY AdjudicationAssumption DEF JournalFails, Places, Waiting, Trouble, IInv, TypeOK
<1>2. QED
  BY <1>1, GoesOnKeeps

\* The term sheet of a permit in force is one that was deployed.
LEMMA VersionFacts ==
  ASSUME IInv, NEW r \in Runs, stage[r] \in BeforeDecision \cup Execution \cup {"denying"}
  PROVE  call[r].permit.version = version /\ version \in 1..MaxVersion /\ stage[r] \in Places
<1>1. stage[r] \in Places
  BY DEF BeforeDecision, Execution, Places, Waiting
<1>2. QED
  BY <1>1, AtPlace DEF PlacedOK, IInv, TypeOK, World

\* What a run decides, and what it has still to remember, leave the rest of its locals.
LEMMA LocalsDecided ==
  ASSUME NEW c, LocalsOK(c), NEW d, IsCall(d),
         d.permit = c.permit, d.manifest = c.manifest, d.sidecar = c.sidecar, d.agent = c.agent,
         d.policy = c.policy, d.taint = c.taint, d.barred = c.barred, d.earned = c.earned /\ d.vouched = c.vouched,
         d.denials = c.denials, d.unread = c.unread, d.halted = c.halted, d.report = c.report,
         d.outcome \in Outcomes, d.todo \subseteq Fingerprints, d.decision \in {"none", "approved", "denied"}
  PROVE  LocalsOK(d)
BY DEF LocalsOK, Judged

\* Walking the denied doors, a precedent each and then the refusal, keeps the invariant.
LEMMA DenyingKeeps ==
  ASSUME IInv, NEW r \in Runs, Denying(r)
  PROVE  IInv'
<1> DEFINE c == [call[r] EXCEPT !.outcome = "denied"]
<1>1. stage[r] = "denying" /\ stage[r] \in Places /\ health # "down" /\ UNCHANGED <<refusals, approvals>>
  BY DEF Denying, Alive, Places, Waiting
<1>2. LocalsOK(call[r]) /\ PlacedOK(r, "denying", call[r], World) /\ IsCall(call[r])
      /\ call[r].agent \in Agents /\ World.events = db.events
  BY <1>1, AtPlace DEF World
<1>3. call[r].permit.version = version /\ version \in 1..MaxVersion
  BY <1>1, VersionFacts
<1>4. CASE Awaits(r, Saves(r, "denied", {}, "refused"), c)
  <2>1. LocalsOK(c) /\ c.denials = call[r].denials
    BY <1>2 DEF LocalsOK, IsCall, CallFields, Judged, Outcomes
  <2>2. ASSUME NEW w, w.events = db.events, w.version = version
        PROVE  PlacedOK(r, "refused", c, w)
    BY <1>2, <2>2 DEF PlacedOK, Evidence, OutcomeAt, DecisionAt, NotRun, Execution, BeforeDecision, IsCall, CallFields
  <2> HIDE DEF c
  <2>3. "denied" \in Outcomes /\ {} \in SUBSET Denials
    BY DEF Outcomes
  <2>4. QED
    BY <1>1, <1>2, <1>4, <2>1, <2>2, <2>3, SaveKeeps
<1>5. ASSUME NEW fp \in c.todo,
             Awaits(r, Remembers(r, Precedent(r, fp, "denied"), "denying"), [c EXCEPT !.todo = @ \ {fp}])
      PROVE  IInv'
  <2> DEFINE d == [call[r] EXCEPT !.outcome = "denied", !.todo = @ \ {fp}]
  <2>1. d = [c EXCEPT !.todo = @ \ {fp}] /\ c.todo = call[r].todo
    BY <1>2 DEF IsCall, CallFields
  <2> HIDE DEF c
  <2>2. fp \in Fingerprints
    BY <1>2, <1>5, <2>1 DEF LocalsOK
  <2>3. LocalsOK(d) /\ d.denials = call[r].denials
    <3>1. /\ IsCall(d) /\ d.permit = call[r].permit /\ d.manifest = call[r].manifest
          /\ d.sidecar = call[r].sidecar /\ d.agent = call[r].agent /\ d.policy = call[r].policy
          /\ d.taint = call[r].taint /\ d.barred = call[r].barred /\ d.earned = call[r].earned /\ d.vouched = call[r].vouched
          /\ d.denials = call[r].denials /\ d.unread = call[r].unread /\ d.halted = call[r].halted
          /\ d.report = call[r].report /\ d.outcome = "denied" /\ d.todo = call[r].todo \ {fp}
          /\ d.decision = call[r].decision
      BY <1>2 DEF IsCall, CallFields
    <3> HIDE DEF d
    <3>2. /\ d.todo \subseteq Fingerprints /\ d.decision \in {"none", "approved", "denied"}
          /\ d.outcome \in Outcomes
      BY <1>2, <3>1 DEF LocalsOK, Outcomes
    <3>3. QED
      BY <1>2, <3>1, <3>2, LocalsDecided
  <2>4. ASSUME NEW w, w.events = db.events, w.version = version
        PROVE  PlacedOK(r, "denying", d, w)
    BY <1>2, <1>3, <2>4 DEF PlacedOK, Evidence, OutcomeAt, DecisionAt, NotRun, Execution, BeforeDecision, IsCall, CallFields
  <2> HIDE DEF d
  <2>5. Awaits(r, Remembers(r, Precedent(r, fp, "denied"), "denying"), d)
    BY <1>5, <2>1
  <2>6. QED
    BY <1>1, <1>2, <1>3, <2>2, <2>3, <2>4, <2>5, RememberKeeps
<1>6. QED
  BY <1>4, <1>5 DEF Denying

\* Saving the run as awaiting approval keeps the invariant.
LEMMA ParksKeeps ==
  ASSUME IInv, NEW r \in Runs, Parks(r)
  PROVE  IInv'
<1> DEFINE c == [call[r] EXCEPT !.outcome = "awaiting-approval"]
<1>1. stage[r] = "parking" /\ stage[r] \in Places /\ health # "down" /\ UNCHANGED <<refusals, approvals>>
      /\ Awaits(r, Saves(r, "awaiting-approval", {}, "parked"), c)
  BY DEF Parks, Alive, Places, Waiting
<1>2. LocalsOK(call[r]) /\ PlacedOK(r, "parking", call[r], World) /\ IsCall(call[r])
      /\ call[r].agent \in Agents /\ World.events = db.events
  BY <1>1, AtPlace DEF World
<1>3. call[r].permit.version = version
  BY <1>1, VersionFacts DEF BeforeDecision
<1>4. LocalsOK(c) /\ c.denials = call[r].denials
  BY <1>2 DEF LocalsOK, IsCall, CallFields, Judged, Outcomes
<1>5. ASSUME NEW w, w.events = db.events, w.version = version
      PROVE  PlacedOK(r, "parked", c, w)
  BY <1>2, <1>3, <1>5
     DEF PlacedOK, Evidence, OutcomeAt, DecisionAt, NotRun, Execution, BeforeDecision, IsCall, CallFields, OpensFor
<1> HIDE DEF c
<1>6. "awaiting-approval" \in Outcomes /\ {} \in SUBSET Denials /\ "parked" \in Places \ {"reporting"}
  BY DEF Outcomes, Places, Waiting
<1>7. QED
  BY <1>1, <1>2, <1>4, <1>5, <1>6, SaveKeeps

\* What an operator is asked about, and approves.
LEMMA DecideKeeps ==
  ASSUME IInv, NEW r \in Runs, NEW d \in {"approved", "denied"}, Decide(r, d)
  PROVE  IInv'
<1> DEFINE prints == Prints(call[r].permit, "T3")
           c == [call[r] EXCEPT !.decision = d, !.todo = prints]
<1>1. stage[r] = "parked" /\ stage[r] \in Places /\ health # "down" /\ UNCHANGED refusals
      /\ Awaits(r, Appends(r, "approval", "remembering"), c)
      /\ approvals' = IF d = "approved" THEN approvals \cup {<<call[r].agent, fp, version>> : fp \in prints}
                      ELSE approvals
  BY DEF Decide, Alive, Places, Waiting
<1>2. LocalsOK(call[r]) /\ PlacedOK(r, "parked", call[r], World) /\ IsCall(call[r])
      /\ approvals \subseteq Agents \X Fingerprints \X (1..MaxVersion)
      /\ call[r].agent \in Agents /\ World.events = db.events
  BY <1>1, AtPlace DEF World
<1>3. call[r].permit.version = version /\ version \in 1..MaxVersion
  BY <1>1, VersionFacts DEF BeforeDecision
<1>4. prints \subseteq Fingerprints
  BY <1>2, CapabilityFacts DEF Prints, OfTier, LocalsOK
<1> HIDE DEF prints
<1>5. approvals \subseteq approvals' /\ approvals' \subseteq Agents \X Fingerprints \X (1..MaxVersion)
  BY <1>1, <1>2, <1>3, <1>4
<1>7. LocalsOK(c) /\ c.denials = call[r].denials
  <2>1. /\ IsCall(c) /\ c.permit = call[r].permit /\ c.manifest = call[r].manifest
        /\ c.sidecar = call[r].sidecar /\ c.agent = call[r].agent /\ c.policy = call[r].policy
        /\ c.taint = call[r].taint /\ c.barred = call[r].barred /\ c.earned = call[r].earned /\ c.vouched = call[r].vouched
        /\ c.denials = call[r].denials /\ c.unread = call[r].unread /\ c.halted = call[r].halted
        /\ c.report = call[r].report /\ c.outcome = call[r].outcome /\ c.todo = prints /\ c.decision = d
    BY <1>2 DEF IsCall, CallFields
  <2> HIDE DEF c
  <2>2. /\ c.todo \subseteq Fingerprints /\ c.decision \in {"none", "approved", "denied"}
        /\ c.outcome \in Outcomes
    BY <1>2, <1>4, <2>1 DEF LocalsOK
  <2>3. QED
    BY <1>2, <2>1, <2>2, LocalsDecided
<1>8. d = "approved" => \A fp \in c.todo : <<c.agent, fp, c.permit.version>> \in approvals'
  BY <1>1, <1>2, <1>3 DEF IsCall, CallFields
<1>9. ASSUME NEW w, w.events = db.events \cup {Entry(r, "approval")}, w.version = version, w.approvals = approvals'
      PROVE  PlacedOK(r, "remembering", c, w)
  BY <1>2, <1>3, <1>8, <1>9
     DEF PlacedOK, Evidence, OutcomeAt, DecisionAt, NotRun, Execution, BeforeDecision, IsCall, CallFields, OpensFor
<1> HIDE DEF c
<1>10. "approval" \in EventTypes \ {"denial"} /\ "remembering" \in Places \ {"reporting"}
  BY DEF EventTypes, Places, Waiting
<1>11. QED
  BY <1>1, <1>5, <1>7, <1>9, <1>10, AppendKeeps

\* Remembering what a person answered, a door at a time, keeps the invariant.
LEMMA RemembersDecisionKeeps ==
  ASSUME IInv, NEW r \in Runs, RemembersDecision(r)
  PROVE  IInv'
<1>1. stage[r] = "remembering" /\ stage[r] \in Places /\ health # "down" /\ UNCHANGED <<refusals, approvals>>
  BY DEF RemembersDecision, Alive, Places, Waiting
<1>2. LocalsOK(call[r]) /\ PlacedOK(r, "remembering", call[r], World) /\ IsCall(call[r])
      /\ call[r].agent \in Agents /\ World.events = db.events /\ World.approvals = approvals
  BY <1>1, AtPlace DEF World
<1>3. call[r].permit.version = version /\ version \in 1..MaxVersion
  BY <1>1, VersionFacts DEF BeforeDecision
<1>4. PICK fp \in call[r].todo :
         Awaits(r, Remembers(r, Precedent(r, fp, call[r].decision), "remembering"),
                [call[r] EXCEPT !.todo = @ \ {fp}])
  BY DEF RemembersDecision
<1> DEFINE c == [call[r] EXCEPT !.todo = @ \ {fp}]
<1>5. /\ fp \in Fingerprints /\ call[r].decision \in {"approved", "denied"}
      /\ call[r].decision = "approved" => <<call[r].agent, fp, call[r].permit.version>> \in approvals
  BY <1>2, <1>4 DEF LocalsOK, PlacedOK, DecisionAt
<1>6. LocalsOK(c) /\ c.denials = call[r].denials
  <2>1. /\ IsCall(c) /\ c.permit = call[r].permit /\ c.manifest = call[r].manifest
        /\ c.sidecar = call[r].sidecar /\ c.agent = call[r].agent /\ c.policy = call[r].policy
        /\ c.taint = call[r].taint /\ c.barred = call[r].barred /\ c.earned = call[r].earned /\ c.vouched = call[r].vouched
        /\ c.denials = call[r].denials /\ c.unread = call[r].unread /\ c.halted = call[r].halted
        /\ c.report = call[r].report /\ c.outcome = call[r].outcome /\ c.todo = call[r].todo \ {fp}
        /\ c.decision = call[r].decision
    BY <1>2 DEF IsCall, CallFields
  <2> HIDE DEF c
  <2>2. /\ call[r].todo \ {fp} \subseteq Fingerprints /\ call[r].decision \in {"none", "approved", "denied"}
        /\ call[r].outcome \in Outcomes
    BY <1>2 DEF LocalsOK
  <2>3. QED
    BY <1>2, <2>1, <2>2, LocalsDecided
<1>7. ASSUME NEW w, w.events = db.events, w.version = version, w.approvals = approvals
      PROVE  PlacedOK(r, "remembering", c, w)
  BY <1>2, <1>3, <1>7
     DEF PlacedOK, Evidence, OutcomeAt, DecisionAt, NotRun, Execution, BeforeDecision, IsCall, CallFields, OpensFor
<1>8. Awaits(r, Remembers(r, Precedent(r, fp, call[r].decision), "remembering"), c)
  BY <1>4
<1> HIDE DEF c
<1>9. QED
  BY <1>1, <1>2, <1>3, <1>5, <1>6, <1>7, <1>8, RememberKeeps

\* Saving the run a person refused as denied keeps the invariant.
LEMMA RefusesKeeps ==
  ASSUME IInv, NEW r \in Runs, Refuses(r)
  PROVE  IInv'
<1> DEFINE c == [call[r] EXCEPT !.outcome = "denied"]
<1>1. stage[r] = "remembering" /\ stage[r] \in Places /\ health # "down" /\ UNCHANGED <<refusals, approvals>>
      /\ Awaits(r, Saves(r, "denied", {}, "refused"), c)
  BY DEF Refuses, Alive, Places, Waiting
<1>2. LocalsOK(call[r]) /\ PlacedOK(r, "remembering", call[r], World) /\ IsCall(call[r])
      /\ call[r].agent \in Agents /\ World.events = db.events
  BY <1>1, AtPlace DEF World
<1>3. LocalsOK(c) /\ c.denials = call[r].denials
  BY <1>2 DEF LocalsOK, IsCall, CallFields, Judged, Outcomes
<1>4. ASSUME NEW w, w.events = db.events, w.version = version
      PROVE  PlacedOK(r, "refused", c, w)
  BY <1>2, <1>4 DEF PlacedOK, Evidence, OutcomeAt, DecisionAt, NotRun, Execution, BeforeDecision, IsCall, CallFields
<1> HIDE DEF c
<1>5. "denied" \in Outcomes /\ {} \in SUBSET Denials
  BY DEF Outcomes
<1>6. QED
  BY <1>1, <1>2, <1>3, <1>4, <1>5, SaveKeeps

-----------------------------------------------------------------------------
(* Permits *)

\* What a union of capabilities opens is what its parts open together.
LEMMA DoorsOfUnion ==
  ASSUME NEW A, NEW B, NEW verdicts
  PROVE  Doors(A \cup B, verdicts) = Join(Doors(A, verdicts), Doors(B, verdicts))
<1> DEFINE of(S, ops) == UNION {verdicts[c].paths : c \in {x \in S : x.op \in ops}}
<1>1. ASSUME NEW ops
      PROVE  of(A \cup B, ops) = of(A, ops) \cup of(B, ops)
  OBVIOUS
<1>2. {c.host : c \in A \cup B} \ {NoHost} = ({c.host : c \in A} \ {NoHost}) \cup ({c.host : c \in B} \ {NoHost})
  OBVIOUS
<1>3. {c.command : c \in {x \in A \cup B : x.op = "EXEC"}}
        = {c.command : c \in {x \in A : x.op = "EXEC"}} \cup {c.command : c \in {x \in B : x.op = "EXEC"}}
  OBVIOUS
<1>4. QED
  BY <1>1, <1>2, <1>3 DEF Doors, Join

\* What an approval makes of a permit.
LEMMA ApprovalFacts ==
  ASSUME NEW p, IsPermit(p), NEW q, q = ApplyApproval(p)
  PROVE  /\ IsPermit(q) /\ Intact(q) /\ q.run = p.run /\ q.agent = p.agent /\ q.version = p.version
         /\ q.verdicts = p.verdicts /\ q.doors = Join(p.doors, Doors(OfTier(p, {"T3"}), p.verdicts))
<1> DEFINE d == Join(p.doors, Doors(OfTier(p, ApprovedTiers), p.verdicts))
           next == [p EXCEPT !.doors = d, !.requiresHumanApproval = FALSE, !.expired = FALSE]
<1>1. q = [next EXCEPT !.requestHash = PermitHash(next), !.approvedHash = {PermitHash(next)}]
  BY DEF ApplyApproval, IsPermit, PermitFields
<1>2. d = [f \in DoorFields |-> d[f]] /\ d = Join(p.doors, Doors(OfTier(p, {"T3"}), p.verdicts))
  BY DEF Join, DoorFields, ApprovedTiers
<1> HIDE DEF d
<1>3. /\ next = [f \in PermitFields |-> next[f]] /\ next.doors = d /\ next.run = p.run
      /\ next.agent = p.agent /\ next.version = p.version /\ next.verdicts = p.verdicts
  BY DEF IsPermit, PermitFields
<1> HIDE DEF next
<1>4. /\ q = [f \in PermitFields |-> q[f]] /\ q.doors = d /\ q.run = p.run
      /\ q.agent = p.agent /\ q.version = p.version /\ q.verdicts = p.verdicts
      /\ q.requestHash = PermitHash(next) /\ q.approvedHash = {PermitHash(next)}
  BY <1>1, <1>3 DEF PermitFields
<1>5. PermitHash(q) = PermitHash(next)
  BY <1>3, <1>4 DEF PermitHash
<1>6. QED
  BY <1>2, <1>4, <1>5 DEF IsPermit, Intact

\* What an adjudication makes of a manifest: a permit that is not denied forbids
\* nothing, and one that asks nobody has nothing to ask.
LEMMA PermitFacts ==
  ASSUME NEW run, NEW agent, NEW manifest, NEW pol, NEW ctx, NEW p,
         p = GrantProviderHost(BuildPermit(run, agent, manifest, pol, ctx), ProviderHost)
  PROVE  /\ IsPermit(p) /\ Intact(p) /\ p.version = ctx.version
         /\ p.verdicts = [c \in manifest.capabilities |-> ResolveConditional(c, pol, ctx)]
         /\ LET d == Doors(OfTier(p, {"T0", "T1"}), p.verdicts) IN
            /\ p.doors.writes = d.writes /\ p.doors.reads = d.reads /\ p.doors.commands = d.commands
            /\ p.doors.hosts = d.hosts \cup {ProviderHost}
         /\ ~ p.denied => OfTier(p, {"T4"}) = {}
         /\ ~ p.denied /\ ~ p.requiresHumanApproval => OfTier(p, {"T3"}) = {}
<1> DEFINE verdicts == [c \in manifest.capabilities |-> ResolveConditional(c, pol, ctx)]
           tiers == {verdicts[c].tier : c \in manifest.capabilities} \cup (IF manifest.long THEN {"T4"} ELSE {})
           granted == {c \in manifest.capabilities : verdicts[c].tier \in {"T0", "T1"}}
           b == BuildPermit(run, agent, manifest, pol, ctx)
           d == Doors(granted, verdicts)
           next == [b EXCEPT !.doors.hosts = @ \cup {ProviderHost}]
<1>1. /\ b = [f \in PermitFields |-> b[f]] /\ b.run = run /\ b.agent = agent /\ b.version = ctx.version
      /\ b.verdicts = verdicts /\ b.doors = d /\ b.requiresHumanApproval = (RunTier(tiers) = "T3")
      /\ b.denied = (RunTier(tiers) = "T4") /\ b.approvedHash = {}
  BY DEF BuildPermit, PermitFields
<1>2. d = [f \in DoorFields |-> d[f]]
  BY DEF Doors, DoorFields
<1>3. tiers \subseteq {"T0", "T1", "T3", "T4"}
  BY NothingConditional
<1>4. RunTier(tiers) \in Tiers /\ \A u \in tiers : Rank[u] <= Rank[RunTier(tiers)]
  BY <1>3, RunTierIsHighest DEF Tiers
<1>5. /\ RunTier(tiers) # "T4" => "T4" \notin tiers
      /\ RunTier(tiers) \notin {"T3", "T4"} => "T3" \notin tiers
  <2> DEFINE top == RunTier(tiers)
  <2>1. top \in Tiers /\ \A u \in tiers : Rank[u] <= Rank[top]
    BY <1>4
  <2> HIDE DEF top, tiers
  <2>2. "T4" \in tiers => Rank["T4"] <= Rank[top]
    BY <2>1
  <2>3. "T3" \in tiers => Rank["T3"] <= Rank[top]
    BY <2>1
  <2>4. top \in {"T0", "T1", "T2", "T3", "T4"}
    BY <2>1 DEF Tiers
  <2>5. /\ top # "T4" => "T4" \notin tiers
        /\ top \notin {"T3", "T4"} => "T3" \notin tiers
    BY <2>2, <2>3, <2>4 DEF Rank
  <2>6. QED
    BY <2>5 DEF top
<1>v. verdicts = [c \in manifest.capabilities |-> ResolveConditional(c, pol, ctx)]
  OBVIOUS
<1>g. /\ granted = {c \in DOMAIN verdicts : verdicts[c].tier \in {"T0", "T1"}}
      /\ "T4" \notin tiers => {c \in DOMAIN verdicts : verdicts[c].tier \in {"T4"}} = {}
      /\ "T3" \notin tiers => {c \in DOMAIN verdicts : verdicts[c].tier \in {"T3"}} = {}
  OBVIOUS
<1>n. p = [next EXCEPT !.requestHash = PermitHash(next)]
  BY DEF GrantProviderHost
<1>d. d = Doors(granted, verdicts)
  OBVIOUS
<1> HIDE DEF b, verdicts, tiers, d, granted
<1>6. /\ next = [f \in PermitFields |-> next[f]] /\ next.run = run /\ next.agent = agent
      /\ next.version = ctx.version /\ next.verdicts = verdicts /\ next.doors = [d EXCEPT !.hosts = @ \cup {ProviderHost}]
      /\ next.requiresHumanApproval = b.requiresHumanApproval /\ next.denied = b.denied /\ next.approvedHash = {}
  BY <1>1 DEF PermitFields
<1> HIDE DEF next
<1>7. /\ p = [f \in PermitFields |-> p[f]] /\ p.run = run /\ p.agent = agent
      /\ p.version = ctx.version /\ p.verdicts = verdicts /\ p.doors = next.doors
      /\ p.requiresHumanApproval = b.requiresHumanApproval /\ p.denied = b.denied /\ p.approvedHash = {}
      /\ p.requestHash = PermitHash(next)
  BY <1>6, <1>n DEF PermitFields
<1>8. PermitHash(p) = PermitHash(next)
  BY <1>6, <1>7 DEF PermitHash
<1>9. p.doors = [f \in DoorFields |-> p.doors[f]]
  BY <1>2, <1>6, <1>7 DEF DoorFields
<1>10. OfTier(p, {"T0", "T1"}) = granted
  BY <1>7, <1>g DEF OfTier
<1>11. /\ "T4" \notin tiers => OfTier(p, {"T4"}) = {}
       /\ "T3" \notin tiers => OfTier(p, {"T3"}) = {}
  BY <1>7, <1>g DEF OfTier
<1>12. /\ p.doors.writes = d.writes /\ p.doors.reads = d.reads /\ p.doors.commands = d.commands
       /\ p.doors.hosts = d.hosts \cup {ProviderHost} /\ d = Doors(OfTier(p, {"T0", "T1"}), p.verdicts)
  BY <1>2, <1>6, <1>7, <1>10, <1>d DEF DoorFields
<1>13. QED
  BY <1>1, <1>5, <1>7, <1>8, <1>9, <1>11, <1>12, <1>v DEF IsPermit, Intact

\* The adjudication: what was refused to the Agent before is forbidden to it now, and
\* nothing opens but what the score opens or an operator approved.
LEMMA AdjudicatesJudged ==
  ASSUME IInv, NEW r \in Runs, call[r].agent \in Agents, NEW p, NEW barred, NEW vouched, NEW earned,
         p.verdicts = [c \in call[r].manifest.capabilities |->
                          ResolveConditional(c, PolicyOf[call[r].policy], Context(r))],
         p.version = version,
         \A fp \in barred : \E x \in refusals : x[1] = call[r].agent /\ x[2] = fp,
         \A x \in approvals : x[1] = call[r].agent /\ x[3] = version => x[2] \in vouched,
         \A c \in call[r].manifest.capabilities :
            ResolveConditional(c, PolicyOf[call[r].policy], Unhelped(Context(r))).tier \in {"T0", "T1"} => c \in earned,
         NEW k \in DOMAIN p.verdicts
  PROVE  LET tier == p.verdicts[k].tier IN
         /\ tier \in {"T0", "T1", "T3", "T4"}
         /\ Fingerprint(k) \in barred => tier = "T4"
         /\ tier \in {"T0", "T1"} => k \in earned \/ Fingerprint(k) \in vouched
<1> DEFINE ctx == Context(r)
           pol == PolicyOf[call[r].policy]
           v == ResolveConditional(k, pol, ctx)
<1>1. p.verdicts[k] = v /\ k \in call[r].manifest.capabilities
  OBVIOUS
<1>2. /\ ctx = [taint |-> call[r].taint, files |-> WorkspaceFiles,
                precedents |-> PrecedentsOf(db, call[r].agent),
                completedRuns |-> Cardinality(RunsFor(db, call[r].agent)), version |-> version]
      /\ ctx.precedents = {x \in db.precedents : x.agent = call[r].agent} /\ ctx.version = version
  BY DEF Context, PrecedentsOf
<1>e. ResolveConditional(k, pol, Unhelped(ctx)).tier \in {"T0", "T1"} => k \in earned
  BY <1>1
<1> HIDE DEF ctx, pol
<1>3. v.tier \in {"T0", "T1", "T3", "T4"}
  BY NothingConditional
<1>4. ASSUME Fingerprint(k) \in barred
      PROVE  v.tier = "T4"
  <2>1. PICK x \in refusals : x[1] = call[r].agent /\ x[2] = Fingerprint(k)
    BY <1>4
  <2>2. DeniedIn(disk, x[1], x[2])
    BY <2>1 DEF IInv, Memory
  <2>3. DeniedIn(db, x[1], x[2])
    BY <2>2 DEF IInv, Memory, DeniedIn
  <2>4. ForbiddenPrior(k, ctx)
    BY <1>2, <2>1, <2>3 DEF DeniedIn, ForbiddenPrior
  <2>5. QED
    BY <2>4, ForbiddenByMemory
<1>5. ASSUME v.tier \in {"T0", "T1"}, k \notin earned
      PROVE  Fingerprint(k) \in vouched
  <2>1. ResolveConditional(k, pol, Unhelped(ctx)) # v
    BY <1>5, <1>e
  <2>p. PrecedentsOf(db, call[r].agent) \in SUBSET Precedents
    BY DEF IInv, TypeOK, Dbs, PrecedentsOf
  <2>m. PICK taint, seen, memory, n, at :
           /\ ctx = [taint |-> taint, files |-> seen, precedents |-> memory, completedRuns |-> n, version |-> at]
           /\ memory \in SUBSET Precedents
    BY <1>2, <2>p
  <2>2. HasValidPrecedent(k, ctx)
    <3>1. ~ HasValidPrecedent(k, ctx) => ResolveConditional(k, pol, ctx) = ResolveConditional(k, pol, Unhelped(ctx))
      BY <2>m, OnlyApprovalsHelp
    <3>2. QED
      BY <2>1, <3>1
  <2>3. PICK x \in db.precedents : /\ x.agent = call[r].agent /\ x.fp = Fingerprint(k)
                                   /\ x.decision = "approved" /\ x.version = version /\ x.live
    BY <1>2, <2>2 DEF HasValidPrecedent
  <2>4. <<call[r].agent, Fingerprint(k), version>> \in approvals
    BY <2>3 DEF IInv, Memory, ApprovedOnly
  <2>5. QED
    BY <2>4
<1>6. QED
  BY <1>1, <1>3, <1>4, <1>5

\* The verdict keeps the invariant: where it sends the run agrees with the permit it
\* built, and each door it opened has its reason.
LEMMA AdjudicatesKeeps ==
  ASSUME IInv, NEW r \in Runs, Adjudicates(r)
  PROVE  IInv'
<1> DEFINE ctx == Context(r)
           pol == PolicyOf[call[r].policy]
           p == GrantProviderHost(BuildPermit(r, call[r].agent, call[r].manifest, pol, ctx), ProviderHost)
           todo == RefusedPrints(p, call[r].manifest.long)
           barred == {x[2] : x \in {y \in refusals : y[1] = call[r].agent}}
           vouched == {x[2] : x \in {y \in approvals : y[1] = call[r].agent /\ y[3] = version}}
           earned == {k \in call[r].manifest.capabilities :
                        ResolveConditional(k, pol, Unhelped(ctx)).tier \in {"T0", "T1"}}
           at == IF p.denied THEN "denying" ELSE IF p.requiresHumanApproval THEN "parking" ELSE "cleared"
           c == [call[r] EXCEPT !.permit = p, !.todo = todo, !.barred = barred, !.vouched = vouched,
                               !.earned = earned]
<1>1. stage[r] = "scoring" /\ stage[r] \in Places /\ health # "down" /\ UNCHANGED <<refusals, approvals>>
      /\ Awaits(r, Appends(r, "permit", at), c)
  BY DEF Adjudicates, Alive, Places, Waiting
<1>2. LocalsOK(call[r]) /\ PlacedOK(r, "scoring", call[r], World) /\ IsCall(call[r])
      /\ call[r].agent \in Agents /\ World.events = db.events
      /\ approvals \subseteq Agents \X Fingerprints \X (1..MaxVersion)
  BY <1>1, AtPlace DEF World
<1>3. /\ IsPermit(p) /\ Intact(p) /\ p.version = ctx.version
      /\ p.verdicts = [k \in call[r].manifest.capabilities |-> ResolveConditional(k, pol, ctx)]
      /\ LET d == Doors(OfTier(p, {"T0", "T1"}), p.verdicts) IN
         /\ p.doors.writes = d.writes /\ p.doors.reads = d.reads /\ p.doors.commands = d.commands
         /\ p.doors.hosts = d.hosts \cup {ProviderHost}
      /\ ~ p.denied => OfTier(p, {"T4"}) = {}
      /\ ~ p.denied /\ ~ p.requiresHumanApproval => OfTier(p, {"T3"}) = {}
  BY PermitFacts
<1>4. ctx.version = version
  BY DEF Context
<1>b. /\ \A fp \in barred : \E x \in refusals : x[1] = call[r].agent /\ x[2] = fp
      /\ barred \subseteq Fingerprints
  BY DEF IInv, TypeOK
<1>v. /\ \A x \in approvals : x[1] = call[r].agent /\ x[3] = version => x[2] \in vouched
      /\ vouched \subseteq Fingerprints
  BY DEF IInv, TypeOK
<1>t. todo = RefusedPrints(p, call[r].manifest.long)
  OBVIOUS
<1>a. /\ at \in {"denying", "parking", "cleared"}
      /\ at # "denying" => ~ p.denied
      /\ at = "cleared" => ~ p.requiresHumanApproval
  OBVIOUS
<1>e. \A k \in call[r].manifest.capabilities :
         ResolveConditional(k, PolicyOf[call[r].policy], Unhelped(Context(r))).tier \in {"T0", "T1"} => k \in earned
  OBVIOUS
<1>c. p.verdicts = [k \in call[r].manifest.capabilities |->
                      ResolveConditional(k, PolicyOf[call[r].policy], Context(r))] /\ p.version = version
  BY <1>3, <1>4
<1> HIDE DEF p, barred, vouched, earned, todo, at
<1>5. \A k \in DOMAIN p.verdicts :
        LET tier == p.verdicts[k].tier IN
        /\ tier \in {"T0", "T1", "T3", "T4"}
        /\ Fingerprint(k) \in barred => tier = "T4"
        /\ tier \in {"T0", "T1"} => k \in earned \/ Fingerprint(k) \in vouched
  BY <1>2, <1>b, <1>c, <1>e, <1>v, AdjudicatesJudged
<1>6. DOMAIN p.verdicts \subseteq Capabilities
  BY <1>2, <1>3 DEF LocalsOK
<1>7. todo \subseteq Fingerprints
  <2>1. Duration \in Fingerprints
    BY DEF Duration, Fingerprints, Ops, Classes
  <2>2. Prints(p, "T4") \subseteq Fingerprints
    BY <1>6, CapabilityFacts DEF Prints, OfTier
  <2>3. QED
    BY <1>t, <2>1, <2>2 DEF RefusedPrints
<1> HIDE DEF earned, ctx, pol
<1>8. /\ IsCall(c) /\ c.permit = p /\ c.manifest = call[r].manifest /\ c.sidecar = call[r].sidecar
      /\ c.agent = call[r].agent /\ c.policy = call[r].policy /\ c.taint = call[r].taint /\ c.barred = barred
      /\ c.vouched = vouched /\ c.earned = earned /\ c.denials = call[r].denials /\ c.unread = call[r].unread
      /\ c.halted = call[r].halted /\ c.report = call[r].report /\ c.outcome = call[r].outcome
      /\ c.todo = todo /\ c.decision = call[r].decision /\ c.actual = call[r].actual /\ c.sent = call[r].sent
  BY <1>2 DEF IsCall, CallFields
<1> HIDE DEF c
<1>9. Judged(c)
  BY <1>5, <1>8 DEF Judged
<1>10. LocalsOK(c)
  BY <1>2, <1>3, <1>6, <1>7, <1>8, <1>9, <1>b, <1>v DEF LocalsOK
<1>11. ASSUME NEW w, w.events = db.events \cup {Entry(r, "permit")}, w.version = version
       PROVE  PlacedOK(r, at, c, w)
  <2>1. \A t \in Evidence("scoring") \cup {"permit"} : Entry(r, t) \in w.events
    BY <1>2, <1>11 DEF PlacedOK
  <2>2. \A t \in Evidence(at) : Entry(r, t) \in w.events
    BY <1>a, <2>1 DEF Evidence
  <2>3. c.outcome = "failed" /\ c.decision \in DecisionAt("scoring") /\ NotRun(c)
    BY <1>2, <1>8 DEF PlacedOK, NotRun, OutcomeAt
  <2>4. c.outcome \in OutcomeAt(at) /\ c.decision \in DecisionAt(at) /\ c.decision = "none"
    BY <1>a, <2>3 DEF OutcomeAt, DecisionAt
  <2>5. OpensFor(c, OfTier(c.permit, {"T0", "T1"}))
    BY <1>3, <1>8 DEF OpensFor
  <2>6. GrantedTo(c) = OfTier(c.permit, {"T0", "T1"})
    BY <2>4 DEF GrantedTo
  <2>7. at \notin {"running", "remembering"} /\ (at \in Execution => at = "cleared")
        /\ (at \in BeforeDecision \cup Execution => at # "denying")
    BY <1>a DEF Execution, BeforeDecision
  <2>8. QED
    BY <1>2, <1>3, <1>4, <1>8, <1>11, <1>a, <2>2, <2>3, <2>4, <2>5, <2>6, <2>7 DEF PlacedOK
<1>12. "permit" \in EventTypes \ {"denial"} /\ at \in Places \ {"reporting"}
  BY <1>a DEF EventTypes, Places, Waiting
<1>13. c.denials = call[r].denials
  BY <1>8
<1>14. QED
  BY <1>1, <1>2, <1>10, <1>11, <1>12, <1>13, AppendKeeps

\* Going on with what a person approved keeps the invariant: it opens the conditional
\* doors and no others.
LEMMA ApprovesKeeps ==
  ASSUME IInv, NEW r \in Runs, Approves(r)
  PROVE  IInv'
<1> DEFINE p == call[r].permit
           q == ApplyApproval(p)
           c == [call[r] EXCEPT !.permit = q]
<1>1. stage[r] = "remembering" /\ stage[r] \in Places /\ health # "down" /\ call[r].decision = "approved"
      /\ GoesOn(r, "cleared", c) /\ UNCHANGED <<trouble, refusals, approvals>>
  BY DEF Approves, Alive, Places, Waiting
<1>2. LocalsOK(call[r]) /\ PlacedOK(r, "remembering", call[r], World) /\ IsCall(call[r])
      /\ World.events = db.events
  BY <1>1, AtPlace DEF World
<1>3. /\ IsPermit(q) /\ Intact(q) /\ q.version = p.version /\ q.verdicts = p.verdicts
      /\ q.doors = Join(p.doors, Doors(OfTier(p, {"T3"}), p.verdicts))
  BY <1>2, ApprovalFacts DEF LocalsOK
<1>p. p = call[r].permit
  OBVIOUS
<1> HIDE DEF q, p
<1>4. /\ IsCall(c) /\ c.permit = q /\ c.manifest = call[r].manifest /\ c.sidecar = call[r].sidecar
      /\ c.agent = call[r].agent /\ c.policy = call[r].policy /\ c.taint = call[r].taint
      /\ c.barred = call[r].barred /\ c.earned = call[r].earned /\ c.vouched = call[r].vouched /\ c.denials = call[r].denials
      /\ c.unread = call[r].unread /\ c.halted = call[r].halted /\ c.report = call[r].report
      /\ c.outcome = call[r].outcome /\ c.todo = call[r].todo /\ c.decision = "approved"
      /\ c.actual = call[r].actual /\ c.sent = call[r].sent
  BY <1>1, <1>2 DEF IsCall, CallFields
<1> HIDE DEF c
<1>5. LocalsOK(c)
  BY <1>2, <1>3, <1>4, <1>p DEF LocalsOK, Judged
<1>6. \A tiers : OfTier(q, tiers) = OfTier(p, tiers)
  BY <1>3 DEF OfTier
<1>7. OpensFor(c, GrantedTo(c))
  <2> DEFINE d == Doors(OfTier(p, {"T0", "T1"}), p.verdicts)
             e == Doors(OfTier(p, {"T3"}), p.verdicts)
  <2>1. /\ p.doors.writes = d.writes /\ p.doors.reads = d.reads /\ p.doors.commands = d.commands
        /\ p.doors.hosts = d.hosts \cup {ProviderHost}
    BY <1>2, <1>p DEF PlacedOK, OpensFor, BeforeDecision
  <2>2. GrantedTo(c) = OfTier(p, {"T0", "T1"}) \cup OfTier(p, {"T3"})
    BY <1>4, <1>6 DEF GrantedTo
  <2>3. Doors(GrantedTo(c), q.verdicts) = Join(d, e)
    BY <1>3, <2>2, DoorsOfUnion
  <2>4. q.doors = Join(p.doors, e)
    BY <1>3
  <2> HIDE DEF d, e
  <2> DEFINE g == Doors(GrantedTo(c), q.verdicts)
  <2>5. /\ g.writes = d.writes \cup e.writes /\ g.reads = d.reads \cup e.reads
        /\ g.commands = d.commands \cup e.commands /\ g.hosts = d.hosts \cup e.hosts
    BY <2>3 DEF Join
  <2>6. /\ q.doors.writes = p.doors.writes \cup e.writes /\ q.doors.reads = p.doors.reads \cup e.reads
        /\ q.doors.commands = p.doors.commands \cup e.commands
        /\ q.doors.hosts = p.doors.hosts \cup e.hosts
    BY <2>4 DEF Join
  <2> HIDE DEF g
  <2>7. /\ q.doors.writes = g.writes /\ q.doors.reads = g.reads /\ q.doors.commands = g.commands
        /\ q.doors.hosts = g.hosts \cup {ProviderHost}
    BY <2>1, <2>5, <2>6
  <2>8. QED
    BY <1>3, <1>4, <2>7 DEF OpensFor, g
<1>8. PlacedOK(r, "cleared", c, World)
  BY <1>2, <1>3, <1>4, <1>6, <1>7, <1>p
     DEF PlacedOK, Evidence, OutcomeAt, DecisionAt, NotRun, Execution, BeforeDecision
<1>9. "cleared" \in Places \ {"reporting"}
  BY DEF Places, Waiting
<1>10. QED
  BY <1>1, <1>4, <1>5, <1>8, <1>9, GoesOnKeeps DEF IInv, TypeOK, trouble

-----------------------------------------------------------------------------
(* Execution *)

\* Nothing is noted of a run that has not run.
LEMMA NothingNoted ==
  ASSUME IInv, NEW r \in Runs, stage[r] \in Places, NotRun(call[r])
  PROVE  ~ Noted(r)
BY DEF IInv, NotesCount, Counted, Places, NotRun, AgentDenials

\* Where an error takes a run that was cleared.
LEMMA CaughtFacts ==
  ASSUME IInv, NEW r \in Runs, stage[r] \in Execution
  PROVE  /\ Caught(r) \in {"failing", "rejected"}
         /\ Caught(r) = "failing" => call[r].outcome = "failed"
         /\ Caught(r) = "rejected" => Entry(r, "approval") \in db.events
<1>1. stage[r] \in Places
  BY DEF Execution, Places, Waiting
<1>2. PlacedOK(r, stage[r], call[r], World) /\ World.events = db.events
  BY <1>1, AtPlace DEF World
<1>3. call[r].outcome \in {"failed", "awaiting-approval"}
  BY <1>2 DEF PlacedOK, OutcomeAt, Execution
<1>4. QED
  BY <1>2, <1>3 DEF Caught, PlacedOK

\* Starting the sidecar and the agent keeps the invariant: the sidecar holds a copy of
\* the permit.
LEMMA LaunchKeeps ==
  ASSUME IInv, NEW r \in Runs, Launch(r)
  PROVE  IInv'
<1> DEFINE c == [call[r] EXCEPT !.sidecar = SidecarPermit(call[r].permit)]
<1>1. stage[r] = "cleared" /\ stage[r] \in Places /\ stage[r] \in Execution /\ health # "down"
      /\ UNCHANGED <<trouble, refusals, approvals>>
      /\ (GoesOn(r, "running", c) \/ GoesOn(r, Caught(r), call[r]))
  BY DEF Launch, Alive, Places, Waiting, Execution
<1>2. LocalsOK(call[r]) /\ PlacedOK(r, "cleared", call[r], World) /\ IsCall(call[r])
      /\ World.events = db.events
  BY <1>1, AtPlace DEF World
<1>3. NotRun(call[r])
  BY <1>2 DEF PlacedOK
<1>4. CASE GoesOn(r, "running", c)
  <2>1. LocalsOK(c) /\ c.denials = call[r].denials
    BY <1>2 DEF LocalsOK, IsCall, CallFields, Judged, IsSidecar, SidecarPermit
  <2>2. /\ c.permit = call[r].permit /\ c.sidecar = SidecarPermit(call[r].permit) /\ c.agent = call[r].agent
        /\ c.outcome = call[r].outcome /\ c.decision = call[r].decision /\ c.actual = call[r].actual
        /\ c.sent = call[r].sent /\ c.denials = call[r].denials /\ c.unread = call[r].unread
        /\ c.halted = call[r].halted
    BY <1>2 DEF IsCall, CallFields
  <2> HIDE DEF c
  <2>3. InExecution(c)
    BY <1>3, <2>2 DEF InExecution, NotRun, SidecarPermit
  <2>4. PlacedOK(r, "running", c, World)
    BY <1>2, <2>2, <2>3
       DEF PlacedOK, Evidence, OutcomeAt, DecisionAt, Execution, BeforeDecision, OpensFor, GrantedTo
  <2>5. "running" \in Places \ {"reporting"}
    BY DEF Places, Waiting
  <2>6. QED
    BY <1>1, <1>4, <2>1, <2>4, <2>5, GoesOnKeeps DEF IInv, TypeOK, trouble
<1>5. CASE GoesOn(r, Caught(r), call[r])
  <2>1. Caught(r) \in {"failing", "rejected"} /\ (Caught(r) = "failing" => call[r].outcome = "failed")
    BY <1>1, CaughtFacts
  <2>2. Caught(r) # "rejected" => PlacedOK(r, Caught(r), call[r], World)
    BY <1>2, <2>1 DEF PlacedOK, Evidence, OutcomeAt, DecisionAt, Execution, BeforeDecision
  <2>3. Caught(r) \in (Places \ {"reporting"}) \cup {"rejected"}
    BY <2>1 DEF Places, Waiting
  <2>4. ~ Noted(r)
    BY <1>1, <1>3, NothingNoted
  <2>5. QED
    BY <1>1, <1>2, <1>5, <2>2, <2>3, <2>4, GoesOnKeeps DEF IInv, TypeOK, trouble
<1>6. QED
  BY <1>1, <1>4, <1>5

\* A sidecar or an agent that does not start keeps the invariant.
LEMMA LaunchFailsKeeps ==
  ASSUME IInv, NEW r \in Runs, LaunchFails(r)
  PROVE  IInv'
<1>1. stage[r] = "cleared" /\ stage[r] \in Places /\ stage[r] \in Execution /\ health # "down"
      /\ UNCHANGED <<refusals, approvals>> /\ GoesOn(r, Caught(r), call[r])
      /\ events' \in 0..MaxEvents /\ faults' = TRUE
  BY AdjudicationAssumption DEF LaunchFails, Alive, Places, Waiting, Execution, Trouble, IInv, TypeOK
<1>2. LocalsOK(call[r]) /\ PlacedOK(r, "cleared", call[r], World)
  BY <1>1, AtPlace
<1>3. Caught(r) \in {"failing", "rejected"} /\ (Caught(r) = "failing" => call[r].outcome = "failed")
  BY <1>1, CaughtFacts
<1>4. Caught(r) # "rejected" => PlacedOK(r, Caught(r), call[r], World)
  BY <1>2, <1>3 DEF PlacedOK, Evidence, OutcomeAt, DecisionAt, Execution, BeforeDecision
<1>5. Caught(r) \in (Places \ {"reporting"}) \cup {"rejected"}
  BY <1>3 DEF Places, Waiting
<1>6. QED
  BY <1>1, <1>2, <1>4, <1>5, GoesOnKeeps

\* Saving the run as completed with the denials it met keeps the invariant.
LEMMA ReportsKeeps ==
  ASSUME IInv, NEW r \in Runs, Reports(r)
  PROVE  IInv'
<1>1. stage[r] = "reporting" /\ stage[r] \in Places /\ health # "down" /\ UNCHANGED <<refusals, approvals>>
      /\ Awaits(r, Saves(r, "completed", call[r].denials, "resolved"), call[r])
  BY DEF Reports, Alive, Places, Waiting
<1>2. LocalsOK(call[r]) /\ PlacedOK(r, "reporting", call[r], World) /\ call[r].agent \in Agents
      /\ World.events = db.events
  BY <1>1, AtPlace DEF World
<1>3. ASSUME NEW w, w.events = db.events, w.version = version
      PROVE  PlacedOK(r, "resolved", call[r], w)
  BY <1>2, <1>3 DEF PlacedOK, Evidence, OutcomeAt, DecisionAt, Execution, BeforeDecision
<1>4. "completed" \in Outcomes /\ call[r].denials \in SUBSET Denials
  BY <1>2 DEF Outcomes, LocalsOK
<1>5. QED
  BY <1>1, <1>2, <1>3, <1>4, SaveKeeps

\* Saving the run as failed from the catch keeps the invariant.
LEMMA SavesFailureKeeps ==
  ASSUME IInv, NEW r \in Runs, SavesFailure(r)
  PROVE  IInv'
<1>1. stage[r] = "failing" /\ stage[r] \in Places /\ health # "down" /\ UNCHANGED <<refusals, approvals>>
      /\ Awaits(r, Saves(r, "failed", call[r].denials, "rejected"), call[r])
  BY DEF SavesFailure, Alive, Places, Waiting
<1>2. LocalsOK(call[r]) /\ PlacedOK(r, "failing", call[r], World) /\ call[r].agent \in Agents
      /\ World.events = db.events
  BY <1>1, AtPlace DEF World
<1>3. ASSUME NEW w, w.events = db.events, w.version = version
      PROVE  PlacedOK(r, "rejected", call[r], w)
  BY <1>2, <1>3 DEF PlacedOK, Evidence, OutcomeAt, DecisionAt, Execution, BeforeDecision
<1>4. "failed" \in Outcomes /\ call[r].denials \in SUBSET Denials
  BY <1>2 DEF Outcomes, LocalsOK
<1>5. QED
  BY <1>1, <1>2, <1>3, <1>4, SaveKeeps

\* A step of a run in execution that adds nothing to the queue.
LEMMA RunningKeeps ==
  ASSUME IInv, NEW r \in Runs, NEW c, health # "down", stage[r] = "running",
         call' = [call EXCEPT ![r] = c],
         UNCHANGED <<db, disk, queue, health, version, files, trouble, stage, refusals, approvals>>,
         LocalsOK(c), PlacedOK(r, "running", c, World), AgentDenials(call[r]) \subseteq AgentDenials(c)
  PROVE  IInv'
<1>1. queue' = queue \o << >> /\ << >> \in Seq(Mutations) /\ DOMAIN << >> = {}
  BY DEF IInv, TypeOK
<1>2. stage' = [stage EXCEPT ![r] = "running"]
  BY DEF IInv, TypeOK
<1>3. RunStep(r, "running", c, << >>)
  BY <1>1, <1>2 DEF RunStep, IInv, TypeOK, trouble
<1>4. Adds(r, "running", c, << >>)
  BY <1>1 DEF Adds
<1>5. World' = World /\ "running" \in Places \ {"reporting"}
  BY DEF World, Places, Waiting
<1>6. Arrives(r, "running", c)
  BY <1>5 DEF Arrives
<1>7. Noted(r) => AgentDenials(c) # {}
  BY DEF IInv, NotesCount, Counted, Waiting
<1>8. NotesFollow(r, "running", c, << >>)
  BY <1>1, <1>7 DEF NotesFollow
<1>9. QED
  BY <1>3, <1>4, <1>5, <1>6, <1>8, RunStepKeeps

\* The permit running out, under the broker and in the sidecar, keeps the invariant.
LEMMA PermitExpiresKeeps ==
  ASSUME IInv, NEW r \in Runs, PermitExpires(r)
  PROVE  IInv'
<1> DEFINE p == [call[r].permit EXCEPT !.expired = TRUE]
           s == [call[r].sidecar EXCEPT !.expired = TRUE]
           c == [call[r] EXCEPT !.permit = p, !.sidecar = s]
<1>1. stage[r] = "running" /\ stage[r] \in Places /\ health # "down"
      /\ UNCHANGED <<db, disk, queue, health, version, files, trouble, stage, refusals, approvals>>
  BY DEF PermitExpires, Alive, Places, Waiting
<1>2. LocalsOK(call[r]) /\ PlacedOK(r, "running", call[r], World) /\ IsCall(call[r])
      /\ IsPermit(call[r].permit) /\ IsSidecar(call[r].sidecar)
  BY <1>1, AtPlace DEF LocalsOK
<1>c. call' = [call EXCEPT ![r] = c]
  <2>1. call = [x \in Runs |-> call[x]]
    BY DEF IInv, Locals
  <2>2. call' = [call EXCEPT ![r].permit.expired = TRUE, ![r].sidecar.expired = TRUE]
    BY DEF PermitExpires
  <2>3. QED
    BY <1>2, <2>1, <2>2 DEF IsCall, CallFields
<1>3. /\ IsPermit(p) /\ p.doors = call[r].permit.doors /\ p.verdicts = call[r].permit.verdicts
      /\ p.version = call[r].permit.version /\ p.run = call[r].permit.run /\ p.agent = call[r].permit.agent
      /\ p.requestHash = call[r].permit.requestHash /\ p.approvedHash = call[r].permit.approvedHash
      /\ p.expired = TRUE
  BY <1>2 DEF IsPermit, PermitFields
<1>4. IsSidecar(s) /\ s.hosts = call[r].sidecar.hosts /\ s.expired = TRUE
  BY <1>2 DEF IsSidecar
<1> HIDE DEF p, s
<1>5. /\ IsCall(c) /\ c.permit = p /\ c.manifest = call[r].manifest /\ c.sidecar = s
      /\ c.agent = call[r].agent /\ c.policy = call[r].policy /\ c.taint = call[r].taint
      /\ c.barred = call[r].barred /\ c.earned = call[r].earned /\ c.vouched = call[r].vouched /\ c.denials = call[r].denials
      /\ c.unread = call[r].unread /\ c.halted = call[r].halted /\ c.report = call[r].report
      /\ c.outcome = call[r].outcome /\ c.todo = call[r].todo /\ c.decision = call[r].decision
      /\ c.actual = call[r].actual /\ c.sent = call[r].sent
  BY <1>2 DEF IsCall, CallFields
<1> HIDE DEF c
<1>6. LocalsOK(c)
  BY <1>2, <1>3, <1>4, <1>5 DEF LocalsOK, Judged
<1>7. Intact(call[r].permit) => Intact(p)
  BY <1>3 DEF Intact, PermitHash
<1>8. \A tiers : OfTier(p, tiers) = OfTier(call[r].permit, tiers)
  BY <1>3 DEF OfTier
<1>9. OpensFor(c, GrantedTo(c))
  <2>1. OpensFor(call[r], GrantedTo(call[r]))
    BY <1>2 DEF PlacedOK, Execution
  <2>2. GrantedTo(c) = GrantedTo(call[r])
    BY <1>5, <1>8 DEF GrantedTo
  <2>3. QED
    BY <1>3, <1>5, <1>7, <2>1, <2>2 DEF OpensFor
<1>10. InExecution(c)
  BY <1>2, <1>3, <1>4, <1>5 DEF PlacedOK, InExecution
<1>11. PlacedOK(r, "running", c, World)
  BY <1>2, <1>3, <1>5, <1>8, <1>9, <1>10 DEF PlacedOK, Execution, BeforeDecision
<1>12. QED
  BY <1>1, <1>5, <1>6, <1>11, <1>c, RunningKeeps DEF AgentDenials

\* A request the sidecar lets pass goes to a host of the permit.
LEMMA AsksKeeps ==
  ASSUME IInv, NEW r \in Runs, NEW q, Asks(r, q)
  PROVE  IInv'
<1> DEFINE s == call[r].sidecar
           presented == IF q.capability THEN r ELSE "none"
           rule == DecideEgress(s, presented, q)
<1>1. stage[r] = "running" /\ stage[r] \in Places /\ health # "down"
      /\ UNCHANGED <<db, disk, queue, health, version, files, trouble, stage, refusals, approvals>>
  BY DEF Asks, Alive, Places, Waiting
<1>2. LocalsOK(call[r]) /\ PlacedOK(r, "running", call[r], World) /\ IsCall(call[r])
  BY <1>1, AtPlace
<1>c. call = [x \in Runs |-> call[x]]
  BY DEF IInv, Locals
<1>3. /\ rule = "P-OK" => Destination(q) \in s.hosts
      /\ rule \in {"P-OK", "P-00", "P-07", "P-09", "P-11"}
  BY DEF DecideEgress
<1>4. CASE rule = "P-OK"
  <2> DEFINE c == [call[r] EXCEPT !.sent = @ \cup {Destination(q)}]
  <2>1. call' = [call EXCEPT ![r] = c]
    BY <1>4, <1>c, <1>2 DEF Asks, IsCall, CallFields
  <2>2. LocalsOK(c)
    BY <1>2 DEF LocalsOK, IsCall, CallFields, Judged
  <2>3. /\ c.permit = call[r].permit /\ c.sidecar = s /\ c.agent = call[r].agent
        /\ c.outcome = call[r].outcome /\ c.decision = call[r].decision /\ c.actual = call[r].actual
        /\ c.sent = call[r].sent \cup {Destination(q)} /\ c.denials = call[r].denials
        /\ c.halted = call[r].halted
    BY <1>2 DEF IsCall, CallFields
  <2> HIDE DEF c
  <2>4. InExecution(c)
    BY <1>2, <1>3, <1>4, <2>3 DEF PlacedOK, InExecution
  <2>5. PlacedOK(r, "running", c, World)
    BY <1>2, <2>3, <2>4 DEF PlacedOK, Execution, BeforeDecision, OpensFor, GrantedTo
  <2>6. QED
    BY <1>1, <2>1, <2>2, <2>3, <2>5, RunningKeeps DEF AgentDenials
<1>5. CASE rule # "P-OK"
  <2> DEFINE denial == Denial(s, presented, q)
             c == [call[r] EXCEPT !.unread = @ \cup {denial}]
  <2>1. denial \in Denials
    BY <1>3, <1>5 DEF Denial, Denials
  <2>2. call' = [call EXCEPT ![r] = c]
    BY <1>5, <1>c, <1>2 DEF Asks, IsCall, CallFields
  <2> HIDE DEF denial
  <2>3. LocalsOK(c)
    BY <1>2, <2>1 DEF LocalsOK, IsCall, CallFields, Judged
  <2>4. /\ c.permit = call[r].permit /\ c.sidecar = s /\ c.agent = call[r].agent
        /\ c.outcome = call[r].outcome /\ c.decision = call[r].decision /\ c.actual = call[r].actual
        /\ c.sent = call[r].sent /\ c.denials = call[r].denials /\ c.halted = call[r].halted
    BY <1>2 DEF IsCall, CallFields
  <2> HIDE DEF c
  <2>5. InExecution(c)
    BY <1>2, <2>4 DEF PlacedOK, InExecution
  <2>6. PlacedOK(r, "running", c, World)
    BY <1>2, <2>4, <2>5 DEF PlacedOK, Execution, BeforeDecision, OpensFor, GrantedTo
  <2>7. QED
    BY <1>1, <2>2, <2>3, <2>4, <2>6, RunningKeeps DEF AgentDenials
<1>6. QED
  BY <1>4, <1>5

\* What a text begins with: itself, and what its beginning begins with.
LEMMA BeginsItself ==
  ASSUME NEW T, NEW x \in Seq(T)
  PROVE  Begins(x, x)
BY DEF Begins

LEMMA BeginsTransitive ==
  ASSUME NEW T, NEW x \in Seq(T), NEW y \in Seq(T), NEW z \in Seq(T), Begins(x, y), Begins(y, z)
  PROVE  Begins(x, z)
<1>1. /\ Len(x) \in Nat /\ Len(y) \in Nat /\ Len(z) \in Nat /\ Len(z) <= Len(y) /\ Len(y) <= Len(x)
      /\ SubSeq(x, 1, Len(y)) = y /\ SubSeq(y, 1, Len(z)) = z
  BY DEF Begins
<1>2. \A i \in 1..Len(z) : z[i] = x[i]
  <2>1. \A i \in 1..Len(z) : y[i] = z[i]
    BY <1>1
  <2>2. \A i \in 1..Len(y) : x[i] = y[i]
    BY <1>1
  <2>3. QED
    BY <1>1, <2>1, <2>2
<1>3. SubSeq(x, 1, Len(z)) = z
  <2> DEFINE w == SubSeq(x, 1, Len(z))
  <2>1. w \in Seq(T) /\ Len(w) = Len(z) /\ \A i \in 1..Len(z) : w[i] = x[i]
    BY <1>1
  <2> HIDE DEF w
  <2>2. w = z
    BY <1>1, <1>2, <2>1
  <2>3. QED
    BY <2>2 DEF w
<1>4. QED
  BY <1>1, <1>3 DEF Begins

\* What the broker lets pass the report finds a grant for, but for a script whose text
\* does not begin with its own first command.
LEMMA CheckedIsCovered ==
  ASSUME NEW a, NEW p, CheckAction(a, p), p.doors.commands \subseteq Scripts,
         a.op = "EXEC" => UnwrapShellCommand(a.target) \in Scripts
  PROVE  Excused(a) \/ Covered(a, p.doors)
<1>1. CASE a.op \in {"FS_WRITE", "FS_DELETE"}
  <2>1. PathGranted(StripContainerPrefix(a.target), p.doors.writes)
    BY <1>1 DEF CheckAction
  <2>2. QED
    BY <1>1, <2>1 DEF PathGranted, Covered
<1>2. CASE a.op = "EXEC"
  <2> DEFINE s == UnwrapShellCommand(a.target)
  <2>1. CommandGranted(s, p) /\ s \in Scripts /\ IsCommand(s)
    BY <1>2, ScriptsAssumption DEF CheckAction
  <2> SUFFICES ASSUME s.segs # << >> => Begins(s.text, s.segs[1])
               PROVE  \E g \in p.doors.commands : TextBegins(s, g)
    BY <1>2 DEF Excused, Covered
  <2> HIDE DEF s
  <2>2. CASE \E g \in p.doors.commands : s.text = g.text
    <3>1. PICK g \in p.doors.commands : s.text = g.text
      BY <2>2
    <3>2. Begins(s.text, s.text)
      BY <2>1, BeginsItself DEF IsCommand
    <3>3. QED
      BY <3>1, <3>2 DEF TextBegins
  <2>3. CASE ~ \E g \in p.doors.commands : s.text = g.text
    <3>1. /\ s.segs # << >> /\ s.segs \in Seq(Seq(Words)) /\ s.text \in Seq(Words)
          /\ \A i \in DOMAIN s.segs : SegmentGranted(s.segs[i], p.doors.commands)
      BY <2>1, <2>3 DEF CommandGranted, IsCommand
    <3>2. 1 \in DOMAIN s.segs /\ s.segs[1] \in Seq(Words)
      <4> DEFINE ss == s.segs
      <4>1. ss \in Seq(Seq(Words)) /\ ss # << >>
        BY <3>1
      <4> HIDE DEF ss
      <4>2. 1 \in DOMAIN ss /\ ss[1] \in Seq(Words)
        BY <4>1
      <4>3. QED
        BY <4>2 DEF ss
    <3>3. PICK g \in p.doors.commands : Begins(s.segs[1], g.text)
      BY <3>1, <3>2 DEF SegmentGranted
    <3>4. g.text \in Seq(Words)
      BY ScriptsAssumption DEF IsCommand
    <3>5. Begins(s.text, s.segs[1])
      BY <3>1
    <3>6. QED
      BY <3>1, <3>2, <3>3, <3>4, <3>5, BeginsTransitive DEF TextBegins
  <2>4. QED
    BY <2>2, <2>3
<1>3. QED
  BY <1>1, <1>2 DEF Covered

\* There are few kinds of denial, so what is collected can be counted.
LEMMA DenialsFinite == \A S \in SUBSET Denials : IsFiniteSet(S) /\ Cardinality(S) \in Nat
<1> DEFINE of(b) == {[rule |-> "broker", platform |-> b]} \cup {[rule |-> "P-00", platform |-> b]}
                    \cup {[rule |-> "P-07", platform |-> b]} \cup {[rule |-> "P-09", platform |-> b]}
                    \cup {[rule |-> "P-11", platform |-> b]}
<1>1. ASSUME NEW b
      PROVE  IsFiniteSet(of(b))
  BY FS_Singleton, FS_Union
<1>2. Denials \subseteq of(TRUE) \cup of(FALSE)
  <2>1. ASSUME NEW d \in Denials
        PROVE  d \in of(TRUE) \cup of(FALSE)
    <3>1. d = [rule |-> d.rule, platform |-> d.platform] /\ d.rule \in {"broker", "P-00", "P-07", "P-09", "P-11"}
      BY DEF Denials
    <3>2. d.platform = TRUE \/ d.platform = FALSE
      BY DEF Denials
    <3>3. ASSUME NEW b, d.platform = b
          PROVE  d \in of(b)
      BY <3>1, <3>3
    <3>4. QED
      BY <3>2, <3>3
  <2>2. QED
    BY <2>1
<1> HIDE DEF of
<1>3. IsFiniteSet(Denials)
  BY <1>1, <1>2, FS_Union, FS_Subset
<1>4. QED
  BY <1>3, FS_Subset, FS_CardinalityType

\* A function on 1..n is a sequence of n elements.
LEMMA SequenceOf ==
  ASSUME NEW T, NEW n \in Nat, NEW s \in [1..n -> T]
  PROVE  s \in Seq(T) /\ Len(s) = n /\ DOMAIN s = 1..n
OBVIOUS

\* One note.
LEMMA NoteFits ==
  ASSUME NEW r \in Runs, NEW type \in EventTypes, NEW op, op = Appends(r, type, "none")
  PROVE  /\ op \in Mutations /\ op.of = r /\ op.kind = "append" /\ op.then = "none"
         /\ op.arg = Entry(r, type) /\ op.arg.run = r
<1> DEFINE after == "none"
<1>1. after \in Waiting \cup {"none"}
  OBVIOUS
<1>2. op = Appends(r, type, after)
  OBVIOUS
<1>3. after = "none"
  OBVIOUS
<1> HIDE DEF after
<1>4. op \in Mutations /\ op.of = r /\ op.kind = "append" /\ op.arg = Entry(r, type) /\ op.then = after
      /\ op.arg.run = r
  BY <1>1, <1>2, AppendsFits
<1>5. QED
  BY <1>3, <1>4

Repeated(n, op) == [i \in 1..n |-> op]

\* One mutation, asked for a number of times.
LEMMA RepeatedFacts ==
  ASSUME NEW n \in Nat, NEW op \in Mutations
  PROVE  LET s == Repeated(n, op) IN
         s \in Seq(Mutations) /\ Len(s) = n /\ DOMAIN s = 1..n /\ \A i \in DOMAIN s : s[i] = op
<1> DEFINE s == Repeated(n, op)
<1>1. s \in [1..n -> Mutations] /\ \A i \in DOMAIN s : s[i] = op
  BY DEF Repeated
<1> HIDE DEF s
<1>2. s \in Seq(Mutations) /\ Len(s) = n /\ DOMAIN s = 1..n
  BY <1>1, SequenceOf
<1>3. QED
  BY <1>1, <1>2 DEF s

\* The notes of a number of refusals.
LEMMA NotesFacts ==
  ASSUME NEW r \in Runs, NEW n \in Nat, NEW type \in EventTypes, NEW s,
         s = Repeated(n, Appends(r, type, "none"))
  PROVE  /\ s \in Seq(Mutations) /\ Len(s) = n /\ DOMAIN s = 1..n
         /\ \A i \in DOMAIN s : /\ s[i].of = r /\ s[i].kind = "append" /\ s[i].then = "none"
                                /\ s[i].arg.run = r /\ s[i].arg = Entry(r, type)
BY NoteFits, RepeatedFacts

\* The agent's own denials among what is collected.
OursOf(r, readable) == {d \in Collected(r, readable) : ~ d.platform}

\* The notes that stand for what is collected: an agent's denial first, if there is one.
LEMMA CollectFacts ==
  ASSUME NEW r \in Runs, NEW readable, Collected(r, readable) \subseteq Denials,
         NEW s, s = CollectNotes(r, readable)
  PROVE  /\ s \in Seq(Mutations)
         /\ \A i \in DOMAIN s : s[i].of = r /\ s[i].kind = "append" /\ s[i].then = "none" /\ s[i].arg.run = r
         /\ (\E i \in DOMAIN s : Noting(s[i], r)) => OursOf(r, readable) # {}
         /\ OursOf(r, readable) # {} => 1 \in DOMAIN s /\ Noting(s[1], r)
<1> DEFINE ours == OursOf(r, readable)
           mine == "denial"
           theirs == "platform denial"
           others == Collected(r, readable) \ ours
           n == Cardinality(ours)
           m == Cardinality(others)
           a == Repeated(n, Appends(r, mine, "none"))
           b == Repeated(m, Appends(r, theirs, "none"))
<1>1. s = a \o b
  BY DEF CollectNotes, Notes, PlatformNotes, Repeated, OursOf
<1>2. n \in Nat /\ m \in Nat /\ IsFiniteSet(ours)
  BY DenialsFinite DEF OursOf
<1>3. n = 0 <=> ours = {}
  BY <1>2, FS_EmptySet
<1>4. mine \in EventTypes /\ theirs \in EventTypes
  BY DEF EventTypes
<1>5. Entry(r, mine) # Entry(r, theirs) /\ Entry(r, mine) = Entry(r, "denial")
  BY DEF Entry
<1> HIDE DEF mine, theirs, others, n, m
<1>6. /\ a \in Seq(Mutations) /\ Len(a) = n /\ DOMAIN a = 1..n
      /\ \A i \in DOMAIN a : /\ a[i].of = r /\ a[i].kind = "append" /\ a[i].then = "none"
                             /\ a[i].arg.run = r /\ a[i].arg = Entry(r, mine)
  BY <1>2, <1>4, NotesFacts
<1>7. /\ b \in Seq(Mutations) /\ Len(b) = m /\ DOMAIN b = 1..m
      /\ \A i \in DOMAIN b : /\ b[i].of = r /\ b[i].kind = "append" /\ b[i].then = "none"
                             /\ b[i].arg.run = r /\ b[i].arg = Entry(r, theirs)
  BY <1>2, <1>4, NotesFacts
<1> HIDE DEF a, b
<1>8. /\ s \in Seq(Mutations)
      /\ \A i \in DOMAIN a : i \in DOMAIN s /\ s[i] = a[i]
      /\ \A i \in DOMAIN s : i \in DOMAIN a \/ \E j \in DOMAIN b : i = Len(a) + j
      /\ \A j \in DOMAIN b : s[Len(a) + j] = b[j]
  <2>1. a \in Seq(Mutations) /\ b \in Seq(Mutations)
    BY <1>6, <1>7
  <2>2. QED
    BY <1>1, <2>1, Lengthened
<1>9. \A i \in DOMAIN s : (\E j \in DOMAIN a : s[i] = a[j]) \/ (\E j \in DOMAIN b : s[i] = b[j])
  BY <1>8
<1>10. (\E i \in DOMAIN s : Noting(s[i], r)) => ours # {}
  <2>1. ASSUME NEW i \in DOMAIN s, Noting(s[i], r)
        PROVE  ours # {}
    <3>1. PICK j \in DOMAIN a : s[i] = a[j]
      BY <1>7, <1>5, <1>9, <2>1 DEF Noting
    <3>2. n # 0
      BY <1>6, <1>2, <3>1
    <3>3. QED
      BY <1>3, <3>2
  <2>2. QED
    BY <2>1
<1>11. ours # {} => 1 \in DOMAIN s /\ Noting(s[1], r)
  <2>1. ours # {} => 1 \in DOMAIN a
    BY <1>2, <1>3, <1>6
  <2>2. QED
    BY <1>6, <1>5, <1>8, <2>1 DEF Noting
<1>12. ASSUME NEW i \in DOMAIN s
       PROVE  s[i].of = r /\ s[i].kind = "append" /\ s[i].then = "none" /\ s[i].arg.run = r
  <2>1. CASE \E j \in DOMAIN a : s[i] = a[j]
    BY <1>6, <2>1
  <2>2. CASE \E j \in DOMAIN b : s[i] = b[j]
    BY <1>7, <2>2
  <2>3. QED
    BY <1>9, <2>1, <2>2
<1>13. s \in Seq(Mutations)
  BY <1>8
<1>14. QED
  BY <1>10, <1>11, <1>12, <1>13

\* An action the broker refuses is noted and halts the run; of one that was not
\* halted the report will say what the broker said.
LEMMA ActsKeeps ==
  ASSUME IInv, NEW r \in Runs, NEW e \in Items, Acts(r, e)
  PROVE  IInv'
<1> DEFINE fresh == {a \in ObserveEvents(e) : ~ Inert(a) /\ \A b \in call[r].actual : b.id # a.id}
           refused == {a \in fresh : ~ CheckAction(a, call[r].permit)}
           denied == {[rule |-> "broker", platform |-> FALSE] : a \in refused}
           n == Cardinality(refused)
           mine == "denial"
           added == Repeated(n, Appends(r, mine, "none"))
           c == [call[r] EXCEPT !.actual = @ \cup fresh, !.denials = @ \cup denied,
                                !.halted = @ \/ refused # {}]
<1>1. stage[r] = "running" /\ stage[r] \in Places /\ health # "down"
      /\ UNCHANGED <<db, disk, health, version, files, trouble, stage, refusals, approvals>>
  BY DEF Acts, Alive, Places, Waiting
<1>2. LocalsOK(call[r]) /\ PlacedOK(r, "running", call[r], World) /\ IsCall(call[r])
  BY <1>1, AtPlace
<1>3. call' = [call EXCEPT ![r] = c]
  <2>1. call = [x \in Runs |-> call[x]]
    BY DEF IInv, Locals
  <2>2. call' = [call EXCEPT ![r].actual = @ \cup fresh, ![r].denials = @ \cup denied,
                             ![r].halted = @ \/ refused # {}]
    BY DEF Acts
  <2> HIDE DEF fresh, refused, denied
  <2>3. QED
    BY <1>2, <2>1, <2>2 DEF IsCall, CallFields
<1>4. queue' = queue \o added
  BY DEF Acts, Notes, Repeated
<1>5. IsFiniteSet(refused) /\ n \in Nat /\ (n = 0 <=> refused = {})
  <2>1. IsFiniteSet(refused)
    BY ItemsAssumption, FS_Subset
  <2>2. QED
    BY <2>1, FS_EmptySet, FS_CardinalityType
<1>6. denied \subseteq Denials /\ (refused = {} => denied = {}) /\ (refused # {} => \E d \in denied : ~ d.platform)
  <2> DEFINE d == [rule |-> "broker", platform |-> FALSE]
  <2>1. d \in Denials /\ ~ d.platform
    BY DEF Denials
  <2>2. \A x : x \in denied <=> (refused # {} /\ x = d)
    OBVIOUS
  <2> HIDE DEF d, refused, denied
  <2>3. QED
    BY <2>1, <2>2
<1>7. \A a \in fresh \ refused : CheckAction(a, call[r].permit)
  OBVIOUS
<1>8. fresh \subseteq ObserveEvents(e) /\ refused \subseteq fresh
  OBVIOUS
<1>9. mine \in EventTypes /\ Entry(r, mine) = Entry(r, "denial")
  BY DEF EventTypes
<1> HIDE DEF fresh, refused, denied, n, mine
<1>10. /\ IsCall(c) /\ c.permit = call[r].permit /\ c.manifest = call[r].manifest /\ c.sidecar = call[r].sidecar
       /\ c.agent = call[r].agent /\ c.policy = call[r].policy /\ c.taint = call[r].taint
       /\ c.barred = call[r].barred /\ c.earned = call[r].earned /\ c.vouched = call[r].vouched
       /\ c.denials = call[r].denials \cup denied /\ c.unread = call[r].unread
       /\ c.halted = (call[r].halted \/ refused # {}) /\ c.report = call[r].report
       /\ c.outcome = call[r].outcome /\ c.todo = call[r].todo /\ c.decision = call[r].decision
       /\ c.actual = call[r].actual \cup fresh /\ c.sent = call[r].sent
  BY <1>2 DEF IsCall, CallFields
<1> HIDE DEF c
<1>11. LocalsOK(c)
  BY <1>2, <1>6, <1>10 DEF LocalsOK, Judged
<1>12. call[r].permit.doors.commands \subseteq Scripts
  <2>1. /\ DOMAIN call[r].permit.verdicts \subseteq Capabilities
        /\ call[r].permit.doors.commands = Doors(GrantedTo(call[r]), call[r].permit.verdicts).commands
    BY <1>2 DEF LocalsOK, PlacedOK, OpensFor, Execution
  <2>2. GrantedTo(call[r]) \subseteq Capabilities
    BY <2>1 DEF GrantedTo, OfTier
  <2>3. QED
    BY <2>1, <2>2, CapabilityFacts DEF Doors
<1>13. ASSUME NEW a \in fresh \ refused
       PROVE  Excused(a) \/ Covered(a, call[r].permit.doors)
  <2>1. a.op = "EXEC" => UnwrapShellCommand(a.target) \in Scripts
    BY <1>8 DEF Scripts, Observed, UnwrapShellCommand
  <2>2. QED
    BY <1>7, <1>12, <2>1, CheckedIsCovered
<1>14. InExecution(c)
  <2>1. InExecution(call[r])
    BY <1>2 DEF PlacedOK
  <2>2. ~ c.halted => refused = {} /\ ~ call[r].halted
    BY <1>10
  <2>3. QED
    BY <1>6, <1>10, <1>13, <2>1, <2>2 DEF InExecution
<1>15. PlacedOK(r, "running", c, World)
  BY <1>2, <1>10, <1>14 DEF PlacedOK, Execution, BeforeDecision, OpensFor, GrantedTo
<1>16. /\ added \in Seq(Mutations) /\ Len(added) = n /\ DOMAIN added = 1..n
       /\ \A i \in DOMAIN added : /\ added[i].of = r /\ added[i].kind = "append" /\ added[i].then = "none"
                                  /\ added[i].arg.run = r /\ added[i].arg = Entry(r, mine)
  BY <1>5, <1>9, NotesFacts
<1> HIDE DEF added
<1>17. RunStep(r, "running", c, added)
  BY <1>1, <1>3, <1>4 DEF RunStep, IInv, TypeOK, trouble
<1>18. Adds(r, "running", c, added)
  BY <1>16 DEF Adds
<1>19. Arrives(r, "running", c)
  <2>1. World' = World /\ "running" \in Places \ {"reporting"}
    BY <1>1 DEF World, Places, Waiting
  <2>2. QED
    BY <1>1, <1>11, <1>15, <2>1 DEF Arrives
<1>20. Noted(r) \/ DOMAIN added # {} => AgentDenials(c) # {}
  <2>1. Noted(r) => AgentDenials(call[r]) # {}
    BY <1>1 DEF IInv, NotesCount, Counted, Waiting
  <2>2. DOMAIN added # {} => refused # {}
    BY <1>5, <1>16
  <2>3. QED
    BY <1>6, <1>10, <2>1, <2>2 DEF AgentDenials
<1>21. NotesFollow(r, "running", c, added)
  BY <1>16, <1>20 DEF NotesFollow
<1>22. QED
  BY <1>1, <1>17, <1>18, <1>19, <1>21, RunStepKeeps

\* What goes with the container leaves the rest of the locals.
LEMMA ClosedFacts ==
  ASSUME NEW c, IsCall(c), NEW k, k = Closed(c)
  PROVE  /\ IsCall(k) /\ IsSidecar(k.sidecar) /\ k.permit = c.permit /\ k.manifest = c.manifest
         /\ k.agent = c.agent /\ k.policy = c.policy /\ k.taint = c.taint
         /\ k.barred = c.barred /\ k.earned = c.earned /\ k.vouched = c.vouched /\ k.denials = c.denials /\ k.unread = {}
         /\ k.halted \in BOOLEAN /\ k.report = c.report /\ k.outcome = c.outcome /\ k.todo = c.todo
         /\ k.decision = c.decision /\ k.actual = {} /\ k.sent = {}
<1> DEFINE s == NoCall(c.permit.run).sidecar
<1>1. IsSidecar(s)
  BY DEF NoCall, IsSidecar, SidecarPermit
<1>2. k = [c EXCEPT !.sidecar = s, !.actual = {}, !.sent = {}, !.unread = {}, !.halted = FALSE]
  BY DEF Closed
<1> HIDE DEF s
<1>3. QED
  BY <1>1, <1>2 DEF IsCall, CallFields

\* A run that was stopped, or whose runtime failed: what was collected is noted.
LEMMA FailsKeeps ==
  ASSUME IInv, NEW r \in Runs, NEW readable \in BOOLEAN, Fails(r, readable)
  PROVE  IInv'
<1> DEFINE added == CollectNotes(r, readable)
           closed == Closed(call[r])
           more == Collected(r, readable)
           ours == OursOf(r, readable)
           c == [closed EXCEPT !.denials = @ \cup more]
           k == IF Caught(r) \in Ended THEN NoCall(r) ELSE c
<1>1. stage[r] = "running" /\ stage[r] \in Places /\ stage[r] \in Execution /\ health # "down"
      /\ UNCHANGED <<db, disk, health, version, files, trouble, refusals, approvals>>
      /\ queue' = queue \o added /\ stage' = [stage EXCEPT ![r] = Caught(r)]
      /\ call' = [call EXCEPT ![r] = k]
  BY DEF Fails, Alive, Places, Waiting, Execution
<1>2. LocalsOK(call[r]) /\ PlacedOK(r, "running", call[r], World) /\ IsCall(call[r])
  BY <1>1, AtPlace
<1>3. /\ Caught(r) \in {"failing", "rejected"} /\ (Caught(r) = "failing" => call[r].outcome = "failed")
      /\ Caught(r) = "rejected" => Entry(r, "approval") \in db.events
  BY <1>1, CaughtFacts
<1>4. more \subseteq Denials
  BY <1>2 DEF Collected, LocalsOK
<1>5. /\ added \in Seq(Mutations)
      /\ \A i \in DOMAIN added : /\ added[i].of = r /\ added[i].kind = "append" /\ added[i].then = "none"
                                 /\ added[i].arg.run = r
      /\ (\E i \in DOMAIN added : Noting(added[i], r)) => ours # {}
  BY <1>4, CollectFacts
<1>6. k = IF Caught(r) = "rejected" THEN NoCall(r) ELSE c
  BY <1>3 DEF Ended
<1>u. closed = Closed(call[r])
  OBVIOUS
<1> HIDE DEF added, k, closed, more
<1>7. /\ IsCall(closed) /\ IsSidecar(closed.sidecar) /\ closed.permit = call[r].permit
      /\ closed.manifest = call[r].manifest
      /\ closed.agent = call[r].agent /\ closed.policy = call[r].policy /\ closed.taint = call[r].taint
      /\ closed.barred = call[r].barred /\ closed.earned = call[r].earned /\ closed.vouched = call[r].vouched
      /\ closed.denials = call[r].denials /\ closed.unread = {}
      /\ closed.halted \in BOOLEAN /\ closed.report = call[r].report /\ closed.outcome = call[r].outcome
      /\ closed.todo = call[r].todo /\ closed.decision = call[r].decision
  BY <1>2, <1>u, ClosedFacts
<1>8. /\ IsCall(c) /\ IsSidecar(c.sidecar) /\ c.permit = call[r].permit /\ c.manifest = call[r].manifest
      /\ c.agent = call[r].agent /\ c.policy = call[r].policy /\ c.taint = call[r].taint
      /\ c.barred = call[r].barred /\ c.earned = call[r].earned /\ c.vouched = call[r].vouched
      /\ c.denials = call[r].denials \cup more /\ c.unread = {}
      /\ c.halted \in BOOLEAN /\ c.report = call[r].report /\ c.outcome = call[r].outcome
      /\ c.todo = call[r].todo /\ c.decision = call[r].decision
  BY <1>7 DEF IsCall, CallFields
<1> HIDE DEF c
<1>9. LocalsOK(c)
  BY <1>2, <1>4, <1>8 DEF LocalsOK, Judged
<1>10. LocalsOK(k)
  BY <1>6, <1>9, NoCallOK
<1>11. Caught(r) # "rejected" => PlacedOK(r, Caught(r), k, World)
  BY <1>2, <1>3, <1>6, <1>8 DEF PlacedOK, Evidence, OutcomeAt, DecisionAt, Execution, BeforeDecision
<1>12. RunStep(r, Caught(r), k, added)
  BY <1>1 DEF RunStep, IInv, TypeOK, trouble
<1>13. Adds(r, Caught(r), k, added)
  BY <1>5 DEF Adds
<1>14. Arrives(r, Caught(r), k)
  <2>1. World' = World
    BY <1>1 DEF World
  <2>2. QED
    BY <1>1, <1>3, <1>10, <1>11, <2>1 DEF Arrives, Places, Waiting
<1>15. Caught(r) # "rejected" /\ (Noted(r) \/ \E i \in DOMAIN added : Noting(added[i], r)) => AgentDenials(k) # {}
  <2>1. Noted(r) => AgentDenials(call[r]) # {}
    BY <1>1 DEF IInv, NotesCount, Counted, Waiting
  <2>2. QED
    BY <1>5, <1>6, <1>8, <2>1 DEF AgentDenials, OursOf, more
<1>16. NotesFollow(r, Caught(r), k, added)
  BY <1>3, <1>5, <1>15 DEF NotesFollow, Waiting
<1>17. QED
  BY <1>1, <1>12, <1>13, <1>14, <1>16, RunStepKeeps

\* What a run did and the report calls undeclared, the broker has an excuse for.
LEMMA ReportIsExcused ==
  ASSUME NEW p, NEW seen, NEW changed, \A a \in seen : Excused(a) \/ Covered(a, p.doors),
         NEW report,
         report = UndeclaredActions(p, seen \cup {[op |-> "FS_WRITE", target |-> Target(x, FALSE), id |-> <<"diff", x>>] :
                                             x \in changed})
  PROVE  \A a \in report : Excused(a)
<1> DEFINE diff == {[op |-> "FS_WRITE", target |-> Target(x, FALSE), id |-> <<"diff", x>>] : x \in changed}
<1>1. report = UndeclaredActions(p, seen \cup diff)
  OBVIOUS
<1>2. ASSUME NEW a \in diff
      PROVE  Excused(a)
  <2>1. PICK x \in changed : a = [op |-> "FS_WRITE", target |-> Target(x, FALSE), id |-> <<"diff", x>>]
    OBVIOUS
  <2>2. a.id = <<"diff", x>>
    BY <2>1
  <2>3. a.id[1] = "diff"
    BY <2>2
  <2>4. QED
    BY <2>3 DEF Excused
<1> HIDE DEF diff
<1>3. ASSUME NEW a \in report
      PROVE  Excused(a)
  <2>1. a \in seen \cup diff /\ ~ Covered(a, p.doors)
    BY <1>1, <1>3 DEF UndeclaredActions, Covered
  <2>2. QED
    BY <1>2, <2>1
<1>4. QED
  BY <1>3

\* A run that came to its end: what was collected is noted before the report.
LEMMA ReconcilesKeeps ==
  ASSUME IInv, NEW r \in Runs, NEW readable \in BOOLEAN, Reconciles(r, readable)
  PROVE  IInv'
<1>1. /\ stage[r] = "running" /\ stage[r] \in Places /\ health # "down" /\ ~ call[r].halted
      /\ UNCHANGED <<db, disk, health, version, files, trouble, refusals, approvals>>
      /\ stage' = [stage EXCEPT ![r] = "writing"]
  BY DEF Reconciles, Alive, Places, Waiting
<1>2. LocalsOK(call[r]) /\ PlacedOK(r, "running", call[r], World) /\ IsCall(call[r])
      /\ World.events = db.events
  BY <1>1, AtPlace DEF World
<1> DEFINE old == call[r]
<1>3. PICK changed :
        call' = [call EXCEPT ![r] = [Closed(old) EXCEPT !.outcome = "completed",
                    !.denials = @ \cup Collected(r, readable),
                    !.report = UndeclaredActions(old.permit,
                                 old.actual \cup {[op |-> "FS_WRITE", target |-> Target(x, FALSE), id |-> <<"diff", x>>] :
                                                    x \in changed})]]
  BY DEF Reconciles
<1> DEFINE report == UndeclaredActions(old.permit,
                       old.actual \cup {[op |-> "FS_WRITE", target |-> Target(x, FALSE), id |-> <<"diff", x>>] :
                                          x \in changed})
           closed == Closed(old)
           more == Collected(r, readable)
           ours == OursOf(r, readable)
           c == [closed EXCEPT !.outcome = "completed", !.denials = @ \cup more, !.report = report]
           type == "reconciliation"
           at == "reporting"
           op == Appends(r, type, at)
           notes == CollectNotes(r, readable)
           added == notes \o <<op>>
<1>4. call' = [call EXCEPT ![r] = c]
  BY <1>3
<1>5. type \in EventTypes /\ type # "denial" /\ at \in Waiting /\ at = "reporting"
      /\ Entry(r, type) = Entry(r, "reconciliation")
  BY DEF EventTypes, Waiting
<1> HIDE DEF type, at
<1>6. /\ op \in Mutations /\ op.of = r /\ op.kind = "append" /\ op.arg = Entry(r, type) /\ op.then = at
       /\ op.arg.run = r /\ op.arg.type = type
  BY <1>5, AppendsFits
<1>7. queue' = queue \o added
  <2>1. queue' = queue \o notes \o <<op>>
    BY DEF Reconciles, type, at
  <2>2. queue \in Seq(Mutations) /\ notes \in Seq(Mutations)
    BY <1>2, CollectFacts DEF IInv, TypeOK, LocalsOK, Collected
  <2>3. <<op>> \in Seq(Mutations)
    BY <1>6
  <2>4. ASSUME NEW a \in Seq(Mutations), NEW b \in Seq(Mutations), NEW d \in Seq(Mutations)
        PROVE  (a \o b) \o d = a \o (b \o d)
    OBVIOUS
  <2>5. (queue \o notes) \o <<op>> = queue \o (notes \o <<op>>)
    BY <2>2, <2>3, <2>4
  <2>6. QED
    BY <2>1, <2>5
<1>8. closed = Closed(call[r])
  OBVIOUS
<1>9. \A a \in report : Excused(a)
  <2>1. \A a \in call[r].actual : Excused(a) \/ Covered(a, call[r].permit.doors)
    BY <1>1, <1>2 DEF PlacedOK, InExecution
  <2>2. QED
    BY <2>1, ReportIsExcused
<1> HIDE DEF report, closed
<1>10. /\ IsCall(closed) /\ IsSidecar(closed.sidecar) /\ closed.permit = call[r].permit
      /\ closed.manifest = call[r].manifest
      /\ closed.agent = call[r].agent /\ closed.policy = call[r].policy /\ closed.taint = call[r].taint
      /\ closed.barred = call[r].barred /\ closed.earned = call[r].earned /\ closed.vouched = call[r].vouched
      /\ closed.denials = call[r].denials /\ closed.unread = {}
      /\ closed.halted \in BOOLEAN /\ closed.todo = call[r].todo /\ closed.decision = call[r].decision
  BY <1>2, <1>8, ClosedFacts
<1>11. call[r].denials = {}
  BY <1>1, <1>2 DEF PlacedOK, InExecution
<1>12. /\ IsCall(c) /\ IsSidecar(c.sidecar) /\ c.permit = call[r].permit /\ c.manifest = call[r].manifest
       /\ c.agent = call[r].agent /\ c.policy = call[r].policy /\ c.taint = call[r].taint
       /\ c.barred = call[r].barred /\ c.earned = call[r].earned /\ c.vouched = call[r].vouched
       /\ c.denials = more /\ c.unread = {}
       /\ c.halted \in BOOLEAN /\ c.report = report /\ c.outcome = "completed"
       /\ c.todo = call[r].todo /\ c.decision = call[r].decision
  BY <1>10, <1>11 DEF IsCall, CallFields
<1> HIDE DEF c
<1>13. more \subseteq Denials
  BY <1>2 DEF Collected, LocalsOK
<1>14. LocalsOK(c)
  BY <1>2, <1>9, <1>12, <1>13 DEF LocalsOK, Judged, Outcomes
<1>15. AgentDenials(c) = ours
  BY <1>12 DEF AgentDenials, OursOf
<1> HIDE DEF op, more, ours
<1>16. PlacedOK(r, at, c, After(World', op))
  <2>1. /\ After(World', op).version = version /\ After(World', op).events = db.events \cup {Entry(r, type)}
    BY <1>1, <1>6, AfterFits
  <2>2. QED
    BY <1>2, <1>5, <1>12, <2>1 DEF PlacedOK, Evidence, OutcomeAt, DecisionAt, Execution, BeforeDecision
<1>17. OpFits(op, c)
  BY <1>5, <1>6 DEF OpFits
<1>18. /\ notes \in Seq(Mutations)
       /\ \A i \in DOMAIN notes : /\ notes[i].of = r /\ notes[i].kind = "append" /\ notes[i].then = "none"
                                  /\ notes[i].arg.run = r
       /\ (\E i \in DOMAIN notes : Noting(notes[i], r)) => ours # {}
       /\ ours # {} => 1 \in DOMAIN notes /\ Noting(notes[1], r)
  BY <1>13, CollectFacts DEF more, ours
<1> DEFINE last == Len(notes) + 1
<1>19. /\ added \in Seq(Mutations) /\ last \in DOMAIN added /\ added[last] = op
       /\ \A i \in DOMAIN notes : i \in DOMAIN added /\ added[i] = notes[i] /\ i \in 1..(last - 1)
       /\ \A i \in DOMAIN added : i \in DOMAIN notes \/ i = last
  <2>1. <<op>> \in Seq(Mutations) /\ DOMAIN <<op>> = {1} /\ <<op>>[1] = op
    BY <1>6
  <2> DEFINE one == <<op>>
  <2>2. one \in Seq(Mutations) /\ DOMAIN one = {1} /\ one[1] = op /\ added = notes \o one
    BY <2>1
  <2> HIDE DEF one, notes, added
  <2>3. /\ added \in Seq(Mutations) /\ Len(notes) \in Nat /\ DOMAIN notes = 1..Len(notes)
        /\ \A i \in DOMAIN notes : i \in DOMAIN added /\ added[i] = notes[i]
        /\ \A i \in DOMAIN one : Len(notes) + i \in DOMAIN added /\ added[Len(notes) + i] = one[i]
        /\ \A i \in DOMAIN added : i \in DOMAIN notes \/ \E j \in DOMAIN one : i = Len(notes) + j
    BY <1>18, <2>2, Lengthened
  <2>4. QED
    BY <2>2, <2>3
<1> HIDE DEF last, notes, added
<1>20. RunStep(r, "writing", c, added)
  BY <1>1, <1>4, <1>7 DEF RunStep, IInv, TypeOK, trouble
<1>21. Adds(r, "writing", c, added)
  <2>1. ASSUME NEW i \in DOMAIN added
        PROVE  LET x == added[i] IN
               /\ x.of = r /\ (x.kind = "append" => x.arg.run = r)
               /\ x.then = "none" => x.kind = "append"
               /\ x.then # "none" => i = last /\ PlacedOK(r, x.then, c, After(World', x)) /\ OpFits(x, c)
               /\ x.kind # "precedent"
    <3>1. CASE i \in DOMAIN notes
      BY <1>18, <1>19, <3>1
    <3>2. CASE i = last
      BY <1>5, <1>6, <1>16, <1>17, <1>19, <3>2
    <3>3. QED
      BY <1>19, <3>1, <3>2
  <2>2. QED
    BY <1>19, <2>1 DEF Adds
<1>22. Arrives(r, "writing", c)
  BY <1>1, <1>14 DEF Arrives, Places
<1>23. NotesFollow(r, "writing", c, added)
  <2>1. ~ Noted(r)
    BY <1>1, <1>11 DEF IInv, NotesCount, Counted, Waiting, AgentDenials
  <2>2. (\E i \in DOMAIN added : Noting(added[i], r)) => ours # {}
    <3>1. ~ Noting(op, r)
      BY <1>5, <1>6 DEF Noting, Entry
    <3>2. QED
      BY <1>18, <1>19, <3>1
  <2>3. ASSUME NEW j \in DOMAIN added, added[j].then # "none", ours # {}
        PROVE  \E i \in 1..(j - 1) : Noting(added[i], r)
    <3>1. j = last
      BY <1>18, <1>19, <2>3
    <3>2. QED
      BY <1>18, <1>19, <2>3, <3>1
  <2>4. QED
    BY <1>15, <2>1, <2>2, <2>3 DEF NotesFollow
<1>24. QED
  BY <1>1, <1>20, <1>21, <1>22, <1>23, RunStepKeeps

-----------------------------------------------------------------------------
(* The store *)

\* The mutation whose turn it is, and those that still wait.
LEMMA HeadTail ==
  ASSUME NEW T, NEW s \in Seq(T), s # << >>
  PROVE  /\ 1 \in DOMAIN s /\ Head(s) = s[1] /\ Head(s) \in T /\ Tail(s) \in Seq(T)
         /\ DOMAIN s \subseteq Nat \ {0} /\ DOMAIN Tail(s) \subseteq Nat \ {0}
         /\ \A i \in DOMAIN Tail(s) : i + 1 \in DOMAIN s /\ i + 1 # 1 /\ Tail(s)[i] = s[i + 1]
         /\ \A i \in DOMAIN s : i # 1 => i - 1 \in DOMAIN Tail(s) /\ Tail(s)[i - 1] = s[i]
<1>1. Len(s) \in Nat \ {0} /\ DOMAIN s = 1..Len(s)
  OBVIOUS
<1>2. Tail(s) \in Seq(T) /\ Len(Tail(s)) = Len(s) - 1 /\ DOMAIN Tail(s) = 1..(Len(s) - 1)
  OBVIOUS
<1>3. \A i \in 1..(Len(s) - 1) : Tail(s)[i] = s[i + 1]
  OBVIOUS
<1>4. 1 \in DOMAIN s /\ Head(s) = s[1] /\ Head(s) \in T
  OBVIOUS
<1> DEFINE n == Len(s)
<1> HIDE DEF n
<1>5. \A i \in 1..(n - 1) : i + 1 \in 1..n /\ i + 1 # 1
  BY <1>1 DEF n
<1>6. \A i \in 1..n : i # 1 => i - 1 \in 1..(n - 1) /\ (i - 1) + 1 = i
  BY <1>1 DEF n
<1>7. QED
  BY <1>1, <1>2, <1>3, <1>4, <1>5, <1>6 DEF n

\* What a mutation may be.
LEMMA MutationFacts ==
  ASSUME NEW op \in Mutations
  PROVE  /\ op.kind \in {"append", "save", "precedent", "invalidate"}
         /\ op.then \in Waiting \cup Ended \cup {"none"}
         /\ op.kind = "append" => op.arg \in [run : Runs, type : EventTypes]
         /\ op.kind = "save" => op.arg \in Records /\ op.then # "none"
         /\ op.kind = "precedent" => op.arg \in Precedents /\ op.then # "none"
<1>1. CASE op \in [of : Runs, kind : {"append"}, arg : [run : Runs, type : EventTypes],
                   then : Waiting \cup {"none"}]
  BY <1>1
<1>2. CASE op \in [of : Runs, kind : {"save"}, arg : Records, then : Waiting \cup Ended]
  BY <1>2 DEF Waiting, Ended
<1>3. CASE op \in [of : Runs, kind : {"precedent"}, arg : Precedents, then : Waiting]
  BY <1>3 DEF Waiting
<1>4. CASE op = Invalidates
  BY <1>4 DEF Invalidates
<1>5. QED
  BY <1>1, <1>2, <1>3, <1>4 DEF Mutations

\* The records of a run in d are some of those in d0, and it has one if it had one there.
KeepsRun(d0, d, r) == (Recorded(d0, r) => Recorded(d, r)) /\ \A x \in Held(d) : x.run = r => x \in Held(d0)

\* Where records change in place, their number stays.
LEMMA InPlace ==
  ASSUME NEW s \in Seq(Records), NEW t, t = [i \in DOMAIN s |-> t[i]], \A i \in DOMAIN s : t[i] \in Records
  PROVE  t \in Seq(Records) /\ Len(t) = Len(s) /\ DOMAIN t = DOMAIN s
<1>1. Len(s) \in Nat /\ DOMAIN s = 1..Len(s)
  OBVIOUS
<1> DEFINE n == Len(s)
<1> HIDE DEF n
<1>2. n \in Nat /\ t = [i \in 1..n |-> t[i]] /\ \A i \in 1..n : t[i] \in Records
  BY <1>1 DEF n
<1>3. t \in Seq(Records) /\ Len(t) = n /\ DOMAIN t = 1..n
  BY <1>2
<1>4. QED
  BY <1>1, <1>3 DEF n

\* What the run assigned to its record since shows when the memory is written: the
\* records keep their runs, and those of runs that ended do not change.
LEMMA RefreshedFacts ==
  ASSUME IInv, NEW d \in Dbs, NEW e, e = Refreshed(d)
  PROVE  /\ e \in Dbs /\ e.events = d.events /\ e.precedents = d.precedents
         /\ \A r : ~ IsLive(r) => KeepsRun(d, e, r)
<1> DEFINE s == d.runs
           t == [i \in DOMAIN s |-> Current(s[i])]
<1>1. e = [d EXCEPT !.runs = t]
  BY DEF Refreshed
<1>2. ASSUME NEW x \in Records
      PROVE  Current(x) \in Records /\ Current(x).run = x.run /\ (~ IsLive(x.run) => Current(x) = x)
  <2>1. call[x.run].outcome \in Outcomes /\ call[x.run].denials \subseteq Denials
    BY DEF IInv, TypeOK, Records
  <2>2. QED
    BY <2>1 DEF Records, Current
<1>3. d = [events |-> d.events, precedents |-> d.precedents, runs |-> s] /\ s \in Seq(Records)
      /\ d.events \subseteq [run : Runs, type : EventTypes] /\ d.precedents \subseteq Precedents
  BY DEF Dbs
<1>4. \A i \in DOMAIN s : s[i] \in Records
  BY <1>3
<1>5. t \in Seq(Records) /\ Len(t) = Len(s) /\ DOMAIN t = DOMAIN s
  <2>1. t = [i \in DOMAIN s |-> t[i]] /\ \A i \in DOMAIN s : t[i] \in Records
    BY <1>2, <1>4
  <2> HIDE DEF s, t
  <2>2. QED
    BY <1>3, <2>1, InPlace
<1>6. \A i \in DOMAIN s : t[i].run = s[i].run /\ (~ IsLive(s[i].run) => t[i] = s[i])
  BY <1>2, <1>4
<1>7. e = [events |-> d.events, precedents |-> d.precedents, runs |-> t]
  BY <1>1, <1>3
<1> HIDE DEF t
<1>8. ASSUME NEW r, ~ IsLive(r)
      PROVE  KeepsRun(d, e, r)
  <2>1. Full(e) <=> Full(d)
    BY <1>5, <1>7 DEF Full
  <2>2. \A x \in Held(e) : x.run = r => x \in Held(d)
    BY <1>5, <1>6, <1>7, <1>8 DEF Held
  <2>3. ASSUME NEW x \in Held(d), x.run = r
        PROVE  \E y \in Held(e) : y.run = r
    BY <1>5, <1>6, <1>7, <2>3 DEF Held
  <2>4. QED
    BY <2>1, <2>2, <2>3 DEF KeepsRun, Recorded
<1>9. QED
  BY <1>3, <1>5, <1>7, <1>8 DEF Dbs

\* A record takes the place of the run's earlier one, or comes last.
HasPlace(record, t, s) ==
    /\ Len(t) >= Len(s)
    /\ \E i \in DOMAIN t : t[i] = record
    /\ \A i \in DOMAIN t : t[i].run = record.run => t[i] = record
    /\ \A i \in DOMAIN t : t[i].run # record.run => \E j \in DOMAIN s : s[j] = t[i]
    /\ \A j \in DOMAIN s : s[j].run # record.run => \E i \in DOMAIN t : t[i] = s[j]
LEMMA PlacedFacts ==
  ASSUME NEW s \in Seq(Records), NEW record \in Records
  PROVE  Placed(s, record) \in Seq(Records) /\ HasPlace(record, Placed(s, record), s)
<1> DEFINE t == Placed(s, record)
<1> SUFFICES t \in Seq(Records) /\ HasPlace(record, t, s)
  OBVIOUS
<1>1. Len(s) \in Nat /\ DOMAIN s = 1..Len(s) /\ \A i \in DOMAIN s : s[i] \in Records
  OBVIOUS
<1>2. CASE \E i \in DOMAIN s : s[i].run = record.run
  <2>1. t = [i \in DOMAIN s |-> IF s[i].run = record.run THEN record ELSE s[i]]
    BY <1>2 DEF Placed
  <2> HIDE DEF t
  <2>2. t = [i \in DOMAIN s |-> t[i]] /\ \A i \in DOMAIN s : t[i] \in Records
    BY <1>1, <2>1
  <2>3. t \in Seq(Records) /\ Len(t) = Len(s) /\ DOMAIN t = DOMAIN s
    BY <2>2, InPlace
  <2>4. \A i \in DOMAIN s : t[i] = IF s[i].run = record.run THEN record ELSE s[i]
    BY <2>1
  <2>5. QED
    BY <1>1, <1>2, <2>3, <2>4 DEF HasPlace
<1>3. CASE ~ \E i \in DOMAIN s : s[i].run = record.run
  <2>1. t = Append(s, record)
    BY <1>3 DEF Placed
  <2> HIDE DEF t
  <2>2. t \in Seq(Records) /\ Len(t) = Len(s) + 1 /\ DOMAIN t = 1..(Len(s) + 1)
    BY <2>1
  <2>3. t[Len(s) + 1] = record /\ \A i \in 1..Len(s) : t[i] = s[i]
    BY <1>1, <2>1
  <2> DEFINE n == Len(s)
  <2> HIDE DEF n
  <2>4. /\ n \in Nat /\ n + 1 \in 1..(n + 1) /\ \A i \in 1..n : i \in 1..(n + 1)
        /\ \A i \in 1..(n + 1) : i = n + 1 \/ i \in 1..n
    BY <1>1 DEF n
  <2>5. QED
    BY <1>1, <1>3, <2>2, <2>3, <2>4 DEF n, HasPlace
<1>4. QED
  BY <1>2, <1>3

\* Beyond the bound the oldest go.
LEMMA NewestFacts ==
  ASSUME NEW t \in Seq(Records), NEW n, n = Newest(t)
  PROVE  /\ n \in Seq(Records) /\ \A i \in DOMAIN n : \E j \in DOMAIN t : n[i] = t[j]
         /\ Len(t) <= MaxRuns => n = t
         /\ Len(t) > MaxRuns => Len(n) = MaxRuns
<1>1. Len(t) \in Nat /\ MaxRuns \in Nat \ {0} /\ DOMAIN t = 1..Len(t)
  BY LedgerAssumption
<1>2. CASE Len(t) > MaxRuns
  <2> DEFINE k == Len(t) - MaxRuns
  <2>1. n = SubSeq(t, k + 1, Len(t))
    BY <1>2 DEF Newest
  <2>2. k \in Nat /\ k + 1 \in 1..Len(t) /\ Len(t) - (k + 1) + 1 = MaxRuns
    BY <1>1, <1>2
  <2>3. n \in Seq(Records) /\ Len(n) = MaxRuns /\ DOMAIN n = 1..MaxRuns
        /\ \A i \in 1..MaxRuns : n[i] = t[(k + 1) + i - 1]
    BY <1>1, <2>1, <2>2, SubSeqProperties
  <2>4. \A i \in 1..MaxRuns : (k + 1) + i - 1 \in 1..Len(t)
    BY <1>1, <1>2
  <2>5. QED
    BY <1>1, <1>2, <2>3, <2>4
<1>3. CASE ~ (Len(t) > MaxRuns)
  BY <1>1, <1>3 DEF Newest
<1>4. QED
  BY <1>2, <1>3

\* What a save leaves of the records: its run has that record, or room was made for as
\* many newer ones as are kept; no other run loses its own but to make room.
LEMMA SaveRunFacts ==
  ASSUME NEW e \in Dbs, NEW record \in Records, NEW d, d = SaveRun(e, record)
  PROVE  /\ d \in Dbs /\ d.events = e.events /\ d.precedents = e.precedents
         /\ Recorded(d, record.run) /\ \A x \in Held(d) : x.run = record.run => x = record
         /\ \A r : r # record.run => KeepsRun(e, d, r)
<1> DEFINE s == e.runs
           t == Placed(s, record)
           n == Newest(t)
<1>1. e = [events |-> e.events, precedents |-> e.precedents, runs |-> s] /\ s \in Seq(Records)
      /\ e.events \subseteq [run : Runs, type : EventTypes] /\ e.precedents \subseteq Precedents
  BY DEF Dbs
<1>2. d = [events |-> e.events, precedents |-> e.precedents, runs |-> n]
  BY <1>1 DEF SaveRun
<1>p. s \in Seq(Records) /\ t = Placed(s, record)
  BY <1>1
<1> HIDE DEF n, s, t
<1>3. /\ t \in Seq(Records) /\ Len(t) >= Len(s)
      /\ \E i \in DOMAIN t : t[i] = record
      /\ \A i \in DOMAIN t : t[i].run = record.run => t[i] = record
      /\ \A i \in DOMAIN t : t[i].run # record.run => \E j \in DOMAIN s : s[j] = t[i]
      /\ \A j \in DOMAIN s : s[j].run # record.run => \E i \in DOMAIN t : t[i] = s[j]
  <2>1. t \in Seq(Records) /\ HasPlace(record, t, s)
    BY <1>p, PlacedFacts
  <2>2. QED
    BY <2>1 DEF HasPlace
<1>4. /\ n \in Seq(Records) /\ \A i \in DOMAIN n : \E j \in DOMAIN t : n[i] = t[j]
      /\ Len(t) <= MaxRuns => n = t
      /\ Len(t) > MaxRuns => Len(n) = MaxRuns
  BY <1>3, NewestFacts DEF n
<1>5. Len(s) \in Nat /\ Len(t) \in Nat /\ MaxRuns \in Nat
  BY <1>1, <1>3, LedgerAssumption
<1>6. Len(t) <= MaxRuns \/ Len(t) > MaxRuns
  BY <1>5
<1>7. Len(t) > MaxRuns => Full(d)
  BY <1>2, <1>4, <1>5 DEF Full
<1>8. Full(e) => Full(d)
  <2>1. Full(e) => Len(t) >= MaxRuns
    BY <1>3, <1>5, <1>1 DEF Full, s
  <2>2. Len(t) <= MaxRuns => d.runs = t
    BY <1>2, <1>4
  <2>3. QED
    BY <1>5, <1>6, <1>7, <2>1, <2>2 DEF Full
<1>9. \A x \in Held(d) : \E j \in DOMAIN t : x = t[j]
  BY <1>2, <1>4 DEF Held
<1>10. Len(t) <= MaxRuns => \A j \in DOMAIN t : t[j] \in Held(d)
  BY <1>2, <1>4 DEF Held
<1>11. Recorded(d, record.run) /\ \A x \in Held(d) : x.run = record.run => x = record
  <2>1. \A x \in Held(d) : x.run = record.run => x = record
    BY <1>3, <1>9
  <2>2. ASSUME Len(t) <= MaxRuns
        PROVE  \E x \in Held(d) : x.run = record.run
    BY <1>3, <1>10, <2>2
  <2>3. QED
    BY <1>6, <1>7, <2>1, <2>2 DEF Recorded
<1>12. ASSUME NEW r, r # record.run
       PROVE  KeepsRun(e, d, r)
  <2>1. ASSUME NEW x \in Held(d), x.run = r
        PROVE  x \in Held(e)
    <3>1. \E j \in DOMAIN s : s[j] = x
      BY <1>3, <1>9, <1>12, <2>1
    <3>2. QED
      BY <3>1 DEF Held, s
  <2>2. ASSUME NEW x \in Held(e), x.run = r, Len(t) <= MaxRuns
        PROVE  x \in Held(d)
    BY <1>3, <1>10, <1>12, <2>2 DEF Held, s
  <2>3. QED
    BY <1>6, <1>7, <1>8, <2>1, <2>2 DEF KeepsRun, Recorded
<1>13. QED
  BY <1>1, <1>2, <1>4, <1>11, <1>12 DEF Dbs

\* A precedent takes the place of the one it agrees with, but an approval never that
\* of a denial.
LEMMA RecordPrecedentFacts ==
  ASSUME NEW e \in Dbs, NEW p \in Precedents, NEW d, d = RecordPrecedent(e, p)
  PROVE  /\ d \in Dbs /\ d.events = e.events /\ d.runs = e.runs
         /\ \A x \in e.precedents : x.decision = "denied" => DeniedIn(d, x.agent, x.fp)
         /\ p.decision = "denied" => DeniedIn(d, p.agent, p.fp)
         /\ d.precedents \subseteq e.precedents \cup {p}
<1>1. e = [events |-> e.events, precedents |-> e.precedents, runs |-> e.runs] /\ e.runs \in Seq(Records)
      /\ e.events \subseteq [run : Runs, type : EventTypes] /\ e.precedents \subseteq Precedents
  BY DEF Dbs
<1>2. CASE KeepsDenial(e, p)
  <2>1. d = e /\ p.decision # "denied"
    BY <1>2 DEF RecordPrecedent, KeepsDenial
  <2>2. QED
    BY <2>1 DEF DeniedIn
<1>3. CASE ~ KeepsDenial(e, p)
  <2> DEFINE kept == {x \in e.precedents : ~ SamePlace(x, p)} \cup {p}
  <2>1. d = [events |-> e.events, precedents |-> kept, runs |-> e.runs]
    BY <1>1, <1>3 DEF RecordPrecedent
  <2>2. kept \subseteq Precedents /\ kept \subseteq e.precedents \cup {p} /\ p \in kept
    BY <1>1
  <2>3. ASSUME NEW x \in e.precedents, x.decision = "denied"
        PROVE  \E y \in kept : y.agent = x.agent /\ y.fp = x.fp /\ y.decision = "denied"
    <3>1. CASE SamePlace(x, p)
      <4>1. p.decision = "denied"
        BY <1>3, <2>3, <3>1 DEF KeepsDenial, Precedents
      <4>2. QED
        BY <3>1, <4>1 DEF SamePlace
    <3>2. CASE ~ SamePlace(x, p)
      BY <2>3, <3>2
    <3>3. QED
      BY <3>1, <3>2
  <2> HIDE DEF kept
  <2>4. d \in Dbs /\ d.events = e.events /\ d.runs = e.runs /\ d.precedents = kept
    BY <1>1, <2>1, <2>2 DEF Dbs
  <2>5. QED
    BY <2>2, <2>3, <2>4 DEF DeniedIn
<1>4. QED
  BY <1>2, <1>3

\* What is done at every start, and when an operator writes a policy.
LEMMA InvalidateFacts ==
  ASSUME NEW e \in Dbs, NEW v, NEW d, d = InvalidateApprovals(e, v)
  PROVE  /\ d \in Dbs /\ d.events = e.events /\ d.runs = e.runs
         /\ \A x \in e.precedents : x.decision = "denied" => DeniedIn(d, x.agent, x.fp)
         /\ d.precedents \subseteq e.precedents
<1> DEFINE kept == {x \in e.precedents : SurvivesVersion(x, v)}
<1>1. e = [events |-> e.events, precedents |-> e.precedents, runs |-> e.runs] /\ e.runs \in Seq(Records)
      /\ e.events \subseteq [run : Runs, type : EventTypes] /\ e.precedents \subseteq Precedents
  BY DEF Dbs
<1>2. kept \subseteq e.precedents /\ \A x \in e.precedents : x.decision = "denied" => x \in kept
  BY DEF SurvivesVersion
<1>3. d = [events |-> e.events, precedents |-> kept, runs |-> e.runs]
  BY <1>1 DEF InvalidateApprovals
<1> HIDE DEF kept
<1>4. QED
  BY <1>1, <1>2, <1>3 DEF Dbs, DeniedIn

\* What a mutation does to the memory: nothing on the ledger and no denial is lost.
LEMMA AppliedFacts ==
  ASSUME IInv, NEW op \in Mutations, NEW d, d = Apply(Refreshed(db), op, version)
  PROVE  /\ d \in Dbs
         /\ d.events = db.events \cup (IF op.kind = "append" THEN {op.arg} ELSE {})
         /\ \A x \in db.precedents : x.decision = "denied" => DeniedIn(d, x.agent, x.fp)
         /\ op.kind = "precedent" /\ op.arg.decision = "denied" => DeniedIn(d, op.arg.agent, op.arg.fp)
         /\ d.precedents \subseteq db.precedents \cup (IF op.kind = "precedent" THEN {op.arg} ELSE {})
         /\ \A r : ~ IsLive(r) /\ (op.kind = "save" => r # op.arg.run) => KeepsRun(db, d, r)
         /\ op.kind = "save" => /\ Recorded(d, op.arg.run)
                                /\ \A x \in Held(d) : x.run = op.arg.run => x = op.arg
<1> DEFINE e == Refreshed(db)
<1>1. db \in Dbs
  BY DEF IInv, TypeOK
<1>2. /\ e \in Dbs /\ e.events = db.events /\ e.precedents = db.precedents
      /\ \A r : ~ IsLive(r) => KeepsRun(db, e, r)
  BY <1>1, RefreshedFacts
<1>3. /\ op.kind \in {"append", "save", "precedent", "invalidate"}
      /\ op.kind = "append" => op.arg \in [run : Runs, type : EventTypes]
      /\ op.kind = "save" => op.arg \in Records
      /\ op.kind = "precedent" => op.arg \in Precedents
  BY MutationFacts
<1> HIDE DEF e
<1>4. ASSUME NEW f, f.runs = e.runs, NEW r, ~ IsLive(r)
      PROVE  KeepsRun(db, f, r)
  BY <1>2, <1>4 DEF KeepsRun, Recorded, Held, Full
<1>5. CASE op.kind = "append"
  <2>1. d = [e EXCEPT !.events = @ \cup {op.arg}]
    BY <1>5 DEF Apply, AppendEvent, e
  <2>2. e = [events |-> e.events, precedents |-> e.precedents, runs |-> e.runs] /\ e.runs \in Seq(Records)
        /\ e.events \subseteq [run : Runs, type : EventTypes] /\ e.precedents \subseteq Precedents
    BY <1>2 DEF Dbs
  <2>3. d = [events |-> e.events \cup {op.arg}, precedents |-> e.precedents, runs |-> e.runs]
    BY <2>1, <2>2
  <2>4. QED
    BY <1>2, <1>3, <1>5, <1>4, <2>2, <2>3 DEF Dbs, DeniedIn
<1>6. CASE op.kind = "save"
  <2>1. d = SaveRun(e, op.arg)
    BY <1>6 DEF Apply, e
  <2>2. /\ d \in Dbs /\ d.events = e.events /\ d.precedents = e.precedents
        /\ Recorded(d, op.arg.run) /\ \A x \in Held(d) : x.run = op.arg.run => x = op.arg
        /\ \A r : r # op.arg.run => KeepsRun(e, d, r)
    BY <1>2, <1>3, <1>6, <2>1, SaveRunFacts
  <2>3. \A r : KeepsRun(db, e, r) /\ KeepsRun(e, d, r) => KeepsRun(db, d, r)
    BY DEF KeepsRun
  <2>4. QED
    BY <1>2, <1>6, <2>2, <2>3 DEF DeniedIn
<1>7. CASE op.kind = "precedent"
  <2>1. d = RecordPrecedent(e, op.arg)
    BY <1>7 DEF Apply, e
  <2>2. /\ d \in Dbs /\ d.events = e.events /\ d.runs = e.runs
        /\ \A x \in e.precedents : x.decision = "denied" => DeniedIn(d, x.agent, x.fp)
        /\ op.arg.decision = "denied" => DeniedIn(d, op.arg.agent, op.arg.fp)
        /\ d.precedents \subseteq e.precedents \cup {op.arg}
    BY <1>2, <1>3, <1>7, <2>1, RecordPrecedentFacts
  <2>3. QED
    BY <1>2, <1>7, <1>4, <2>2
<1>8. CASE op.kind = "invalidate"
  <2>1. d = InvalidateApprovals(e, version)
    BY <1>8 DEF Apply, e
  <2>2. /\ d \in Dbs /\ d.events = e.events /\ d.runs = e.runs
        /\ \A x \in e.precedents : x.decision = "denied" => DeniedIn(d, x.agent, x.fp)
        /\ d.precedents \subseteq e.precedents
    BY <1>2, <2>1, InvalidateFacts
  <2>3. QED
    BY <1>2, <1>8, <1>4, <2>2
<1>9. QED
  BY <1>3, <1>5, <1>6, <1>7, <1>8

\* Where a run whose awaited write failed goes on.
LEMMA AfterFailureFacts ==
  ASSUME NEW op
  PROVE  /\ AfterFailure(op) \in {"none", "scoring", "failing", "rejected"}
         /\ AfterFailure(op) = "none" => op.then = "none"
         /\ op.then = "none" => AfterFailure(op) = "none"
         /\ AfterFailure(op) = "scoring" => op.then = "scoring"
         /\ AfterFailure(op) = "failing" => call[op.of].outcome = "failed"
BY DEF AfterFailure, Caught

\* The first mutation leaves the queue; the run that awaited it goes on to s.
StoreStep(op, s) ==
    /\ health # "down" /\ queue # << >> /\ op = Head(queue) /\ queue' = Tail(queue)
    /\ db' = Apply(Refreshed(db), op, version) /\ Resumes(op, s)
    /\ edit' \in {NoEdit, edit} /\ UNCHANGED <<version, policy, approvals>>
    /\ events' \in 0..MaxEvents /\ faults' \in BOOLEAN
    /\ \/ /\ s = op.then /\ disk' = db' /\ health' = health /\ faults' = faults
          /\ refusals' = IF op.kind = "precedent" /\ op.arg.decision = "denied"
                         THEN refusals \cup {<<op.arg.agent, op.arg.fp>>} ELSE refusals
       \/ /\ s = AfterFailure(op) /\ disk' = disk /\ health' \in {health, "doomed"} /\ faults'
          /\ refusals' = refusals

\* What every such step is known to find.
LEMMA StoreStepFacts ==
  ASSUME IInv, NEW op, NEW s, StoreStep(op, s)
  PROVE  /\ op \in Mutations /\ 1 \in DOMAIN queue /\ op = queue[1] /\ queue' \in Seq(Mutations)
         /\ DOMAIN queue \subseteq Nat \ {0} /\ DOMAIN queue' \subseteq Nat \ {0}
         /\ \A i \in DOMAIN queue' : i + 1 \in DOMAIN queue /\ i + 1 # 1 /\ queue'[i] = queue[i + 1]
         /\ \A i \in DOMAIN queue : i # 1 => i - 1 \in DOMAIN queue' /\ queue'[i - 1] = queue[i]
         /\ OpOK(op)
         /\ (s = "none" <=> op.then = "none")
         /\ s \in Waiting \cup Ended \cup {"none"}
         /\ s \notin {"none", op.then} => s \in {"failing", "rejected"} /\ faults'
         /\ s = "failing" /\ s # op.then => call[op.of].outcome = "failed"
         /\ s \in {"refused", "resolved"} => s = op.then /\ disk' = db'
         /\ s = "rejected" /\ ~ faults' => s = op.then
<1>1. queue \in Seq(Mutations) /\ queue # << >> /\ op = Head(queue) /\ queue' = Tail(queue)
  BY DEF IInv, TypeOK, StoreStep
<1>2. /\ op \in Mutations /\ 1 \in DOMAIN queue /\ op = queue[1] /\ queue' \in Seq(Mutations)
      /\ DOMAIN queue \subseteq Nat \ {0} /\ DOMAIN queue' \subseteq Nat \ {0}
      /\ \A i \in DOMAIN queue' : i + 1 \in DOMAIN queue /\ i + 1 # 1 /\ queue'[i] = queue[i + 1]
      /\ \A i \in DOMAIN queue : i # 1 => i - 1 \in DOMAIN queue' /\ queue'[i - 1] = queue[i]
  BY <1>1, HeadTail
<1>3. OpOK(op)
  BY <1>2 DEF IInv, Queued
<1>4. op.then \in Waiting \cup Ended \cup {"none"}
  BY <1>2, MutationFacts
<1>5. CASE s = op.then /\ disk' = db'
  BY <1>2, <1>3, <1>4, <1>5
<1>6. CASE s = AfterFailure(op) /\ faults'
  <2>1. /\ s \in {"none", "scoring", "failing", "rejected"} /\ (s = "none" <=> op.then = "none")
        /\ s = "scoring" => op.then = "scoring"
        /\ s = "failing" => call[op.of].outcome = "failed"
    BY <1>6, AfterFailureFacts
  <2>2. {"scoring", "failing"} \subseteq Waiting /\ "rejected" \in Ended
    BY DEF Waiting, Ended
  <2>3. QED
    BY <1>2, <1>3, <1>6, <2>1, <2>2
<1>7. QED
  BY <1>5, <1>6 DEF StoreStep

\* What the step leaves of the memory and of the file.
LEMMA StoreDbFacts ==
  ASSUME IInv, NEW op, NEW s, StoreStep(op, s)
  PROVE  /\ db' \in Dbs /\ disk' \in {db', disk}
         /\ db'.events = db.events \cup (IF op.kind = "append" THEN {op.arg} ELSE {})
         /\ \A x \in db.precedents : x.decision = "denied" => DeniedIn(db', x.agent, x.fp)
         /\ op.kind = "precedent" /\ op.arg.decision = "denied" => DeniedIn(db', op.arg.agent, op.arg.fp)
         /\ ApprovedOnly(db'.precedents, approvals)
         /\ \A r : ~ IsLive(r) => KeepsRun(db, db', r)
         /\ op.kind = "save" => /\ op.arg.run = op.of /\ Recorded(db', op.of)
                                /\ \A x \in Held(db') : x.run = op.of => x = op.arg
<1>1. op \in Mutations /\ OpOK(op)
  BY StoreStepFacts
<1>2. db' = Apply(Refreshed(db), op, version) /\ disk' \in {db', disk}
  BY DEF StoreStep
<1>3. /\ db' \in Dbs
      /\ db'.events = db.events \cup (IF op.kind = "append" THEN {op.arg} ELSE {})
      /\ \A x \in db.precedents : x.decision = "denied" => DeniedIn(db', x.agent, x.fp)
      /\ op.kind = "precedent" /\ op.arg.decision = "denied" => DeniedIn(db', op.arg.agent, op.arg.fp)
      /\ db'.precedents \subseteq db.precedents \cup (IF op.kind = "precedent" THEN {op.arg} ELSE {})
      /\ \A r : ~ IsLive(r) /\ (op.kind = "save" => r # op.arg.run) => KeepsRun(db, db', r)
      /\ op.kind = "save" => /\ Recorded(db', op.arg.run)
                             /\ \A x \in Held(db') : x.run = op.arg.run => x = op.arg
  BY <1>1, <1>2, AppliedFacts
<1>4. op.kind = "save" => op.arg.run = op.of /\ IsLive(op.of)
  BY <1>1, MutationFacts DEF OpOK, OpFits, IsLive, Waiting
<1>5. ApprovedOnly(db.precedents, approvals) /\ (op.kind = "precedent" => ApprovedOnly({op.arg}, approvals))
  BY <1>1 DEF IInv, Memory, OpOK
<1>6. ApprovedOnly(db'.precedents, approvals)
  BY <1>3, <1>5 DEF ApprovedOnly
<1>7. \A r : ~ IsLive(r) => KeepsRun(db, db', r)
  BY <1>3, <1>4
<1>8. QED
  BY <1>2, <1>3, <1>4, <1>6, <1>7

\* Where the runs are afterwards.
LEMMA StoreStageFacts ==
  ASSUME IInv, NEW op, NEW s, StoreStep(op, s)
  PROVE  /\ s = "none" => stage' = stage /\ call' = call
         /\ s # "none" => /\ op.of \in Runs /\ stage[op.of] = "writing" /\ stage'[op.of] = s
                          /\ s \in Ended => call'[op.of] = NoCall(op.of)
                          /\ s \notin Ended => call'[op.of] = call[op.of]
                          /\ PlacedOK(op.of, op.then, call[op.of], After(World, op)) /\ OpFits(op, call[op.of])
         /\ \A x \in Runs : s = "none" \/ x # op.of => stage'[x] = stage[x] /\ call'[x] = call[x]
         /\ stage' \in [Runs -> {"idle"} \cup Waiting \cup Ended] /\ call' = [x \in Runs |-> call'[x]]
<1>1. stage \in [Runs -> {"idle"} \cup Waiting \cup Ended] /\ call = [x \in Runs |-> call[x]]
  BY DEF IInv, TypeOK, Locals
<1>2. OpOK(op) /\ (s = "none" <=> op.then = "none") /\ s \in Waiting \cup Ended \cup {"none"}
  BY StoreStepFacts
<1>3. CASE s = "none"
  BY <1>1, <1>3 DEF StoreStep, Resumes
<1>4. CASE s # "none"
  <2>1. /\ op.of \in Runs /\ stage[op.of] = "writing"
        /\ PlacedOK(op.of, op.then, call[op.of], After(World, op)) /\ OpFits(op, call[op.of])
    BY <1>2, <1>4 DEF OpOK
  <2>2. /\ stage' = [stage EXCEPT ![op.of] = s]
        /\ call' = [call EXCEPT ![op.of] = IF s \in Ended THEN NoCall(op.of) ELSE @]
    BY <1>4 DEF StoreStep, Resumes
  <2>3. QED
    BY <1>1, <1>2, <1>4, <2>1, <2>2
<1>5. QED
  BY <1>3, <1>4

\* The types, the locals and the places of the runs.
LEMMA StoreKeepsRuns ==
  ASSUME IInv, NEW op, NEW s, StoreStep(op, s)
  PROVE  TypeOK' /\ Locals' /\ AllPlaced' /\ Idle'
<1>1. /\ op \in Mutations /\ queue' \in Seq(Mutations) /\ s \in Waiting \cup Ended \cup {"none"}
      /\ s \notin {"none", op.then} => s \in {"failing", "rejected"}
      /\ s = "failing" /\ s # op.then => call[op.of].outcome = "failed"
      /\ (s = "none" <=> op.then = "none")
  BY StoreStepFacts
<1>2. /\ db' \in Dbs /\ disk' \in {db', disk}
      /\ db'.events = db.events \cup (IF op.kind = "append" THEN {op.arg} ELSE {})
  BY StoreDbFacts
<1>3. /\ s # "none" => /\ op.of \in Runs /\ stage[op.of] = "writing" /\ stage'[op.of] = s
                       /\ s \in Ended => call'[op.of] = NoCall(op.of)
                       /\ s \notin Ended => call'[op.of] = call[op.of]
                       /\ PlacedOK(op.of, op.then, call[op.of], After(World, op))
      /\ \A x \in Runs : s = "none" \/ x # op.of => stage'[x] = stage[x] /\ call'[x] = call[x]
      /\ stage' \in [Runs -> {"idle"} \cup Waiting \cup Ended] /\ call' = [x \in Runs |-> call'[x]]
  BY StoreStageFacts
<1>4. \A x \in Runs : call'[x] = call[x] \/ call'[x] = NoCall(x)
  BY <1>3
<1>5. approvals' = approvals /\ version' = version
  BY DEF StoreStep
<1>6. Locals'
  <2>1. \A x \in Runs : LocalsOK(call'[x])
    BY <1>4, <1>5, NoCallOK DEF IInv, Locals
  <2>2. QED
    BY <1>3, <2>1 DEF Locals
<1>7. TypeOK'
  <2>1. \A x \in Runs :
          LET c == call'[x] IN
          /\ c.agent \in Agents \cup {"none"} /\ c.policy \in Policies /\ c.outcome \in Outcomes
          /\ c.taint \in DOMAIN Taints /\ c.todo \subseteq Fingerprints
          /\ c.barred \subseteq Fingerprints /\ c.vouched \subseteq Fingerprints
          /\ c.decision \in {"none", "approved", "denied"}
          /\ c.denials \cup c.unread \subseteq Denials /\ c.halted \in BOOLEAN
    BY <1>6 DEF Locals, LocalsOK
  <2>2. refusals' \subseteq Agents \X Fingerprints
    <3>1. op.kind = "precedent" => op.arg \in Precedents
      BY <1>1, MutationFacts
    <3>2. op.kind = "precedent" => op.arg.agent \in Agents /\ op.arg.fp \in Fingerprints
      BY <3>1 DEF Precedents
    <3>3. QED
      BY <3>2 DEF StoreStep, IInv, TypeOK
  <2>3. health' \in {"up", "doomed", "down"} /\ version' \in 1..MaxVersion /\ disk' \in Dbs
        /\ policy' \in [Agents -> Policies \cup {"torn"}] /\ events' \in 0..MaxEvents /\ faults' \in BOOLEAN
        /\ (edit' = NoEdit \/ edit' \in [agent : Agents, policy : Policies])
        /\ approvals' \subseteq Agents \X Fingerprints \X (1..MaxVersion)
    BY <1>2 DEF StoreStep, IInv, TypeOK
  <2>4. QED
    BY <1>1, <1>2, <1>3, <2>1, <2>2, <2>3 DEF TypeOK
<1>8. AllPlaced'
  <2>1. /\ World'.events = db'.events /\ World'.version = version /\ World'.approvals = approvals
        /\ World.events \subseteq World'.events /\ World.approvals = World'.approvals
        /\ World.version = World'.version
        /\ After(World, op).events = World'.events /\ After(World, op).approvals = World'.approvals
        /\ After(World, op).version = World'.version
    BY <1>2, <1>5 DEF World, After
  <2>2. ASSUME NEW x \in Runs, stage'[x] \in Places, s = "none" \/ x # op.of
        PROVE  PlacedOK(x, stage'[x], call'[x], World')
    <3>1. PlacedOK(x, stage[x], call[x], World)
      BY <1>3, <2>2 DEF IInv, AllPlaced
    <3>2. QED
      BY <1>3, <2>1, <2>2, <3>1, PlacedStays
  <2>3. ASSUME s # "none", s \in Places
        PROVE  PlacedOK(op.of, s, call[op.of], World')
    <3>1. CASE s = op.then
      BY <1>3, <2>1, <2>3, <3>1, PlacedStays
    <3>2. CASE s # op.then
      <4>1. s = "failing" /\ call[op.of].outcome = "failed"
        BY <1>1, <2>3, <3>2 DEF Places, Waiting
      <4>2. call[op.of].agent \in Agents /\ call[op.of].decision \in {"none", "approved", "denied"}
        BY <1>3, <2>3 DEF PlacedOK, IInv, Locals, LocalsOK
      <4>3. QED
        BY <4>1, <4>2 DEF PlacedOK, Evidence, OutcomeAt, DecisionAt, Execution, BeforeDecision
    <3>3. QED
      BY <3>1, <3>2
  <2>4. \A q : q \in Places => q \notin Ended
    BY DEF Places, Waiting, Ended
  <2>5. QED
    BY <1>3, <2>2, <2>3, <2>4 DEF AllPlaced
<1>9. Idle'
  <2>1. s # "idle"
    BY <1>1 DEF Waiting, Ended
  <2>2. QED
    BY <1>3, <2>1 DEF IInv, Idle
<1>10. QED
  BY <1>6, <1>7, <1>8, <1>9

\* The mutations that still wait are as they were.
LEMMA StoreKeepsQueue ==
  ASSUME IInv, NEW op, NEW s, StoreStep(op, s)
  PROVE  Queued' /\ Down' /\ NotesFirst'
<1>1. /\ op \in Mutations /\ 1 \in DOMAIN queue /\ op = queue[1] /\ queue' \in Seq(Mutations)
      /\ DOMAIN queue \subseteq Nat \ {0} /\ DOMAIN queue' \subseteq Nat \ {0}
      /\ \A i \in DOMAIN queue' : i + 1 \in DOMAIN queue /\ i + 1 # 1 /\ queue'[i] = queue[i + 1]
      /\ \A i \in DOMAIN queue : i # 1 => i - 1 \in DOMAIN queue' /\ queue'[i - 1] = queue[i]
      /\ (s = "none" <=> op.then = "none")
      /\ s \notin {"none", op.then} => s \in {"failing", "rejected"}
  BY StoreStepFacts
<1>2. db'.events = db.events \cup (IF op.kind = "append" THEN {op.arg} ELSE {})
  BY StoreDbFacts
<1>3. /\ s # "none" => /\ op.of \in Runs /\ stage[op.of] = "writing" /\ stage'[op.of] = s
                       /\ s \in Ended => call'[op.of] = NoCall(op.of)
                       /\ s \notin Ended => call'[op.of] = call[op.of]
      /\ \A x \in Runs : s = "none" \/ x # op.of => stage'[x] = stage[x] /\ call'[x] = call[x]
  BY StoreStageFacts
<1>4. approvals' = approvals /\ version' = version /\ health' # "down"
  BY DEF StoreStep
<1>5. \A i \in DOMAIN queue' : queue'[i].then # "none" =>
         queue'[i].of \in Runs /\ (s = "none" \/ queue'[i].of # op.of)
  <2>1. ASSUME NEW i \in DOMAIN queue', queue'[i].then # "none"
        PROVE  queue'[i].of \in Runs /\ (s = "none" \/ queue'[i].of # op.of)
    <3>1. PICK k \in DOMAIN queue : k # 1 /\ queue'[i] = queue[k]
      BY <1>1
    <3>2. OpOK(queue[k])
      BY DEF IInv, Queued
    <3>3. s = "none" \/ queue[k].of # queue[1].of
      BY <1>1, <2>1, <3>1 DEF IInv, Queued
    <3>4. QED
      BY <1>1, <2>1, <3>1, <3>2, <3>3 DEF OpOK
  <2>2. QED
    BY <2>1
<1>6. Queued'
  <2>1. ASSUME NEW i \in DOMAIN queue'
        PROVE  OpOK(queue[i])'
    <3> DEFINE o == queue[i + 1]
    <3>1. OpOK(o) /\ queue'[i] = o
      BY <1>1 DEF IInv, Queued
    <3> HIDE DEF o
    <3>2. o.then # "none" => stage'[o.of] = stage[o.of] /\ call'[o.of] = call[o.of]
      BY <1>3, <1>5, <3>1
    <3>3. /\ After(World, o).events \subseteq After(World', o).events
          /\ After(World, o).approvals = After(World', o).approvals
          /\ After(World, o).version = After(World', o).version
      BY <1>2, <1>4 DEF World, After
    <3>4. o.then # "none" => PlacedOK(o.of, o.then, call[o.of], After(World', o))
      BY <3>1, <3>3, PlacedStays DEF OpOK
    <3>5. /\ o.then = "none" => o.kind \in {"append", "invalidate"}
          /\ o.then # "none" => o.of \in Runs /\ stage'[o.of] = "writing" /\ OpFits(o, call'[o.of])
                                /\ PlacedOK(o.of, o.then, call'[o.of], After(World', o))
          /\ o.kind = "precedent" => ApprovedOnly({o.arg}, approvals')
      BY <1>4, <3>1, <3>2, <3>4 DEF OpOK
    <3>6. QED
      BY <3>1, <3>5 DEF OpOK
  <2>2. ASSUME NEW i \in DOMAIN queue', NEW j \in DOMAIN queue', queue'[i].then # "none",
               queue'[j].then # "none", queue'[i].of = queue'[j].of
        PROVE  i = j
    <3>1. i + 1 = j + 1
      BY <1>1, <2>2 DEF IInv, Queued
    <3>2. i \in Nat /\ j \in Nat
      BY <1>1
    <3>3. QED
      BY <3>1, <3>2
  <2>3. QED
    BY <2>1, <2>2 DEF Queued
<1>7. Down'
  BY <1>4 DEF Down
<1>8. NotesFirst'
  <2>1. ASSUME NEW r \in Runs, stage'[r] = "reporting", AgentDenials(call'[r]) # {}
        PROVE  Entry(r, "denial") \in db'.events
    <3>1. CASE s = "none" \/ r # op.of
      BY <1>2, <1>3, <2>1, <3>1 DEF IInv, NotesFirst
    <3>2. CASE s # "none" /\ r = op.of
      <4>1. s = "reporting" /\ op.then = "reporting" /\ call'[r] = call[r]
        BY <1>1, <1>3, <2>1, <3>2 DEF Ended
      <4>2. Entry(r, "denial") \in db.events \/ \E i \in 1..(1 - 1) : Noting(queue[i], r)
        BY <1>1, <2>1, <3>2, <4>1 DEF IInv, NotesFirst
      <4>3. QED
        BY <1>2, <4>2
    <3>3. QED
      BY <3>1, <3>2
  <2>2. ASSUME NEW j \in DOMAIN queue', queue'[j].then \in {"reporting", "resolved"},
               AgentDenials(call'[queue'[j].of]) # {}
        PROVE  \/ Entry(queue'[j].of, "denial") \in db'.events
               \/ \E i \in 1..(j - 1) : Noting(queue'[i], queue'[j].of)
    <3> DEFINE o == queue'[j]
               k == j + 1
    <3>1. k \in DOMAIN queue /\ queue[k] = o /\ j \in Nat \ {0}
      BY <1>1
    <3>2. call'[o.of] = call[o.of]
      BY <1>3, <1>5, <2>2
    <3>3. Entry(o.of, "denial") \in db.events \/ \E i \in 1..(k - 1) : Noting(queue[i], o.of)
      <4> HIDE DEF o, k
      <4>1. queue[k].then \in {"reporting", "resolved"} /\ AgentDenials(call[queue[k].of]) # {}
        BY <2>2, <3>1, <3>2 DEF o
      <4>2. QED
        BY <3>1, <4>1 DEF IInv, NotesFirst
    <3>4. CASE Entry(o.of, "denial") \in db.events
      BY <1>2, <3>4
    <3>5. ASSUME NEW i \in 1..(k - 1), Noting(queue[i], o.of)
          PROVE  Entry(o.of, "denial") \in db'.events \/ \E q \in 1..(j - 1) : Noting(queue'[q], o.of)
      <4>1. CASE i = 1
        BY <1>1, <1>2, <3>5, <4>1 DEF Noting
      <4>2. CASE i # 1
        <5>1. i - 1 \in 1..(j - 1) /\ i \in 1..k
          BY <3>1, <4>2
        <5>2. i \in DOMAIN queue
          <6>1. queue \in Seq(Mutations)
            BY DEF IInv, TypeOK
          <6>2. QED
            BY <3>1, <5>1, <6>1
        <5>3. queue'[i - 1] = queue[i]
          BY <1>1, <4>2, <5>2
        <5>4. QED
          BY <3>5, <5>1, <5>3
      <4>3. QED
        BY <4>1, <4>2
    <3>6. QED
      BY <3>3, <3>4, <3>5
  <2>3. QED
    BY <2>1, <2>2 DEF NotesFirst
<1>9. QED
  BY <1>6, <1>7, <1>8

\* The memory and the file, and what was answered and counted by them.
LEMMA StoreKeepsMemory ==
  ASSUME IInv, NEW op, NEW s, StoreStep(op, s)
  PROVE  Sound' /\ Memory' /\ Answers' /\ NotesCount'
<1>1. /\ op \in Mutations /\ 1 \in DOMAIN queue /\ op = queue[1]
      /\ \A i \in DOMAIN queue' : i + 1 \in DOMAIN queue /\ queue'[i] = queue[i + 1]
      /\ (s = "none" <=> op.then = "none") /\ s \in Waiting \cup Ended \cup {"none"}
      /\ s \in {"refused", "resolved"} => s = op.then /\ disk' = db'
      /\ s = "rejected" /\ ~ faults' => s = op.then
  BY StoreStepFacts
<1>2. /\ disk' \in {db', disk}
      /\ db'.events = db.events \cup (IF op.kind = "append" THEN {op.arg} ELSE {})
      /\ \A x \in db.precedents : x.decision = "denied" => DeniedIn(db', x.agent, x.fp)
      /\ op.kind = "precedent" /\ op.arg.decision = "denied" => DeniedIn(db', op.arg.agent, op.arg.fp)
      /\ ApprovedOnly(db'.precedents, approvals)
      /\ \A r : ~ IsLive(r) => KeepsRun(db, db', r)
      /\ op.kind = "save" => /\ op.arg.run = op.of /\ Recorded(db', op.of)
                             /\ \A x \in Held(db') : x.run = op.of => x = op.arg
  BY StoreDbFacts
<1>3. /\ s # "none" => /\ op.of \in Runs /\ stage[op.of] = "writing" /\ stage'[op.of] = s
                       /\ s \in Ended => call'[op.of] = NoCall(op.of)
                       /\ s \notin Ended => call'[op.of] = call[op.of]
                       /\ PlacedOK(op.of, op.then, call[op.of], After(World, op)) /\ OpFits(op, call[op.of])
      /\ \A x \in Runs : s = "none" \/ x # op.of => stage'[x] = stage[x] /\ call'[x] = call[x]
  BY StoreStageFacts
<1>4. approvals' = approvals /\ (faults => faults')
  BY DEF StoreStep, IInv, TypeOK
<1>5. Sound'
  BY DEF StoreStep, IInv, Sound
<1>6. Memory'
  <2>1. \A agent, fp : DeniedIn(db, agent, fp) => DeniedIn(db', agent, fp)
    BY <1>2 DEF DeniedIn
  <2>2. /\ disk.events \subseteq db.events
        /\ \A x \in disk.precedents : x.decision = "denied" => DeniedIn(db, x.agent, x.fp)
        /\ \A x \in refusals : DeniedIn(disk, x[1], x[2])
        /\ ApprovedOnly(disk.precedents, approvals)
    BY DEF IInv, Memory
  <2>3. ASSUME NEW agent, NEW fp, DeniedIn(disk, agent, fp)
        PROVE  DeniedIn(db', agent, fp)
    <3>1. PICK y \in disk.precedents : y.agent = agent /\ y.fp = fp /\ y.decision = "denied"
      BY <2>3 DEF DeniedIn
    <3>2. QED
      BY <2>1, <2>2, <3>1
  <2>4. disk'.events \subseteq db'.events
    BY <1>2, <2>2
  <2>5. \A x \in disk'.precedents : x.decision = "denied" => DeniedIn(db', x.agent, x.fp)
    <3>1. CASE disk' = db'
      BY <3>1 DEF DeniedIn
    <3>2. CASE disk' = disk
      BY <2>1, <2>2, <3>2
    <3>3. QED
      BY <1>2, <3>1, <3>2
  <2>6. \A x \in refusals' : DeniedIn(disk', x[1], x[2])
    <3>1. CASE refusals' = refusals
      BY <1>2, <2>2, <2>3, <3>1
    <3>2. CASE disk' = db' /\ op.kind = "precedent" /\ op.arg.decision = "denied"
               /\ refusals' = refusals \cup {<<op.arg.agent, op.arg.fp>>}
      BY <1>2, <2>2, <2>3, <3>2
    <3>3. QED
      BY <3>1, <3>2 DEF StoreStep
  <2>7. ApprovedOnly(db'.precedents, approvals') /\ ApprovedOnly(disk'.precedents, approvals')
    BY <1>2, <1>4, <2>2
  <2>8. QED
    BY <2>4, <2>5, <2>6, <2>7 DEF Memory, DeniedIn
<1>7. \A x \in Runs : stage[x] \in {"refused", "resolved", "rejected"} => ~ IsLive(x) /\ (s # "none" => x # op.of)
  BY <1>3 DEF IsLive, Waiting
<1>8. ASSUME NEW x \in Runs, HasDenials(db, x), ~ IsLive(x)
      PROVE  HasDenials(db', x)
  BY <1>2, <1>8 DEF HasDenials, KeepsRun
<1>9. Answers'
  <2>1. ASSUME NEW x \in Runs, stage'[x] \in {"refused", "resolved"}, s = "none" \/ x # op.of
        PROVE  AnsweredIn(db', x, stage'[x]) /\ AnsweredIn(disk', x, stage'[x])
    <3>1. stage'[x] = stage[x] /\ ~ IsLive(x) /\ AnsweredIn(db, x, stage[x]) /\ AnsweredIn(disk, x, stage[x])
      BY <1>3, <1>7, <2>1 DEF IInv, Answers
    <3>2. AnsweredIn(db', x, stage[x])
      BY <1>2, <3>1 DEF AnsweredIn, KeepsRun
    <3>3. QED
      BY <1>2, <3>1, <3>2
  <2>2. ASSUME s # "none", s \in {"refused", "resolved"}
        PROVE  AnsweredIn(db', op.of, s)
    <3>1. /\ op.then = s /\ op.kind = "save" /\ Recorded(db', op.of)
          /\ \A x \in Held(db') : x.run = op.of => x = op.arg
      BY <1>1, <1>2, <1>3, <2>2 DEF OpFits
    <3>2. op.arg.outcome = IF s = "refused" THEN "denied" ELSE "completed"
      BY <1>3, <2>2, <3>1 DEF OpFits
    <3>3. \A t \in Evidence(s) : Entry(op.of, t) \in db'.events
      BY <1>2, <1>3, <2>2, <3>1 DEF PlacedOK, After, World
    <3>4. AgentDenials(op.arg) # {} => Entry(op.of, "denial") \in db'.events
      <4>1. CASE s = "refused"
        BY <1>3, <3>1, <4>1 DEF OpFits, AgentDenials
      <4>2. CASE s = "resolved"
        <5>1. op.arg.denials = call[op.of].denials
          BY <1>3, <3>1, <4>2 DEF OpFits
        <5>2. AgentDenials(op.arg) = AgentDenials(call[op.of])
          BY <5>1 DEF AgentDenials
        <5>3. AgentDenials(op.arg) # {} => Entry(op.of, "denial") \in db.events
                                          \/ \E i \in 1..(1 - 1) : Noting(queue[i], op.of)
          BY <1>1, <3>1, <4>2, <5>2 DEF IInv, NotesFirst
        <5>4. QED
          BY <1>2, <5>3
      <4>3. QED
        BY <2>2, <4>1, <4>2
    <3>5. QED
      BY <3>1, <3>2, <3>3, <3>4 DEF AnsweredIn
  <2>3. s \in {"refused", "resolved"} => disk' = db'
    BY <1>1
  <2>4. \A x \in Runs : stage'[x] \in {"refused", "resolved"} =>
           AnsweredIn(db', x, stage'[x]) /\ AnsweredIn(disk', x, stage'[x])
    BY <1>3, <2>1, <2>2, <2>3
  <2>5. QED
    BY <2>4 DEF Answers, AnsweredIn
<1>10. NotesCount'
  <2>1. ASSUME NEW x \in Runs, Noted(x)'
        PROVE  Noted(x)
    <3>1. CASE Entry(x, "denial") \in db'.events
      BY <1>1, <1>2, <3>1 DEF Noted, Noting
    <3>2. ASSUME NEW i \in DOMAIN queue', Noting(queue[i], x)'
          PROVE  Noted(x)
      <4>1. PICK k \in DOMAIN queue : queue'[i] = queue[k]
        BY <1>1
      <4>2. QED
        BY <3>2, <4>1 DEF Noted, Noting, Entry
    <3>3. QED
      BY <2>1, <3>1, <3>2 DEF Noted, Entry
  <2>2. ASSUME NEW x \in Runs, Counted(x), s = "none" \/ x # op.of
        PROVE  Counted(x)'
    <3>1. stage'[x] = stage[x] /\ call'[x] = call[x]
      BY <1>3, <2>2
    <3>2. stage[x] \in {"resolved", "rejected"} => ~ IsLive(x)
      BY <1>7, <2>2
    <3>3. stage[x] = "resolved" => HasDenials(db', x) /\ HasDenials(disk', x)
      BY <1>2, <1>8, <2>2, <3>2 DEF Counted
    <3>4. Entry(x, "approval") \notin db'.events => Entry(x, "approval") \notin db.events
      BY <1>2
    <3>5. stage[x] = "rejected" /\ ~ faults' /\ Entry(x, "approval") \notin db'.events => HasDenials(db', x)
      BY <1>4, <1>8, <2>2, <3>2, <3>4 DEF Counted
    <3>6. QED
      BY <2>2, <3>1, <3>3, <3>5 DEF Counted, HasDenials, Entry
  <2>3. ASSUME s # "none", Counted(op.of)
        PROVE  Counted(op.of)'
    <3>1. AgentDenials(call[op.of]) # {} /\ stage'[op.of] = s /\ s # "idle"
      BY <1>1, <1>3, <2>3 DEF Counted, Waiting, Ended
    <3>2. s \in Waiting => call'[op.of] = call[op.of]
      BY <1>3, <2>3 DEF Waiting, Ended
    <3>3. s = op.then /\ s \in {"resolved", "rejected"} => HasDenials(db', op.of)
      <4>1. SUFFICES ASSUME s = op.then, s \in {"resolved", "rejected"}
                     PROVE  HasDenials(db', op.of)
        OBVIOUS
      <4>2. op.kind = "save" /\ op.arg.denials = call[op.of].denials
        BY <1>3, <2>3, <4>1 DEF OpFits
      <4>3. AgentDenials(op.arg) # {}
        BY <3>1, <4>2 DEF AgentDenials
      <4>4. QED
        BY <1>2, <4>2, <4>3 DEF HasDenials
    <3>4. s = "resolved" => HasDenials(db', op.of) /\ HasDenials(disk', op.of)
      BY <1>1, <3>3
    <3>5. s = "rejected" /\ ~ faults' => HasDenials(db', op.of)
      BY <1>1, <3>3
    <3>6. QED
      BY <3>1, <3>2, <3>4, <3>5 DEF Counted, HasDenials, Entry
  <2>4. \A x \in Runs : Noted(x) => Counted(x)
    BY DEF IInv, NotesCount
  <2>5. ASSUME NEW x \in Runs, Noted(x)'
        PROVE  Counted(x)'
    BY <2>1, <2>2, <2>3, <2>4, <2>5
  <2>6. QED
    BY <2>5 DEF NotesCount
<1>11. QED
  BY <1>5, <1>6, <1>9, <1>10

\* A mutation whose turn it is keeps the invariant, written or not.
LEMMA StoreKeeps ==
  ASSUME IInv, NEW op, NEW s, StoreStep(op, s)
  PROVE  IInv'
BY StoreKeepsRuns, StoreKeepsQueue, StoreKeepsMemory DEF IInv

\* Writing the first mutation in the queue keeps the invariant.
LEMMA CommitKeeps ==
  ASSUME IInv, Commit
  PROVE  IInv'
<1> DEFINE op == Head(queue)
<1>1. StoreStep(op, op.then)
  BY DEF Commit, StoreStep, trouble, IInv, TypeOK
<1>2. QED
  BY <1>1, StoreKeeps

\* Failing to write it, which rejects the run that waits on it, keeps the invariant.
LEMMA WriteFailsKeeps ==
  ASSUME IInv, WriteFails
  PROVE  IInv'
<1> DEFINE op == Head(queue)
<1>1. events' \in 0..MaxEvents /\ faults' = TRUE
  BY AdjudicationAssumption DEF WriteFails, Trouble, IInv, TypeOK
<1>2. StoreStep(op, AfterFailure(op))
  BY <1>1 DEF WriteFails, StoreStep
<1>3. QED
  BY <1>2, StoreKeeps

\* A crash: the runs are gone, the file stays.
LEMMA CrashKeeps ==
  ASSUME IInv, Crash
  PROVE  IInv'
<1>1. /\ health' = "down" /\ queue' = << >> /\ edit' = NoEdit
      /\ stage' = [r \in Runs |-> IF IsLive(r) THEN "lost" ELSE stage[r]]
      /\ call' = [r \in Runs |-> NoCall(r)]
      /\ UNCHANGED <<db, disk, version, policy, refusals, approvals>>
  BY DEF Crash
<1>2. events' \in 0..MaxEvents /\ faults' = TRUE
  <2>1. events \in 0..MaxEvents /\ faults \in BOOLEAN /\ (faults = FALSE => health = "up")
    BY DEF IInv, TypeOK, Sound
  <2>2. CASE health = "up" /\ events < MaxEvents /\ events' = events + 1 /\ faults' = TRUE
    BY AdjudicationAssumption, <2>1, <2>2
  <2>3. CASE health = "doomed" /\ events' = events /\ faults' = faults
    BY <2>1, <2>3
  <2>4. QED
    BY <2>2, <2>3 DEF Crash, Trouble, trouble
<1>3. \A r \in Runs : stage'[r] \notin Waiting /\ (stage'[r] # "lost" => stage'[r] = stage[r] /\ ~ IsLive(r))
  BY <1>1 DEF IsLive, Waiting
<1>4. \A r \in Runs : call'[r] = NoCall(r) /\ LocalsOK(call'[r])
  BY <1>1, NoCallOK
<1>5. Locals'
  BY <1>1, <1>4 DEF Locals
<1>6. TypeOK'
  <2>1. stage' \in [Runs -> {"idle"} \cup Waiting \cup Ended]
    BY <1>1 DEF IInv, TypeOK, Ended
  <2>2. \A r \in Runs :
          LET c == call'[r] IN
          /\ c.agent \in Agents \cup {"none"} /\ c.policy \in Policies /\ c.outcome \in Outcomes
          /\ c.taint \in DOMAIN Taints /\ c.todo \subseteq Fingerprints
          /\ c.barred \subseteq Fingerprints /\ c.vouched \subseteq Fingerprints
          /\ c.decision \in {"none", "approved", "denied"}
          /\ c.denials \cup c.unread \subseteq Denials /\ c.halted \in BOOLEAN
    BY <1>4 DEF LocalsOK
  <2>3. queue' \in Seq(Mutations)
    BY <1>1
  <2>4. QED
    BY <1>1, <1>2, <2>1, <2>2, <2>3 DEF IInv, TypeOK
<1>7. AllPlaced'
  BY <1>3 DEF AllPlaced, Places
<1>8. Idle'
  BY <1>4 DEF Idle
<1>9. Queued' /\ NotesFirst'
  <2>1. DOMAIN queue' = {}
    BY <1>1
  <2>2. \A r \in Runs : stage'[r] # "reporting"
    BY <1>3 DEF Waiting
  <2>3. QED
    BY <2>1, <2>2 DEF Queued, NotesFirst
<1>10. Down'
  BY <1>1, <1>3 DEF Down, IsLive
<1>11. Sound'
  BY <1>2 DEF Sound
<1>12. Memory'
  BY <1>1 DEF IInv, Memory, DeniedIn, ApprovedOnly
<1>13. Answers'
  <2>1. ASSUME NEW r \in Runs, stage'[r] \in {"refused", "resolved"}
        PROVE  AnsweredIn(db', r, stage'[r]) /\ AnsweredIn(disk', r, stage'[r])
    BY <1>1, <1>3, <2>1 DEF IInv, Answers
  <2>2. QED
    BY <2>1 DEF Answers, AnsweredIn
<1>14. NotesCount'
  <2>1. ASSUME NEW r \in Runs, Noted(r)'
        PROVE  Counted(r)'
    <3>1. Noted(r)
      BY <1>1, <2>1 DEF Noted
    <3>2. Counted(r)
      BY <3>1 DEF IInv, NotesCount
    <3>3. stage'[r] # "idle" /\ stage'[r] \notin Waiting
      BY <1>3, <3>2 DEF Counted
    <3>4. stage'[r] = "resolved" => stage[r] = "resolved"
      BY <1>3
    <3>5. QED
      BY <1>1, <1>2, <3>2, <3>3, <3>4 DEF Counted, HasDenials
  <2>2. QED
    BY <2>1 DEF NotesCount
<1>15. QED
  BY <1>5, <1>6, <1>7, <1>8, <1>9, <1>10, <1>11, <1>12, <1>13, <1>14 DEF IInv

\* What a start makes of the file: the answers are as they were; nothing of it is left
\* when it cannot be read.
LEMMA LoadedFacts ==
  ASSUME NEW d \in Dbs, NEW readable \in BOOLEAN, NEW e, e = Loaded(d, readable)
  PROVE  /\ e \in Dbs
         /\ ~ readable => e.events = {} /\ e.precedents = {} /\ e.runs = << >>
         /\ readable => /\ e.events = d.events /\ e.precedents = d.precedents /\ (Full(e) <=> Full(d))
                        /\ \A x \in Held(d) : \E y \in Held(e) : y.run = x.run
                        /\ \A y \in Held(e) : \E x \in Held(d) :
                              /\ y.run = x.run /\ y.denials = x.denials
                              /\ x.outcome # "awaiting-approval" => y.outcome = x.outcome
<1>1. CASE ~ readable
  <2>1. e = [events |-> {}, precedents |-> {}, runs |-> << >>]
    BY <1>1 DEF Loaded, EmptyDb
  <2>2. QED
    BY <1>1, <2>1 DEF Dbs
<1>2. CASE readable
  <2> DEFINE s == d.runs
             t == [i \in DOMAIN s |-> Reclosed(s[i])]
  <2>1. e = [d EXCEPT !.runs = t]
    BY <1>2 DEF Loaded
  <2>2. ASSUME NEW x \in Records
        PROVE  /\ Reclosed(x) \in Records /\ Reclosed(x).run = x.run /\ Reclosed(x).denials = x.denials
               /\ x.outcome # "awaiting-approval" => Reclosed(x).outcome = x.outcome
    BY DEF Records, Outcomes, Reclosed
  <2>3. d = [events |-> d.events, precedents |-> d.precedents, runs |-> s] /\ s \in Seq(Records)
        /\ d.events \subseteq [run : Runs, type : EventTypes] /\ d.precedents \subseteq Precedents
    BY DEF Dbs
  <2>4. \A i \in DOMAIN s : s[i] \in Records
    BY <2>3
  <2>5. t \in Seq(Records) /\ Len(t) = Len(s) /\ DOMAIN t = DOMAIN s
    <3>1. t = [i \in DOMAIN s |-> t[i]] /\ \A i \in DOMAIN s : t[i] \in Records
      BY <2>2, <2>4
    <3> HIDE DEF s, t
    <3>2. QED
      BY <2>3, <3>1, InPlace
  <2>6. \A i \in DOMAIN s : /\ t[i].run = s[i].run /\ t[i].denials = s[i].denials
                            /\ s[i].outcome # "awaiting-approval" => t[i].outcome = s[i].outcome
    BY <2>2, <2>4
  <2>7. e = [events |-> d.events, precedents |-> d.precedents, runs |-> t]
    BY <2>1, <2>3
  <2> HIDE DEF t
  <2>8. Full(e) <=> Full(d)
    BY <2>5, <2>7 DEF Full
  <2>9. \A x \in Held(d) : \E y \in Held(e) : y.run = x.run
    BY <2>5, <2>6, <2>7 DEF Held
  <2>10. \A y \in Held(e) : \E x \in Held(d) : /\ y.run = x.run /\ y.denials = x.denials
                                               /\ x.outcome # "awaiting-approval" => y.outcome = x.outcome
    BY <2>5, <2>6, <2>7 DEF Held
  <2>11. e \in Dbs /\ e.events = d.events /\ e.precedents = d.precedents
    BY <2>3, <2>5, <2>7 DEF Dbs
  <2>12. QED
    BY <1>2, <2>8, <2>9, <2>10, <2>11
<1>3. QED
  BY <1>1, <1>2

\* What every start is known to find and to leave: no run is alive.
LEMMA BootFacts ==
  ASSUME IInv, NEW readable \in BOOLEAN, Boot(readable), NEW e, e = Loaded(disk, readable)
  PROVE  /\ e \in Dbs /\ db' \in Dbs /\ disk' = db' /\ db'.events = e.events /\ db'.runs = e.runs
         /\ \A x \in e.precedents : x.decision = "denied" => DeniedIn(db', x.agent, x.fp)
         /\ db'.precedents \subseteq e.precedents
         /\ queue' = << >> /\ faults' = TRUE /\ call' = call
         /\ \A r \in Runs : ~ IsLive(r) /\ stage'[r] \notin Waiting
         /\ TypeOK' /\ Locals' /\ Idle' /\ AllPlaced' /\ Queued' /\ NotesFirst' /\ Down' /\ Sound'
<1>1. /\ health = "down" /\ health' = "up" /\ version' \in {version, version + 1} /\ version' <= MaxVersion
      /\ db' = InvalidateApprovals(e, version') /\ disk' = db'
      /\ refusals' \in {refusals, {}} /\ approvals' \in {approvals, {}}
      /\ stage' = [r \in Runs |-> IF ~ readable /\ stage[r] \in Ended THEN "lost" ELSE stage[r]]
      /\ UNCHANGED <<queue, files, trouble, call>>
  BY DEF Boot
<1>2. queue = << >> /\ (\A r \in Runs : ~ IsLive(r)) /\ faults = TRUE
  BY <1>1 DEF IInv, Down, Sound, TypeOK
<1>3. e \in Dbs
  BY LoadedFacts DEF IInv, TypeOK
<1>4. /\ db' \in Dbs /\ db'.events = e.events /\ db'.runs = e.runs
      /\ \A x \in e.precedents : x.decision = "denied" => DeniedIn(db', x.agent, x.fp)
      /\ db'.precedents \subseteq e.precedents
  BY <1>1, <1>3, InvalidateFacts
<1>5. version' \in 1..MaxVersion
  BY <1>1, AdjudicationAssumption DEF IInv, TypeOK
<1>6. \A r \in Runs : stage'[r] \in {stage[r], "lost"} /\ stage'[r] \notin Waiting
  BY <1>1, <1>2 DEF IsLive, Waiting
<1>7. TypeOK'
  <2>1. stage' \in [Runs -> {"idle"} \cup Waiting \cup Ended]
    BY <1>1, <1>6 DEF IInv, TypeOK, Ended
  <2>2. refusals' \subseteq Agents \X Fingerprints /\ approvals' \subseteq Agents \X Fingerprints \X (1..MaxVersion)
    BY <1>1 DEF IInv, TypeOK
  <2>3. QED
    BY <1>1, <1>4, <1>5, <2>1, <2>2 DEF IInv, TypeOK, files, trouble
<1>8. Locals' /\ Idle'
  BY <1>1, <1>6 DEF IInv, Locals, Idle
<1>9. AllPlaced'
  BY <1>6 DEF AllPlaced, Places
<1>10. Queued' /\ NotesFirst'
  <2>1. DOMAIN queue' = {}
    BY <1>1, <1>2
  <2>2. \A r \in Runs : stage'[r] # "reporting"
    BY <1>6 DEF Waiting
  <2>3. QED
    BY <2>1, <2>2 DEF Queued, NotesFirst
<1>11. Down' /\ Sound'
  BY <1>1 DEF Down, Sound
<1>12. QED
  BY <1>1, <1>2, <1>3, <1>4, <1>6, <1>7, <1>8, <1>9, <1>10, <1>11 DEF trouble

\* A start that reads the file keeps the invariant: what is kept of it is what counts.
LEMMA BootReads ==
  ASSUME IInv, Boot(TRUE)
  PROVE  IInv'
<1> DEFINE e == Loaded(disk, TRUE)
<1>1. /\ db' \in Dbs /\ disk' = db' /\ db'.events = e.events /\ db'.runs = e.runs
      /\ \A x \in e.precedents : x.decision = "denied" => DeniedIn(db', x.agent, x.fp)
      /\ db'.precedents \subseteq e.precedents
      /\ queue' = << >> /\ faults' = TRUE /\ call' = call
      /\ TypeOK' /\ Locals' /\ Idle' /\ AllPlaced' /\ Queued' /\ NotesFirst' /\ Down' /\ Sound'
  BY BootFacts
<1>2. /\ e.events = disk.events /\ e.precedents = disk.precedents /\ (Full(e) <=> Full(disk))
      /\ \A x \in Held(disk) : \E y \in Held(e) : y.run = x.run
      /\ \A y \in Held(e) : \E x \in Held(disk) :
            /\ y.run = x.run /\ y.denials = x.denials
            /\ x.outcome # "awaiting-approval" => y.outcome = x.outcome
  <2>1. disk \in Dbs /\ e = Loaded(disk, TRUE) /\ TRUE \in BOOLEAN
    BY DEF IInv, TypeOK
  <2> HIDE DEF e
  <2>2. QED
    BY <2>1, LoadedFacts
<1>3. /\ refusals' = refusals /\ approvals' = approvals /\ \A r \in Runs : stage'[r] = stage[r]
  BY DEF Boot
<1> HIDE DEF e
<1>4. (Full(db') <=> Full(disk)) /\ Held(db') = Held(e)
  BY <1>1, <1>2 DEF Full, Held
<1>5. \A r : Recorded(disk, r) => Recorded(db', r)
  BY <1>2, <1>4 DEF Recorded
<1>6. Memory'
  <2>1. \A x \in disk'.precedents : x.decision = "denied" => DeniedIn(db', x.agent, x.fp)
    BY <1>1 DEF DeniedIn
  <2>2. ASSUME NEW x \in refusals
        PROVE  DeniedIn(disk', x[1], x[2])
    <3>1. DeniedIn(disk, x[1], x[2])
      BY DEF IInv, Memory
    <3>2. PICK y \in disk.precedents : y.agent = x[1] /\ y.fp = x[2] /\ y.decision = "denied"
      BY <3>1 DEF DeniedIn
    <3>3. QED
      BY <1>1, <1>2, <3>2
  <2>3. ApprovedOnly(db'.precedents, approvals)
    BY <1>1, <1>2 DEF IInv, Memory, ApprovedOnly
  <2>4. QED
    BY <1>1, <1>3, <2>1, <2>2, <2>3 DEF Memory, DeniedIn
<1>7. Answers'
  <2>1. ASSUME NEW r \in Runs, stage[r] \in {"refused", "resolved"}
        PROVE  AnsweredIn(db', r, stage[r])
    <3>1. AnsweredIn(disk, r, stage[r])
      BY <2>1 DEF IInv, Answers
    <3>2. ASSUME NEW y \in Held(db'), y.run = r
          PROVE  /\ y.outcome = (IF stage[r] = "refused" THEN "denied" ELSE "completed")
                 /\ AgentDenials(y) # {} => Entry(r, "denial") \in db'.events
      <4>1. PICK x \in Held(disk) : /\ y.run = x.run /\ y.denials = x.denials
                                    /\ x.outcome # "awaiting-approval" => y.outcome = x.outcome
        BY <1>2, <1>4
      <4>2. AgentDenials(y) = AgentDenials(x)
        BY <4>1 DEF AgentDenials
      <4>3. QED
        BY <1>1, <1>2, <3>1, <3>2, <4>1, <4>2 DEF AnsweredIn
    <3>3. QED
      BY <1>1, <1>2, <1>5, <3>1, <3>2 DEF AnsweredIn
  <2>2. QED
    BY <1>1, <1>3, <2>1 DEF Answers, AnsweredIn
<1>8. NotesCount'
  <2>1. ASSUME NEW r \in Runs, Noted(r)'
        PROVE  Counted(r)'
    <3>1. Entry(r, "denial") \in disk.events
      BY <1>1, <1>2, <2>1 DEF Noted
    <3>2. Counted(r)
      BY <3>1 DEF IInv, Memory, NotesCount, Noted
    <3>3. stage[r] = "resolved" => HasDenials(db', r)
      <4>1. stage[r] = "resolved" => HasDenials(disk, r)
        BY <3>2 DEF Counted
      <4>2. ASSUME HasDenials(disk, r), NEW y \in Held(db'), y.run = r
            PROVE  AgentDenials(y) # {}
        <5>1. PICK x \in Held(disk) : y.run = x.run /\ y.denials = x.denials
          BY <1>2, <1>4
        <5>2. AgentDenials(y) = AgentDenials(x)
          BY <5>1 DEF AgentDenials
        <5>3. QED
          BY <4>2, <5>1, <5>2 DEF HasDenials
      <4>3. QED
        BY <1>5, <4>1, <4>2 DEF HasDenials
    <3>4. QED
      BY <1>1, <1>3, <3>2, <3>3 DEF Counted, HasDenials
  <2>2. QED
    BY <2>1 DEF NotesCount
<1>9. QED
  BY <1>1, <1>6, <1>7, <1>8 DEF IInv

\* A start that cannot read it keeps the invariant too: with the answers, the history of
\* them is gone.
LEMMA BootForgets ==
  ASSUME IInv, Boot(FALSE)
  PROVE  IInv'
<1> DEFINE e == Loaded(disk, FALSE)
<1>1. /\ disk' = db' /\ db'.events = e.events /\ db'.precedents \subseteq e.precedents
      /\ queue' = << >> /\ \A r \in Runs : ~ IsLive(r)
      /\ TypeOK' /\ Locals' /\ Idle' /\ AllPlaced' /\ Queued' /\ NotesFirst' /\ Down' /\ Sound'
  BY BootFacts
<1>2. e.events = {} /\ e.precedents = {}
  BY LoadedFacts DEF IInv, TypeOK
<1>3. refusals' = {} /\ approvals' = {}
      /\ stage' = [r \in Runs |-> IF stage[r] \in Ended THEN "lost" ELSE stage[r]]
  BY DEF Boot
<1> HIDE DEF e
<1>4. db'.events = {} /\ db'.precedents = {}
  BY <1>1, <1>2
<1>5. Memory'
  BY <1>1, <1>3, <1>4 DEF Memory, ApprovedOnly
<1>6. Answers'
  <2>1. \A r \in Runs : stage'[r] \notin {"refused", "resolved"}
    BY <1>3 DEF Ended
  <2>2. QED
    BY <2>1 DEF Answers
<1>7. NotesCount'
  <2>1. \A r \in Runs : ~ Noted(r)'
    BY <1>1, <1>4 DEF Noted
  <2>2. QED
    BY <2>1 DEF NotesCount
<1>8. QED
  BY <1>1, <1>5, <1>6, <1>7 DEF IInv

\* A start keeps the invariant, whatever it finds.
LEMMA BootKeeps ==
  ASSUME IInv, NEW readable \in BOOLEAN, Boot(readable)
  PROVE  IInv'
BY BootReads, BootForgets

\* The time of an approval is over, in the memory and in the file: what holds of the
\* approvals of its capability is none of it.
LEMMA ExpiredFacts ==
  ASSUME NEW d \in Dbs, NEW p \in Precedents, NEW e, e = Expired(d, p), p.decision = "approved", p.live
  PROVE  /\ e \in Dbs /\ e.events = d.events /\ e.runs = d.runs
         /\ \A x \in d.precedents : x.decision = "denied" => x \in e.precedents
         /\ \A agent, fp : DeniedIn(d, agent, fp) => DeniedIn(e, agent, fp)
         /\ \A y \in e.precedents : y.decision = "denied" => y \in d.precedents
         /\ \A y \in e.precedents : y.decision = "approved" /\ y.live =>
               y \in d.precedents /\ <<y.agent, y.fp, y.version>> # <<p.agent, p.fp, p.version>>
<1> DEFINE of(x) == IF x = p THEN [x EXCEPT !.live = FALSE] ELSE x
           kept == {of(x) : x \in d.precedents}
<1>1. d = [events |-> d.events, precedents |-> d.precedents, runs |-> d.runs]
      /\ d.precedents \subseteq Precedents /\ d.runs \in Seq(Records)
      /\ d.events \subseteq [run : Runs, type : EventTypes]
  BY DEF Dbs
<1>2. e = [d EXCEPT !.precedents = kept]
  BY DEF Expired
<1>3. ASSUME NEW x \in Precedents
      PROVE  of(x) \in Precedents /\ (x # p => of(x) = x)
  BY DEF Precedents
<1>4. of(p).decision = "approved" /\ ~ of(p).live
  BY DEF Precedents
<1> HIDE DEF of
<1>5. /\ kept \subseteq Precedents /\ \A x \in d.precedents : x.decision = "denied" => x \in kept
      /\ \A y \in kept : y = of(p) \/ (y \in d.precedents /\ y # p)
  BY <1>1, <1>3
<1> HIDE DEF kept
<1>6. e = [events |-> d.events, precedents |-> kept, runs |-> d.runs]
  BY <1>1, <1>2
<1>7. e \in Dbs /\ e.events = d.events /\ e.runs = d.runs /\ e.precedents = kept
  BY <1>1, <1>5, <1>6 DEF Dbs
<1>8. \A agent, fp : DeniedIn(d, agent, fp) => DeniedIn(e, agent, fp)
  BY <1>5, <1>7 DEF DeniedIn
<1>9. \A y \in Precedents : y.decision = "approved" /\ y.live
         /\ <<y.agent, y.fp, y.version>> = <<p.agent, p.fp, p.version>> => y = p
  BY DEF Precedents
<1>10. \A y \in kept : y.decision = "approved" /\ y.live =>
          y \in d.precedents /\ <<y.agent, y.fp, y.version>> # <<p.agent, p.fp, p.version>>
  BY <1>4, <1>5, <1>9
<1>11. \A y \in kept : y.decision = "denied" => y \in d.precedents
  BY <1>4, <1>5
<1>12. QED
  BY <1>5, <1>7, <1>8, <1>10, <1>11

\* An approval running out keeps the invariant: each run holds what it read, and one that
\* is about to record the approval again renews it.
LEMMA PrecedentExpiresKeeps ==
  ASSUME IInv, PrecedentExpires
  PROVE  IInv'
<1>1. PICK p \in db.precedents \cup disk.precedents :
         /\ p.decision = "approved" /\ p.live /\ disk' = Expired(disk, p) /\ db' = Expired(db, p)
         /\ approvals' = IF BeingRenewed(p) THEN approvals ELSE approvals \ {<<p.agent, p.fp, p.version>>}
  BY DEF PrecedentExpires
<1> DEFINE place == <<p.agent, p.fp, p.version>>
<1>2. queue = << >> /\ disk \in Dbs /\ db \in Dbs /\ p \in Precedents
      /\ ApprovedOnly(db.precedents, approvals) /\ ApprovedOnly(disk.precedents, approvals)
      /\ UNCHANGED <<queue, health, version, files, trouble, stage, call, refusals>>
  BY DEF PrecedentExpires, IInv, TypeOK, Dbs, Memory
<1>3. /\ disk' \in Dbs /\ disk'.events = disk.events /\ disk'.runs = disk.runs
      /\ \A agent, fp : DeniedIn(disk, agent, fp) => DeniedIn(disk', agent, fp)
      /\ \A y \in disk'.precedents : y.decision = "denied" => y \in disk.precedents
      /\ \A y \in disk'.precedents : y.decision = "approved" /\ y.live =>
            y \in disk.precedents /\ <<y.agent, y.fp, y.version>> # place
  BY <1>1, <1>2, ExpiredFacts
<1>4. /\ db' \in Dbs /\ db'.events = db.events /\ db'.runs = db.runs
      /\ \A agent, fp : DeniedIn(db, agent, fp) => DeniedIn(db', agent, fp)
      /\ \A y \in db'.precedents : y.decision = "approved" /\ y.live =>
            y \in db.precedents /\ <<y.agent, y.fp, y.version>> # place
  BY <1>1, <1>2, ExpiredFacts
<1>5. approvals' \subseteq approvals /\ \A x \in approvals : x # place => x \in approvals'
  BY <1>1
<1>6. TypeOK'
  BY <1>2, <1>3, <1>4, <1>5 DEF IInv, TypeOK, files, trouble
<1>7. Locals' /\ Idle'
  BY <1>2 DEF IInv, Locals, Idle
<1>8. AllPlaced'
  <2>1. World'.events = World.events /\ World'.version = World.version
        /\ World'.approvals = approvals' /\ World.approvals = approvals
    BY <1>2, <1>4 DEF World
  <2>2. ASSUME NEW r \in Runs, stage[r] \in Places
        PROVE  PlacedOK(r, stage[r], call[r], World')
    <3>1. PlacedOK(r, stage[r], call[r], World)
      BY <2>2 DEF IInv, AllPlaced
    <3>2. ASSUME stage[r] = "remembering", call[r].decision = "approved", NEW fp \in call[r].todo
          PROVE  <<call[r].agent, fp, call[r].permit.version>> \in approvals'
      <4>1. <<call[r].agent, fp, call[r].permit.version>> \in approvals
        BY <2>1, <3>1, <3>2 DEF PlacedOK
      <4>2. CASE BeingRenewed(p)
        BY <1>1, <4>1, <4>2
      <4>3. CASE ~ BeingRenewed(p)
        <5>1. <<call[r].agent, fp, call[r].permit.version>> # place
          BY <3>2, <4>3 DEF BeingRenewed
        <5>2. QED
          BY <1>5, <4>1, <5>1
      <4>4. QED
        BY <4>2, <4>3
    <3>3. QED
      BY <2>1, <3>1, <3>2 DEF PlacedOK
  <2>3. QED
    BY <1>2, <2>2 DEF AllPlaced
<1>9. Queued' /\ Down'
  <2>1. DOMAIN queue' = {} /\ queue' = queue
    BY <1>2
  <2>2. QED
    BY <1>2, <2>1 DEF IInv, Queued, Down, IsLive
<1>10. NotesFirst'
  <2>1. DOMAIN queue' = {}
    BY <1>2
  <2>2. QED
    BY <1>2, <1>4, <2>1 DEF IInv, NotesFirst
<1>11. Sound'
  BY <1>1, <1>2 DEF IInv, Sound, trouble
<1>12. Memory'
  <2>1. ApprovedOnly(db'.precedents, approvals') /\ ApprovedOnly(disk'.precedents, approvals')
    BY <1>2, <1>3, <1>4, <1>5 DEF ApprovedOnly
  <2>2. \A x \in refusals : DeniedIn(disk', x[1], x[2])
    BY <1>3 DEF IInv, Memory
  <2>3. ASSUME NEW x \in disk'.precedents, x.decision = "denied"
        PROVE  DeniedIn(db', x.agent, x.fp)
    <3>1. x \in disk.precedents
      BY <1>3, <2>3
    <3>2. DeniedIn(db, x.agent, x.fp)
      BY <2>3, <3>1 DEF IInv, Memory
    <3>3. QED
      BY <1>4, <3>2
  <2>4. disk'.events \subseteq db'.events
    BY <1>3, <1>4 DEF IInv, Memory
  <2>5. QED
    BY <1>2, <2>1, <2>2, <2>3, <2>4 DEF Memory, DeniedIn
<1>13. \A r : /\ (Recorded(db', r) <=> Recorded(db, r)) /\ (Recorded(disk', r) <=> Recorded(disk, r))
              /\ Held(db') = Held(db) /\ Held(disk') = Held(disk)
  BY <1>3, <1>4 DEF Recorded, Held, Full
<1>14. Answers'
  BY <1>2, <1>3, <1>4, <1>13 DEF IInv, Answers, AnsweredIn
<1>15. NotesCount'
  <2>1. ASSUME NEW r \in Runs, Noted(r)'
        PROVE  Counted(r)'
    <3>1. Noted(r)
      BY <1>2, <1>4, <2>1 DEF Noted
    <3>2. Counted(r)
      BY <3>1 DEF IInv, NotesCount
    <3>3. QED
      BY <1>2, <1>4, <1>13, <3>2 DEF Counted, HasDenials, trouble
  <2>2. QED
    BY <2>1 DEF NotesCount
<1>16. QED
  BY <1>6, <1>7, <1>8, <1>9, <1>10, <1>11, <1>12, <1>14, <1>15 DEF IInv

-----------------------------------------------------------------------------
(* The operator, and the whole *)

\* A step that leaves the runs and the store alone, but that it may ask for the
\* approvals to be looked at again.
LEMMA AsideKeeps ==
  ASSUME IInv, UNCHANGED <<db, disk, health, version, faults, stage, call, refusals, approvals>>,
         events' \in 0..MaxEvents, policy' \in [Agents -> Policies \cup {"torn"}],
         edit' = NoEdit \/ edit' \in [agent : Agents, policy : Policies],
         NEW added \in Seq(Mutations), queue' = queue \o added,
         \A i \in DOMAIN added : added[i] = Invalidates, health = "down" => added = << >>
  PROVE  IInv'
<1>1. queue \in Seq(Mutations)
  BY DEF IInv, TypeOK
<1>2. /\ queue' \in Seq(Mutations)
      /\ \A i \in DOMAIN queue : i \in DOMAIN queue' /\ queue'[i] = queue[i]
      /\ \A i \in DOMAIN queue' : (i \in DOMAIN queue /\ queue'[i] = queue[i]) \/ queue'[i] = Invalidates
  <2>1. /\ queue' \in Seq(Mutations)
        /\ \A i \in DOMAIN queue : i \in DOMAIN queue' /\ queue'[i] = queue[i]
        /\ \A i \in DOMAIN added : queue'[Len(queue) + i] = added[i]
        /\ \A i \in DOMAIN queue' : i \in DOMAIN queue \/ \E j \in DOMAIN added : i = Len(queue) + j
    BY <1>1, Lengthened
  <2>2. QED
    BY <2>1
<1>3. Invalidates.then = "none" /\ Invalidates.kind = "invalidate"
  BY DEF Invalidates
<1>4. TypeOK'
  BY <1>2 DEF IInv, TypeOK
<1>5. Locals' /\ Idle'
  BY DEF IInv, Locals, Idle
<1>6. World' = World /\ \A o : After(World', o) = After(World, o)
  BY DEF World, After
<1>7. AllPlaced'
  BY <1>6 DEF IInv, AllPlaced
<1>8. Queued'
  <2>1. ASSUME NEW i \in DOMAIN queue'
        PROVE  OpOK(queue[i])'
    <3>1. CASE i \in DOMAIN queue /\ queue'[i] = queue[i]
      <4>1. OpOK(queue[i])
        BY <3>1 DEF IInv, Queued
      <4>2. QED
        BY <1>6, <3>1, <4>1 DEF OpOK
    <3>2. CASE queue'[i] = Invalidates
      BY <1>3, <3>2 DEF OpOK
    <3>3. QED
      BY <1>2, <3>1, <3>2
  <2>2. \A i, j \in DOMAIN queue' : queue'[i].then # "none" /\ queue'[j].then # "none"
                                      /\ queue'[i].of = queue'[j].of => i = j
    BY <1>2, <1>3 DEF IInv, Queued
  <2>3. QED
    BY <2>1, <2>2 DEF Queued
<1>9. Down'
  <2>1. health = "down" => queue' = << >>
    BY <1>1 DEF IInv, Down
  <2>2. QED
    BY <2>1 DEF IInv, Down, IsLive
<1>10. Sound' /\ Memory' /\ Answers'
  <2>1. Sound'
    BY DEF IInv, Sound
  <2>2. Memory'
    BY DEF IInv, Memory, DeniedIn, ApprovedOnly
  <2>3. Answers'
    BY DEF IInv, Answers, AnsweredIn
  <2>4. QED
    BY <2>1, <2>2, <2>3
<1>11. NotesCount'
  <2>1. ASSUME NEW r \in Runs, Noted(r)'
        PROVE  Counted(r)'
    <3>1. ~ Noting(Invalidates, r)
      BY <1>3 DEF Noting
    <3>2. Noted(r)
      BY <1>2, <2>1, <3>1 DEF Noted, Noting, Entry
    <3>3. Counted(r)
      BY <3>2 DEF IInv, NotesCount
    <3>4. QED
      BY <3>3 DEF Counted, HasDenials, Entry
  <2>2. QED
    BY <2>1 DEF NotesCount
<1>12. NotesFirst'
  <2>1. ASSUME NEW j \in DOMAIN queue', queue'[j].then \in {"reporting", "resolved"},
               AgentDenials(call'[queue'[j].of]) # {}
        PROVE  \/ Entry(queue'[j].of, "denial") \in db'.events
               \/ \E i \in 1..(j - 1) : Noting(queue'[i], queue'[j].of)
    <3>1. j \in DOMAIN queue /\ queue'[j] = queue[j]
      BY <1>2, <1>3, <2>1
    <3>2. Entry(queue[j].of, "denial") \in db.events \/ \E i \in 1..(j - 1) : Noting(queue[i], queue[j].of)
      BY <2>1, <3>1 DEF IInv, NotesFirst
    <3>3. \A i \in 1..(j - 1) : i \in DOMAIN queue
      BY <1>1, <3>1
    <3>4. QED
      BY <1>2, <3>1, <3>2, <3>3
  <2>2. \A r \in Runs : stage'[r] = "reporting" /\ AgentDenials(call'[r]) # {} => Entry(r, "denial") \in db'.events
    BY DEF IInv, NotesFirst
  <2>3. QED
    BY <2>1, <2>2 DEF NotesFirst
<1>13. QED
  BY <1>4, <1>5, <1>7, <1>8, <1>9, <1>10, <1>11, <1>12 DEF IInv

\* A PUT that begins to rewrite the policy file keeps the invariant.
LEMMA PutPolicyKeeps ==
  ASSUME IInv, NEW a \in Agents, NEW p \in Policies, PutPolicy(a, p)
  PROVE  IInv'
<1>1. << >> \in Seq(Mutations) /\ queue' = queue \o << >> /\ DOMAIN << >> = {}
  BY DEF PutPolicy, IInv, TypeOK
<1>2. events' \in 0..MaxEvents
  BY AdjudicationAssumption DEF PutPolicy, IInv, TypeOK
<1>3. policy' \in [Agents -> Policies \cup {"torn"}] /\ edit' \in [agent : Agents, policy : Policies]
  BY DEF PutPolicy, IInv, TypeOK
<1>4. UNCHANGED <<db, disk, health, version, faults, stage, call, refusals, approvals>>
  BY DEF PutPolicy
<1>5. QED
  BY <1>1, <1>2, <1>3, <1>4, AsideKeeps

\* A policy file written, and the precedents it invalidates put in the queue, keeps the
\* invariant.
LEMMA PolicyWrittenKeeps ==
  ASSUME IInv, PolicyWritten
  PROVE  IInv'
<1> DEFINE added == <<Invalidates>>
<1>1. added \in Seq(Mutations) /\ \A i \in DOMAIN added : added[i] = Invalidates
  BY DEF Mutations
<1>2. queue' = queue \o added
  BY DEF PolicyWritten, IInv, TypeOK
<1>3. UNCHANGED <<db, disk, health, version, faults, stage, call, refusals, approvals>>
      /\ edit' = edit /\ events' = events /\ health # "down"
  BY DEF PolicyWritten, trouble
<1>4. policy' \in [Agents -> Policies \cup {"torn"}]
  BY DEF PolicyWritten, IInv, TypeOK
<1>5. events' \in 0..MaxEvents /\ (edit' = NoEdit \/ edit' \in [agent : Agents, policy : Policies])
  BY <1>3 DEF IInv, TypeOK
<1> HIDE DEF added
<1>6. QED
  BY <1>1, <1>2, <1>3, <1>4, <1>5, AsideKeeps

\* Nothing happens, or something that is no concern of this program.
LEMMA StutterKeeps ==
  ASSUME IInv, UNCHANGED vars
  PROVE  IInv'
<1>1. << >> \in Seq(Mutations) /\ queue' = queue \o << >> /\ DOMAIN << >> = {}
  BY DEF vars, IInv, TypeOK
<1>2. UNCHANGED <<db, disk, health, version, faults, stage, call, refusals, approvals>>
      /\ events' = events /\ policy' = policy /\ edit' = edit
  BY DEF vars, files, trouble
<1>3. events' \in 0..MaxEvents /\ policy' \in [Agents -> Policies \cup {"torn"}]
      /\ (edit' = NoEdit \/ edit' \in [agent : Agents, policy : Policies])
  BY <1>2 DEF IInv, TypeOK
<1>4. QED
  BY <1>1, <1>2, <1>3, AsideKeeps

\* A new deployment satisfies the invariant.
LEMMA InitHolds == Init => IInv
<1> SUFFICES ASSUME Init
             PROVE  IInv
  OBVIOUS
<1>1. /\ db = EmptyDb /\ disk = EmptyDb /\ queue = << >> /\ health = "up" /\ version = 1
      /\ policy = [a \in Agents |-> DefaultPolicy] /\ edit = NoEdit /\ events = 0 /\ faults = FALSE
      /\ stage = [r \in Runs |-> "idle"] /\ call = [r \in Runs |-> NoCall(r)]
      /\ refusals = {} /\ approvals = {}
  BY DEF Init
<1>2. EmptyDb \in Dbs /\ EmptyDb.events = {} /\ EmptyDb.precedents = {} /\ EmptyDb.runs = << >>
  BY DEF EmptyDb, Dbs
<1>3. \A r \in Runs : call[r] = NoCall(r) /\ LocalsOK(call[r]) /\ stage[r] = "idle"
  BY <1>1, NoCallOK
<1>4. "idle" \notin Waiting /\ "idle" \notin Ended
  BY DEF Waiting, Ended
<1>5. queue \in Seq(Mutations) /\ DOMAIN queue = {}
  BY <1>1
<1>6. TypeOK
  <2>1. version \in 1..MaxVersion /\ events \in 0..MaxEvents
    BY <1>1, AdjudicationAssumption
  <2>2. policy \in [Agents -> Policies \cup {"torn"}] /\ stage \in [Runs -> {"idle"} \cup Waiting \cup Ended]
    BY <1>1, AdjudicationAssumption
  <2>3. \A r \in Runs :
          LET c == call[r] IN
          /\ c.agent \in Agents \cup {"none"} /\ c.policy \in Policies /\ c.outcome \in Outcomes
          /\ c.taint \in DOMAIN Taints /\ c.todo \subseteq Fingerprints
          /\ c.barred \subseteq Fingerprints /\ c.vouched \subseteq Fingerprints
          /\ c.decision \in {"none", "approved", "denied"}
          /\ c.denials \cup c.unread \subseteq Denials /\ c.halted \in BOOLEAN
    BY <1>3 DEF LocalsOK
  <2>4. QED
    BY <1>1, <1>2, <1>5, <2>1, <2>2, <2>3 DEF TypeOK
<1>7. Locals /\ Idle
  BY <1>1, <1>3 DEF Locals, Idle
<1>8. AllPlaced
  BY <1>3, <1>4 DEF AllPlaced, Places
<1>9. Queued /\ NotesFirst
  BY <1>3, <1>5 DEF Queued, NotesFirst
<1>10. Down /\ Sound
  BY <1>1 DEF Down, Sound
<1>11. Memory
  BY <1>1, <1>2 DEF Memory, ApprovedOnly
<1>12. Answers
  BY <1>3 DEF Answers
<1>13. NotesCount
  BY <1>1, <1>2, <1>5 DEF NotesCount, Noted
<1>14. QED
  BY <1>6, <1>7, <1>8, <1>9, <1>10, <1>11, <1>12, <1>13 DEF IInv

\* Every step of a run keeps the invariant.
LEMMA RunsKeep ==
  ASSUME IInv, NEW r \in Runs, PlanNext(r) \/ JudgeNext(r) \/ AskNext(r) \/ RunNext(r)
  PROVE  IInv'
<1>1. CASE PlanNext(r)
  BY <1>1, LoadPolicyKeeps, PlansKeeps, FailsClosedKeeps, StartKeeps DEF PlanNext
<1>2. CASE JudgeNext(r)
  BY <1>2, ObservesKeeps, AdjudicatesKeeps, DenyingKeeps, JournalFailsKeeps DEF JudgeNext
<1>3. CASE AskNext(r)
  BY <1>3, ParksKeeps, RemembersDecisionKeeps, RefusesKeeps, ApprovesKeeps, DecideKeeps DEF AskNext
<1>4. CASE RunNext(r)
  BY <1>4, LaunchKeeps, LaunchFailsKeeps, PermitExpiresKeeps, ReportsKeeps, SavesFailureKeeps, ActsKeeps,
     AsksKeeps, FailsKeeps, ReconcilesKeeps DEF RunNext
<1>5. QED
  BY <1>1, <1>2, <1>3, <1>4

\* And so does every other.
LEMMA NextKeeps == IInv /\ [Next]_vars => IInv'
<1> SUFFICES ASSUME IInv, [Next]_vars
             PROVE  IInv'
  OBVIOUS
<1>1. CASE StoreNext
  BY <1>1, CommitKeeps, WriteFailsKeeps, CrashKeeps, BootKeeps, PrecedentExpiresKeeps DEF StoreNext
<1>2. CASE OperatorNext
  BY <1>2, PolicyWrittenKeeps, PutPolicyKeeps DEF OperatorNext
<1>3. CASE \E r \in Runs : PlanNext(r) \/ JudgeNext(r) \/ AskNext(r) \/ RunNext(r)
  BY <1>3, RunsKeep
<1>4. CASE UNCHANGED vars
  BY <1>4, StutterKeeps
<1>5. QED
  BY <1>1, <1>2, <1>3, <1>4 DEF Next

\* The invariant holds of every state a run of the program can reach.
THEOREM Invariant == Spec => []IInv
<1>1. IInv /\ UNCHANGED vars => IInv'
  BY StutterKeeps
<1>2. QED
  BY InitHolds, NextKeeps, PTL DEF Spec

-----------------------------------------------------------------------------
(* What follows *)

\* The state of the program always has its types: whatever a model answers, a file
\* holds or a crash leaves, a run holds a policy it could read and a decided outcome.
THEOREM TypesHold == Spec => []TypeOK
<1>1. IInv => TypeOK
  BY DEF IInv
<1>2. QED
  BY <1>1, Invariant, PTL

\* What is known of a run in execution.
LEMMA ExecutingFacts ==
  ASSUME IInv, NEW r \in Runs, Executing(r)
  PROVE  /\ PlacedOK(r, stage[r], call[r], World) /\ stage[r] \in Execution
         /\ LocalsOK(call[r]) /\ Granted(r) = GrantedTo(call[r])
<1>1. stage[r] \in Execution /\ stage[r] \in Places
  BY DEF Executing, Execution, Places, Waiting
<1>2. QED
  BY <1>1, AtPlace DEF Granted, GrantedTo

\* What was refused to an Agent before a run of it is judged is not granted to that run
\* (engine.ts, resolveConditional and the store's precedents): not after a restart, a
\* failed write, another term sheet or another policy. The store must have acknowledged
\* the refusal before the run is judged, and no start since then have found its file
\* unreadable; a run judged before, and approved after, is not meant.
THEOREM RefusalStandsAlways == Spec => []RefusalStands
<1>1. IInv => RefusalStands
  <2> SUFFICES ASSUME IInv, NEW r \in Runs, Executing(r), NEW k \in Granted(r)
               PROVE  Fingerprint(k) \notin call[r].barred
    BY DEF RefusalStands
  <2>1. k \in GrantedTo(call[r]) /\ Judged(call[r])
    BY ExecutingFacts DEF LocalsOK
  <2>2. k \in DOMAIN call[r].permit.verdicts /\ call[r].permit.verdicts[k].tier \in {"T0", "T1", "T3"}
    BY <2>1 DEF GrantedTo, OfTier
  <2>3. QED
    BY <2>1, <2>2 DEF Judged
<1>2. QED
  BY <1>1, Invariant, PTL

\* A door that opens without asking is one the score opens by itself, or one that an
\* approval opened which held when the run was judged: given to this Agent under this term
\* sheet, for a capability that counts as the same, and not expired (engine.ts,
\* hasValidPrecedent and resolveConditional).
THEOREM DoorsAreEarnedAlways == Spec => []DoorsAreEarned
<1>1. IInv => DoorsAreEarned
  <2> SUFFICES ASSUME IInv, NEW r \in Runs, Executing(r), NEW k \in OfTier(call[r].permit, {"T0", "T1"})
               PROVE  k \in call[r].earned \/ Fingerprint(k) \in call[r].vouched
    BY DEF DoorsAreEarned
  <2>1. Judged(call[r])
    BY ExecutingFacts DEF LocalsOK
  <2>2. k \in DOMAIN call[r].permit.verdicts /\ call[r].permit.verdicts[k].tier \in {"T0", "T1"}
    BY DEF OfTier
  <2>3. QED
    BY <2>1, <2>2 DEF Judged
<1>2. QED
  BY <1>1, Invariant, PTL

\* A run executes with what was decided and nothing else: the permit is the one that
\* was sealed, its doors are those of the granted verdicts, the sidecar holds the same,
\* and what left went through one of them (engine.ts, docker.ts, egress proxy).
THEOREM RunsWhatWasDecidedAlways == Spec => []RunsWhatWasDecided
<1>1. IInv => RunsWhatWasDecided
  <2> SUFFICES ASSUME IInv, NEW r \in Runs, stage[r] = "running"
               PROVE  LET p == call[r].permit IN
                      /\ Intact(p) /\ OfTier(p, {"T2", "T4"}) = {}
                      /\ OfTier(p, {"T3"}) # {} => call[r].decision = "approved"
                      /\ [p.doors EXCEPT !.hosts = @ \cup {ProviderHost}]
                            = [Doors(Granted(r), p.verdicts) EXCEPT !.hosts = @ \cup {ProviderHost}]
                      /\ call[r].sidecar.hosts = p.doors.hosts /\ call[r].sent \subseteq p.doors.hosts
                      /\ call[r].sidecar.expired = p.expired
    BY DEF RunsWhatWasDecided
  <2> DEFINE p == call[r].permit
             o == p.doors
             d == Doors(Granted(r), p.verdicts)
  <2>1. PlacedOK(r, "running", call[r], World) /\ LocalsOK(call[r]) /\ Granted(r) = GrantedTo(call[r])
    BY ExecutingFacts DEF Executing
  <2>2. /\ OfTier(p, {"T4"}) = {} /\ (OfTier(p, {"T3"}) # {} => call[r].decision = "approved")
        /\ OpensFor(call[r], GrantedTo(call[r])) /\ InExecution(call[r])
    BY <2>1 DEF PlacedOK, Execution
  <2>3. OfTier(p, {"T2", "T4"}) = {}
    BY <2>1, <2>2 DEF OfTier, LocalsOK, Judged
  <2>4. o = [f \in DoorFields |-> o[f]]
    BY <2>1 DEF LocalsOK, IsPermit
  <2>5. d = [f \in DoorFields |-> d[f]]
    BY DEF Doors, DoorFields
  <2>6. Intact(p) /\ o.writes = d.writes /\ o.reads = d.reads /\ o.commands = d.commands
        /\ o.hosts = d.hosts \cup {ProviderHost}
    BY <2>1, <2>2 DEF OpensFor
  <2> HIDE DEF o, d
  <2>7. [o EXCEPT !.hosts = @ \cup {ProviderHost}] = [d EXCEPT !.hosts = @ \cup {ProviderHost}]
    BY <2>4, <2>5, <2>6 DEF DoorFields
  <2>8. QED
    BY <2>2, <2>3, <2>6, <2>7 DEF InExecution, o, d
<1>2. QED
  BY <1>1, Invariant, PTL

\* The report and the broker agree (broker.ts, checkAction and reconcile): what a run
\* that came to its end did and the report calls undeclared is a file only the diff
\* knows of, or a script whose text does not begin with its own first command, as
\* "cd x&&npm test" does not: the broker takes it apart, the report compares its text.
THEOREM ReportAgreesAlways == Spec => []ReportAgreesWithBroker
<1>1. IInv => ReportAgreesWithBroker
  BY DEF IInv, Locals, LocalsOK, Excused, ReportAgreesWithBroker
<1>2. QED
  BY <1>1, Invariant, PTL

\* What was answered is on disk, whatever writes failed (store.ts): the refusals the
\* store acknowledged, and the events and the record of a run that gave its answer. Not
\* so once a start found the file unreadable and overwrote it; and a record goes when as
\* many newer ones as are kept come after it.
THEOREM AnswersAreOnDiskAlways == Spec => []AnswersAreOnDisk
<1>1. IInv => AnswersAreOnDisk
  <2> SUFFICES ASSUME IInv
               PROVE  AnswersAreOnDisk
    OBVIOUS
  <2>1. ASSUME NEW x \in refusals
        PROVE  \E y \in disk.precedents : y.agent = x[1] /\ y.fp = x[2] /\ y.decision = "denied"
    BY DEF IInv, Memory, DeniedIn
  <2>2. ASSUME NEW r \in Runs, stage[r] \in {"refused", "resolved"}
        PROVE  /\ OnDisk(r, "attribution") /\ OnDisk(r, "recon")
               /\ stage[r] = "resolved" => OnDisk(r, "permit") /\ OnDisk(r, "reconciliation")
               /\ RecordsOf(r) # {} \/ Full(disk)
               /\ \A x \in RecordsOf(r) :
                     /\ x.outcome = IF stage[r] = "refused" THEN "denied" ELSE "completed"
                     /\ AgentDenials(x) # {} => OnDisk(r, "denial")
    <3>1. AnsweredIn(disk, r, stage[r])
      BY <2>2 DEF IInv, Answers
    <3>2. {"attribution", "recon"} \subseteq Evidence(stage[r])
          /\ (stage[r] = "resolved" => {"permit", "reconciliation"} \subseteq Evidence(stage[r]))
      BY <2>2 DEF Evidence
    <3>3. QED
      BY <3>1, <3>2 DEF AnsweredIn, OnDisk, Recorded, RecordsOf
  <2>3. QED
    BY <2>1, <2>2 DEF AnswersAreOnDisk
<1>2. QED
  BY <1>1, Invariant, PTL

\* A run that ended and of which the ledger holds a refused action counts as contained
\* while its record is kept (store.ts, metrics): always if it was answered, and if it
\* failed then unless a fault or an approval came in between.
THEOREM DenialsAreCountedAlways == Spec => []DenialsAreCounted
<1>1. IInv => DenialsAreCounted
  <2> SUFFICES ASSUME IInv, NEW r \in Runs, OnDisk(r, "denial"),
                      stage[r] = "resolved" \/ (stage[r] = "rejected" /\ ~ faults /\ ~ OnDisk(r, "approval"))
               PROVE  (RecordsOf(r) # {} \/ Full(disk)) /\ RecordsOf(r) \subseteq Contained(disk)
    BY DEF DenialsAreCounted
  <2>1. Counted(r)
    BY DEF IInv, Memory, NotesCount, Noted, OnDisk
  <2>2. HasDenials(disk, r)
    <3>1. CASE stage[r] = "resolved"
      BY <2>1, <3>1 DEF Counted
    <3>2. CASE stage[r] = "rejected" /\ ~ faults /\ ~ OnDisk(r, "approval")
      <4>1. db = disk
        BY <3>2 DEF IInv, Sound
      <4>2. QED
        BY <2>1, <3>2, <4>1 DEF Counted, OnDisk
    <3>3. QED
      BY <3>1, <3>2
  <2>3. QED
    BY <2>2 DEF HasDenials, Contained, Recorded, RecordsOf
<1>2. QED
  BY <1>1, Invariant, PTL

\* The file changes when a mutation is written, at a start, and when the time of an
\* approval is over.
LEMMA DiskChanges ==
  ASSUME [Next]_vars
  PROVE  UNCHANGED disk \/ Commit \/ PrecedentExpires \/ \E readable \in BOOLEAN : Boot(readable)
<1>1. ASSUME NEW r \in Runs, PlanNext(r) \/ JudgeNext(r) \/ AskNext(r)
      PROVE  UNCHANGED disk
  BY <1>1 DEF PlanNext, JudgeNext, AskNext, LoadPolicy, Plans, FailsClosed, Start, Observes, Adjudicates,
     Denying, JournalFails, Parks, Decide, RemembersDecision, Refuses, Approves, Awaits, GoesOn
<1>2. ASSUME NEW r \in Runs, RunNext(r)
      PROVE  UNCHANGED disk
  BY <1>2 DEF RunNext, Launch, LaunchFails, PermitExpires, Reports, SavesFailure, Acts, Asks, Fails,
     Reconciles, Awaits, GoesOn
<1>3. ASSUME WriteFails \/ Crash \/ OperatorNext
      PROVE  UNCHANGED disk
  BY <1>3 DEF WriteFails, Crash, OperatorNext, PolicyWritten, PutPolicy
<1>4. UNCHANGED vars => UNCHANGED disk
  BY DEF vars
<1>5. QED
  BY <1>1, <1>2, <1>3, <1>4 DEF Next, StoreNext

\* The memory on disk tightens by itself and never loosens (store.ts), but for a start that
\* finds the file unreadable and overwrites it: a denial stays, and an approval that holds
\* enters it only if an operator gave it and its time is not over.
THEOREM MemoryOnlyTightensAlways == Spec => MemoryOnlyTightens
<1> DEFINE Tightens ==
             \/ Boot(FALSE)
             \/ /\ \A x \in disk.precedents : x.decision = "denied" =>
                      \E y \in disk'.precedents : SamePlace(x, y) /\ y.decision = "denied"
                /\ \A y \in disk'.precedents \ disk.precedents : y.decision = "approved" /\ y.live =>
                      <<y.agent, y.fp, y.version>> \in approvals
<1>1. ASSUME IInv, [Next]_vars
      PROVE  [Tightens]_disk
  <2>1. IInv'
    BY <1>1, NextKeeps
  <2>2. SUFFICES ASSUME Commit \/ Boot(TRUE) \/ PrecedentExpires
                 PROVE  Tightens
    BY <1>1, DiskChanges
  <2>3. approvals' \subseteq approvals
    BY <2>2 DEF Commit, Boot, PrecedentExpires
  <2>4. \A y \in disk'.precedents : y.decision = "approved" /\ y.live => <<y.agent, y.fp, y.version>> \in approvals
    BY <2>1, <2>3 DEF IInv, Memory, ApprovedOnly
  <2>5. ASSUME NEW x \in disk.precedents, x.decision = "denied"
        PROVE  DeniedIn(disk', x.agent, x.fp)
    <3>1. CASE Commit
      <4> DEFINE op == Head(queue)
      <4>1. StoreStep(op, op.then) /\ disk' = db'
        BY <1>1, <3>1 DEF Commit, StoreStep, trouble, IInv, TypeOK
      <4>2. PICK y \in db.precedents : y.agent = x.agent /\ y.fp = x.fp /\ y.decision = "denied"
        BY <1>1, <2>5 DEF IInv, Memory, DeniedIn
      <4> HIDE DEF op
      <4>3. DeniedIn(db', y.agent, y.fp)
        BY <1>1, <4>1, <4>2, StoreDbFacts
      <4>4. QED
        BY <4>1, <4>2, <4>3
    <3>2. CASE Boot(TRUE)
      <4> DEFINE e == Loaded(disk, TRUE)
      <4>1. disk' = db' /\ \A y \in e.precedents : y.decision = "denied" => DeniedIn(db', y.agent, y.fp)
        BY <1>1, <3>2, BootFacts
      <4>2. e.precedents = disk.precedents
        BY <1>1, LoadedFacts DEF IInv, TypeOK
      <4> HIDE DEF e
      <4>3. QED
        BY <2>5, <4>1, <4>2
    <3>3. CASE PrecedentExpires
      <4>1. PICK p \in db.precedents \cup disk.precedents :
               p.decision = "approved" /\ p.live /\ disk' = Expired(disk, p)
        BY <3>3 DEF PrecedentExpires
      <4>2. disk \in Dbs /\ p \in Precedents
        BY <1>1 DEF IInv, TypeOK, Dbs
      <4>3. x \in disk'.precedents
        BY <2>5, <4>1, <4>2, ExpiredFacts
      <4>4. QED
        BY <2>5, <4>3 DEF DeniedIn
    <3>4. QED
      BY <2>2, <3>1, <3>2, <3>3
  <2>6. QED
    BY <2>4, <2>5 DEF DeniedIn, SamePlace
<1>2. QED
  BY <1>1, Invariant, PTL DEF Spec, MemoryOnlyTightens
=============================================================================
