----------------------------- MODULE Adjudication -----------------------------
(* HeimdallRunner.run with the data HeimdallRun.tla leaves out: what an agent    *)
(* declares, how it is scored, what a person is asked, what the permit opens,    *)
(* what the agent then does, and what of all this HeimdallStore remembers.       *)
(*                                                                               *)
(* Every await between two steps of a run is a point where other runs, the       *)
(* operator, a failed write or a crash may come in. A mutation of the store is   *)
(* put in a queue; it changes the memory and then writes the whole of it to the  *)
(* file, and a write that fails leaves the memory changed.                       *)
EXTENDS Broker, Egress, Ledger, Planner

CONSTANTS Runs, Agents,
          Policies,         \* the standing policies an operator may write, by name
          DefaultPolicy,    \* the name of the one used when no file can be read
          PolicyOf,         \* what a name stands for
          WorkspaceFiles,   \* the files that exist before the runs
          Readme,           \* the file that is always looked at for instructions
          Injected,         \* the files whose text reads like instructions to a model
          Replies,          \* what a model may answer to the planner of each run
          Items,            \* the items the agent's event stream may hold
          Requests,         \* the requests the container may send
          Changes,          \* what a run may be found to have changed: sets of files
          MaxActs,          \* bound: items and requests of each run
          MaxEvents,        \* bound: failed writes, crashes, and changes of a policy
          MaxVersion        \* bound: term sheets deployed

ASSUME AdjudicationAssumption ==
    /\ DefaultPolicy \in Policies /\ "torn" \notin Policies /\ "none" \notin Agents
    /\ MaxActs \in [Runs -> Nat] /\ MaxEvents \in Nat /\ MaxVersion \in Nat \ {0}

\* What the model's world may hold: an entry of a reply names hosts, paths and a
\* command whose text is not empty; an item names finitely many actions.
Declared == UNION {reply.entries : reply \in UNION {Replies[r] : r \in Runs}}
Observed == UNION {ObserveEvents(e) : e \in Items}
Scripts  == {c.command : c \in Declared} \cup {a.target.script : a \in {x \in Observed : x.op = "EXEC"}}

ASSUME RepliesAssumption ==
    \A c \in Declared :
        /\ c.host \in Hosts \cup {NoHost} /\ c.url \in Hosts \cup {NoHost}
        /\ c.class \in Classes \cup {"-"}
        /\ {t.path : t \in c.paths \cup c.files} \subseteq Paths
ASSUME LongAssumption == \A r \in Runs : \A reply \in Replies[r] : reply.long \in BOOLEAN
ASSUME ItemsAssumption == \A e \in Items : IsFiniteSet(ObserveEvents(e))
ASSUME ScriptsAssumption ==
    \A s \in Scripts : IsCommand(s) /\ (s = NoCommand \/ s.text # << >>)

VARIABLES
    db, disk,    \* HeimdallStore.db and heimdall.json
    queue,       \* the mutations waiting their turn
    health,      \* "up", "doomed": the fatal handler is shutting down, "down"
    version,     \* TERM_SHEET_VERSION of the build that runs
    policy,      \* each Agent's policy file
    edit,        \* the request that rewrites one: where it is
    events,      \* how many failed writes, crashes and changes of a policy there were
    faults,      \* whether one of them was a failure
    stage,       \* where each run is
    call,        \* its local state, gone when it ends
    refusals,    \* history: the refusals the store has acknowledged
    approvals    \* history: what an operator approved, under which term sheet, in seven days

files   == <<policy, edit>>
trouble == <<events, faults>>
vars    == <<db, disk, queue, health, version, files, trouble, stage, call, refusals, approvals>>

NoManifest == [capabilities |-> {}, long |-> FALSE]
NoContext  == [taint |-> "none", files |-> {}, precedents |-> {}, completedRuns |-> 0, version |-> 0]
NoPermit(r) == BuildPermit(r, "none", NoManifest, PolicyOf[DefaultPolicy], NoContext)
NoEdit     == [agent |-> "none", policy |-> "none"]

\* The locals of run, spawnCodex and the sidecar: the Agent, the policy loaded, the
\* manifest, what the context held, the permit, the precedents still to record, the
\* decision, the record's outcome; the sidecar's copy of the permit, what was
\* observed, the hosts a request was forwarded to, the denials reported, those only
\* the sidecar's log holds, whether an action was refused, the undeclared actions of
\* the report. History: at adjudication, the refusals acknowledged by then, the
\* approvals that held, and what was granted without the help of one.
NoCall(r) ==
    [agent |-> "none", policy |-> DefaultPolicy, manifest |-> NoManifest, taint |-> "none",
     permit |-> NoPermit(r), todo |-> {}, decision |-> "none", outcome |-> "failed",
     sidecar |-> SidecarPermit(NoPermit(r)), actual |-> {}, sent |-> {}, denials |-> {},
     unread |-> {}, halted |-> FALSE, report |-> {}, barred |-> {},
     vouched |-> {}, earned |-> {}]

Waiting == {"loading", "planning", "refusing", "observing", "scoring", "denying", "parking", "parked",
            "remembering", "cleared", "running", "reporting", "failing", "writing"}
Ended   == {"resolved", "refused", "rejected", "lost"}

Init ==
    /\ db = EmptyDb /\ disk = EmptyDb /\ queue = << >> /\ health = "up" /\ version = 1
    /\ policy = [a \in Agents |-> DefaultPolicy] /\ edit = NoEdit /\ events = 0 /\ faults = FALSE
    /\ stage = [r \in Runs |-> "idle"] /\ call = [r \in Runs |-> NoCall(r)]
    /\ refusals = {} /\ approvals = {}

-----------------------------------------------------------------------------
(* The store's queue *)

Entry(r, type)  == [run |-> r, type |-> type]
Record(r, c, outcome, denials) == [run |-> r, agent |-> c.agent, outcome |-> outcome, denials |-> denials]

\* A mutation: of which run, its kind and argument, where an awaiting run goes on.
Appends(r, type, then) == [of |-> r, kind |-> "append", arg |-> Entry(r, type), then |-> then]
Saves(r, outcome, denials, then) ==
    [of |-> r, kind |-> "save", arg |-> Record(r, call[r], outcome, denials), then |-> then]
Remembers(r, p, then) == [of |-> r, kind |-> "precedent", arg |-> p, then |-> then]
Invalidates == [of |-> "operator", kind |-> "invalidate", arg |-> "none", then |-> "none"]

\* The run awaits a mutation, its locals becoming c.
Awaits(r, op, c) ==
    /\ queue' = Append(queue, op)
    /\ stage' = [stage EXCEPT ![r] = "writing"]
    /\ call' = [call EXCEPT ![r] = c]
    /\ UNCHANGED <<db, disk, health, version, files, trouble>>

\* The run goes on to s without waiting for the store.
GoesOn(r, s, c) ==
    /\ stage' = [stage EXCEPT ![r] = s]
    /\ call' = [call EXCEPT ![r] = IF s \in Ended THEN NoCall(r) ELSE c]
    /\ UNCHANGED <<db, disk, queue, health, version, files>>

FaultyCaught(r) == "rejected"
\* An error reaches run's catch: it saves the record only while nothing was decided.
Caught(r) == IF call[r].outcome = "failed" THEN "failing" ELSE "rejected"

FaultyAfterFailure(op) == op.then
\* The await whose write failed rejects. buildContext alone swallows that.
AfterFailure(op) ==
    CASE op.then = "none"                 -> "none"
      [] op.then \in {"scoring", "rejected"} -> op.then
      [] OTHER                            -> Caught(op.of)

Resumes(op, s) ==
    IF s = "none" THEN UNCHANGED <<stage, call>>
    ELSE /\ stage' = [stage EXCEPT ![op.of] = s]
         /\ call' = [call EXCEPT ![op.of] = IF s \in Ended THEN NoCall(op.of) ELSE @]

\* saveRun stores the record itself: what the run assigns to it later shows at the
\* next write, whosever it is.
IsLive(r) == stage[r] \in Waiting
Current(x) ==
    IF IsLive(x.run)
    THEN [x EXCEPT !.outcome = call[x.run].outcome,
                   !.denials = IF call[x.run].outcome = "completed" THEN call[x.run].denials ELSE @]
    ELSE x
Refreshed(d) ==
    [d EXCEPT !.runs = [i \in DOMAIN @ |-> Current(@[i])]]

Trouble == events' = events + 1 /\ faults' = TRUE

\* A mutation whose write succeeds, and one whose write fails: what nobody awaits
\* then rejects unhandled, and the fatal handler shuts the server down.
Commit ==
    /\ health # "down" /\ queue # << >>
    /\ LET op == Head(queue) IN
       /\ db' = Apply(Refreshed(db), op, version) /\ disk' = db'
       /\ Resumes(op, op.then)
       /\ edit' = IF op.kind = "invalidate" THEN NoEdit ELSE edit
       /\ refusals' = IF op.kind = "precedent" /\ op.arg.decision = "denied"
                      THEN refusals \cup {<<op.arg.agent, op.arg.fp>>} ELSE refusals
    /\ queue' = Tail(queue)
    /\ UNCHANGED <<health, version, policy, trouble, approvals>>

WriteFails ==
    /\ health # "down" /\ queue # << >> /\ events < MaxEvents
    /\ LET op == Head(queue) IN
       /\ db' = Apply(Refreshed(db), op, version)
       /\ Resumes(op, AfterFailure(op))
       /\ edit' = IF op.kind = "invalidate" THEN NoEdit ELSE edit
       /\ health' = IF op.kind = "append" /\ op.then = "none" THEN "doomed" ELSE health
    /\ queue' = Tail(queue) /\ Trouble
    /\ UNCHANGED <<disk, version, policy, refusals, approvals>>

\* The process ends: killed, or by the fatal handler.
Crash ==
    /\ health = "doomed" \/ (health = "up" /\ events < MaxEvents)
    /\ IF health = "up" THEN Trouble ELSE UNCHANGED trouble
    /\ health' = "down" /\ queue' = << >> /\ edit' = NoEdit
    /\ stage' = [r \in Runs |-> IF IsLive(r) THEN "lost" ELSE stage[r]]
    /\ call' = [r \in Runs |-> NoCall(r)]
    /\ UNCHANGED <<db, disk, version, policy, refusals, approvals>>

\* initialize, then invalidateApprovals: perhaps a build with another term sheet. A file
\* that cannot be read is overwritten by an empty one: all that was remembered, refused
\* or answered is gone with it, and the history starts again.
Boot(readable) ==
    /\ health = "down" /\ health' = "up"
    /\ \E v \in {version, version + 1} : v <= MaxVersion /\ version' = v
    /\ db' = InvalidateApprovals(Loaded(disk, readable), version') /\ disk' = db'
    /\ refusals' = (IF readable THEN refusals ELSE {}) /\ approvals' = (IF readable THEN approvals ELSE {})
    /\ stage' = [r \in Runs |-> IF ~ readable /\ stage[r] \in Ended THEN "lost" ELSE stage[r]]
    /\ UNCHANGED <<queue, files, trouble, call>>

\* An approval's seven days are over. One that was given again meanwhile, and is about
\* to be recorded, holds for another seven.
Expired(db0, p) == [db0 EXCEPT !.precedents = {IF x = p THEN [x EXCEPT !.live = FALSE] ELSE x : x \in @}]
BeingRenewed(p) ==
    \E r \in Runs : /\ stage[r] = "remembering" /\ call[r].decision = "approved"
                   /\ call[r].agent = p.agent /\ p.fp \in call[r].todo /\ call[r].permit.version = p.version
PrecedentExpires ==
    /\ queue = << >>
    /\ \E p \in db.precedents \cup disk.precedents :
          /\ p.decision = "approved" /\ p.live
          /\ disk' = Expired(disk, p) /\ db' = Expired(db, p)
          /\ approvals' = IF BeingRenewed(p) THEN approvals ELSE approvals \ {<<p.agent, p.fp, p.version>>}
    /\ UNCHANGED <<queue, health, version, files, trouble, stage, call, refusals>>

-----------------------------------------------------------------------------
(* The operator rewrites an Agent's policy. The file is empty while it is being  *)
(* written, and stays so if the process dies then.                               *)

PutPolicy(a, p) ==
    /\ health = "up" /\ edit = NoEdit /\ events < MaxEvents
    /\ policy' = [policy EXCEPT ![a] = "torn"] /\ events' = events + 1
    /\ edit' = [agent |-> a, policy |-> p]
    /\ UNCHANGED <<db, disk, queue, health, version, faults, stage, call, refusals, approvals>>

PolicyWritten ==
    /\ health # "down" /\ edit # NoEdit /\ policy[edit.agent] = "torn"
    /\ policy' = [policy EXCEPT ![edit.agent] = edit.policy]
    /\ queue' = Append(queue, Invalidates)
    /\ UNCHANGED <<db, disk, health, version, edit, trouble, stage, call, refusals, approvals>>

-----------------------------------------------------------------------------
(* Planning *)

Alive(r, s) == health # "down" /\ stage[r] = s

\* The attribution is the first thing on the ledger.
Start(r, a) ==
    /\ health = "up" /\ stage[r] = "idle"
    /\ Awaits(r, Appends(r, "attribution", "loading"), [call[r] EXCEPT !.agent = a])
    /\ UNCHANGED <<refusals, approvals>>

FaultyPolicyRead(name) == name
PolicyRead(name) == IF name = "torn" THEN DefaultPolicy ELSE name

\* A file that is missing, or that another request is writing, gives the default.
LoadPolicy(r) ==
    /\ Alive(r, "loading")
    /\ GoesOn(r, "planning", [call[r] EXCEPT !.policy = PolicyRead(policy[call[r].agent])])
    /\ UNCHANGED <<trouble, refusals, approvals>>

\* Without a manifest the run is refused.
Plans(r) ==
    /\ Alive(r, "planning")
    /\ \E replies \in [1..2 -> Replies[r] \cup {NoReply}] :
          IF Plan(replies) = {}
          THEN Awaits(r, Appends(r, "recon", "refusing"), [call[r] EXCEPT !.outcome = "denied"])
          ELSE \E m \in Plan(replies) :
                  Awaits(r, Appends(r, "recon", "observing"), [call[r] EXCEPT !.manifest = m])
    /\ UNCHANGED <<refusals, approvals>>

FailsClosed(r) ==
    /\ Alive(r, "refusing")
    /\ Awaits(r, Saves(r, "denied", {}, "refused"), call[r])
    /\ UNCHANGED <<refusals, approvals>>

-----------------------------------------------------------------------------
(* Adjudication *)

\* The files looked at for instructions: what the manifest reads or writes by name.
Scanned(m) ==
    ({Readme} \cup UNION {c.paths : c \in {x \in m.capabilities : x.op \in {"FS_READ", "FS_WRITE"}}}) \ Globs

Observes(r) ==
    /\ Alive(r, "observing")
    /\ LET found == Scanned(call[r].manifest) \cap Injected
       IN  IF found = {} THEN GoesOn(r, "scoring", call[r]) /\ UNCHANGED trouble
           ELSE \E p \in found :
                   Awaits(r, Appends(r, "taint", "scoring"),
                          [call[r] EXCEPT !.taint = IF p \in Inside THEN "workspace" ELSE "external"])
    /\ UNCHANGED <<refusals, approvals>>

Context(r) ==
    [taint |-> call[r].taint, files |-> WorkspaceFiles, precedents |-> PrecedentsOf(db, call[r].agent),
     completedRuns |-> Cardinality(RunsFor(db, call[r].agent)), version |-> version]

\* The memory without the approvals that still hold, and with the others as spent.
Unhelped(ctx) ==
    [ctx EXCEPT !.precedents = {IF x.decision = "approved" THEN [x EXCEPT !.decision = "spent"] ELSE x :
         x \in {y \in @ : ~ (y.decision = "approved" /\ y.version = ctx.version /\ y.live)}}]

\* What is remembered of a permit's verdicts; a manifest that asks for too much time
\* is remembered by that.
Prints(p, tier) == {Fingerprint(c) : c \in OfTier(p, {tier})}
Duration == [op |-> "EXEC", host |-> NoHost, class |-> "duration", bin |-> "none", paths |-> {}]
RefusedPrints(p, long) == IF p.denied THEN Prints(p, "T4") \cup (IF long THEN {Duration} ELSE {}) ELSE {}
Precedent(r, fp, decision) ==
    [fp |-> fp, agent |-> call[r].agent, decision |-> decision, version |-> call[r].permit.version, live |-> TRUE]

\* The permit is decided on the memory as it is at this moment.
Adjudicates(r) ==
    /\ Alive(r, "scoring")
    /\ LET c   == call[r]
           ctx == Context(r)
           p   == GrantProviderHost(BuildPermit(r, c.agent, c.manifest, PolicyOf[c.policy], ctx), ProviderHost)
           at  == IF p.denied THEN "denying" ELSE IF p.requiresHumanApproval THEN "parking" ELSE "cleared"
       IN  Awaits(r, Appends(r, "permit", at),
                  [c EXCEPT !.permit = p, !.todo = RefusedPrints(p, c.manifest.long),
                            !.barred = {x[2] : x \in {y \in refusals : y[1] = c.agent}},
                            !.vouched = {x[2] : x \in {y \in approvals : y[1] = c.agent /\ y[3] = version}},
                            !.earned = {k \in c.manifest.capabilities :
                                          ResolveConditional(k, PolicyOf[c.policy], Unhelped(ctx)).tier
                                              \in {"T0", "T1"}}])
    /\ UNCHANGED <<refusals, approvals>>

\* The verdicts that denied the run are remembered one by one, a note in the journal
\* after each.
Denying(r) ==
    /\ Alive(r, "denying")
    /\ LET c == [call[r] EXCEPT !.outcome = "denied"]
       IN  IF c.todo = {} THEN Awaits(r, Saves(r, "denied", {}, "refused"), c)
           ELSE \E fp \in c.todo :
                   Awaits(r, Remembers(r, Precedent(r, fp, "denied"), "denying"), [c EXCEPT !.todo = @ \ {fp}])
    /\ UNCHANGED <<refusals, approvals>>

\* The note cannot be written: the run ends with its denial half remembered.
JournalFails(r) ==
    /\ stage[r] \in {"denying", "refusing"} /\ health # "down"
    /\ call[r].outcome = "denied" /\ events < MaxEvents
    /\ GoesOn(r, "rejected", call[r])
    /\ Trouble
    /\ UNCHANGED <<refusals, approvals>>

-----------------------------------------------------------------------------
(* Approval *)

Parks(r) ==
    /\ Alive(r, "parking")
    /\ Awaits(r, Saves(r, "awaiting-approval", {}, "parked"), [call[r] EXCEPT !.outcome = "awaiting-approval"])
    /\ UNCHANGED <<refusals, approvals>>

\* The operator decides, or the time for it is over, which is a refusal.
Decide(r, d) ==
    /\ Alive(r, "parked")
    /\ health = "up" \/ d = "denied"
    /\ Awaits(r, Appends(r, "approval", "remembering"),
              [call[r] EXCEPT !.decision = d, !.todo = Prints(call[r].permit, "T3")])
    /\ approvals' = IF d = "approved"
                    THEN approvals \cup {<<call[r].agent, fp, version>> : fp \in Prints(call[r].permit, "T3")}
                    ELSE approvals
    /\ UNCHANGED refusals

RemembersDecision(r) ==
    /\ Alive(r, "remembering") /\ call[r].todo # {}
    /\ \E fp \in call[r].todo :
          Awaits(r, Remembers(r, Precedent(r, fp, call[r].decision), "remembering"),
                 [call[r] EXCEPT !.todo = @ \ {fp}])
    /\ UNCHANGED <<refusals, approvals>>

Refuses(r) ==
    /\ Alive(r, "remembering") /\ call[r].todo = {} /\ call[r].decision = "denied"
    /\ Awaits(r, Saves(r, "denied", {}, "refused"), [call[r] EXCEPT !.outcome = "denied"])
    /\ UNCHANGED <<refusals, approvals>>

Approves(r) ==
    /\ Alive(r, "remembering") /\ call[r].todo = {} /\ call[r].decision = "approved"
    /\ GoesOn(r, "cleared", [call[r] EXCEPT !.permit = ApplyApproval(@)])
    /\ UNCHANGED <<trouble, refusals, approvals>>

-----------------------------------------------------------------------------
(* Execution *)

\* The sidecar, then the container; either may refuse what it is given.
Launch(r) ==
    /\ Alive(r, "cleared")
    /\ IF SidecarStarts(call[r].permit) /\ Launchable(call[r].permit)
       THEN GoesOn(r, "running", [call[r] EXCEPT !.sidecar = SidecarPermit(call[r].permit)])
       ELSE GoesOn(r, Caught(r), call[r])
    /\ UNCHANGED <<trouble, refusals, approvals>>

\* The container engine may also fail.
LaunchFails(r) ==
    /\ Alive(r, "cleared") /\ events < MaxEvents
    /\ GoesOn(r, Caught(r), call[r]) /\ Trouble
    /\ UNCHANGED <<refusals, approvals>>

Notes(r, n) == [i \in 1..n |-> Appends(r, "denial", "none")]
PlatformNotes(r, n) == [i \in 1..n |-> Appends(r, "platform denial", "none")]

ActsSoFar(r) == Cardinality(call[r].actual) + Cardinality(call[r].sent) + Cardinality(call[r].unread)

\* onLine: each action of an item is taken up once. One that is refused is recorded,
\* and the container told to go; until it has, its events are read.
Acts(r, e) ==
    /\ Alive(r, "running") /\ ActsSoFar(r) < MaxActs[r]
    /\ LET c       == call[r]
           new     == {a \in ObserveEvents(e) : ~ Inert(a) /\ \A b \in c.actual : b.id # a.id}
           refused == {a \in new : ~ CheckAction(a, c.permit)}
       IN  /\ new # {}
           /\ call' = [call EXCEPT ![r].actual = @ \cup new,
                                   ![r].denials = @ \cup {[rule |-> "broker", platform |-> FALSE] : a \in refused},
                                   ![r].halted = @ \/ refused # {}]
           /\ queue' = queue \o Notes(r, Cardinality(refused))
    /\ UNCHANGED <<db, disk, health, version, files, trouble, stage, refusals, approvals>>

\* A request reaches the sidecar, with the capability of this run or without.
Asks(r, q) ==
    /\ Alive(r, "running") /\ ActsSoFar(r) < MaxActs[r]
    /\ LET s         == call[r].sidecar
           presented == IF q.capability THEN r ELSE "none"
       IN  IF DecideEgress(s, presented, q) = "P-OK"
           THEN call' = [call EXCEPT ![r].sent = @ \cup {Destination(q)}]
           ELSE call' = [call EXCEPT ![r].unread = @ \cup {Denial(s, presented, q)}]
    /\ UNCHANGED <<db, disk, queue, health, version, files, trouble, stage, refusals, approvals>>

\* The window ends, for the broker and for the sidecar.
PermitExpires(r) ==
    /\ Alive(r, "running") /\ ~ call[r].permit.expired
    /\ call' = [call EXCEPT ![r].permit.expired = TRUE, ![r].sidecar.expired = TRUE]
    /\ UNCHANGED <<db, disk, queue, health, version, files, trouble, stage, refusals, approvals>>

\* The container has ended and the sidecar's log was read, if it could be.
Collected(r, readable) == IF readable THEN call[r].unread ELSE {}
CollectNotes(r, readable) ==
    LET ours == {d \in Collected(r, readable) : ~ d.platform}
    IN  Notes(r, Cardinality(ours)) \o PlatformNotes(r, Cardinality(Collected(r, readable) \ ours))

\* What goes with the container.
Closed(c) == [c EXCEPT !.sidecar = NoCall(c.permit.run).sidecar, !.actual = {}, !.sent = {}, !.unread = {},
                       !.halted = FALSE]

\* An action was refused, the time is over, or the runtime failed.
Fails(r, readable) ==
    /\ Alive(r, "running")
    /\ queue' = queue \o CollectNotes(r, readable)
    /\ stage' = [stage EXCEPT ![r] = Caught(r)]
    /\ call' = [call EXCEPT ![r] = IF Caught(r) \in Ended THEN NoCall(r)
                                   ELSE [Closed(call[r]) EXCEPT !.denials = @ \cup Collected(r, readable)]]
    /\ UNCHANGED <<db, disk, health, version, files, trouble, refusals, approvals>>

\* Otherwise what changed in the workspace counts as written, and the report is made.
\* Without a granted write nothing changes: the workspace is mounted read-only.
Reconciles(r, readable) ==
    /\ Alive(r, "running") /\ ~ call[r].halted
    /\ \E changed \in IF MountIsWritable(call[r].permit) THEN Changes ELSE {{}} :
          LET c      == call[r]
              actual == c.actual \cup {[op |-> "FS_WRITE", target |-> Target(p, FALSE), id |-> <<"diff", p>>] :
                                          p \in changed \ (Journals \cup {Canary})}
          IN  call' = [call EXCEPT ![r] = [Closed(c) EXCEPT !.outcome = "completed",
                                                    !.denials = @ \cup Collected(r, readable),
                                                    !.report = UndeclaredActions(c.permit, actual)]]
    /\ queue' = queue \o CollectNotes(r, readable) \o <<Appends(r, "reconciliation", "reporting")>>
    /\ stage' = [stage EXCEPT ![r] = "writing"]
    /\ UNCHANGED <<db, disk, health, version, files, trouble, refusals, approvals>>

Reports(r) ==
    /\ Alive(r, "reporting")
    /\ Awaits(r, Saves(r, "completed", call[r].denials, "resolved"), call[r])
    /\ UNCHANGED <<refusals, approvals>>

SavesFailure(r) ==
    /\ Alive(r, "failing")
    /\ Awaits(r, Saves(r, "failed", call[r].denials, "rejected"), call[r])
    /\ UNCHANGED <<refusals, approvals>>

-----------------------------------------------------------------------------
(* The specification *)

StoreNext    == Commit \/ WriteFails \/ Crash \/ PrecedentExpires \/ \E readable \in BOOLEAN : Boot(readable)
OperatorNext == PolicyWritten \/ \E a \in Agents, p \in Policies : PutPolicy(a, p)
PlanNext(r)  == LoadPolicy(r) \/ Plans(r) \/ FailsClosed(r) \/ \E a \in Agents : Start(r, a)
JudgeNext(r) == Observes(r) \/ Adjudicates(r) \/ Denying(r) \/ JournalFails(r)
AskNext(r)   == Parks(r) \/ RemembersDecision(r) \/ Refuses(r) \/ Approves(r)
                    \/ \E d \in {"approved", "denied"} : Decide(r, d)
RunNext(r)   == Launch(r) \/ LaunchFails(r) \/ PermitExpires(r) \/ Reports(r) \/ SavesFailure(r)
                    \/ (\E e \in Items : Acts(r, e))
                    \/ (\E q \in Requests : Asks(r, q))
                    \/ \E readable \in BOOLEAN : Fails(r, readable) \/ Reconciles(r, readable)

Next == StoreNext \/ OperatorNext \/ \E r \in Runs : PlanNext(r) \/ JudgeNext(r) \/ AskNext(r) \/ RunNext(r)
Spec == Init /\ [][Next]_vars

-----------------------------------------------------------------------------
(* Properties *)

Fingerprints == [op : Ops, host : Hosts \cup {NoHost}, class : Classes \cup {"duration"},
                 bin : Words \cup {"none"}, paths : SUBSET Paths]
Precedents == [fp : Fingerprints, agent : Agents, decision : {"approved", "denied"},
               version : 1..MaxVersion, live : BOOLEAN]
Denials    == [rule : {"broker", "P-00", "P-07", "P-09", "P-11"}, platform : BOOLEAN]
Outcomes   == {"failed", "denied", "awaiting-approval", "completed"}
Records    == [run : Runs, agent : Agents, outcome : Outcomes, denials : SUBSET Denials]
EventTypes == {"attribution", "recon", "taint", "permit", "approval", "reconciliation",
               "denial", "platform denial"}
Dbs        == [events : SUBSET [run : Runs, type : EventTypes],
               precedents : SUBSET Precedents, runs : Seq(Records)]
Mutations  ==
    [of : Runs, kind : {"append"}, arg : [run : Runs, type : EventTypes], then : Waiting \cup {"none"}]
    \cup [of : Runs, kind : {"save"}, arg : Records, then : Waiting \cup Ended]
    \cup [of : Runs, kind : {"precedent"}, arg : Precedents, then : Waiting]
    \cup {Invalidates}

\* The state has its types: a run always holds a policy it could read.
TypeOK ==
    /\ db \in Dbs /\ disk \in Dbs /\ queue \in Seq(Mutations)
    /\ health \in {"up", "doomed", "down"} /\ version \in 1..MaxVersion
    /\ policy \in [Agents -> Policies \cup {"torn"}] 
    /\ events \in 0..MaxEvents /\ faults \in BOOLEAN
    /\ edit = NoEdit \/ edit \in [agent : Agents, policy : Policies]
    /\ stage \in [Runs -> {"idle"} \cup Waiting \cup Ended]
    /\ \A r \in Runs :
          LET c == call[r] IN
          /\ c.agent \in Agents \cup {"none"} /\ c.policy \in Policies /\ c.outcome \in Outcomes
          /\ c.taint \in DOMAIN Taints /\ c.todo \subseteq Fingerprints
          /\ c.barred \subseteq Fingerprints /\ c.vouched \subseteq Fingerprints
          /\ c.decision \in {"none", "approved", "denied"}
          /\ c.denials \cup c.unread \subseteq Denials /\ c.halted \in BOOLEAN
    /\ refusals \subseteq Agents \X Fingerprints
    /\ approvals \subseteq Agents \X Fingerprints \X (1..MaxVersion)

\* The capabilities a run executes with: granted, or approved.
Granted(r) ==
    LET p == call[r].permit
    IN  OfTier(p, {"T0", "T1"}) \cup (IF call[r].decision = "approved" THEN OfTier(p, {"T3"}) ELSE {})
Executing(r) == stage[r] \in {"cleared", "running"}

\* What was refused to an Agent before a run of it is judged is not granted to that run:
\* not after a restart, a failed write, another term sheet or another policy. Only a file
\* that cannot be read at a start takes a refusal away. (A run judged before the refusal,
\* and approved after it, does execute with what was refused.)
RefusalStands ==
    \A r \in Runs : Executing(r) => \A c \in Granted(r) : Fingerprint(c) \notin call[r].barred

\* The memory on disk tightens by itself and never loosens, but for a file that cannot be
\* read at a start: a denial stays, and an approval that holds enters it only if an
\* operator gave it.
MemoryOnlyTightens ==
    [][ \/ Boot(FALSE)
        \/ /\ \A x \in disk.precedents : x.decision = "denied" =>
                 \E y \in disk'.precedents : SamePlace(x, y) /\ y.decision = "denied"
           /\ \A y \in disk'.precedents \ disk.precedents : y.decision = "approved" /\ y.live =>
                 <<y.agent, y.fp, y.version>> \in approvals ]_disk

\* A door that was opened without asking is one the score opens by itself, or one that an
\* approval opened which still held: of this Agent, not seven days old, given under this
\* term sheet, to a capability that counts as the same.
DoorsAreEarned ==
    \A r \in Runs : Executing(r) =>
        \A c \in OfTier(call[r].permit, {"T0", "T1"}) : c \in call[r].earned \/ Fingerprint(c) \in call[r].vouched

\* A run executes with what was decided and nothing else, whatever time it waited for
\* an answer: nothing forbidden or undecided is among its verdicts, the doors are those
\* of the granted verdicts, and what left the container went to a host of the permit.
RunsWhatWasDecided ==
    \A r \in Runs : stage[r] = "running" =>
        LET p == call[r].permit IN
        /\ Intact(p) /\ OfTier(p, {"T2", "T4"}) = {}
        /\ OfTier(p, {"T3"}) # {} => call[r].decision = "approved"
        /\ [p.doors EXCEPT !.hosts = @ \cup {ProviderHost}]
              = [Doors(Granted(r), p.verdicts) EXCEPT !.hosts = @ \cup {ProviderHost}]
        /\ call[r].sidecar.hosts = p.doors.hosts /\ call[r].sent \subseteq p.doors.hosts
        /\ call[r].sidecar.expired = p.expired

\* The report and the broker, which read the same permit with different code, agree:
\* what a run that came to its end did and the report calls undeclared is a file only
\* the diff knows of, or a script whose text, word by word, does not begin with its own
\* first command: the broker takes it apart and the report does not.
ReportAgreesWithBroker ==
    \A r \in Runs : \A a \in call[r].report :
        \/ a.id[1] = "diff"
        \/ LET s == UnwrapShellCommand(a.target)
           IN  a.op = "EXEC" /\ s.segs # << >> /\ ~ Begins(s.text, s.segs[1])

OnDisk(r, type) == Entry(r, type) \in disk.events
RecordsOf(r)    == {x \in Held(disk) : x.run = r}

\* What was answered is on disk, whatever writes failed before, unless the file was lost at
\* a start: a refusal the store acknowledged; of a run that ended with an answer its events
\* and, unless as many newer records as are kept drove it out, its record, which says so.
AnswersAreOnDisk ==
    /\ \A x \in refusals : \E y \in disk.precedents :
          y.agent = x[1] /\ y.fp = x[2] /\ y.decision = "denied"
    /\ \A r \in Runs : stage[r] \in {"refused", "resolved"} =>
          /\ OnDisk(r, "attribution") /\ OnDisk(r, "recon")
          /\ stage[r] = "resolved" => OnDisk(r, "permit") /\ OnDisk(r, "reconciliation")
          /\ RecordsOf(r) # {} \/ Full(disk)
          /\ \A x \in RecordsOf(r) :
                /\ x.outcome = IF stage[r] = "refused" THEN "denied" ELSE "completed"
                /\ AgentDenials(x) # {} => OnDisk(r, "denial")

\* Every run the ledger holds a refused action of counts as contained, while its record is
\* kept. Not so a run an operator approved and that then fails: its outcome is no longer
\* "failed", so the record is not saved again. Nor one whose own write failed.
DenialsAreCounted ==
    \A r \in Runs :
        /\ stage[r] = "resolved" \/ (stage[r] = "rejected" /\ ~ faults /\ ~ OnDisk(r, "approval"))
        /\ OnDisk(r, "denial")
        => /\ RecordsOf(r) # {} \/ Full(disk)
           /\ RecordsOf(r) \subseteq Contained(disk)
===============================================================================
