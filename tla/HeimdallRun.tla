----------------------------- MODULE HeimdallRun -----------------------------
(***************************************************************************)
(* HeimdallRunner: a run is planned, adjudicated, perhaps approved, and    *)
(* executed in a container whose only way out is a proxy sidecar.          *)
(*                                                                         *)
(* A step is what runs between two awaits.  Runs of one Agent overlap: a   *)
(* coordination turn does not look whether the Agent is busy, and a run    *)
(* the watchdog closed goes on.  Overlapping runs share the Agent's entry  *)
(* in the map of active runs, and containers are removed by name.          *)
(*                                                                         *)
(* Modelled with Heimdall on and the container runtime (npm run poc).      *)
(* What a permit grants is the subject of the engine and the broker; here  *)
(* an action of the container is in the permit or is refused.              *)
(***************************************************************************)
EXTENDS Naturals

CONSTANTS
  Runs,           \* calls of run
  AgentOf,        \* the Agent of each
  NoRun,          \* no entry in the map of active runs
  Cancels,        \* calls of cancel in flight at one time
  DirectPlanner,  \* whether planning first asks the provider
  Fallback,       \* the values of the degradedFallback option considered
  MaxFaults       \* bound: ends of the process, and commands the container engine botches

Agents == {AgentOf[r] : r \in Runs}

ASSUME RunnerAssumption ==
  /\ NoRun \notin Runs
  /\ "prm_recon" \notin Runs
  /\ DirectPlanner \in BOOLEAN
  /\ Fallback \subseteq BOOLEAN
  /\ MaxFaults \in Nat

VARIABLES
  \* run: where each call is, what its current spawnCodex is for, what became
  \* of it, and why it was told to end
  pc, spawn, result, halted,
  \* the permit and the decision on it, the record and whether it is stored
  permit, decision, outcome, recorded,
  \* the maps of pending approvals and of active runs
  pending, active,
  \* the container engine: what runs, what it failed to remove, what it will
  \* start although its caller gave up
  containers, strays, late,
  \* cancel: the containers each call is removing
  victim,
  \* what callers were told: runs whose cancel found them, accepted decisions
  told, accepted,
  server, faults

planning == <<permit, decision, outcome, recorded, pending, accepted>>
engine   == <<containers, strays, late>>
vars     == <<pc, spawn, result, halted, planning, active, engine, victim, told, server, faults>>

Spawning == {"proxying", "polling", "running", "closing"}
Settled  == {"resolved", "rejected", "cancelled"}
Place    == Spawning \cup Settled
              \cup {"idle", "planning", "adjudicating", "awaiting", "decided", "finishing", "lost"}
\* Why a spawn is cut short; "limit" is the time budget or the output's size.
Causes   == {"limit", "cancelled", "blocked"}

\* Names.  Ids of permits and Agents stand for the prefixes the code takes.
PermitIds    == Runs \cup {"prm_recon"}
PermitId(r)  == IF spawn[r] = "exec" THEN r ELSE "prm_recon"
RunName(r)   == <<"heimdall", AgentOf[r]>>
EntryName(r) == <<"heimdall", PermitId(r), AgentOf[r]>>
ProxyName(r) == <<"heimdall-proxy", PermitId(r), AgentOf[r]>>
Names        == ({"heimdall"} \X Agents) \cup ({"heimdall", "heimdall-proxy"} \X PermitIds \X Agents)

Container  == [kind : {"agent", "proxy"}, name : Names, of : Runs]
Sandbox(r) == [kind |-> "agent", name |-> RunName(r), of |-> r]
Sidecar(r) == [kind |-> "proxy", name |-> ProxyName(r), of |-> r]

Free(name) == \A k \in containers : k.name # name
Without(names) == {k \in containers : k.name \notin names}
NoVictim == [agent |-> << >>, proxy |-> << >>]

Init ==
  /\ pc = [r \in Runs |-> "idle"]
  /\ spawn = [r \in Runs |-> "none"]
  /\ result = [r \in Runs |-> "none"]
  /\ halted = [r \in Runs |-> {}]
  /\ permit = [r \in Runs |-> "none"]
  /\ decision = [r \in Runs |-> "none"]
  /\ outcome = [r \in Runs |-> "failed"]
  /\ recorded = {}
  /\ pending = {}
  /\ active = [a \in Agents |-> NoRun]
  /\ containers = {} /\ strays = {} /\ late = {}
  /\ victim = [c \in Cancels |-> NoVictim]
  /\ told = {}
  /\ accepted = [r \in Runs |-> "none"]
  /\ server = "up"
  /\ faults = 0

-----------------------------------------------------------------------------
(***************************************************************************)
(* The decisions the code takes, each preceded by the form a slip would    *)
(* give it.                                                                *)
(***************************************************************************)

\* How a spawn whose container ended in some way is reported: a limit first,
\* then a cancel, then a blocked action.
FaultyVerdictUnblocked(r, how) ==
  IF "limit" \in halted[r] THEN "threw"
  ELSE IF "cancelled" \in halted[r] THEN "cancelled" ELSE how
FaultyVerdictMerged(r, how) ==
  IF "limit" \in halted[r] THEN "threw"
  ELSE IF halted[r] # {} THEN "cancelled" ELSE how
Verdict(r, how) ==
  IF "limit" \in halted[r] THEN "threw"
  ELSE IF "cancelled" \in halted[r] THEN "cancelled"
  ELSE IF "blocked" \in halted[r] THEN "threw" ELSE how

\* An approval nobody gives in time.
FaultyExpired == "approved"
Expired == "denied"
FaultyPendingAfterExpiry(r) == pending
PendingAfterExpiry(r) == pending \ {r}

\* What the finally block of a spawn removes, and forgets.
FaultyTornDown(r) == {EntryName(r)}
TornDown(r) == {ProxyName(r)}
FaultyForgotten(r) == active
Forgotten(r) == [active EXCEPT ![AgentOf[r]] = NoRun]

\* The outcome recorded of an execution that failed.
FaultyOutcomeAfterFailure(r) == IF "blocked" \in halted[r] THEN "denied" ELSE outcome[r]
OutcomeAfterFailure(r) == outcome[r]

\* How run settles when an execution failed.
FaultySettlement(res) == res
Settlement(res) == IF res = "cancelled" THEN "cancelled" ELSE "rejected"

-----------------------------------------------------------------------------
(***************************************************************************)
(* run, up to the permit.                                                  *)
(***************************************************************************)

Goes(r, from, to) ==
  /\ server # "down"
  /\ pc[r] = from
  /\ pc' = [pc EXCEPT ![r] = to]
  /\ UNCHANGED <<told, accepted, victim, server>>

\* spawnCodex up to its first await: a new entry replaces the Agent's.
Spawns(r, what, map) ==
  /\ spawn' = [spawn EXCEPT ![r] = what]
  /\ result' = [result EXCEPT ![r] = "none"]
  /\ halted' = [halted EXCEPT ![r] = {}]
  /\ active' = [map EXCEPT ![AgentOf[r]] = r]

NoSpawn == UNCHANGED <<spawn, result, halted>>

\* The entry of a spawn that is over is garbage; that the run came to its
\* execution is remembered.
Dropped(r) ==
  /\ spawn' = [spawn EXCEPT ![r] = IF @ = "exec" THEN "exec" ELSE "none"]
  /\ result' = [result EXCEPT ![r] = "none"]
  /\ halted' = [halted EXCEPT ![r] = {}]

Run(r) ==
  /\ Goes(r, "idle", "planning")
  /\ NoSpawn
  /\ UNCHANGED <<planning, active, engine, faults>>

PlannerAnswers(r) ==
  /\ DirectPlanner
  /\ Goes(r, "planning", "adjudicating")
  /\ NoSpawn
  /\ UNCHANGED <<planning, active, engine, faults>>

\* Planning fails, or is left to a container.
PlannerFails(r) ==
  /\ Goes(r, "planning", "proxying")
  /\ Spawns(r, "recon1", active)
  /\ UNCHANGED <<planning, engine, faults>>

\* An append to the ledger or another await between the phases rejects.  Only
\* an outcome that is still "failed" is saved; another may have been set, and
\* saved, just before.
OutcomesBefore(r) ==
  CASE pc[r] = "planning"     -> {"failed"}
    [] pc[r] = "adjudicating" -> {"failed", "denied", "awaiting-approval"}
    [] pc[r] = "decided"      -> {outcome[r]} \cup (IF decision[r] = "approved" THEN {} ELSE {"denied"})
    [] pc[r] = "finishing"    -> {outcome[r], "completed"}

Throws(r) ==
  \E from \in {"planning", "adjudicating", "decided", "finishing"} :
    /\ Goes(r, from, "rejected")
    /\ \E o \in OutcomesBefore(r) :
         /\ outcome' = [outcome EXCEPT ![r] = o]
         /\ \/ recorded' = recorded \cup {r}
            \/ o # "failed" /\ UNCHANGED recorded
    /\ NoSpawn
    /\ UNCHANGED <<permit, decision, pending, active, engine, faults>>

\* The permit is denied: the run is refused and its record says so.
Deny(r) ==
  /\ Goes(r, "adjudicating", "rejected")
  /\ permit' = [permit EXCEPT ![r] = "denied"]
  /\ outcome' = [outcome EXCEPT ![r] = "denied"]
  /\ recorded' = recorded \cup {r}
  /\ NoSpawn
  /\ UNCHANGED <<decision, pending, active, engine, faults>>

Park(r) ==
  /\ Goes(r, "adjudicating", "awaiting")
  /\ permit' = [permit EXCEPT ![r] = "approval"]
  /\ outcome' = [outcome EXCEPT ![r] = "awaiting-approval"]
  /\ recorded' = recorded \cup {r}
  /\ pending' = pending \cup {r}
  /\ NoSpawn
  /\ UNCHANGED <<decision, active, engine, faults>>

Grant(r) ==
  /\ Goes(r, "adjudicating", "proxying")
  /\ permit' = [permit EXCEPT ![r] = "granted"]
  /\ Spawns(r, "exec", active)
  /\ UNCHANGED <<decision, outcome, recorded, pending, engine, faults>>

-----------------------------------------------------------------------------
(***************************************************************************)
(* Approval: the operator's answer races the timer.                        *)
(***************************************************************************)

\* A promise resolves once; what comes after does not change it.
Resolves(r, d) ==
  /\ decision' = [decision EXCEPT ![r] = IF @ = "none" THEN d ELSE @]
  /\ pc' = [pc EXCEPT ![r] = IF @ = "awaiting" THEN "decided" ELSE @]
  /\ NoSpawn
  /\ UNCHANGED <<permit, outcome, recorded, active, engine, victim, told, server, faults>>

\* decide answers true.
Decide(r, d) ==
  /\ server = "up"
  /\ r \in pending
  /\ pending' = pending \ {r}
  /\ accepted' = [accepted EXCEPT ![r] = d]
  /\ Resolves(r, d)

ApprovalExpires(r) ==
  /\ server # "down"
  /\ r \in pending /\ decision[r] = "none"
  /\ pending' = PendingAfterExpiry(r)
  /\ UNCHANGED accepted
  /\ Resolves(r, Expired)

Approved(r) ==
  /\ decision[r] = "approved"
  /\ Goes(r, "decided", "proxying")
  /\ Spawns(r, "exec", active)
  /\ UNCHANGED <<planning, engine, faults>>

Refused(r) ==
  /\ decision[r] # "approved"
  /\ Goes(r, "decided", "rejected")
  /\ outcome' = [outcome EXCEPT ![r] = "denied"]
  /\ NoSpawn
  /\ UNCHANGED <<permit, decision, recorded, pending, active, engine, faults>>

-----------------------------------------------------------------------------
(***************************************************************************)
(* spawnCodex: the sidecar, the container, and the finally block.          *)
(***************************************************************************)

\* The rest of what a step inside a spawn leaves alone.
InSpawn == UNCHANGED <<spawn, planning, active>>

SidecarStarts(r) ==
  /\ Goes(r, "proxying", "polling")
  /\ Free(ProxyName(r))
  /\ containers' = containers \cup {Sidecar(r)}
  /\ InSpawn
  /\ UNCHANGED <<result, halted, strays, late, faults>>

\* The name is taken, by an overlapping run of the Agent or by a stray.
SidecarConflicts(r) ==
  /\ Goes(r, "proxying", "closing")
  /\ ~Free(ProxyName(r))
  /\ result' = [result EXCEPT ![r] = "threw"]
  /\ InSpawn
  /\ UNCHANGED <<halted, engine, faults>>

\* The command times out: its caller gives up, the engine may not.
SidecarAbandoned(r) ==
  /\ faults < MaxFaults
  /\ faults' = faults + 1
  /\ Goes(r, "proxying", "closing")
  /\ result' = [result EXCEPT ![r] = "threw"]
  /\ late' = late \cup {Sidecar(r)}
  /\ InSpawn
  /\ UNCHANGED <<halted, containers, strays>>

LateStart(k) ==
  /\ k \in late
  /\ late' = late \ {k}
  /\ IF Free(k.name)
     THEN containers' = containers \cup {k} /\ strays' = strays \cup {k}
     ELSE UNCHANGED <<containers, strays>>
  /\ NoSpawn
  /\ UNCHANGED <<pc, planning, active, victim, told, server, faults>>

\* The sidecar's log said ready, and the container is started beside it, also
\* if an overlapping run has removed the sidecar since.
ContainerStarts(r) ==
  /\ Goes(r, "polling", "running")
  /\ Free(RunName(r))
  /\ containers' = containers \cup {Sandbox(r)}
  /\ InSpawn
  /\ UNCHANGED <<result, halted, strays, late, faults>>

\* Another run of the Agent holds the name: the engine's exit code says so.
ContainerConflicts(r) ==
  /\ Goes(r, "polling", "closing")
  /\ ~Free(RunName(r))
  /\ result' = [result EXCEPT ![r] = Verdict(r, "threw")]
  /\ InSpawn
  /\ UNCHANGED <<halted, engine, faults>>

SidecarNeverReady(r) ==
  /\ Goes(r, "polling", "closing")
  /\ containers' = Without({ProxyName(r)})
  /\ strays' = strays \cap containers'
  /\ result' = [result EXCEPT ![r] = "threw"]
  /\ InSpawn
  /\ UNCHANGED <<halted, late, faults>>

\* removeContainer of the entry's name, for a cause noticed in a callback.
Halts(r, cause) ==
  /\ server # "down"
  /\ halted' = [halted EXCEPT ![r] = @ \cup {cause}]
  /\ containers' = Without({EntryName(r)})
  /\ strays' = strays \cap containers'
  /\ UNCHANGED <<pc, spawn, result, planning, active, late, victim, told, server, faults>>

\* The broker refuses an action the container reports; recon is not observed.
Blocks(r) == pc[r] = "running" /\ spawn[r] = "exec" /\ Halts(r, "blocked")

\* The budget's timer fires, or the output is too long.
HitsLimit(r) == pc[r] = "running" /\ Halts(r, "limit")

\* The container ends, of itself or because it was removed.  What is noticed
\* until the awaited teardown is over comes before this step.
ContainerEnds(r, how) ==
  /\ Goes(r, "running", "closing")
  /\ containers' = containers \ {Sandbox(r)}
  /\ strays' = strays \cap containers'
  /\ result' = [result EXCEPT ![r] = Verdict(r, how)]
  /\ InSpawn
  /\ UNCHANGED <<halted, late, faults>>

\* The finally block.  The engine may fail to remove the sidecar.
TearsDown(r) ==
  \/ /\ containers' = Without(TornDown(r))
     /\ strays' = strays \cap containers'
     /\ UNCHANGED <<late, faults>>
  \/ /\ faults < MaxFaults
     /\ faults' = faults + 1
     /\ strays' = strays \cup (containers \cap {Sidecar(r)})
     /\ UNCHANGED <<containers, late>>

\* Recon answered with a manifest.
ReconSucceeds(r) ==
  /\ spawn[r] \in {"recon1", "recon2"} /\ result[r] = "ok"
  /\ Goes(r, "closing", "adjudicating")
  /\ TearsDown(r)
  /\ active' = Forgotten(r)
  /\ Dropped(r)
  /\ UNCHANGED planning

\* Whatever ended the first attempt, a cancel included, there is a second.
ReconRetries(r) ==
  /\ spawn[r] = "recon1"
  /\ Goes(r, "closing", "proxying")
  /\ TearsDown(r)
  /\ Spawns(r, "recon2", Forgotten(r))
  /\ UNCHANGED planning

\* The runtime cannot be started at all: no second attempt.
ReconImpossible(r) ==
  /\ spawn[r] \in {"recon1", "recon2"} /\ result[r] = "threw"
  /\ Goes(r, "closing", "rejected")
  /\ TearsDown(r)
  /\ active' = Forgotten(r)
  /\ recorded' = recorded \cup {r}
  /\ Dropped(r)
  /\ UNCHANGED <<permit, decision, outcome, pending>>

\* No manifest: refuse, or go on with a permit that grants the provider only.
ReconFailsClosed(r) ==
  /\ FALSE \in Fallback
  /\ spawn[r] = "recon2"
  /\ Goes(r, "closing", "rejected")
  /\ TearsDown(r)
  /\ active' = Forgotten(r)
  /\ outcome' = [outcome EXCEPT ![r] = "denied"]
  /\ recorded' = recorded \cup {r}
  /\ Dropped(r)
  /\ UNCHANGED <<permit, decision, pending>>

ReconDegrades(r) ==
  /\ TRUE \in Fallback
  /\ spawn[r] = "recon2"
  /\ Goes(r, "closing", "proxying")
  /\ TearsDown(r)
  /\ permit' = [permit EXCEPT ![r] = "granted"]
  /\ Spawns(r, "exec", Forgotten(r))
  /\ UNCHANGED <<decision, outcome, recorded, pending>>

ExecutionSucceeds(r) ==
  /\ spawn[r] = "exec" /\ result[r] = "ok"
  /\ Goes(r, "closing", "finishing")
  /\ TearsDown(r)
  /\ active' = Forgotten(r)
  /\ Dropped(r)
  /\ UNCHANGED planning

\* The catch block saves the record only if its outcome is still "failed".
ExecutionFails(r) ==
  /\ spawn[r] = "exec" /\ result[r] # "ok"
  /\ Goes(r, "closing", Settlement(result[r]))
  /\ TearsDown(r)
  /\ active' = Forgotten(r)
  /\ outcome' = [outcome EXCEPT ![r] = OutcomeAfterFailure(r)]
  /\ recorded' = IF outcome'[r] = "failed" THEN recorded \cup {r} ELSE recorded
  /\ Dropped(r)
  /\ UNCHANGED <<permit, decision, pending>>

\* Reconciled, journalled and saved.
Completes(r) ==
  /\ Goes(r, "finishing", "resolved")
  /\ outcome' = [outcome EXCEPT ![r] = "completed"]
  /\ recorded' = recorded \cup {r}
  /\ NoSpawn
  /\ UNCHANGED <<permit, decision, pending, active, engine, faults>>

-----------------------------------------------------------------------------
(***************************************************************************)
(* cancel, and the process.                                                *)
(***************************************************************************)

\* cancel finds an entry; it will answer true.  Without an entry it answers
\* what the inner runner does, which runs nothing here: false.
Cancel(c, a) ==
  LET r == active[a] IN
  /\ server # "down"
  /\ victim[c] = NoVictim
  /\ r # NoRun
  /\ halted' = [halted EXCEPT ![r] = @ \cup {"cancelled"}]
  /\ told' = told \cup {r}
  /\ victim' = [victim EXCEPT ![c] = [agent |-> EntryName(r), proxy |-> ProxyName(r)]]
  /\ UNCHANGED <<pc, spawn, result, planning, active, engine, server, faults>>

CancelReturns(c) ==
  /\ server # "down"
  /\ victim[c] # NoVictim
  /\ containers' = Without({victim[c].agent, victim[c].proxy})
  /\ strays' = strays \cap containers'
  /\ victim' = [victim EXCEPT ![c] = NoVictim]
  /\ UNCHANGED <<pc, spawn, result, halted, planning, active, late, told, server, faults>>

\* stop, on a signal: reap, then exit.  Until the exit, runs in flight,
\* coordination and the watchdog go on; the routes are closed.
Shutdown ==
  /\ server = "up"
  /\ faults < MaxFaults
  /\ faults' = faults + 1
  /\ server' = "stopping"
  /\ containers' = {} /\ strays' = {}
  /\ NoSpawn
  /\ UNCHANGED <<pc, planning, active, late, victim, told>>

\* The process ends: by a crash, or at the end of a shutdown.
Exit ==
  /\ \/ server = "stopping" /\ UNCHANGED faults
     \/ server = "up" /\ faults < MaxFaults /\ faults' = faults + 1
  /\ server' = "down"
  /\ pc' = [r \in Runs |-> IF pc[r] \in Settled \cup {"idle"} THEN pc[r] ELSE "lost"]
  /\ pending' = {}
  /\ active' = [a \in Agents |-> NoRun]
  /\ victim' = [c \in Cancels |-> NoVictim]
  /\ result' = [r \in Runs |-> "none"]
  /\ halted' = [r \in Runs |-> {}]
  /\ UNCHANGED <<spawn, permit, decision, outcome, recorded, accepted, engine, told>>

\* The containers outlive the process.
OrphanEnds(r) ==
  /\ pc[r] = "lost" /\ Sandbox(r) \in containers
  /\ containers' = containers \ {Sandbox(r)}
  /\ strays' = strays \cap containers'
  /\ NoSpawn
  /\ UNCHANGED <<pc, planning, active, late, victim, told, server, faults>>

\* start reaps what a previous process left, unless the engine is unavailable;
\* the store closes what was awaiting approval.
Boot ==
  /\ server = "down"
  /\ server' = "up"
  /\ \/ containers' = {} /\ strays' = {}
     \/ strays' = containers /\ UNCHANGED containers
  /\ outcome' = [r \in Runs |-> IF r \in recorded /\ outcome[r] = "awaiting-approval"
                                THEN "failed" ELSE outcome[r]]
  /\ NoSpawn
  /\ UNCHANGED <<pc, permit, decision, recorded, pending, accepted, active, late, victim, told, faults>>

RunStep(r) ==
  \/ Run(r) \/ PlannerAnswers(r) \/ PlannerFails(r) \/ Throws(r)
  \/ Deny(r) \/ Park(r) \/ Grant(r)
  \/ \E d \in {"approved", "denied"} : Decide(r, d)
  \/ ApprovalExpires(r) \/ Approved(r) \/ Refused(r)

SpawnStep(r) ==
  \/ SidecarStarts(r) \/ SidecarConflicts(r) \/ SidecarAbandoned(r) \/ SidecarNeverReady(r)
  \/ ContainerStarts(r) \/ ContainerConflicts(r)
  \/ Blocks(r) \/ HitsLimit(r)
  \/ \E how \in {"ok", "threw"} : ContainerEnds(r, how)

CloseStep(r) ==
  \/ ReconSucceeds(r) \/ ReconRetries(r) \/ ReconImpossible(r)
  \/ ReconFailsClosed(r) \/ ReconDegrades(r)
  \/ ExecutionSucceeds(r) \/ ExecutionFails(r) \/ Completes(r)

Next ==
  \/ \E r \in Runs : RunStep(r) \/ SpawnStep(r) \/ CloseStep(r) \/ OrphanEnds(r)
  \/ \E k \in late : LateStart(k)
  \/ \E c \in Cancels : CancelReturns(c) \/ \E a \in Agents : Cancel(c, a)
  \/ Shutdown \/ Exit \/ Boot

Spec == Init /\ [][Next]_vars

-----------------------------------------------------------------------------
(***************************************************************************)
(* Properties.                                                             *)
(***************************************************************************)

TypeOK ==
  /\ pc \in [Runs -> Place]
  /\ spawn \in [Runs -> {"none", "recon1", "recon2", "exec"}]
  /\ result \in [Runs -> {"none", "ok", "threw", "cancelled"}]
  /\ halted \in [Runs -> SUBSET Causes]
  /\ permit \in [Runs -> {"none", "granted", "approval", "denied"}]
  /\ decision \in [Runs -> {"none", "approved", "denied"}]
  /\ outcome \in [Runs -> {"failed", "denied", "awaiting-approval", "completed"}]
  /\ recorded \subseteq Runs
  /\ pending \subseteq Runs
  /\ active \in [Agents -> Runs \cup {NoRun}]
  /\ containers \subseteq Container /\ strays \subseteq containers /\ late \subseteq Container
  /\ victim \in [Cancels -> [agent : Names, proxy : Names] \cup {NoVictim}]
  /\ told \subseteq Runs
  /\ accepted \in [Runs -> {"none", "approved", "denied"}]
  /\ server \in {"up", "stopping", "down"}
  /\ faults \in 0..MaxFaults

\* No container outlives the run it was started for, through overlapping runs
\* that remove each other's by name, cancels, limits, crashes and shutdowns,
\* unless the engine failed to remove it or started it after its caller gave up.
ContainersHaveRuns ==
  server # "down" =>
    \A k \in containers \ strays :
      /\ pc[k.of] \in Spawning \ {"proxying"}
      /\ k.kind = "agent" => pc[k.of] = "running"

\* What runs in a container was granted by policy, or by an operator: an
\* approval that is pending, refused or expired starts nothing.
ApprovedFirst ==
  \A r \in Runs :
    Sandbox(r) \in containers /\ spawn[r] = "exec" =>
      \/ permit[r] = "granted"
      \/ permit[r] = "approval" /\ accepted[r] = "approved"

\* An operator whose decision was accepted is not overruled by the timer.
DecisionStands == \A r \in Runs : accepted[r] # "none" => decision[r] = accepted[r]

\* A run recorded as denied never came to execution.
RefusedNeverRan == \A r \in Runs : outcome[r] = "denied" => spawn[r] # "exec"

\* An execution that was cut short, or one of whose actions was refused, does
\* not go on to a result, whatever its container and a racing cancel did.
CutShortNeverResolves ==
  [][\A r \in Runs :
       spawn[r] = "exec" /\ halted[r] \cap {"limit", "blocked"} # {} /\ halted'[r] = {}
       => pc'[r] \in {"rejected", "cancelled", "lost"}]_vars

\* cancel finds only a run that has containers to remove, also when the runs
\* of an Agent overlap: a stale entry would swallow every later cancel.
ActiveIsSpawning ==
  \A a \in Agents : active[a] # NoRun => AgentOf[active[a]] = a /\ pc[active[a]] \in Spawning

\* AgentService may rely on the runner.
Stage ==
  [r \in Runs |-> IF pc[r] \in Settled \cup {"idle", "lost"} THEN pc[r] ELSE "running"]
Contract == INSTANCE RunnerContract WITH stage <- Stage
KeepsContract == Contract!Spec

\* "Cancelling a run tears down its containers" (HEIMDALL.md): when cancel has
\* answered, the container of the run it was for is gone.
CancelTearsDown ==
  [][\A c \in Cancels, r \in told :
       victim[c] # NoVictim /\ victim'[c] = NoVictim /\ server' # "down"
       => Sandbox(r) \notin containers']_vars
=============================================================================
