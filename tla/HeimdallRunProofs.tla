-------------------------- MODULE HeimdallRunProofs --------------------------
(***************************************************************************)
(* Theorems about HeimdallRun, for any number of runs, Agents, cancels and *)
(* faults and any configuration of planning.                               *)
(***************************************************************************)
EXTENDS HeimdallRun, TLAPS

Early == {"idle", "planning", "adjudicating"}

\* Where a run is determines what its spawn is for, and only a spawn that is
\* under way has causes to end it or a result.
SpawnInv(r) ==
  /\ pc[r] \in Early \cup {"awaiting", "decided"} => spawn[r] = "none"
  /\ pc[r] \in Spawning => spawn[r] # "none"
  /\ pc[r] \in {"finishing", "resolved"} => spawn[r] = "exec"
  /\ pc[r] \notin Spawning => halted[r] = {}
  /\ "cancelled" \in halted[r] => r \in told
  /\ result[r] = "ok" => halted[r] \cap {"limit", "blocked"} = {}
  /\ result[r] # "none" => pc[r] = "closing"
  /\ result[r] = "cancelled" => r \in told

\* A decision is taken once, while the run awaits it, and an execution has one
\* behind it or needs none.
PermitInv(r) ==
  /\ r \in pending => pc[r] = "awaiting"
  /\ pc[r] \in Early \cup {"awaiting"} => decision[r] = "none"
  /\ pc[r] \in Spawning /\ spawn[r] # "exec" => decision[r] = "none"
  /\ pc[r] \in {"awaiting", "decided"} => permit[r] = "approval"
  /\ decision[r] = "none" => accepted[r] = "none"
  /\ decision[r] = "approved" => accepted[r] = "approved"
  /\ accepted[r] # "none" => decision[r] = accepted[r]
  /\ spawn[r] = "exec" => \/ permit[r] = "granted"
                          \/ permit[r] = "approval" /\ accepted[r] = "approved"
  /\ outcome[r] = "denied" => pc[r] = "rejected" /\ spawn[r] # "exec"

RunInv == \A r \in Runs : SpawnInv(r) /\ PermitInv(r)

\* A container that is no stray is one of the two of a spawn under way.
Placed ==
  server # "down" =>
    \A k \in containers \ strays :
      /\ pc[k.of] \in Spawning \ {"proxying"}
      /\ \/ k = Sandbox(k.of) /\ pc[k.of] = "running"
         \/ k = Sidecar(k.of)

\* The inductive invariant.
IInv == TypeOK /\ RunInv /\ Placed /\ ActiveIsSpawning

-----------------------------------------------------------------------------

\* A run's container and network names are names that the type invariant knows.
LEMMA Typed ==
  ASSUME TypeOK, NEW r \in Runs
  PROVE  /\ AgentOf[r] \in Agents
         /\ RunName(r) \in Names /\ EntryName(r) \in Names /\ ProxyName(r) \in Names
         /\ Sandbox(r) \in Container /\ Sidecar(r) \in Container
<1>1. AgentOf[r] \in Agents
  BY DEF Agents
<1>2. PermitId(r) \in PermitIds
  BY DEF PermitId, PermitIds
<1>3. RunName(r) \in Names
  BY <1>1 DEF RunName, Names
<1>4. EntryName(r) \in Names /\ ProxyName(r) \in Names
  BY <1>1, <1>2 DEF EntryName, ProxyName, Names
<1>5. QED
  BY <1>1, <1>3, <1>4 DEF Sandbox, Sidecar, Container

\* A server that has just started, with nothing running, satisfies the invariant.
LEMMA InvInit == Init => IInv
<1> SUFFICES ASSUME Init
             PROVE  IInv
  OBVIOUS
<1>1. TypeOK
  BY RunnerAssumption DEF Init, TypeOK, Place
<1>2. RunInv
  BY DEF Init, RunInv, SpawnInv, PermitInv, Early, Spawning
<1>3. Placed /\ ActiveIsSpawning
  BY RunnerAssumption DEF Init, Placed, ActiveIsSpawning
<1>4. QED
  BY <1>1, <1>2, <1>3 DEF IInv

-----------------------------------------------------------------------------
(***************************************************************************)
(* What a step of one run has to show of the containers and the entries:   *)
(* that its own are right.                                                 *)
(***************************************************************************)

Elsewhere(r) == \A q \in Runs \ {r} : pc'[q] = pc[q] /\ spawn'[q] = spawn[q]

OwnPlaced(r) ==
  \A k \in containers \ strays :
    k.of = r => /\ pc[r] \in Spawning \ {"proxying"}
                /\ \/ k = Sandbox(r) /\ pc[r] = "running"
                   \/ k = Sidecar(r)

\* A step that moves only run r, and adds containers of r alone, keeps every other
\* container with the run it belongs to.
LEMMA PlacedBut ==
  ASSUME TypeOK, TypeOK', Placed, server # "down", NEW r \in Runs, Elsewhere(r),
         \A k \in containers' \ strays' : k \in containers \ strays \/ k.of = r,
         OwnPlaced(r)'
  PROVE  Placed'
<1> SUFFICES ASSUME NEW k \in containers' \ strays'
             PROVE  /\ pc'[k.of] \in Spawning \ {"proxying"}
                    /\ \/ k = Sandbox(k.of)' /\ pc'[k.of] = "running"
                       \/ k = Sidecar(k.of)'
  BY DEF Placed
<1>1. CASE k.of = r
  BY <1>1 DEF OwnPlaced
<1>2. CASE k.of # r
  <2>1. k.of \in Runs \ {r} /\ k \in containers \ strays
    BY <1>2 DEF TypeOK, Container
  <2>2. pc'[k.of] = pc[k.of] /\ spawn'[k.of] = spawn[k.of]
    BY <2>1 DEF Elsewhere
  <2>3. Sandbox(k.of)' = Sandbox(k.of) /\ Sidecar(k.of)' = Sidecar(k.of)
    BY <2>2 DEF Sandbox, Sidecar, RunName, ProxyName, PermitId
  <2>4. QED
    BY <2>1, <2>2, <2>3 DEF Placed
<1>3. QED
  BY <1>1, <1>2

\* A step that moves only run r, and enters no other run as active, keeps every
\* entry with a spawn under way.
LEMMA ActiveBut ==
  ASSUME TypeOK, ActiveIsSpawning, NEW r \in Runs, Elsewhere(r),
         \A a \in Agents : \/ active'[a] \in {active[a], NoRun}
                           \/ active'[a] = r /\ AgentOf[r] = a,
         \A a \in Agents : active'[a] = r => pc'[r] \in Spawning
  PROVE  ActiveIsSpawning'
<1> SUFFICES ASSUME NEW a \in Agents, active'[a] # NoRun
             PROVE  AgentOf[active'[a]] = a /\ pc'[active'[a]] \in Spawning
  BY DEF ActiveIsSpawning
<1>1. CASE active'[a] = r
  BY <1>1 DEF ActiveIsSpawning
<1>2. CASE active'[a] # r
  <2>1. active'[a] = active[a] /\ active[a] \in Runs \ {r}
    BY <1>2 DEF TypeOK
  <2>2. QED
    BY <2>1 DEF ActiveIsSpawning, Elsewhere
<1>3. QED
  BY <1>1, <1>2

-----------------------------------------------------------------------------
(***************************************************************************)
(* Steps outside a spawn: the engine is left alone.                        *)
(***************************************************************************)

\* Planning, adjudication and the wait for a decision keep the invariant.
LEMMA RunStepKeeps ==
  ASSUME IInv, NEW r \in Runs, RunStep(r)
  PROVE  IInv'
<1> USE DEF IInv, Goes, NoSpawn, Spawns, planning, engine
<1>a. TypeOK /\ RunInv /\ Placed /\ ActiveIsSpawning
  OBVIOUS
<1>b. AgentOf[r] \in Agents
  BY Typed
<1>1. TypeOK'
  <2> USE DEF TypeOK
  <2>1. CASE Run(r) \/ PlannerAnswers(r) \/ PlannerFails(r)
    BY <2>1 DEF Run, PlannerAnswers, PlannerFails, Place, Spawning
  <2>2. CASE Throws(r)
    BY <2>2 DEF Throws, OutcomesBefore, Place, Settled
  <2>3. CASE Deny(r) \/ Park(r) \/ Grant(r)
    BY <2>3 DEF Deny, Park, Grant, Place, Settled, Spawning
  <2>4. ASSUME NEW d \in {"approved", "denied"}, Decide(r, d)
        PROVE  TypeOK'
    BY <2>4 DEF Decide, Resolves, Place
  <2>5. CASE ApprovalExpires(r)
    BY <2>5 DEF ApprovalExpires, Resolves, PendingAfterExpiry, Expired, Place
  <2>6. CASE Approved(r) \/ Refused(r)
    BY <2>6 DEF Approved, Refused, Place, Settled, Spawning
  <2>7. QED
    BY <2>1, <2>2, <2>3, <2>4, <2>5, <2>6 DEF RunStep
<1>2. RunInv'
  BY DEF TypeOK, RunStep, Run, PlannerAnswers, PlannerFails, Throws, OutcomesBefore, Deny, Park, Grant,
     Decide, Resolves, ApprovalExpires, PendingAfterExpiry, Expired, Approved, Refused,
     RunInv, SpawnInv, PermitInv, Early, Spawning
<1>3. /\ server # "down" /\ pc[r] \notin Spawning
      /\ Elsewhere(r)
      /\ containers' = containers /\ strays' = strays
      /\ \/ pc'[r] = "proxying" /\ active' = [active EXCEPT ![AgentOf[r]] = r]
         \/ active' = active
  BY DEF TypeOK, RunStep, Run, PlannerAnswers, PlannerFails, Throws, Deny, Park, Grant, Decide, Resolves,
     ApprovalExpires, Approved, Refused, RunInv, PermitInv, Elsewhere, Spawning
<1>4. \A k \in containers \ strays : k.of # r
  BY <1>3 DEF Placed
<1>5. Placed'
  BY <1>a, <1>1, <1>3, <1>4, PlacedBut DEF OwnPlaced
<1>6. ActiveIsSpawning'
  <2>1. \A a \in Agents : active[a] # r
    BY <1>a, <1>3, RunnerAssumption DEF ActiveIsSpawning
  <2>2. \A a \in Agents : \/ active'[a] \in {active[a], NoRun}
                          \/ active'[a] = r /\ AgentOf[r] = a
    BY <1>3, <1>b DEF TypeOK
  <2>3. \A a \in Agents : active'[a] = r => pc'[r] \in Spawning
    BY <1>3, <2>1, <1>b DEF TypeOK, Spawning
  <2>4. QED
    BY <1>a, <1>3, <2>2, <2>3, ActiveBut
<1>7. QED
  BY <1>1, <1>2, <1>5, <1>6

-----------------------------------------------------------------------------
(***************************************************************************)
(* Steps of a spawn.                                                       *)
(***************************************************************************)

\* The steps that start a run's network, sidecar and sandbox keep the invariant.
LEMMA SpawnStepKeeps ==
  ASSUME IInv, NEW r \in Runs, SpawnStep(r)
  PROVE  IInv'
<1> USE DEF IInv, Goes, InSpawn, planning, engine
<1>a. TypeOK /\ RunInv /\ Placed /\ ActiveIsSpawning
  OBVIOUS
<1>b. Sandbox(r) \in Container /\ Sidecar(r) \in Container
  BY Typed
<1>1. TypeOK'
  <2> USE <1>b DEF TypeOK
  <2>1. CASE SidecarStarts(r) \/ SidecarConflicts(r)
    BY <2>1 DEF SidecarStarts, SidecarConflicts, Place, Spawning
  <2>2. CASE SidecarAbandoned(r)
    BY <2>2, RunnerAssumption DEF SidecarAbandoned, Place, Spawning
  <2>3. CASE SidecarNeverReady(r)
    BY <2>3 DEF SidecarNeverReady, Without, Place, Spawning
  <2>4. CASE ContainerStarts(r) \/ ContainerConflicts(r)
    BY <2>4 DEF ContainerStarts, ContainerConflicts, Verdict, Place, Spawning
  <2>5. CASE Blocks(r) \/ HitsLimit(r)
    BY <2>5 DEF Blocks, HitsLimit, Halts, Without, Causes
  <2>6. ASSUME NEW how \in {"ok", "threw"}, ContainerEnds(r, how)
        PROVE  TypeOK'
    BY <2>6 DEF ContainerEnds, Verdict, Place, Spawning
  <2>7. QED
    BY <2>1, <2>2, <2>3, <2>4, <2>5, <2>6 DEF SpawnStep
<1>2. RunInv'
  BY DEF TypeOK, SpawnStep, SidecarStarts, SidecarConflicts, SidecarAbandoned, SidecarNeverReady,
     ContainerStarts, ContainerConflicts, Verdict, Blocks, HitsLimit, Halts, ContainerEnds, Causes,
     RunInv, SpawnInv, PermitInv, Early, Spawning
<1>3. /\ server # "down" /\ server' = server /\ active' = active
      /\ pc[r] \in Spawning /\ pc'[r] \in Spawning
      /\ Elsewhere(r) /\ spawn' = spawn
  BY DEF TypeOK, SpawnStep, SidecarStarts, SidecarConflicts, SidecarAbandoned, SidecarNeverReady,
     ContainerStarts, ContainerConflicts, Blocks, HitsLimit, Halts, ContainerEnds, Elsewhere, Spawning
<1>4. ActiveIsSpawning'
  BY <1>3 DEF ActiveIsSpawning, Elsewhere, TypeOK
<1>5. Sandbox(r)' = Sandbox(r) /\ Sidecar(r)' = Sidecar(r)
  BY <1>3 DEF Sandbox, Sidecar, RunName, ProxyName, PermitId
<1>6. (\A k \in containers' \ strays' : k \in containers \ strays \/ k.of = r) /\ OwnPlaced(r)'
  <2>1. OwnPlaced(r)
    BY DEF OwnPlaced, Placed, TypeOK, SpawnStep, SidecarStarts, SidecarConflicts, SidecarAbandoned,
       SidecarNeverReady, ContainerStarts, ContainerConflicts, Blocks, HitsLimit, Halts, ContainerEnds
  <2>2. Sandbox(r).of = r /\ Sidecar(r).of = r /\ Sidecar(r).name = ProxyName(r)
    BY DEF Sandbox, Sidecar
  <2> USE <1>3, <1>5, <2>1, <2>2 DEF OwnPlaced, TypeOK, Spawning
  <2>3. CASE SidecarStarts(r) \/ SidecarConflicts(r) \/ SidecarAbandoned(r)
    BY <2>3 DEF SidecarStarts, SidecarConflicts, SidecarAbandoned
  <2>4. CASE SidecarNeverReady(r)
    BY <2>4 DEF SidecarNeverReady, Without
  <2>5. CASE ContainerStarts(r) \/ ContainerConflicts(r)
    BY <2>5 DEF ContainerStarts, ContainerConflicts
  <2>6. CASE Blocks(r) \/ HitsLimit(r)
    BY <2>6 DEF Blocks, HitsLimit, Halts, Without
  <2>7. ASSUME NEW how \in {"ok", "threw"}, ContainerEnds(r, how)
        PROVE  (\A k \in containers' \ strays' : k \in containers \ strays \/ k.of = r) /\ OwnPlaced(r)'
    BY <2>7 DEF ContainerEnds
  <2>8. QED
    BY <2>3, <2>4, <2>5, <2>6, <2>7 DEF SpawnStep
<1>7. Placed'
  BY <1>a, <1>1, <1>3, <1>6, PlacedBut
<1>8. QED
  BY <1>1, <1>2, <1>4, <1>7

-----------------------------------------------------------------------------
(***************************************************************************)
(* The finally block of a spawn, and what follows it.                      *)
(***************************************************************************)

\* The ends of a spawn and of its run keep the invariant: what a spawn created is
\* removed, or has become a stray, before the run settles.
LEMMA CloseStepKeeps ==
  ASSUME IInv, NEW r \in Runs, CloseStep(r)
  PROVE  IInv'
<1> USE DEF IInv, Goes, Spawns, Dropped, Forgotten, TornDown, planning, engine
<1>a. TypeOK /\ RunInv /\ Placed /\ ActiveIsSpawning
  OBVIOUS
<1>b. AgentOf[r] \in Agents
  BY Typed
<1>0. CASE Completes(r)
  <2>1. TypeOK'
    BY <1>0 DEF Completes, NoSpawn, TypeOK, Place, Settled
  <2>2. RunInv'
    BY <1>0 DEF Completes, NoSpawn, TypeOK, RunInv, SpawnInv, PermitInv, Early, Spawning
  <2>3. /\ Elsewhere(r) /\ server # "down" /\ pc[r] \notin Spawning
        /\ containers' = containers /\ strays' = strays /\ active' = active
    BY <1>0 DEF Completes, NoSpawn, Elsewhere, Spawning, TypeOK
  <2>4. Placed'
    <3>1. \A k \in containers \ strays : k.of # r
      BY <2>3 DEF Placed
    <3>2. QED
      BY <1>a, <2>1, <2>3, <3>1, PlacedBut DEF OwnPlaced
  <2>5. ActiveIsSpawning'
    <3>1. \A a \in Agents : active[a] # r
      BY <2>3, RunnerAssumption DEF ActiveIsSpawning
    <3>2. QED
      BY <1>a, <2>3, <3>1, ActiveBut
  <2>6. QED
    BY <2>1, <2>2, <2>4, <2>5
<1>1. CASE ~Completes(r)
  <2> DEFINE Closing == \/ ReconSucceeds(r) \/ ReconRetries(r) \/ ReconImpossible(r)
                        \/ ReconFailsClosed(r) \/ ReconDegrades(r)
                        \/ ExecutionSucceeds(r) \/ ExecutionFails(r)
  <2>0. Closing
    BY <1>1 DEF CloseStep
  <2>1. /\ server # "down" /\ server' = server /\ pc[r] = "closing" /\ TearsDown(r)
        /\ victim' = victim /\ told' = told /\ accepted' = accepted
        /\ decision' = decision /\ pending' = pending
    BY <2>0 DEF ReconSucceeds, ReconRetries, ReconImpossible, ReconFailsClosed, ReconDegrades,
       ExecutionSucceeds, ExecutionFails
  <2>2. /\ Elsewhere(r)
        /\ pc' \in [Runs -> Place]
        /\ \/ pc'[r] = "proxying" /\ active' = [active EXCEPT ![AgentOf[r]] = r]
           \/ active' = [active EXCEPT ![AgentOf[r]] = NoRun]
    <3>1. CASE ReconRetries(r) \/ ReconDegrades(r)
      BY <3>1, <1>b DEF ReconRetries, ReconDegrades, Elsewhere, TypeOK, Place, Spawning
    <3>2. CASE ReconSucceeds(r) \/ ReconImpossible(r) \/ ReconFailsClosed(r)
      BY <3>2 DEF ReconSucceeds, ReconImpossible, ReconFailsClosed, Elsewhere, TypeOK, Place, Settled
    <3>3. CASE ExecutionSucceeds(r) \/ ExecutionFails(r)
      BY <3>3 DEF ExecutionSucceeds, ExecutionFails, Settlement, Elsewhere, TypeOK, Place, Settled
    <3>4. QED
      BY <2>0, <3>1, <3>2, <3>3
  <2>3. /\ containers' \subseteq containers /\ strays' \subseteq containers' /\ late' = late
        /\ faults' \in 0..MaxFaults
        /\ containers' \ strays' \subseteq containers \ strays
    BY <2>1, RunnerAssumption DEF TearsDown, Without, TypeOK
  <2>4. TypeOK'
    <3>1. /\ spawn' \in [Runs -> {"none", "recon1", "recon2", "exec"}]
          /\ result' \in [Runs -> {"none", "ok", "threw", "cancelled"}]
          /\ halted' \in [Runs -> SUBSET Causes]
          /\ permit' \in [Runs -> {"none", "granted", "approval", "denied"}]
          /\ outcome' \in [Runs -> {"failed", "denied", "awaiting-approval", "completed"}]
          /\ recorded' \subseteq Runs
      BY <2>0 DEF TypeOK, ReconSucceeds, ReconRetries, ReconImpossible, ReconFailsClosed, ReconDegrades,
         ExecutionSucceeds, ExecutionFails, OutcomeAfterFailure
    <3>2. active' \in [Agents -> Runs \cup {NoRun}]
      BY <2>2 DEF TypeOK
    <3>3. QED
      BY <2>1, <2>2, <2>3, <3>1, <3>2 DEF TypeOK
  <2>5. RunInv'
    <3>1. CASE ReconRetries(r)
      BY <2>1, <3>1 DEF ReconRetries, TypeOK, RunInv, SpawnInv, PermitInv, Early, Spawning
    <3>2. CASE ReconDegrades(r)
      BY <2>1, <3>2 DEF ReconDegrades, TypeOK, RunInv, SpawnInv, PermitInv, Early, Spawning
    <3>3. CASE ReconSucceeds(r)
      BY <2>1, <3>3 DEF ReconSucceeds, TypeOK, RunInv, SpawnInv, PermitInv, Early, Spawning
    <3>4. CASE ReconImpossible(r)
      BY <2>1, <3>4 DEF ReconImpossible, TypeOK, RunInv, SpawnInv, PermitInv, Early, Spawning
    <3>5. CASE ReconFailsClosed(r)
      BY <2>1, <3>5 DEF ReconFailsClosed, TypeOK, RunInv, SpawnInv, PermitInv, Early, Spawning
    <3>6. CASE ExecutionSucceeds(r)
      BY <2>1, <3>6 DEF ExecutionSucceeds, TypeOK, RunInv, SpawnInv, PermitInv, Early, Spawning
    <3>7. CASE ExecutionFails(r)
      BY <2>1, <3>7 DEF ExecutionFails, Settlement, OutcomeAfterFailure,
         TypeOK, RunInv, SpawnInv, PermitInv, Early, Spawning
    <3>8. QED
      BY <2>0, <3>1, <3>2, <3>3, <3>4, <3>5, <3>6, <3>7
  <2>6. \A k \in containers' \ strays' : k.of # r
    <3> SUFFICES ASSUME NEW k \in containers' \ strays', k.of = r
                 PROVE  FALSE
      OBVIOUS
    <3>1. k \in containers \ strays
      BY <2>3
    <3>2. k = Sidecar(r) /\ k.name = ProxyName(r)
      BY <2>1, <3>1 DEF Placed, Sidecar
    <3>3. QED
      BY <2>1, <3>1, <3>2 DEF TearsDown, Without
  <2>7. Placed'
    BY <1>a, <2>1, <2>2, <2>3, <2>4, <2>6, PlacedBut DEF OwnPlaced
  <2>8. ActiveIsSpawning'
    <3>1. \A a \in Agents : a # AgentOf[r] => active[a] # r
      BY RunnerAssumption DEF ActiveIsSpawning
    <3>2. \A a \in Agents : \/ active'[a] \in {active[a], NoRun}
                            \/ active'[a] = r /\ AgentOf[r] = a
      BY <2>2, <1>b DEF TypeOK
    <3>3. \A a \in Agents : active'[a] = r => pc'[r] \in Spawning
      BY <2>2, <3>1, <1>b, RunnerAssumption DEF TypeOK, Spawning
    <3>4. QED
      BY <1>a, <2>2, <3>2, <3>3, ActiveBut
  <2>9. QED
    BY <2>4, <2>5, <2>7, <2>8
<1>2. QED
  BY <1>0, <1>1

-----------------------------------------------------------------------------
(***************************************************************************)
(* cancel, the engine on its own, and the process.                         *)
(***************************************************************************)

\* A step that moves no run keeps what is placed if it adds strays at most.
LEMMA PlacedStill ==
  ASSUME Placed, UNCHANGED <<pc, spawn>>, server' # "down" => server # "down",
         containers' \ strays' \subseteq containers \ strays
  PROVE  Placed'
BY DEF Placed, Sandbox, Sidecar, RunName, ProxyName, PermitId

\* A cancel keeps the invariant: the entry it finds is of a spawn under way.
LEMMA CancelKeeps ==
  ASSUME IInv, NEW c \in Cancels, NEW a \in Agents, Cancel(c, a)
  PROVE  IInv'
<1> USE DEF IInv, Cancel, planning, engine
<1> DEFINE r == active[a]
<1>a. r \in Runs /\ pc[r] \in Spawning
  BY DEF TypeOK, ActiveIsSpawning
<1>b. EntryName(r) \in Names /\ ProxyName(r) \in Names
  BY <1>a, Typed
<1>1. TypeOK'
  BY <1>a, <1>b DEF TypeOK, Causes
<1>2. RunInv'
  BY <1>a DEF TypeOK, RunInv, SpawnInv, PermitInv, Spawning
<1>3. Placed'
  BY PlacedStill
<1>4. ActiveIsSpawning'
  BY DEF ActiveIsSpawning
<1>5. QED
  BY <1>1, <1>2, <1>3, <1>4

\* The return of a cancel keeps the invariant.
LEMMA CancelReturnsKeeps ==
  ASSUME IInv, NEW c \in Cancels, CancelReturns(c)
  PROVE  IInv'
<1> USE DEF IInv, CancelReturns, planning, engine
<1>1. TypeOK'
  BY DEF TypeOK, Without
<1>2. RunInv'
  BY DEF RunInv, SpawnInv, PermitInv
<1>3. Placed'
  BY PlacedStill DEF Without
<1>4. ActiveIsSpawning'
  BY DEF ActiveIsSpawning
<1>5. QED
  BY <1>1, <1>2, <1>3, <1>4

\* What the container engine does late, or to an orphan, keeps the invariant.
LEMMA EngineStepKeeps ==
  ASSUME IInv, (\E k \in late : LateStart(k)) \/ (\E r \in Runs : OrphanEnds(r))
  PROVE  IInv'
<1> USE DEF IInv, LateStart, OrphanEnds, NoSpawn, planning, engine
<1>1. TypeOK'
  BY DEF TypeOK
<1>2. RunInv'
  BY DEF RunInv, SpawnInv, PermitInv
<1>3. Placed'
  BY PlacedStill
<1>4. ActiveIsSpawning'
  BY DEF ActiveIsSpawning
<1>5. QED
  BY <1>1, <1>2, <1>3, <1>4

\* Shutdown, exit and boot keep the invariant.
LEMMA ProcessStepKeeps ==
  ASSUME IInv, Shutdown \/ Exit \/ Boot
  PROVE  IInv'
<1> USE DEF IInv, NoSpawn, planning, engine
<1>1. CASE Shutdown
  <2>1. TypeOK'
    BY <1>1, RunnerAssumption DEF Shutdown, TypeOK
  <2>2. RunInv'
    BY <1>1 DEF Shutdown, RunInv, SpawnInv, PermitInv
  <2>3. Placed' /\ ActiveIsSpawning'
    BY <1>1 DEF Shutdown, Placed, ActiveIsSpawning
  <2>4. QED
    BY <2>1, <2>2, <2>3
<1>2. CASE Exit
  <2>1. TypeOK'
    BY <1>2, RunnerAssumption DEF Exit, TypeOK, Place, Settled
  <2>2. RunInv'
    BY <1>2 DEF Exit, TypeOK, RunInv, SpawnInv, PermitInv, Settled, Early, Spawning
  <2>3. Placed' /\ ActiveIsSpawning'
    BY <1>2 DEF Exit, Placed, ActiveIsSpawning
  <2>4. QED
    BY <2>1, <2>2, <2>3
<1>3. CASE Boot
  <2>1. TypeOK'
    BY <1>3 DEF Boot, TypeOK
  <2>2. RunInv'
    BY <1>3 DEF Boot, TypeOK, RunInv, SpawnInv, PermitInv
  <2>3. Placed' /\ ActiveIsSpawning'
    BY <1>3 DEF Boot, Placed, ActiveIsSpawning, TypeOK
  <2>4. QED
    BY <2>1, <2>2, <2>3
<1>4. QED
  BY <1>1, <1>2, <1>3

-----------------------------------------------------------------------------
(***************************************************************************)
(* The theorems.                                                           *)
(***************************************************************************)

\* Every step keeps the invariant.
LEMMA InvNext == IInv /\ [Next]_vars => IInv'
<1> SUFFICES ASSUME IInv, [Next]_vars
             PROVE  IInv'
  OBVIOUS
<1>1. CASE Next
  BY <1>1, RunStepKeeps, SpawnStepKeeps, CloseStepKeeps, CancelKeeps, CancelReturnsKeeps,
     EngineStepKeeps, ProcessStepKeeps DEF Next
<1>2. CASE UNCHANGED vars
  BY <1>2 DEF vars, planning, engine, IInv, TypeOK, RunInv, SpawnInv, PermitInv, Placed, ActiveIsSpawning,
     Sandbox, Sidecar, RunName, ProxyName, PermitId
<1>3. QED
  BY <1>1, <1>2

\* The invariant holds in every reachable state.
THEOREM Invariance == Spec => []IInv
BY InvInit, InvNext, PTL DEF Spec

\* Every variable keeps its type, and a stray is always a container.
THEOREM TypeCorrect == Spec => []TypeOK
<1>1. IInv => TypeOK
  BY DEF IInv
<1>2. QED
  BY Invariance, <1>1, PTL

\* No container outlives its run but the strays (see ContainersHaveRuns), for
\* any number of overlapping runs: each removes at its end what it started.
THEOREM NoContainerOutlivesItsRun == Spec => []ContainersHaveRuns
<1>1. IInv => ContainersHaveRuns
  BY DEF IInv, Placed, ContainersHaveRuns, Sidecar
<1>2. QED
  BY Invariance, <1>1, PTL

\* What executes was granted by the policy or by an operator.
THEOREM NothingUnapprovedRuns == Spec => []ApprovedFirst
<1>1. IInv => ApprovedFirst
  BY DEF IInv, RunInv, PermitInv, ApprovedFirst
<1>2. QED
  BY Invariance, <1>1, PTL

\* A decision the API accepted is the one the run acts on.
THEOREM DecisionsStand == Spec => []DecisionStands
<1>1. IInv => DecisionStands
  BY DEF IInv, RunInv, PermitInv, DecisionStands
<1>2. QED
  BY Invariance, <1>1, PTL

\* A run recorded as denied came to no execution.
THEOREM RefusedRunsNeverRan == Spec => []RefusedNeverRan
<1>1. IInv => RefusedNeverRan
  BY DEF IInv, RunInv, PermitInv, RefusedNeverRan
<1>2. QED
  BY Invariance, <1>1, PTL

\* The entry that cancel finds belongs to a spawn that is under way.
THEOREM EntriesAreLive == Spec => []ActiveIsSpawning
<1>1. IInv => ActiveIsSpawning
  BY DEF IInv
<1>2. QED
  BY Invariance, <1>1, PTL

\* What was cut short or blocked does not resolve.
THEOREM NoResultAfterACut == Spec => CutShortNeverResolves
<1> DEFINE Cut == \A r \in Runs :
             spawn[r] = "exec" /\ halted[r] \cap {"limit", "blocked"} # {} /\ halted'[r] = {}
             => pc'[r] \in {"rejected", "cancelled", "lost"}
<1>1. IInv /\ [Next]_vars => [Cut]_vars
  <2> SUFFICES ASSUME IInv, Next, NEW r \in Runs, spawn[r] = "exec",
                      halted[r] \cap {"limit", "blocked"} # {}, halted'[r] = {}
               PROVE  pc'[r] \in {"rejected", "cancelled", "lost"}
    OBVIOUS
  <2> USE DEF NoSpawn, InSpawn, Goes, planning, engine, Spawns, Dropped
  <2>1. pc[r] \in Spawning /\ result[r] # "ok" /\ r \notin {q \in Runs : halted'[q] # {}}
    BY DEF IInv, RunInv, SpawnInv
  <2>2. ASSUME NEW q \in Runs, RunStep(q)
        PROVE  FALSE
    BY <2>1, <2>2 DEF IInv, TypeOK, Spawning, RunStep, Run, PlannerAnswers, PlannerFails, Throws, Deny, Park,
       Grant, Decide, Resolves, ApprovalExpires, Approved, Refused
  <2>3. ASSUME NEW q \in Runs, SpawnStep(q)
        PROVE  FALSE
    BY <2>1, <2>3 DEF IInv, TypeOK, SpawnStep, SidecarStarts, SidecarConflicts, SidecarAbandoned,
       SidecarNeverReady, ContainerStarts, ContainerConflicts, Blocks, HitsLimit, Halts, ContainerEnds
  <2>4. ASSUME NEW q \in Runs, CloseStep(q)
        PROVE  pc'[r] \in {"rejected", "cancelled"}
    <3>1. ExecutionFails(r)
      BY <2>1, <2>4 DEF IInv, TypeOK, CloseStep, ReconSucceeds, ReconRetries, ReconImpossible,
         ReconFailsClosed, ReconDegrades, ExecutionSucceeds, ExecutionFails, Completes, Spawning
    <3>2. QED
      BY <3>1 DEF IInv, TypeOK, ExecutionFails, Settlement
  <2>5. CASE Exit
    BY <2>1, <2>5 DEF Exit, Spawning, Settled
  <2>6. \/ halted' = halted \/ Exit \/ (\E c \in Cancels, a \in Agents : Cancel(c, a))
        \/ (\E q \in Runs : RunStep(q) \/ SpawnStep(q) \/ CloseStep(q))
    BY DEF Next, LateStart, CancelReturns, OrphanEnds, Shutdown, Boot
  <2>7. ASSUME NEW c \in Cancels, NEW a \in Agents, Cancel(c, a)
        PROVE  FALSE
    BY <2>1, <2>7 DEF IInv, TypeOK, Cancel
  <2>8. QED
    BY <2>2, <2>3, <2>4, <2>5, <2>6, <2>7
<1>2. QED
  BY Invariance, <1>1, PTL DEF Spec, CutShortNeverResolves

-----------------------------------------------------------------------------
(***************************************************************************)
(* HeimdallRunner keeps the contract of an AgentRunner.                    *)
(***************************************************************************)

\* No run has begun, as the contract of an AgentRunner requires at first.
LEMMA ContractInit == Init => Contract!Init
BY DEF Init, Contract!Init, Stage, Settled

\* A step of a run moves no other, and moves it along the contract.
LEMMA RunMoves ==
  ASSUME IInv, NEW r \in Runs, RunStep(r) \/ SpawnStep(r) \/ CloseStep(r)
  PROVE  /\ told' = told
         /\ \E to \in Place : /\ pc' = [pc EXCEPT ![r] = to]
                              /\ \/ to = pc[r]
                                 \/ to \notin Settled \cup {"idle", "lost"}
                                 \/ pc[r] # "idle" /\ to \in {"resolved", "rejected"}
                                 \/ pc[r] # "idle" /\ to = "cancelled" /\ r \in told
                              /\ pc[r] \in Settled \cup {"lost"} => to = pc[r]
<1> USE DEF IInv, Goes, Settled, Place, Spawning, TypeOK
<1>1. CASE RunStep(r)
  BY <1>1 DEF RunStep, Run, PlannerAnswers, PlannerFails, Throws, Deny, Park, Grant, Decide, Resolves,
     ApprovalExpires, Approved, Refused, RunInv, PermitInv
<1>2. CASE SpawnStep(r)
  BY <1>2 DEF SpawnStep, SidecarStarts, SidecarConflicts, SidecarAbandoned, SidecarNeverReady,
     ContainerStarts, ContainerConflicts, Blocks, HitsLimit, Halts, ContainerEnds
<1>3. CASE CloseStep(r)
  BY <1>3 DEF CloseStep, ReconSucceeds, ReconRetries, ReconImpossible, ReconFailsClosed, ReconDegrades,
     ExecutionSucceeds, ExecutionFails, Completes, Settlement, RunInv, SpawnInv
<1>4. QED
  BY <1>1, <1>2, <1>3

\* Every step is a step of the contract or changes nothing it speaks of.
LEMMA ContractStep == IInv /\ [Next]_vars => [Contract!Next]_<<Stage, told>>
<1> SUFFICES ASSUME IInv, [Next]_vars
             PROVE  [Contract!Next]_<<Stage, told>>
  OBVIOUS
<1>1. ASSUME NEW r \in Runs, RunStep(r) \/ SpawnStep(r) \/ CloseStep(r)
      PROVE  [Contract!Next]_<<Stage, told>>
  <2>1. told' = told
    BY <1>1, RunMoves
  <2>2. PICK to \in Place :
          /\ pc' = [pc EXCEPT ![r] = to]
          /\ \/ to = pc[r]
             \/ to \notin Settled \cup {"idle", "lost"}
             \/ pc[r] # "idle" /\ to \in {"resolved", "rejected"}
             \/ pc[r] # "idle" /\ to = "cancelled" /\ r \in told
          /\ pc[r] \in Settled \cup {"lost"} => to = pc[r]
    BY <1>1, RunMoves
  <2> DEFINE here == Stage[r]
             there == IF to \in Settled \cup {"idle", "lost"} THEN to ELSE "running"
  <2>3. Stage' = [Stage EXCEPT ![r] = there]
    BY <2>2 DEF Stage, IInv, TypeOK
  <2>4. CASE here = there
    BY <2>1, <2>3, <2>4 DEF Stage
  <2>5. CASE here # there
    <3>1. \/ here = "idle" /\ there = "running"
          \/ /\ here = "running" /\ there \in {"resolved", "rejected", "cancelled"}
             /\ there = "cancelled" => r \in told
      BY <2>2, <2>5 DEF Stage, Settled, IInv, RunInv, SpawnInv
    <3>2. QED
      BY <2>1, <2>3, <3>1 DEF Contract!Next, Contract!Start, Contract!Settle
  <2>6. QED
    BY <2>4, <2>5
<1>2. ASSUME NEW c \in Cancels, NEW a \in Agents, Cancel(c, a)
      PROVE  [Contract!Next]_<<Stage, told>>
  <2>1. active[a] \in Runs /\ pc[active[a]] \in Spawning
    BY <1>2 DEF Cancel, IInv, TypeOK, ActiveIsSpawning
  <2>2. Stage[active[a]] = "running" /\ UNCHANGED Stage /\ told' = told \cup {active[a]}
    BY <1>2, <2>1 DEF Cancel, Stage, Spawning, Settled
  <2>3. QED
    BY <2>1, <2>2 DEF Contract!Next, Contract!Tell
<1>3. CASE Exit
  <2>1. Stage' = [r \in Runs |-> IF Stage[r] = "running" THEN "lost" ELSE Stage[r]]
    BY <1>3 DEF Exit, Stage, Settled
  <2>2. QED
    BY <1>3, <2>1 DEF Exit, Contract!Next, Contract!Crash
<1>4. CASE UNCHANGED <<pc, told>>
  BY <1>4 DEF Stage
<1>5. QED
  BY <1>1, <1>2, <1>3, <1>4 DEF Next, LateStart, OrphanEnds, CancelReturns, Shutdown, Boot, vars

\* AgentService may rely on a HeimdallRunner as on any AgentRunner: a run
\* settles at most once, and as cancelled only if cancel found it.
THEOREM KeepsTheContract == Spec => KeepsContract
BY ContractInit, ContractStep, Invariance, PTL DEF Spec, KeepsContract, Contract!Spec
=============================================================================
