----------------------------- MODULE Launchpad -----------------------------
(***************************************************************************)
(* AgentService: the lifecycle of Agents and of their Runs, over the       *)
(* serialized JsonStore.                                                   *)
(*                                                                         *)
(* The server is one Node.js process.  A step of this module is what runs  *)
(* between two waits on I/O: a request is admitted, the mutation at the    *)
(* head of the store's queue becomes durable and its caller goes on, the   *)
(* runner settles, the watchdog sweeps.  Everything that matters happens   *)
(* in the gaps: a mutation is enqueued in one step and applied in a later  *)
(* one, so a decision taken before the enqueue may be stale by then.       *)
(*                                                                         *)
(* The runner behind AgentService is any AgentRunner: it settles when and  *)
(* how it likes, but reports a cancellation only if it was told to cancel. *)
(* Run stage and timeline are the subject of RunTimeline.                  *)
(***************************************************************************)
EXTENDS Naturals, Sequences, FiniteSets

CONSTANTS
  Agents,           \* ids createAgent may mint
  Runs,             \* ids sendMessage may mint
  AgentOf,          \* the Agent each minted run id belongs to
  Requests,         \* HTTP requests in flight at one time
  NoRun,            \* "no run" in a field that otherwise holds a run id
  Offered,          \* the operations this instance's clients call
  Watchdog,         \* whether a run may outlive runMaxAgeMs
  SeedsBeforeLoad,  \* whether boot writes to the store before loading it
  MaxFaults         \* bound: crashes of the process and failed store writes

Operations ==
  {"create", "send", "retry", "update", "start", "stop", "delete", "cancel"}

ASSUME ConstantsAssumption ==
  /\ AgentOf \in [Runs -> Agents]
  /\ NoRun \notin Runs
  /\ Offered \subseteq Operations
  /\ Watchdog \in BOOLEAN
  /\ SeedsBeforeLoad \in BOOLEAN
  /\ MaxFaults \in Nat

VARIABLES
  \* the database of JsonStore: what launchpad.json holds
  agentStatus, lastError, runStatus, replies,
  \* the store's queue of mutations not yet applied
  queue,
  \* one executeRun per run, and the AgentService maps that refer to them
  exec, outcome, activeExecutions, cancellationRequests,
  \* the runs the runner has been told to cancel
  told,
  \* requests being served
  phase, job, waits,
  \* the faults so far
  faults

db      == <<agentStatus, lastError, runStatus, replies>>
execs   == <<exec, outcome, activeExecutions>>
serving == <<phase, job, waits>>
vars    == <<db, queue, execs, cancellationRequests, told, serving, faults>>

Live        == {"ready", "busy", "stopped", "error"}
AgentStatus == Live \cup {"unborn", "deleted"}
Active      == {"queued", "running"}
RunStatus   == Active \cup {"unused", "completed", "failed", "cancelled", "removed"}
Ended       == {"ended", "rejected"}
ExecPhase   == Ended \cup {"none", "starting", "checking", "running", "closing"}
Outcome     == {"none", "ok", "failed", "cancelled"}
Phase       == {"idle", "storing", "cancelling", "awaiting", "archiving"}
Job         == [op : Operations \cup {"none"}, agent : Agents \cup {NoRun},
                run : Runs \cup {NoRun}]
Ticket      == [by : {"request"}, id : Requests]
                 \cup [by : {"execution", "watchdog"}, id : Runs]

NoJob        == [op |-> "none", agent |-> NoRun, run |-> NoRun]
Request(h)   == [by |-> "request", id |-> h]
Execution(r) == [by |-> "execution", id |-> r]
Reaping(r)   == [by |-> "watchdog", id |-> r]

Exists(a)   == agentStatus[a] \in Live
InDb(r)     == runStatus[r] \notin {"unused", "removed"}
RunsOf(a)   == {r \in Runs : AgentOf[r] = a}
InRunner(a) == {r \in RunsOf(a) : exec[r] = "running"}

\* A request that awaits a settled execution resumes in the same turn of the
\* event loop, before any other step.
Quiet == \A h \in Requests : phase[h] = "awaiting" => exec[waits[h]] \notin Ended

Init ==
  /\ agentStatus = [a \in Agents |-> "unborn"]
  /\ lastError = {}
  /\ runStatus = [r \in Runs |-> "unused"]
  /\ replies = [r \in Runs |-> 0]
  /\ queue = << >>
  /\ exec = [r \in Runs |-> "none"]
  /\ outcome = [r \in Runs |-> "none"]
  /\ activeExecutions = [a \in Agents |-> NoRun]
  /\ cancellationRequests = {}
  /\ told = {}
  /\ phase = [h \in Requests |-> "idle"]
  /\ job = [h \in Requests |-> NoJob]
  /\ waits = [h \in Requests |-> NoRun]
  /\ faults = 0

-----------------------------------------------------------------------------
(***************************************************************************)
(* The decisions the code takes, each followed by the form a slip would    *)
(* give it: the Faulty definitions are used by no behaviour of Spec.       *)
(***************************************************************************)

\* sendMessage refuses a missing, a stopped and a busy Agent.
FaultyAdmitsBusy(a) == agentStatus[a] \in {"ready", "busy", "error"}
Admits(a) == agentStatus[a] \in {"ready", "error"}

\* A runner's success is recorded on a run that is still running.
FaultyStillOpenUnchecked(r) == InDb(r) /\ Exists(AgentOf[r])
StillOpen(r) == runStatus[r] = "running" /\ Exists(AgentOf[r])

\* What an execution that did not succeed makes of its Agent.
FaultyAgentAfter(o) == IF o = "cancelled" THEN "ready" ELSE "failed"
AgentAfter(o) == IF o = "cancelled" THEN "ready" ELSE "error"
ErrorsAfter(o, a) == IF o = "cancelled" THEN lastError \ {a} ELSE lastError \cup {a}

\* The runs the watchdog looks for, and the Agents whose status it writes.
FaultyStale(r) == runStatus[r] = "running"
Stale(r) == runStatus[r] \in Active
FaultyReapTouches(a) == FALSE
ReapTouches(a) == agentStatus[a] \in Live \ {"stopped"}

\* deleteAgent takes every stored run of the Agent with it.
FaultyRemovedWith(a) == {r \in RunsOf(a) : InDb(r) /\ runStatus[r] \notin Active}
RemovedWith(a) == {r \in RunsOf(a) : InDb(r)}

\* The messages left once an Agent's runs are deleted.
FaultyRepliesWithout(gone) == replies
RepliesWithout(gone) == [r \in Runs |-> IF r \in gone THEN 0 ELSE replies[r]]

\* cancelExecution's finally block, and the execution it awaits.
FaultyUnflag(a) == cancellationRequests
Unflag(a) == cancellationRequests \ {a}
FaultyAwaited(a) == NoRun
Awaited(a) == activeExecutions[a]

\* A mutation whose write fails rejects its caller.
FaultyFailedWrite == "closing"
FailedWrite == "rejected"

\* startAgent clears the last error.
FaultyErrorsAfterStart(a) == lastError
ErrorsAfterStart(a) == lastError \ {a}

-----------------------------------------------------------------------------
(***************************************************************************)
(* Requests, up to their first wait.                                       *)
(***************************************************************************)

Admit(h, o, a, r) ==
  /\ Quiet
  /\ phase[h] = "idle"
  /\ o \in Offered
  /\ job' = [job EXCEPT ![h] = [op |-> o, agent |-> a, run |-> r]]
  /\ UNCHANGED <<db, execs, waits, faults>>

\* The request goes straight to a store mutation.
Submit(h, o, a, r) ==
  /\ Admit(h, o, a, r)
  /\ phase' = [phase EXCEPT ![h] = "storing"]
  /\ queue' = Append(queue, Request(h))
  /\ UNCHANGED <<cancellationRequests, told>>

\* The request first cancels whatever the Agent is executing.  runner.cancel
\* may find the Agent's run where the runner cannot interrupt it.
CancelExecution(h, o, a, r) ==
  /\ Admit(h, o, a, r)
  /\ phase' = [phase EXCEPT ![h] = "cancelling"]
  /\ cancellationRequests' = cancellationRequests \cup {a}
  /\ \E hit \in SUBSET InRunner(a) : told' = told \cup hit
  /\ UNCHANGED queue

Minting(o, a, r) ==
  \E h \in Requests : phase[h] = "storing" /\ job[h] = [op |-> o, agent |-> a, run |-> r]

FreshRun(r) ==
  /\ runStatus[r] = "unused"
  /\ agentStatus[AgentOf[r]] # "unborn"
  /\ \A o \in {"send", "retry"} : ~Minting(o, AgentOf[r], r)

CreateAgent(h, a) ==
  /\ agentStatus[a] = "unborn"
  /\ ~Minting("create", a, NoRun)
  /\ Submit(h, "create", a, NoRun)

SendMessage(h, r) == FreshRun(r) /\ Submit(h, "send", AgentOf[r], r)

RetryRun(h, old, r) ==
  /\ runStatus[old] \in {"failed", "cancelled"}
  /\ AgentOf[old] = AgentOf[r]
  /\ FreshRun(r)
  /\ Submit(h, "retry", AgentOf[r], r)

UpdateAgent(h, a) ==
  Exists(a) /\ agentStatus[a] # "busy" /\ Submit(h, "update", a, NoRun)

StartAgent(h, a) == agentStatus[a] # "unborn" /\ Submit(h, "start", a, NoRun)

StopAgent(h, a)   == Exists(a) /\ CancelExecution(h, "stop", a, NoRun)
DeleteAgent(h, a) == Exists(a) /\ CancelExecution(h, "delete", a, NoRun)
CancelRun(h, r)   == runStatus[r] \in Active /\ CancelExecution(h, "cancel", AgentOf[r], r)

Arrive(h) ==
  \/ \E a \in Agents : \/ CreateAgent(h, a) \/ UpdateAgent(h, a) \/ StartAgent(h, a)
                       \/ StopAgent(h, a)   \/ DeleteAgent(h, a)
  \/ \E r \in Runs : SendMessage(h, r) \/ CancelRun(h, r)
  \/ \E old, r \in Runs : RetryRun(h, old, r)

-----------------------------------------------------------------------------
(***************************************************************************)
(* cancelExecution after runner.cancel, and what stop and delete do next.  *)
(***************************************************************************)

Respond(h) ==
  /\ phase' = [phase EXCEPT ![h] = "idle"]
  /\ job' = [job EXCEPT ![h] = NoJob]

\* The finally block clears the Agent's flag; the request carries on.
CancelDone(h) ==
  /\ cancellationRequests' = Unflag(job[h].agent)
  /\ waits' = [waits EXCEPT ![h] = NoRun]
  /\ \/ job[h].op = "cancel" /\ Respond(h) /\ UNCHANGED queue
     \/ /\ job[h].op = "stop"
        /\ phase' = [phase EXCEPT ![h] = "storing"]
        /\ queue' = Append(queue, Request(h))
        /\ UNCHANGED job
     \/ /\ job[h].op = "delete"
        /\ phase' = [phase EXCEPT ![h] = "archiving"]
        /\ UNCHANGED <<job, queue>>

RunnerCancelReturns(h) ==
  /\ Quiet
  /\ phase[h] = "cancelling"
  /\ LET r == Awaited(job[h].agent) IN
       \/ r = NoRun /\ CancelDone(h)
       \/ /\ r # NoRun
          /\ phase' = [phase EXCEPT ![h] = "awaiting"]
          /\ waits' = [waits EXCEPT ![h] = r]
          /\ UNCHANGED <<job, queue, cancellationRequests>>
  /\ UNCHANGED <<db, execs, told, faults>>

ExecutionAwaited(h) ==
  /\ phase[h] = "awaiting"
  /\ exec[waits[h]] = "ended"
  /\ CancelDone(h)
  /\ UNCHANGED <<db, execs, told, faults>>

\* The awaited execution rejected: so does the request.
ExecutionThrew(h) ==
  /\ phase[h] = "awaiting"
  /\ exec[waits[h]] = "rejected"
  /\ cancellationRequests' = Unflag(job[h].agent)
  /\ waits' = [waits EXCEPT ![h] = NoRun]
  /\ Respond(h)
  /\ UNCHANGED <<db, queue, execs, told, faults>>

Archived(h) ==
  /\ Quiet
  /\ phase[h] = "archiving"
  /\ phase' = [phase EXCEPT ![h] = "storing"]
  /\ queue' = Append(queue, Request(h))
  /\ UNCHANGED <<db, execs, cancellationRequests, told, job, waits, faults>>

ArchiveFails(h) ==
  /\ Quiet
  /\ phase[h] = "archiving"
  /\ Respond(h)
  /\ UNCHANGED <<db, queue, execs, cancellationRequests, told, waits, faults>>

-----------------------------------------------------------------------------
(***************************************************************************)
(* executeRun and the watchdog, between their store mutations.             *)
(***************************************************************************)

\* The flag is read once, after the first workspace snapshot.
CheckCancellation(r) ==
  /\ Quiet
  /\ exec[r] = "checking"
  /\ \/ /\ AgentOf[r] \in cancellationRequests
        /\ outcome' = [outcome EXCEPT ![r] = "cancelled"]
        /\ exec' = [exec EXCEPT ![r] = "closing"]
        /\ queue' = Append(queue, Execution(r))
     \/ /\ AgentOf[r] \notin cancellationRequests
        /\ exec' = [exec EXCEPT ![r] = "running"]
        /\ UNCHANGED <<outcome, queue>>
  /\ UNCHANGED <<db, activeExecutions, cancellationRequests, told, serving, faults>>

\* runner.run resolves or throws; the file-change scan that follows only
\* delays the closing mutation.
RunnerSettles(r, o) ==
  /\ Quiet
  /\ exec[r] = "running"
  /\ o = "cancelled" => r \in told
  /\ outcome' = [outcome EXCEPT ![r] = o]
  /\ exec' = [exec EXCEPT ![r] = "closing"]
  /\ told' = told \ {r}
  /\ queue' = Append(queue, Execution(r))
  /\ UNCHANGED <<db, activeExecutions, cancellationRequests, serving, faults>>

\* sweepStuckRuns finds the run older than runMaxAgeMs.
Sweep(r) ==
  /\ Quiet
  /\ Watchdog
  /\ Stale(r)
  /\ \A i \in 1..Len(queue) : queue[i] # Reaping(r)
  /\ queue' = Append(queue, Reaping(r))
  /\ UNCHANGED <<db, execs, cancellationRequests, told, serving, faults>>

-----------------------------------------------------------------------------
(***************************************************************************)
(* The store applies the mutation at the head of its queue, and the code   *)
(* that awaited it goes on to its next wait.                               *)
(***************************************************************************)

Dequeue(t) ==
  /\ Quiet
  /\ queue # << >>
  /\ Head(queue) = t
  /\ UNCHANGED <<cancellationRequests, waits, faults>>

Served(h) ==
  /\ Dequeue(Request(h))
  /\ queue' = Tail(queue)
  /\ Respond(h)
  /\ UNCHANGED <<execs, told>>

ApplyCreate(h) ==
  /\ job[h].op = "create"
  /\ Served(h)
  /\ agentStatus' = [agentStatus EXCEPT ![job[h].agent] = "ready"]
  /\ UNCHANGED <<lastError, runStatus, replies>>

\* 404, or 409 because the Agent is stopped or busy: nothing is stored.
RefuseSend(h) ==
  /\ job[h].op \in {"send", "retry"}
  /\ ~Admits(job[h].agent)
  /\ Served(h)
  /\ UNCHANGED db

\* The run and its user message are stored, the Agent is busy, executeRun has
\* enqueued its first mutation and is the Agent's active execution.
AcceptSend(h) ==
  LET a == job[h].agent
      r == job[h].run
  IN /\ job[h].op \in {"send", "retry"}
     /\ Admits(a)
     /\ Dequeue(Request(h))
     /\ agentStatus' = [agentStatus EXCEPT ![a] = "busy"]
     /\ lastError' = lastError \ {a}
     /\ runStatus' = [runStatus EXCEPT ![r] = "queued"]
     /\ exec' = [exec EXCEPT ![r] = "starting"]
     /\ activeExecutions' = [activeExecutions EXCEPT ![a] = r]
     /\ queue' = Append(Tail(queue), Execution(r))
     /\ Respond(h)
     /\ UNCHANGED <<replies, outcome, told>>

ApplyUpdate(h) ==
  LET a == job[h].agent IN
  /\ job[h].op = "update"
  /\ Served(h)
  /\ lastError' = IF Exists(a) /\ agentStatus[a] # "busy" THEN lastError \ {a} ELSE lastError
  /\ UNCHANGED <<agentStatus, runStatus, replies>>

\* setStatus "ready", refused while the Agent is busy.
ApplyStart(h) ==
  LET a  == job[h].agent
      ok == Exists(a) /\ agentStatus[a] # "busy"
  IN /\ job[h].op = "start"
     /\ Served(h)
     /\ agentStatus' = IF ok THEN [agentStatus EXCEPT ![a] = "ready"] ELSE agentStatus
     /\ lastError' = IF ok THEN ErrorsAfterStart(a) ELSE lastError
     /\ UNCHANGED <<runStatus, replies>>

\* setStatus "stopped", whatever the Agent is doing.
ApplyStop(h) ==
  LET a == job[h].agent IN
  /\ job[h].op = "stop"
  /\ Served(h)
  /\ agentStatus' = IF Exists(a) THEN [agentStatus EXCEPT ![a] = "stopped"] ELSE agentStatus
  /\ UNCHANGED <<lastError, runStatus, replies>>

ApplyDelete(h) ==
  LET a    == job[h].agent
      gone == RemovedWith(a)
  IN /\ job[h].op = "delete"
     /\ Served(h)
     /\ agentStatus' = IF Exists(a) THEN [agentStatus EXCEPT ![a] = "deleted"] ELSE agentStatus
     /\ lastError' = lastError \ {a}
     /\ runStatus' = [r \in Runs |-> IF r \in gone THEN "removed" ELSE runStatus[r]]
     /\ replies' = RepliesWithout(gone)

\* executeRun's first mutation: it does not look at the status it overwrites.
ApplyRunning(r) ==
  /\ exec[r] = "starting"
  /\ Dequeue(Execution(r))
  /\ queue' = Tail(queue)
  /\ runStatus' = [runStatus EXCEPT ![r] = IF InDb(r) THEN "running" ELSE @]
  /\ exec' = [exec EXCEPT ![r] = "checking"]
  /\ UNCHANGED <<agentStatus, lastError, replies, outcome, activeExecutions, told, phase, job>>

\* executeRun settles; its finally handler forgets it unless a later execution
\* has taken the Agent's slot.
Settles(r, how) ==
  /\ exec' = [exec EXCEPT ![r] = how]
  /\ activeExecutions' =
       [activeExecutions EXCEPT ![AgentOf[r]] = IF @ = r THEN NoRun ELSE @]
  /\ UNCHANGED <<outcome, told, phase, job>>

ApplyCompleted(r) ==
  LET a    == AgentOf[r]
      open == StillOpen(r)
  IN /\ exec[r] = "closing" /\ outcome[r] = "ok"
     /\ Dequeue(Execution(r))
     /\ queue' = Tail(queue)
     /\ runStatus' = IF open THEN [runStatus EXCEPT ![r] = "completed"] ELSE runStatus
     /\ replies' = IF open THEN [replies EXCEPT ![r] = @ + 1] ELSE replies
     /\ agentStatus' = IF open THEN [agentStatus EXCEPT ![a] = "ready"] ELSE agentStatus
     /\ lastError' = IF open THEN lastError \ {a} ELSE lastError
     /\ Settles(r, "ended")

\* The catch block: the run is closed only if still running, but the Agent's
\* status is written either way.
ApplyUnsuccessful(r) ==
  LET a     == AgentOf[r]
      touch == Exists(a) /\ agentStatus[a] # "stopped" /\ runStatus[r] # "completed"
  IN /\ exec[r] = "closing" /\ outcome[r] \in {"failed", "cancelled"}
     /\ Dequeue(Execution(r))
     /\ queue' = Tail(queue)
     /\ runStatus' = IF runStatus[r] = "running"
                     THEN [runStatus EXCEPT ![r] = outcome[r]] ELSE runStatus
     /\ agentStatus' = IF touch
                       THEN [agentStatus EXCEPT ![a] = AgentAfter(outcome[r])]
                       ELSE agentStatus
     /\ lastError' = IF touch THEN ErrorsAfter(outcome[r], a) ELSE lastError
     /\ UNCHANGED replies
     /\ Settles(r, "ended")

\* forceTerminateStaleRun: closes the run if it is still active, then asks the
\* runner to cancel the Agent, whichever run that now executes.
ApplyForceTerminate(r) ==
  LET a     == AgentOf[r]
      stale == Stale(r)
      touch == stale /\ ReapTouches(a)
  IN /\ Dequeue(Reaping(r))
     /\ queue' = Tail(queue)
     /\ runStatus' = IF stale THEN [runStatus EXCEPT ![r] = "failed"] ELSE runStatus
     /\ agentStatus' = IF touch THEN [agentStatus EXCEPT ![a] = "error"] ELSE agentStatus
     /\ lastError' = IF touch THEN lastError \cup {a} ELSE lastError
     /\ \E hit \in SUBSET InRunner(a) : told' = IF stale THEN told \cup hit ELSE told
     /\ UNCHANGED <<replies, execs, phase, job>>

Commit ==
  \/ \E h \in Requests : \/ ApplyCreate(h) \/ RefuseSend(h) \/ AcceptSend(h) \/ ApplyUpdate(h)
                         \/ ApplyStart(h)  \/ ApplyStop(h)  \/ ApplyDelete(h)
  \/ \E r \in Runs : \/ ApplyRunning(r)      \/ ApplyCompleted(r)
                     \/ ApplyUnsuccessful(r) \/ ApplyForceTerminate(r)

(***************************************************************************)
(* persist throws: the mutation leaves no trace and its caller's await     *)
(* rejects.  A failed closing write of a finished run falls into the catch *)
(* block, any other rejects the execution.                                 *)
(***************************************************************************)
PersistFails(t) ==
  /\ faults < MaxFaults
  /\ faults' = faults + 1
  /\ Quiet
  /\ queue # << >>
  /\ Head(queue) = t
  /\ UNCHANGED <<db, cancellationRequests, told, waits>>

RequestWriteFails(h) ==
  /\ PersistFails(Request(h))
  /\ queue' = Tail(queue)
  /\ Respond(h)
  /\ UNCHANGED execs

CompletionWriteFails(r) ==
  /\ PersistFails(Execution(r))
  /\ exec[r] = "closing" /\ outcome[r] = "ok"
  /\ outcome' = [outcome EXCEPT ![r] = "failed"]
  /\ queue' = Append(Tail(queue), Execution(r))
  /\ UNCHANGED <<exec, activeExecutions, phase, job>>

ExecutionWriteFails(r) ==
  /\ PersistFails(Execution(r))
  /\ ~(exec[r] = "closing" /\ outcome[r] = "ok")
  /\ queue' = Tail(queue)
  /\ exec' = [exec EXCEPT ![r] = FailedWrite]
  /\ activeExecutions' =
       [activeExecutions EXCEPT ![AgentOf[r]] = IF @ = r THEN NoRun ELSE @]
  /\ UNCHANGED <<outcome, phase, job>>

ReapingWriteFails(r) ==
  /\ PersistFails(Reaping(r))
  /\ queue' = Tail(queue)
  /\ UNCHANGED <<execs, phase, job>>

StoreFails ==
  \/ \E h \in Requests : RequestWriteFails(h)
  \/ \E r \in Runs : CompletionWriteFails(r) \/ ExecutionWriteFails(r) \/ ReapingWriteFails(r)

-----------------------------------------------------------------------------
(***************************************************************************)
(* The process dies and boots again: memory is lost, the file is not.      *)
(* initialize closes what was active.  When boot writes to the store       *)
(* before loading it, the file it loads is the empty one it just wrote.    *)
(***************************************************************************)
Boot ==
  IF SeedsBeforeLoad
  THEN /\ agentStatus' = [a \in Agents |-> IF Exists(a) THEN "deleted" ELSE agentStatus[a]]
       /\ lastError' = {}
       /\ runStatus' = [r \in Runs |-> IF InDb(r) THEN "removed" ELSE runStatus[r]]
       /\ replies' = [r \in Runs |-> 0]
  ELSE /\ agentStatus' = [a \in Agents |->
                            IF agentStatus[a] = "busy" THEN "ready" ELSE agentStatus[a]]
       /\ runStatus' = [r \in Runs |->
                            IF runStatus[r] \in Active THEN "cancelled" ELSE runStatus[r]]
       /\ UNCHANGED <<lastError, replies>>

Restart ==
  /\ faults < MaxFaults
  /\ faults' = faults + 1
  /\ Boot
  /\ queue' = << >>
  /\ exec' = [r \in Runs |-> "none"]
  /\ outcome' = [r \in Runs |-> "none"]
  /\ activeExecutions' = [a \in Agents |-> NoRun]
  /\ cancellationRequests' = {}
  /\ told' = {}
  /\ phase' = [h \in Requests |-> "idle"]
  /\ job' = [h \in Requests |-> NoJob]
  /\ waits' = [h \in Requests |-> NoRun]

RequestStep(h) ==
  \/ RunnerCancelReturns(h) \/ ExecutionAwaited(h) \/ ExecutionThrew(h)
  \/ Archived(h) \/ ArchiveFails(h)

RunStep(r) ==
  \/ CheckCancellation(r)
  \/ \E o \in Outcome \ {"none"} : RunnerSettles(r, o)

Next ==
  \/ \E h \in Requests : Arrive(h) \/ RequestStep(h)
  \/ \E r \in Runs : RunStep(r) \/ Sweep(r)
  \/ Commit
  \/ StoreFails
  \/ Restart

Spec == Init /\ [][Next]_vars

(***************************************************************************)
(* The event loop serves every queued continuation, every write ends and   *)
(* the sweep keeps coming round.  Nothing is asked of the runner.          *)
(***************************************************************************)
ServerFairness ==
  /\ WF_vars(Commit \/ StoreFails)
  /\ \A r \in Runs : WF_vars(CheckCancellation(r)) /\ WF_vars(Sweep(r))
  /\ \A h \in Requests :
       WF_vars(ExecutionAwaited(h) \/ ExecutionThrew(h) \/ Archived(h) \/ ArchiveFails(h))

FairSpec == Spec /\ ServerFairness

-----------------------------------------------------------------------------
(***************************************************************************)
(* Properties.                                                             *)
(***************************************************************************)

\* Every variable keeps its type; a run has at most one assistant message.
TypeOK ==
  /\ agentStatus \in [Agents -> AgentStatus]
  /\ lastError \subseteq Agents
  /\ runStatus \in [Runs -> RunStatus]
  /\ replies \in [Runs -> 0..1]
  /\ queue \in Seq(Ticket)
  /\ exec \in [Runs -> ExecPhase]
  /\ outcome \in [Runs -> Outcome]
  /\ activeExecutions \in [Agents -> Runs \cup {NoRun}]
  /\ cancellationRequests \subseteq Agents
  /\ told \subseteq Runs
  /\ phase \in [Requests -> Phase]
  /\ job \in [Requests -> Job]
  /\ waits \in [Requests -> Runs \cup {NoRun}]
  /\ faults \in 0..MaxFaults

\* No Agent is wedged: a busy Agent has a queued or running run, through
\* watchdog kills, late completions, failed writes, deletes and restarts.
BusyHasActiveRun ==
  \A a \in Agents :
    agentStatus[a] = "busy" => \E r \in RunsOf(a) : runStatus[r] \in Active

\* The conversation agrees with the runs: a run has its one assistant message
\* exactly when it is completed.
AnsweredOnce ==
  \A r \in Runs : replies[r] = IF runStatus[r] = "completed" THEN 1 ELSE 0

\* deleteAgent leaves no run behind, and a sendMessage racing it adds none.
NoOrphanRuns == \A r \in Runs : InDb(r) => Exists(AgentOf[r])

\* Only a stopped or failed Agent shows an error: none is left on an Agent
\* that is ready or busy again.
NoStaleError == \A a \in lastError : agentStatus[a] \in {"stopped", "error"}

\* A cancellation flag never outlives the requests that raised it: a leaked
\* one would cancel every later run of the Agent.
FlagsHaveOwners ==
  \A a \in cancellationRequests :
    \E h \in Requests : phase[h] \in {"cancelling", "awaiting"} /\ job[h].agent = a

\* Once its execution has recorded that it started, a closed run is never
\* reopened or closed another way, however late its runner answers.
ClosedRunStaysClosed ==
  [][\A r \in Runs :
       /\ runStatus[r] \in {"completed", "failed", "cancelled"}
       /\ exec[r] # "starting"
       => runStatus'[r] \in {runStatus[r], "removed"}]_vars

\* "One Agent can have only one active Run" (docs/ARCHITECTURE.md).
OneActiveRun ==
  \A r1, r2 \in Runs :
    /\ AgentOf[r1] = AgentOf[r2]
    /\ {runStatus[r1], runStatus[r2]} \subseteq Active
    => r1 = r2

\* cancelRun answers successfully only once its run is closed, unless a write
\* that would have closed it failed.
CancelAnswersLast ==
  \A h \in Requests :
    /\ job[h].op = "cancel" /\ phase[h] \in {"cancelling", "awaiting"}
    /\ phase'[h] = "idle" /\ faults' = faults
    => \/ runStatus[job[h].run] \notin Active
       \/ exec[job[h].run] = "rejected"

CancelledRunIsClosed == [][CancelAnswersLast]_vars

\* "Interrupted Runs become cancelled after a restart" (docs/ARCHITECTURE.md).
InterruptedRunsCancelled ==
  [][\A r \in Runs :
       runStatus[r] \in Active /\ exec[r] # "none" /\ exec'[r] = "none"
       => runStatus'[r] = "cancelled"]_vars

\* A run that is queued or running ends, whatever the runner does: the
\* watchdog is the safety net.
EveryRunCloses == \A r \in Runs : []<>(runStatus[r] \notin Active)

\* Every request is answered, although stop, delete and cancel wait for an
\* execution, which waits for the runner: whenever the runner settles every run it
\* is given and every cancel.  CodexRunner does, by its timeout and SIGKILL; the
\* HeimdallRunner that index.ts wires by default does not always (CancelTearsDown
\* of HeimdallRun), and the request that waits for such a run is never answered.
RunnerAnswers ==
  /\ \A r \in Runs : []<>(exec[r] # "running")
  /\ \A h \in Requests : []<>(phase[h] # "cancelling")

EveryRequestReturns == RunnerAnswers => \A h \in Requests : []<>(phase[h] = "idle")
=============================================================================
