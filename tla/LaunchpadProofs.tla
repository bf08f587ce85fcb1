--------------------------- MODULE LaunchpadProofs ---------------------------
(***************************************************************************)
(* Theorems about Launchpad, for any number of Agents, runs, requests and  *)
(* faults, any set of offered operations and either boot order.            *)
(***************************************************************************)
EXTENDS Launchpad, TLAPS

Sends == {"send", "retry"}

\* A request that will push a run is waiting in the store's queue, and holds a
\* run id that no other request holds and that the database has never seen.
MintsAreFresh ==
  /\ \A h \in Requests :
       /\ phase[h] # "idle" => job[h].agent \in Agents
       /\ job[h].op \in Sends =>
            /\ phase[h] = "storing"
            /\ job[h].run \in Runs
            /\ job[h].agent = AgentOf[job[h].run]
            /\ runStatus[job[h].run] = "unused"
       /\ job[h].op = "create" =>
            /\ phase[h] = "storing"
            /\ job[h].run = NoRun
            /\ job[h].agent \in Agents
            /\ agentStatus[job[h].agent] = "unborn"
  /\ \A g, h \in Requests :
       /\ job[g].op \in Sends /\ job[h].op \in Sends /\ job[g].run = job[h].run => g = h
       /\ job[g].op = "create" /\ job[h].op = "create" /\ job[g].agent = job[h].agent => g = h

\* An execution that has yet to record its start has not completed its run.
StartingIsNotCompleted ==
  \A r \in Runs : exec[r] = "starting" => runStatus[r] # "completed"

\* A request waits in the queue q at most once, and only while it is storing.
QueuedIn(q, p) ==
  /\ \A i \in 1..Len(q), h \in Requests : q[i] = Request(h) => p[h] = "storing"
  /\ \A i, j \in 1..Len(q), h \in Requests : q[i] = Request(h) /\ q[j] = Request(h) => i = j

QueuedOnce == QueuedIn(queue, phase)

\* The inductive invariant.
IInv ==
  /\ TypeOK
  /\ MintsAreFresh
  /\ StartingIsNotCompleted
  /\ AnsweredOnce
  /\ BusyHasActiveRun
  /\ NoOrphanRuns
  /\ NoStaleError
  /\ FlagsHaveOwners
  /\ QueuedOnce

-----------------------------------------------------------------------------
(***************************************************************************)
(* Type correctness.                                                       *)
(***************************************************************************)

\* What the store does to its queue leaves a queue of mutations.
LEMMA QueueOps ==
  ASSUME NEW q \in Seq(Ticket), NEW t \in Ticket
  PROVE  /\ Append(q, t) \in Seq(Ticket)
         /\ q # << >> => /\ Tail(q) \in Seq(Ticket)
                         /\ Append(Tail(q), t) \in Seq(Ticket)
                         /\ Head(q) \in Ticket
  OBVIOUS

\* Each mutation that is enqueued is one the type invariant knows.
LEMMA Tickets ==
  /\ \A h \in Requests : Request(h) \in Ticket
  /\ \A r \in Runs : Execution(r) \in Ticket /\ Reaping(r) \in Ticket
  BY DEF Ticket, Request, Execution, Reaping

\* A server that has just started is well typed.
LEMMA TypeInit == Init => TypeOK
  BY ConstantsAssumption DEF Init, TypeOK, AgentStatus, Live, RunStatus, Active, ExecPhase,
     Ended, Outcome, Phase, Job, NoJob

\* The steps of requests keep the types.
LEMMA TypeRequests ==
  ASSUME IInv, NEW h \in Requests, Arrive(h) \/ RequestStep(h)
  PROVE  TypeOK'
<1> USE ConstantsAssumption, QueueOps, Tickets DEF IInv, TypeOK, Phase, Job, Operations
<1>1. ASSUME NEW o \in Operations, NEW a \in Agents, NEW r \in Runs \cup {NoRun},
             Submit(h, o, a, r)
      PROVE  TypeOK'
  BY <1>1 DEF Submit, Admit, db, execs
<1>2. ASSUME NEW o \in Operations, NEW a \in Agents, NEW r \in Runs \cup {NoRun},
             CancelExecution(h, o, a, r)
      PROVE  TypeOK'
  BY <1>2 DEF CancelExecution, Admit, db, execs, InRunner, RunsOf
<1>3. CASE Arrive(h)
  BY <1>1, <1>2, <1>3 DEF Arrive, CreateAgent, UpdateAgent, StartAgent, StopAgent, DeleteAgent,
     SendMessage, CancelRun, RetryRun
<1>4. ASSUME CancelDone(h), UNCHANGED <<db, execs, told, faults>>
      PROVE  TypeOK'
  <2>1. cancellationRequests' \subseteq Agents /\ waits' \in [Requests -> Runs \cup {NoRun}]
    BY <1>4 DEF CancelDone, Unflag
  <2>5. phase' \in [Requests -> Phase]
    BY <1>4 DEF CancelDone, Respond
  <2>2. job' \in [Requests -> Job]
    BY <1>4 DEF CancelDone, Respond, NoJob
  <2>3. queue' \in Seq(Ticket)
    <3>1. Append(queue, Request(h)) \in Seq(Ticket)
      OBVIOUS
    <3>2. queue' = queue \/ queue' = Append(queue, Request(h))
      BY <1>4 DEF CancelDone
    <3>3. QED
      BY <3>1, <3>2
  <2>4. QED
    BY <1>4, <2>1, <2>2, <2>3, <2>5 DEF db, execs
<1>5. CASE RunnerCancelReturns(h)
  <2>1. CASE Awaited(job[h].agent) = NoRun
    BY <1>4, <1>5, <2>1 DEF RunnerCancelReturns
  <2>2. CASE Awaited(job[h].agent) # NoRun
    <3>1. job[h].agent \in Agents
      BY <1>5 DEF RunnerCancelReturns, MintsAreFresh
    <3>2. Awaited(job[h].agent) \in Runs \cup {NoRun}
      BY <3>1 DEF Awaited
    <3>3. /\ phase' = [phase EXCEPT ![h] = "awaiting"]
          /\ waits' = [waits EXCEPT ![h] = Awaited(job[h].agent)]
          /\ UNCHANGED <<job, queue, cancellationRequests, db, execs, told, faults>>
      BY <1>5, <2>2 DEF RunnerCancelReturns
    <3>4. QED
      BY <3>2, <3>3 DEF db, execs
  <2>3. QED
    BY <2>1, <2>2
<1>6. CASE ExecutionAwaited(h)
  BY <1>4, <1>6 DEF ExecutionAwaited
<1>7. CASE ExecutionThrew(h)
  BY <1>7 DEF ExecutionThrew, Respond, NoJob, Unflag, db, execs
<1>8. CASE Archived(h)
  BY <1>8 DEF Archived, db, execs
<1>9. CASE ArchiveFails(h)
  BY <1>9 DEF ArchiveFails, Respond, NoJob, db, execs
<1>10. QED
  BY <1>3, <1>5, <1>6, <1>7, <1>8, <1>9 DEF RequestStep

\* The steps of executions and of the watchdog's sweep keep the types.
LEMMA TypeRuns ==
  ASSUME IInv, NEW r \in Runs, RunStep(r) \/ Sweep(r)
  PROVE  TypeOK'
<1> USE QueueOps, Tickets DEF IInv, TypeOK, ExecPhase, Ended, Outcome
<1>1. CASE CheckCancellation(r)
  <2>1. Append(queue, Execution(r)) \in Seq(Ticket)
    OBVIOUS
  <2>2. queue' = queue \/ queue' = Append(queue, Execution(r))
    BY <1>1 DEF CheckCancellation
  <2>3. exec' \in [Runs -> ExecPhase] /\ outcome' \in [Runs -> Outcome]
    BY <1>1 DEF CheckCancellation
  <2>4. UNCHANGED <<db, activeExecutions, cancellationRequests, told, serving, faults>>
    BY <1>1 DEF CheckCancellation
  <2>5. QED
    BY <2>1, <2>2, <2>3, <2>4 DEF db, serving
<1>2. ASSUME NEW o \in Outcome, RunnerSettles(r, o)
      PROVE  TypeOK'
  BY <1>2 DEF RunnerSettles, db, serving
<1>3. CASE Sweep(r)
  BY <1>3 DEF Sweep, db, execs, serving
<1>4. QED
  BY <1>1, <1>2, <1>3 DEF RunStep

\* The mutations keep the types; an assistant message is the run's first because a
\* run that is still open has none.
LEMMA TypeCommit == IInv /\ Commit => TypeOK'
<1> SUFFICES ASSUME IInv, Commit
             PROVE  TypeOK'
  OBVIOUS
<1> USE ConstantsAssumption, QueueOps, Tickets DEF IInv, TypeOK, Dequeue
<1>1. ASSUME NEW h \in Requests, Served(h), lastError' \subseteq Agents,
             agentStatus' \in [Agents -> AgentStatus], runStatus' \in [Runs -> RunStatus],
             replies' \in [Runs -> 0..1]
      PROVE  TypeOK'
  BY <1>1 DEF Served, Respond, NoJob, Phase, Job, execs
<1> USE DEF AgentStatus, Live, RunStatus, Active
<1>2. ASSUME NEW h \in Requests, ApplyCreate(h)
      PROVE  TypeOK'
  BY <1>1, <1>2 DEF ApplyCreate
<1>3. ASSUME NEW h \in Requests, RefuseSend(h)
      PROVE  TypeOK'
  BY <1>1, <1>3 DEF RefuseSend, db
<1>4. ASSUME NEW h \in Requests, AcceptSend(h)
      PROVE  TypeOK'
  <2>1. job[h].agent \in Agents /\ job[h].run \in Runs
    BY <1>4 DEF AcceptSend, MintsAreFresh, Sends
  <2>2. queue' \in Seq(Ticket)
    <3>1. queue # << >> /\ queue' = Append(Tail(queue), Execution(job[h].run))
      BY <1>4 DEF AcceptSend
    <3>2. Execution(job[h].run) \in Ticket
      BY <2>1
    <3>3. QED
      BY <3>1, <3>2
  <2>3. /\ agentStatus' \in [Agents -> AgentStatus]
        /\ lastError' \subseteq Agents
        /\ runStatus' \in [Runs -> RunStatus]
        /\ exec' \in [Runs -> ExecPhase]
        /\ activeExecutions' \in [Agents -> Runs \cup {NoRun}]
    BY <1>4, <2>1 DEF AcceptSend, ExecPhase
  <2>4. phase' \in [Requests -> Phase] /\ job' \in [Requests -> Job]
    BY <1>4 DEF AcceptSend, Respond, NoJob, Phase, Job
  <2>5. QED
    BY <1>4, <2>2, <2>3, <2>4 DEF AcceptSend
<1>5. ASSUME NEW h \in Requests, ApplyUpdate(h)
      PROVE  TypeOK'
  BY <1>1, <1>5 DEF ApplyUpdate
<1>6. ASSUME NEW h \in Requests, ApplyStart(h)
      PROVE  TypeOK'
  BY <1>1, <1>6 DEF ApplyStart, ErrorsAfterStart
<1>7. ASSUME NEW h \in Requests, ApplyStop(h)
      PROVE  TypeOK'
  BY <1>1, <1>7 DEF ApplyStop
<1>8. ASSUME NEW h \in Requests, ApplyDelete(h)
      PROVE  TypeOK'
  <2>1. runStatus' \in [Runs -> RunStatus] /\ replies' \in [Runs -> 0..1]
    BY <1>8 DEF ApplyDelete, RemovedWith, RepliesWithout
  <2>2. agentStatus' \in [Agents -> AgentStatus] /\ lastError' \subseteq Agents
    BY <1>8 DEF ApplyDelete, RemovedWith
  <2>3. QED
    BY <1>1, <1>8, <2>1, <2>2 DEF ApplyDelete, RemovedWith
<1>9. ASSUME NEW r \in Runs, ApplyRunning(r)
      PROVE  TypeOK'
  BY <1>9 DEF ApplyRunning, ExecPhase
<1>10. ASSUME NEW r \in Runs, Dequeue(Execution(r)), queue' = Tail(queue), Settles(r, "ended"),
              lastError' \subseteq Agents, agentStatus' \in [Agents -> AgentStatus],
              runStatus' \in [Runs -> RunStatus], replies' \in [Runs -> 0..1]
       PROVE  TypeOK'
  BY <1>10 DEF Settles, ExecPhase, Ended
<1>11. ASSUME NEW r \in Runs, ApplyCompleted(r)
       PROVE  TypeOK'
  <2>1. StillOpen(r) => replies[r] = 0
    BY DEF StillOpen, AnsweredOnce
  <2>2. replies' \in [Runs -> 0..1]
    BY <1>11, <2>1 DEF ApplyCompleted
  <2>3. QED
    BY <1>10, <1>11, <2>2 DEF ApplyCompleted
<1>12. ASSUME NEW r \in Runs, ApplyUnsuccessful(r)
       PROVE  TypeOK'
  BY <1>10, <1>12 DEF ApplyUnsuccessful, AgentAfter, ErrorsAfter
<1>13. ASSUME NEW r \in Runs, ApplyForceTerminate(r)
       PROVE  TypeOK'
  BY <1>13 DEF ApplyForceTerminate, InRunner, RunsOf, execs
<1>14. QED
  BY <1>2, <1>3, <1>4, <1>5, <1>6, <1>7, <1>8, <1>9, <1>11, <1>12, <1>13 DEF Commit

\* Failed writes and restarts keep the types.
LEMMA TypeFaults == IInv /\ (StoreFails \/ Restart) => TypeOK'
<1> SUFFICES ASSUME IInv, StoreFails \/ Restart
             PROVE  TypeOK'
  OBVIOUS
<1> USE ConstantsAssumption, QueueOps, Tickets
    DEF IInv, TypeOK, PersistFails, NoJob, Phase, Job, ExecPhase, Ended, Outcome
<1>1. ASSUME NEW h \in Requests, RequestWriteFails(h)
      PROVE  TypeOK'
  BY <1>1 DEF RequestWriteFails, Respond, db, execs
<1>2. ASSUME NEW r \in Runs, CompletionWriteFails(r)
      PROVE  TypeOK'
  BY <1>2 DEF CompletionWriteFails, db
<1>3. ASSUME NEW r \in Runs, ExecutionWriteFails(r)
      PROVE  TypeOK'
  BY <1>3 DEF ExecutionWriteFails, FailedWrite, db
<1>4. ASSUME NEW r \in Runs, ReapingWriteFails(r)
      PROVE  TypeOK'
  BY <1>4 DEF ReapingWriteFails, db, execs
<1>5. CASE Restart
  <2>1. /\ agentStatus' \in [Agents -> AgentStatus]
        /\ lastError' \subseteq Agents
        /\ runStatus' \in [Runs -> RunStatus]
        /\ replies' \in [Runs -> 0..1]
    BY <1>5 DEF Restart, Boot, AgentStatus, Live, RunStatus
  <2>2. QED
    BY <1>5, <2>1 DEF Restart
<1>6. QED
  BY <1>1, <1>2, <1>3, <1>4, <1>5 DEF StoreFails

\* Every step keeps the types.
LEMMA TypeStep == IInv /\ [Next]_vars => TypeOK'
<1> SUFFICES ASSUME IInv, [Next]_vars
             PROVE  TypeOK'
  OBVIOUS
<1>1. CASE UNCHANGED vars
  BY <1>1 DEF IInv, TypeOK, vars, db, execs, serving
<1>2. QED
  BY <1>1, TypeRequests, TypeRuns, TypeCommit, TypeFaults DEF Next

-----------------------------------------------------------------------------
(***************************************************************************)
(* The invariants of the database.  Only a committed mutation or a boot    *)
(* writes it, so each lemma has a step for those and one for the rest.     *)
(***************************************************************************)

\* The database is what the last applied mutation, or a boot, made it.
LEMMA OnlyCommitsWrite == [Next]_vars => UNCHANGED db \/ Commit \/ Restart
<1> SUFFICES ASSUME [Next]_vars, ~Commit, ~Restart
             PROVE  UNCHANGED db
  OBVIOUS
<1>1. ASSUME NEW h \in Requests, Arrive(h) \/ RequestStep(h)
      PROVE  UNCHANGED db
  BY <1>1 DEF Arrive, CreateAgent, SendMessage, RetryRun, UpdateAgent, StartAgent, StopAgent,
     DeleteAgent, CancelRun, Submit, CancelExecution, Admit, RequestStep, RunnerCancelReturns,
     ExecutionAwaited, ExecutionThrew, Archived, ArchiveFails
<1>2. ASSUME NEW r \in Runs, RunStep(r) \/ Sweep(r)
      PROVE  UNCHANGED db
  BY <1>2 DEF RunStep, CheckCancellation, RunnerSettles, Sweep
<1>3. CASE StoreFails
  BY <1>3 DEF StoreFails, RequestWriteFails, CompletionWriteFails, ExecutionWriteFails,
     ReapingWriteFails, PersistFails
<1>4. QED
  BY <1>1, <1>2, <1>3 DEF Next, vars

\* A message being sent holds a run id of its Agent that the database has not seen.
LEMMA SentRunIsUnused ==
  ASSUME IInv, NEW h \in Requests, job[h].op \in Sends
  PROVE  /\ job[h].run \in Runs
         /\ job[h].agent = AgentOf[job[h].run]
         /\ job[h].agent \in Agents
         /\ runStatus[job[h].run] = "unused"
  BY ConstantsAssumption DEF IInv, MintsAreFresh

\* A closed run's Agent is not busy: the mutation that closes it says so.
LEMMA BusyStep == IInv /\ [Next]_vars => BusyHasActiveRun'
<1> SUFFICES ASSUME IInv, [Next]_vars
             PROVE  BusyHasActiveRun'
  OBVIOUS
<1> USE ConstantsAssumption DEF IInv, TypeOK, BusyHasActiveRun, RunsOf, Active
<1>1. CASE UNCHANGED db
  BY <1>1 DEF db
<1>2. CASE Restart
  BY <1>2 DEF Restart, Boot, Exists, Live
<1>3. ASSUME NEW h \in Requests, ApplyCreate(h)
      PROVE  BusyHasActiveRun'
  BY <1>3 DEF ApplyCreate
<1>4. ASSUME NEW h \in Requests, RefuseSend(h)
      PROVE  BusyHasActiveRun'
  BY <1>1, <1>4 DEF RefuseSend
<1>5. ASSUME NEW h \in Requests, AcceptSend(h)
      PROVE  BusyHasActiveRun'
  <2> DEFINE a == job[h].agent
             r == job[h].run
  <2>1. r \in Runs /\ a = AgentOf[r] /\ a \in Agents /\ runStatus[r] = "unused"
    BY <1>5, SentRunIsUnused DEF AcceptSend, Sends
  <2>2. /\ agentStatus' = [agentStatus EXCEPT ![a] = "busy"]
        /\ runStatus' = [runStatus EXCEPT ![r] = "queued"]
    BY <1>5 DEF AcceptSend
  <2>3. QED
    BY <2>1, <2>2
<1>6. ASSUME NEW h \in Requests, ApplyUpdate(h)
      PROVE  BusyHasActiveRun'
  BY <1>6 DEF ApplyUpdate
<1>7. ASSUME NEW h \in Requests, ApplyStart(h) \/ ApplyStop(h)
      PROVE  BusyHasActiveRun'
  BY <1>7 DEF ApplyStart, ApplyStop
<1>8. ASSUME NEW h \in Requests, ApplyDelete(h)
      PROVE  BusyHasActiveRun'
  <2> SUFFICES ASSUME NEW b \in Agents, agentStatus'[b] = "busy"
               PROVE  \E r \in RunsOf(b) : runStatus'[r] \in Active
    OBVIOUS
  <2>1. agentStatus[b] = "busy" /\ b # job[h].agent
    BY <1>8 DEF ApplyDelete, RemovedWith, Exists, Live
  <2>2. \A r \in RunsOf(b) : runStatus'[r] = runStatus[r]
    BY <1>8, <2>1 DEF ApplyDelete, RemovedWith
  <2>3. QED
    BY <2>1, <2>2
<1>9. ASSUME NEW r \in Runs, ApplyRunning(r)
      PROVE  BusyHasActiveRun'
  BY <1>9 DEF ApplyRunning
<1>10. ASSUME NEW r \in Runs, ApplyCompleted(r)
       PROVE  BusyHasActiveRun'
  BY <1>10 DEF ApplyCompleted
<1>11. ASSUME NEW r \in Runs, ApplyUnsuccessful(r)
       PROVE  BusyHasActiveRun'
  <2>1. runStatus[r] = "running" => agentStatus'[AgentOf[r]] # "busy"
    BY <1>11 DEF ApplyUnsuccessful, AgentAfter, Exists, Live
  <2>2. \A b \in Agents : agentStatus'[b] = "busy" => agentStatus[b] = "busy"
    BY <1>11 DEF ApplyUnsuccessful, AgentAfter
  <2>3. \A s \in Runs : s # r \/ runStatus[r] # "running" => runStatus'[s] = runStatus[s]
    BY <1>11 DEF ApplyUnsuccessful
  <2>4. QED
    BY <2>1, <2>2, <2>3
<1>12. ASSUME NEW r \in Runs, ApplyForceTerminate(r)
       PROVE  BusyHasActiveRun'
  BY <1>12 DEF ApplyForceTerminate, Stale, ReapTouches, Live
<1>13. QED
  BY <1>1, <1>2, <1>3, <1>4, <1>5, <1>6, <1>7, <1>8, <1>9, <1>10, <1>11, <1>12,
     OnlyCommitsWrite DEF Commit

\* An execution appends its assistant message in the mutation that completes
\* its run, and only when the run is not yet completed.
LEMMA AnsweredStep == IInv /\ [Next]_vars => AnsweredOnce'
<1> SUFFICES ASSUME IInv, [Next]_vars
             PROVE  AnsweredOnce'
  OBVIOUS
<1> USE ConstantsAssumption DEF IInv, TypeOK, AnsweredOnce
<1>1. CASE UNCHANGED <<runStatus, replies>>
  BY <1>1
<1>2. CASE Restart
  BY <1>2 DEF Restart, Boot, Active, InDb
<1>3. ASSUME NEW h \in Requests, AcceptSend(h)
      PROVE  AnsweredOnce'
  <2>1. job[h].run \in Runs /\ runStatus[job[h].run] = "unused"
    BY <1>3, SentRunIsUnused DEF AcceptSend, Sends
  <2>2. runStatus' = [runStatus EXCEPT ![job[h].run] = "queued"] /\ replies' = replies
    BY <1>3 DEF AcceptSend
  <2>3. QED
    BY <2>1, <2>2
<1>4. ASSUME NEW h \in Requests, ApplyDelete(h)
      PROVE  AnsweredOnce'
  <2> DEFINE gone == {r \in RunsOf(job[h].agent) : InDb(r)}
  <2>1. /\ runStatus' = [r \in Runs |-> IF r \in gone THEN "removed" ELSE runStatus[r]]
        /\ replies' = [r \in Runs |-> IF r \in gone THEN 0 ELSE replies[r]]
    BY <1>4 DEF ApplyDelete, RemovedWith, RepliesWithout
  <2>2. QED
    BY <2>1
<1>5. ASSUME NEW r \in Runs, ApplyRunning(r)
      PROVE  AnsweredOnce'
  BY <1>5 DEF ApplyRunning, StartingIsNotCompleted
<1>6. ASSUME NEW r \in Runs, ApplyCompleted(r)
      PROVE  AnsweredOnce'
  BY <1>6 DEF ApplyCompleted, StillOpen
<1>7. ASSUME NEW r \in Runs, ApplyUnsuccessful(r)
      PROVE  AnsweredOnce'
  BY <1>7 DEF ApplyUnsuccessful
<1>8. ASSUME NEW r \in Runs, ApplyForceTerminate(r)
      PROVE  AnsweredOnce'
  BY <1>8 DEF ApplyForceTerminate, Stale, Active
<1>9. CASE \E h \in Requests : \/ ApplyCreate(h) \/ RefuseSend(h) \/ ApplyUpdate(h)
                               \/ ApplyStart(h)  \/ ApplyStop(h)
  BY <1>1, <1>9 DEF ApplyCreate, RefuseSend, ApplyUpdate, ApplyStart, ApplyStop, db
<1>10. QED
  BY <1>1, <1>2, <1>3, <1>4, <1>5, <1>6, <1>7, <1>8, <1>9, OnlyCommitsWrite DEF Commit, db

\* A run is stored only for an Agent that exists when it is stored, and goes
\* with the Agent.
LEMMA OrphanStep == IInv /\ [Next]_vars => NoOrphanRuns'
<1> SUFFICES ASSUME IInv, [Next]_vars
             PROVE  NoOrphanRuns'
  OBVIOUS
<1> USE ConstantsAssumption DEF IInv, TypeOK, NoOrphanRuns, InDb, Exists, Live
<1>1. CASE UNCHANGED db
  BY <1>1 DEF db
<1>2. CASE Restart
  BY <1>2 DEF Restart, Boot, Active
<1>3. ASSUME NEW h \in Requests, AcceptSend(h)
      PROVE  NoOrphanRuns'
  <2>1. /\ job[h].run \in Runs /\ job[h].agent = AgentOf[job[h].run] /\ job[h].agent \in Agents
        /\ runStatus[job[h].run] = "unused"
    BY <1>3, SentRunIsUnused DEF AcceptSend, Sends
  <2>2. /\ agentStatus' = [agentStatus EXCEPT ![job[h].agent] = "busy"]
        /\ runStatus' = [runStatus EXCEPT ![job[h].run] = "queued"]
    BY <1>3 DEF AcceptSend
  <2>3. QED
    BY <2>1, <2>2
<1>4. ASSUME NEW h \in Requests, ApplyDelete(h)
      PROVE  NoOrphanRuns'
  BY <1>4 DEF ApplyDelete, RemovedWith, RunsOf
<1>5. ASSUME \A r \in Runs : runStatus'[r] \in {"unused", "removed"}
                               \/ runStatus[r] \notin {"unused", "removed"},
             \A a \in Agents : agentStatus[a] \in Live => agentStatus'[a] \in Live
      PROVE  NoOrphanRuns'
  BY <1>5
<1>6. ASSUME NEW h \in Requests,
             \/ ApplyCreate(h) \/ RefuseSend(h) \/ ApplyUpdate(h) \/ ApplyStart(h) \/ ApplyStop(h)
      PROVE  NoOrphanRuns'
  <2>1. runStatus' = runStatus
    BY <1>6 DEF ApplyCreate, RefuseSend, ApplyUpdate, ApplyStart, ApplyStop, db
  <2>2. \A a \in Agents : agentStatus[a] \in Live => agentStatus'[a] \in Live
    BY <1>6 DEF ApplyCreate, RefuseSend, ApplyUpdate, ApplyStart, ApplyStop, db
  <2>3. QED
    BY <1>5, <2>1, <2>2
<1>7. ASSUME NEW r \in Runs, \/ ApplyRunning(r)      \/ ApplyCompleted(r)
                             \/ ApplyUnsuccessful(r) \/ ApplyForceTerminate(r)
      PROVE  NoOrphanRuns'
  <2>1. \A s \in Runs : runStatus'[s] \in {"unused", "removed"}
                               \/ runStatus[s] \notin {"unused", "removed"}
    BY <1>7 DEF ApplyRunning, ApplyCompleted, StillOpen, ApplyUnsuccessful, ApplyForceTerminate,
       Stale, Active
  <2>2. \A a \in Agents : agentStatus[a] \in Live => agentStatus'[a] \in Live
    BY <1>7 DEF ApplyRunning, ApplyCompleted, ApplyUnsuccessful, AgentAfter, ApplyForceTerminate
  <2>3. QED
    BY <1>5, <2>1, <2>2
<1>8. QED
  BY <1>1, <1>2, <1>3, <1>4, <1>6, <1>7, OnlyCommitsWrite DEF Commit

\* Whatever makes an Agent ready or busy again clears its error.
LEMMA ErrorStep == IInv /\ [Next]_vars => NoStaleError'
<1> SUFFICES ASSUME IInv, [Next]_vars
             PROVE  NoStaleError'
  OBVIOUS
<1> USE ConstantsAssumption DEF IInv, TypeOK, NoStaleError
<1>1. CASE UNCHANGED db
  BY <1>1 DEF db
<1>2. CASE Restart
  BY <1>2 DEF Restart, Boot
<1>3. ASSUME NEW h \in Requests, ApplyCreate(h)
      PROVE  NoStaleError'
  BY <1>3 DEF ApplyCreate, MintsAreFresh
<1>4. ASSUME NEW h \in Requests, AcceptSend(h)
      PROVE  NoStaleError'
  BY <1>4 DEF AcceptSend
<1>5. ASSUME NEW h \in Requests, \/ RefuseSend(h) \/ ApplyUpdate(h) \/ ApplyStart(h)
                                 \/ ApplyStop(h)  \/ ApplyDelete(h)
      PROVE  NoStaleError'
  BY <1>5 DEF RefuseSend, ApplyUpdate, ApplyStart, ErrorsAfterStart, ApplyStop, ApplyDelete,
     RemovedWith, db
<1>6. ASSUME NEW r \in Runs, \/ ApplyRunning(r)      \/ ApplyCompleted(r)
                             \/ ApplyUnsuccessful(r) \/ ApplyForceTerminate(r)
      PROVE  NoStaleError'
  BY <1>6 DEF ApplyRunning, ApplyCompleted, ApplyUnsuccessful, AgentAfter, ErrorsAfter,
     ApplyForceTerminate
<1>7. QED
  BY <1>1, <1>2, <1>3, <1>4, <1>5, <1>6, OnlyCommitsWrite DEF Commit

\* A run is not completed before its execution has recorded its start.
LEMMA StartingStep == IInv /\ [Next]_vars => StartingIsNotCompleted'
<1> SUFFICES ASSUME IInv, [Next]_vars
             PROVE  StartingIsNotCompleted'
  OBVIOUS
<1> USE DEF IInv, TypeOK, StartingIsNotCompleted
<1>1. CASE UNCHANGED <<runStatus, exec>>
  BY <1>1
<1>2. CASE Restart
  BY <1>2 DEF Restart
<1>3. ASSUME NEW h \in Requests, AcceptSend(h)
      PROVE  StartingIsNotCompleted'
  BY <1>3 DEF AcceptSend
<1>4. ASSUME NEW h \in Requests, \/ ApplyCreate(h) \/ RefuseSend(h) \/ ApplyUpdate(h)
                                 \/ ApplyStart(h)  \/ ApplyStop(h)  \/ ApplyDelete(h)
      PROVE  StartingIsNotCompleted'
  BY <1>4 DEF ApplyCreate, RefuseSend, ApplyUpdate, ApplyStart, ApplyStop, ApplyDelete,
     RemovedWith, Served,
     execs, db
<1>5. ASSUME NEW r \in Runs, \/ ApplyRunning(r)      \/ ApplyCompleted(r)
                             \/ ApplyUnsuccessful(r) \/ ApplyForceTerminate(r)
      PROVE  StartingIsNotCompleted'
  BY <1>5 DEF ApplyRunning, ApplyCompleted, ApplyUnsuccessful, ApplyForceTerminate, Settles, execs
<1>6. ASSUME UNCHANGED db, ~Commit
      PROVE  \A r \in Runs : exec'[r] = "starting" => exec[r] = "starting"
  <2>1. ASSUME NEW h \in Requests, Arrive(h) \/ RequestStep(h)
        PROVE  exec' = exec
    BY <2>1 DEF Arrive, CreateAgent, SendMessage, RetryRun, UpdateAgent, StartAgent, StopAgent,
       DeleteAgent, CancelRun, Submit, CancelExecution, Admit, RequestStep, RunnerCancelReturns,
       ExecutionAwaited, ExecutionThrew, Archived, ArchiveFails, execs
  <2>2. ASSUME NEW r \in Runs, RunStep(r) \/ Sweep(r)
        PROVE  \A s \in Runs : exec'[s] = "starting" => exec[s] = "starting"
    BY <2>2 DEF RunStep, CheckCancellation, RunnerSettles, Sweep, execs
  <2>3. CASE StoreFails
    BY <2>3 DEF StoreFails, RequestWriteFails, CompletionWriteFails, ExecutionWriteFails,
       FailedWrite, ReapingWriteFails, execs
  <2>4. CASE Restart
    BY <2>4 DEF Restart
  <2>5. QED
    BY <1>6, <2>1, <2>2, <2>3, <2>4 DEF Next, vars, execs
<1>7. CASE UNCHANGED db /\ ~Commit
  BY <1>6, <1>7 DEF db
<1>8. QED
  BY <1>2, <1>3, <1>4, <1>5, <1>7, OnlyCommitsWrite DEF Commit

-----------------------------------------------------------------------------
(***************************************************************************)
(* What the requests hold.                                                 *)
(***************************************************************************)

\* A step that keeps or ends each request, stores none of the runs they hold
\* and creates none of the Agents they hold, keeps the ids they hold fresh.
LEMMA MintsKept ==
  ASSUME MintsAreFresh,
         \A h \in Requests :
           \/ job'[h] = NoJob /\ phase'[h] = "idle"
           \/ job'[h] = job[h] /\ phase'[h] = phase[h]
           \/ job'[h] = job[h] /\ phase[h] # "idle" /\ job[h].op \notin Sends \cup {"create"},
         \A h \in Requests : job'[h] = job[h] /\ job[h].op \in Sends =>
                               runStatus'[job[h].run] = runStatus[job[h].run],
         \A h \in Requests : job'[h] = job[h] /\ job[h].op = "create" =>
                               agentStatus'[job[h].agent] = agentStatus[job[h].agent]
  PROVE  MintsAreFresh'
  BY DEF MintsAreFresh, Sends, NoJob

\* A request that arrives takes ids that no other holds, and none takes them from it.
LEMMA MintsRequests ==
  ASSUME IInv, NEW h \in Requests, Arrive(h) \/ RequestStep(h)
  PROVE  MintsAreFresh'
<1> USE ConstantsAssumption DEF IInv, TypeOK, Phase
<1>0. UNCHANGED db
  BY DEF Arrive, CreateAgent, SendMessage, RetryRun, UpdateAgent, StartAgent, StopAgent,
     DeleteAgent, CancelRun, Submit, CancelExecution, Admit, RequestStep, RunnerCancelReturns,
     ExecutionAwaited, ExecutionThrew, Archived, ArchiveFails
<1>1. ASSUME NEW o \in Operations, NEW a \in Agents, NEW r \in Runs \cup {NoRun},
             phase[h] = "idle",
             job' = [job EXCEPT ![h] = [op |-> o, agent |-> a, run |-> r]],
             \E p \in Phase : phase' = [phase EXCEPT ![h] = p],
             o \in Sends \cup {"create"} => phase' = [phase EXCEPT ![h] = "storing"],
             o \in Sends => r \in Runs /\ a = AgentOf[r] /\ FreshRun(r),
             o = "create" => r = NoRun /\ agentStatus[a] = "unborn" /\ ~Minting(o, a, r)
      PROVE  MintsAreFresh'
  <2>1. \A g \in Requests \ {h} : job'[g] = job[g] /\ phase'[g] = phase[g]
    BY <1>1
  <2>2. job'[h] = [op |-> o, agent |-> a, run |-> r]
    BY <1>1
  <2>3. ASSUME o \in Sends, NEW g \in Requests \ {h}, job[g].op \in Sends
        PROVE  job[g].run # r
    <3>1. phase[g] = "storing" /\ job[g].agent = AgentOf[job[g].run] /\ job[g] \in Job
      BY <2>3 DEF MintsAreFresh
    <3>2. job[g] = [op |-> job[g].op, agent |-> job[g].agent, run |-> job[g].run]
      BY <3>1 DEF Job
    <3>3. QED
      BY <1>1, <2>3, <3>1, <3>2 DEF FreshRun, Minting, Sends
  <2>4. ASSUME o = "create", NEW g \in Requests \ {h}, job[g].op = "create"
        PROVE  job[g].agent # a
    <3>1. phase[g] = "storing" /\ job[g].run = NoRun /\ job[g] \in Job
      BY <2>4 DEF MintsAreFresh
    <3>2. job[g] = [op |-> job[g].op, agent |-> job[g].agent, run |-> job[g].run]
      BY <3>1 DEF Job
    <3>3. QED
      BY <1>1, <2>4, <3>1, <3>2 DEF Minting
  <2>5. \A g \in Requests : phase'[g] # "idle" => job'[g].agent \in Agents
    BY <2>1, <2>2 DEF MintsAreFresh
  <2>6. \A g \in Requests : job'[g].op \in Sends =>
          /\ phase'[g] = "storing" /\ job'[g].run \in Runs
          /\ job'[g].agent = AgentOf[job'[g].run] /\ runStatus'[job'[g].run] = "unused"
    BY <1>0, <1>1, <2>1, <2>2 DEF MintsAreFresh, FreshRun, db
  <2>7. \A g \in Requests : job'[g].op = "create" =>
          /\ phase'[g] = "storing" /\ job'[g].run = NoRun
          /\ job'[g].agent \in Agents /\ agentStatus'[job'[g].agent] = "unborn"
    BY <1>0, <1>1, <2>1, <2>2 DEF MintsAreFresh, db
  <2>8. \A f, g \in Requests :
          job'[f].op \in Sends /\ job'[g].op \in Sends /\ job'[f].run = job'[g].run => f = g
    BY <2>1, <2>2, <2>3 DEF MintsAreFresh
  <2>9. \A f, g \in Requests :
          job'[f].op = "create" /\ job'[g].op = "create" /\ job'[f].agent = job'[g].agent => f = g
    BY <2>1, <2>2, <2>4 DEF MintsAreFresh
  <2>10. QED
    BY <2>5, <2>6, <2>7, <2>8, <2>9 DEF MintsAreFresh
<1>2. CASE Arrive(h)
  <2>1. PICK o \in Operations, a \in Agents, r \in Runs \cup {NoRun} :
          /\ Submit(h, o, a, r) \/ CancelExecution(h, o, a, r)
          /\ o \in Sends \cup {"create"} => Submit(h, o, a, r)
          /\ o \in Sends => r \in Runs /\ a = AgentOf[r] /\ FreshRun(r)
          /\ o = "create" => r = NoRun /\ agentStatus[a] = "unborn" /\ ~Minting(o, a, r)
    BY <1>2 DEF Arrive, CreateAgent, SendMessage, RetryRun, UpdateAgent, StartAgent, StopAgent,
       DeleteAgent, CancelRun, Operations, Sends
  <2>2. QED
    BY <1>1, <2>1 DEF Submit, CancelExecution, Admit
<1>3. CASE RequestStep(h)
  <2>1. phase[h] \in {"cancelling", "awaiting", "archiving"}
    BY <1>3 DEF RequestStep, RunnerCancelReturns, ExecutionAwaited, ExecutionThrew, Archived,
       ArchiveFails
  <2>2. job[h].op \notin Sends \cup {"create"}
    BY <2>1 DEF MintsAreFresh
  <2>3. \A g \in Requests \ {h} : job'[g] = job[g] /\ phase'[g] = phase[g]
    BY <1>3 DEF RequestStep, RunnerCancelReturns, ExecutionAwaited, ExecutionThrew, Archived,
       ArchiveFails, CancelDone, Respond
  <2>4. \/ job'[h] = job[h]
        \/ job'[h] = NoJob /\ phase'[h] = "idle"
    BY <1>3 DEF RequestStep, RunnerCancelReturns, ExecutionAwaited, ExecutionThrew, Archived,
       ArchiveFails, CancelDone, Respond
  <2>5. QED
    BY <1>0, <2>1, <2>2, <2>3, <2>4, MintsKept DEF db
<1>4. QED
  BY <1>2, <1>3

\* A mutation uses up the ids of its own request and of no other.
LEMMA MintsCommit == IInv /\ Commit => MintsAreFresh'
<1> SUFFICES ASSUME IInv, Commit
             PROVE  MintsAreFresh'
  OBVIOUS
<1> USE ConstantsAssumption DEF IInv, TypeOK, Live, Active, Exists, InDb
<1>1. ASSUME NEW h \in Requests, ApplyCreate(h)
      PROVE  MintsAreFresh'
  <2>1. /\ \A g \in Requests \ {h} : job'[g] = job[g] /\ phase'[g] = phase[g]
        /\ job'[h] = NoJob /\ phase'[h] = "idle"
    BY <1>1 DEF ApplyCreate, Served, Respond
  <2>2. runStatus' = runStatus
    BY <1>1 DEF ApplyCreate
  <2>3. \A g \in Requests \ {h} : job[g].op = "create" =>
          agentStatus'[job[g].agent] = agentStatus[job[g].agent]
    BY <1>1 DEF ApplyCreate, MintsAreFresh
  <2>4. job[h].op = "create"
    BY <1>1 DEF ApplyCreate
  <2>5. job'[h] # job[h]
    BY <2>1, <2>4 DEF NoJob
  <2>6. QED
    BY <2>1, <2>2, <2>3, <2>5, MintsKept
<1>2. ASSUME NEW h \in Requests, AcceptSend(h)
      PROVE  MintsAreFresh'
  <2>1. /\ \A g \in Requests \ {h} : job'[g] = job[g] /\ phase'[g] = phase[g]
        /\ job'[h] = NoJob /\ phase'[h] = "idle"
    BY <1>2 DEF AcceptSend, Respond
  <2>2. job[h].op \in Sends /\ job'[h] # job[h]
    BY <1>2, <2>1 DEF AcceptSend, Sends, NoJob
  <2>3. \A g \in Requests \ {h} : job[g].op \in Sends =>
          runStatus'[job[g].run] = runStatus[job[g].run]
    BY <1>2, <2>2 DEF AcceptSend, MintsAreFresh
  <2>4. \A g \in Requests : job[g].op = "create" =>
          agentStatus'[job[g].agent] = agentStatus[job[g].agent]
    BY <1>2 DEF AcceptSend, Admits, MintsAreFresh
  <2>5. QED
    BY <2>1, <2>2, <2>3, <2>4, MintsKept
<1>3. ASSUME \A r \in Runs : runStatus[r] = "unused" => runStatus'[r] = "unused",
             \A a \in Agents : agentStatus[a] = "unborn" => agentStatus'[a] = "unborn",
             \A h \in Requests : \/ job'[h] = NoJob /\ phase'[h] = "idle"
                                 \/ job'[h] = job[h] /\ phase'[h] = phase[h]
      PROVE  MintsAreFresh'
  BY <1>3, MintsKept DEF MintsAreFresh
<1>4. ASSUME NEW h \in Requests, \/ RefuseSend(h) \/ ApplyUpdate(h) \/ ApplyStart(h)
                                 \/ ApplyStop(h)  \/ ApplyDelete(h)
      PROVE  MintsAreFresh'
  <2>1. \A r \in Runs : runStatus[r] = "unused" => runStatus'[r] = "unused"
    BY <1>4 DEF RefuseSend, ApplyUpdate, ApplyStart, ApplyStop, ApplyDelete, RemovedWith, db
  <2>2. \A a \in Agents : agentStatus[a] = "unborn" => agentStatus'[a] = "unborn"
    BY <1>4 DEF RefuseSend, ApplyUpdate, ApplyStart, ApplyStop, ApplyDelete, RemovedWith, db
  <2>3. \A g \in Requests : \/ job'[g] = NoJob /\ phase'[g] = "idle"
                            \/ job'[g] = job[g] /\ phase'[g] = phase[g]
    BY <1>4 DEF RefuseSend, ApplyUpdate, ApplyStart, ApplyStop, ApplyDelete, RemovedWith, Served,
       Respond
  <2>4. QED
    BY <1>3, <2>1, <2>2, <2>3
<1>5. ASSUME NEW r \in Runs, \/ ApplyRunning(r)      \/ ApplyCompleted(r)
                             \/ ApplyUnsuccessful(r) \/ ApplyForceTerminate(r)
      PROVE  MintsAreFresh'
  <2>1. \A s \in Runs : runStatus[s] = "unused" => runStatus'[s] = "unused"
    BY <1>5 DEF ApplyRunning, ApplyCompleted, StillOpen, ApplyUnsuccessful, ApplyForceTerminate,
       Stale
  <2>2. \A a \in Agents : agentStatus[a] = "unborn" => agentStatus'[a] = "unborn"
    BY <1>5 DEF ApplyRunning, ApplyCompleted, StillOpen, ApplyUnsuccessful, ApplyForceTerminate,
       ReapTouches
  <2>3. phase' = phase /\ job' = job
    BY <1>5 DEF ApplyRunning, ApplyCompleted, ApplyUnsuccessful, ApplyForceTerminate, Settles
  <2>4. QED
    BY <1>3, <2>1, <2>2, <2>3
<1>6. QED
  BY <1>1, <1>2, <1>4, <1>5 DEF Commit

\* Every step keeps the ids that requests hold fresh.
LEMMA MintsStep == IInv /\ [Next]_vars => MintsAreFresh'
<1> SUFFICES ASSUME IInv, [Next]_vars
             PROVE  MintsAreFresh'
  OBVIOUS
<1>1. CASE UNCHANGED <<phase, job, runStatus, agentStatus>>
  BY <1>1 DEF IInv, MintsAreFresh
<1>2. ASSUME NEW r \in Runs, RunStep(r) \/ Sweep(r)
      PROVE  MintsAreFresh'
  BY <1>1, <1>2 DEF RunStep, CheckCancellation, RunnerSettles, Sweep, serving, db
<1>3. CASE StoreFails
  <2>1. UNCHANGED db
    BY <1>3 DEF StoreFails, RequestWriteFails, CompletionWriteFails, ExecutionWriteFails,
       ReapingWriteFails, PersistFails
  <2>2. \A h \in Requests : \/ job'[h] = NoJob /\ phase'[h] = "idle"
                            \/ job'[h] = job[h] /\ phase'[h] = phase[h]
    BY <1>3 DEF StoreFails, RequestWriteFails, Respond, CompletionWriteFails,
       ExecutionWriteFails, ReapingWriteFails, IInv, TypeOK
  <2>3. QED
    BY <2>1, <2>2, MintsKept DEF IInv, db
<1>4. CASE Restart
  <2>1. \A h \in Requests : job'[h] = NoJob /\ phase'[h] = "idle"
    BY <1>4 DEF Restart
  <2>2. QED
    BY <2>1 DEF MintsAreFresh, NoJob, Sends
<1>5. CASE UNCHANGED vars
  BY <1>1, <1>5 DEF vars, serving, db
<1>6. QED
  BY <1>2, <1>3, <1>4, <1>5, MintsRequests, MintsCommit DEF Next

-----------------------------------------------------------------------------
(***************************************************************************)
(* A request is in the store's queue only while it is storing, so serving  *)
(* it never takes a cancellation flag's owner away.                        *)
(***************************************************************************)

\* Enqueueing the mutation of an execution or of the watchdog.
LEMMA QueuedAppend ==
  ASSUME NEW q \in Seq(Ticket), NEW p \in [Requests -> Phase], QueuedIn(q, p),
         NEW t \in Ticket, \A h \in Requests : t # Request(h)
  PROVE  QueuedIn(Append(q, t), p)
  BY DEF QueuedIn

\* Enqueueing the mutation of a request that was not yet storing.
LEMMA QueuedEnqueue ==
  ASSUME NEW q \in Seq(Ticket), NEW p \in [Requests -> Phase], QueuedIn(q, p),
         NEW h \in Requests, p[h] # "storing"
  PROVE  QueuedIn(Append(q, Request(h)), [p EXCEPT ![h] = "storing"])
<1> DEFINE z == Append(q, Request(h))
           o == [p EXCEPT ![h] = "storing"]
<1>1. \A g \in Requests : Request(g) = Request(h) => g = h
  BY DEF Request
<1>2. Request(h) \in Ticket
  BY Tickets
<1>3. /\ Len(z) = Len(q) + 1 /\ z[Len(q) + 1] = Request(h)
      /\ \A i \in 1..Len(q) : z[i] = q[i]
  BY <1>2
<1>4. \A i \in 1..Len(q) : q[i] # Request(h)
  BY DEF QueuedIn
<1>5. QED
  BY <1>1, <1>3, <1>4 DEF QueuedIn

\* The request at the head of the queue is storing, and is in the rest no more.
LEMMA QueuedDequeue ==
  ASSUME NEW q \in Seq(Ticket), NEW p \in [Requests -> Phase], QueuedIn(q, p), q # << >>
  PROVE  /\ QueuedIn(Tail(q), p)
         /\ \A h \in Requests : Head(q) = Request(h) =>
              /\ p[h] = "storing"
              /\ QueuedIn(Tail(q), [p EXCEPT ![h] = "idle"])
<1>1. /\ Len(q) >= 1 /\ Head(q) = q[1] /\ Len(Tail(q)) = Len(q) - 1
      /\ \A i \in 1..Len(Tail(q)) : Tail(q)[i] = q[i + 1] /\ i + 1 \in 1..Len(q)
  OBVIOUS
<1>2. QueuedIn(Tail(q), p)
  BY <1>1 DEF QueuedIn
<1>3. ASSUME NEW h \in Requests, Head(q) = Request(h)
      PROVE  p[h] = "storing" /\ QueuedIn(Tail(q), [p EXCEPT ![h] = "idle"])
  <2>1. q[1] = Request(h) /\ 1 \in 1..Len(q)
    BY <1>1, <1>3
  <2>2. p[h] = "storing"
    BY <2>1 DEF QueuedIn
  <2>3. \A i \in 1..Len(Tail(q)) : Tail(q)[i] # Request(h)
    BY <1>1, <2>1 DEF QueuedIn
  <2>4. QED
    BY <1>2, <2>2, <2>3 DEF QueuedIn
<1>4. QED
  BY <1>2, <1>3

\* A request that is not storing may move on: it is not in the queue.
LEMMA QueuedMove ==
  ASSUME NEW q \in Seq(Ticket), NEW p \in [Requests -> Phase], QueuedIn(q, p),
         NEW h \in Requests, p[h] # "storing", NEW x
  PROVE  QueuedIn(q, [p EXCEPT ![h] = x])
  BY DEF QueuedIn

\* Every step keeps each request in the queue at most once, while it is storing.
LEMMA QueuedStep == IInv /\ [Next]_vars => QueuedOnce'
<1> SUFFICES ASSUME IInv, [Next]_vars
             PROVE  QueuedOnce'
  OBVIOUS
<1>0. \A h \in Requests, r \in Runs : Execution(r) # Request(h) /\ Reaping(r) # Request(h)
  BY DEF Execution, Reaping, Request
<1> USE <1>0, Tickets DEF IInv, TypeOK, QueuedOnce
<1>1. CASE UNCHANGED <<queue, phase>>
  BY <1>1
<1>2. ASSUME NEW h \in Requests, phase[h] # "storing",
             phase' = [phase EXCEPT ![h] = "storing"], queue' = Append(queue, Request(h))
      PROVE  QueuedOnce'
  BY <1>2, QueuedEnqueue
<1>3. ASSUME NEW h \in Requests, phase[h] # "storing", NEW x,
             phase' = [phase EXCEPT ![h] = x], queue' = queue
      PROVE  QueuedOnce'
  BY <1>3, QueuedMove
<1>4. ASSUME NEW h \in Requests, Arrive(h) \/ RequestStep(h)
      PROVE  QueuedOnce'
  <2>1. phase[h] # "storing"
    BY <1>4 DEF Arrive, CreateAgent, SendMessage, RetryRun, UpdateAgent, StartAgent, StopAgent,
       DeleteAgent, CancelRun, Submit, CancelExecution, Admit, RequestStep, RunnerCancelReturns,
       ExecutionAwaited, ExecutionThrew, Archived, ArchiveFails
  <2>2. \/ phase' = [phase EXCEPT ![h] = "storing"] /\ queue' = Append(queue, Request(h))
        \/ queue' = queue /\ \E x \in Phase : phase' = [phase EXCEPT ![h] = x]
    BY <1>4 DEF Arrive, CreateAgent, SendMessage, RetryRun, UpdateAgent, StartAgent, StopAgent,
       DeleteAgent, CancelRun, Submit, CancelExecution, Admit, RequestStep, RunnerCancelReturns,
       ExecutionAwaited, ExecutionThrew, Archived, ArchiveFails, CancelDone, Respond, Phase
  <2>3. QED
    BY <1>2, <1>3, <2>1, <2>2
<1>5. ASSUME NEW r \in Runs, RunStep(r) \/ Sweep(r)
      PROVE  QueuedOnce'
  <2>1. phase' = phase
    BY <1>5 DEF RunStep, CheckCancellation, RunnerSettles, Sweep, serving
  <2>2. \/ queue' = queue \/ queue' = Append(queue, Execution(r))
        \/ queue' = Append(queue, Reaping(r))
    BY <1>5 DEF RunStep, CheckCancellation, RunnerSettles, Sweep
  <2>3. QueuedIn(Append(queue, Execution(r)), phase) /\ QueuedIn(Append(queue, Reaping(r)), phase)
    BY QueuedAppend
  <2>4. QED
    BY <2>1, <2>2, <2>3
<1>6. ASSUME queue # << >>, queue' = Tail(queue), phase' = phase
      PROVE  QueuedOnce'
  BY <1>6, QueuedDequeue
<1>7. ASSUME NEW h \in Requests, queue # << >>, Head(queue) = Request(h),
             queue' = Tail(queue), phase' = [phase EXCEPT ![h] = "idle"]
      PROVE  QueuedOnce'
  BY <1>7, QueuedDequeue
<1>8. ASSUME NEW h \in Requests, AcceptSend(h)
      PROVE  QueuedOnce'
  <2> DEFINE r == job[h].run
             z == [phase EXCEPT ![h] = "idle"]
  <2>1. r \in Runs
    BY <1>8, SentRunIsUnused DEF AcceptSend, Sends
  <2>2. /\ queue # << >> /\ Head(queue) = Request(h)
        /\ queue' = Append(Tail(queue), Execution(r)) /\ phase' = z
    BY <1>8 DEF AcceptSend, Dequeue, Respond
  <2>3. Tail(queue) \in Seq(Ticket) /\ QueuedIn(Tail(queue), z)
    BY <2>2, QueuedDequeue, QueueOps
  <2>4. z \in [Requests -> Phase]
    BY DEF Phase
  <2>5. ASSUME NEW q \in Seq(Ticket), QueuedIn(q, z)
        PROVE  QueuedIn(Append(q, Execution(r)), z)
    <3>1. Execution(r) \in Ticket /\ \A g \in Requests : Execution(r) # Request(g)
      BY <2>1
    <3> HIDE DEF z, r
    <3>2. QED
      BY <2>4, <2>5, <3>1, QueuedAppend
  <2>6. QED
    BY <2>2, <2>3, <2>5
<1>9. ASSUME NEW h \in Requests, \/ ApplyCreate(h) \/ RefuseSend(h) \/ ApplyUpdate(h)
                                 \/ ApplyStart(h)  \/ ApplyStop(h)  \/ ApplyDelete(h)
      PROVE  QueuedOnce'
  BY <1>7, <1>9 DEF ApplyCreate, RefuseSend, ApplyUpdate, ApplyStart, ApplyStop, ApplyDelete,
     RemovedWith,
     Served, Dequeue, Respond
<1>10. ASSUME NEW r \in Runs, \/ ApplyRunning(r)      \/ ApplyCompleted(r)
                              \/ ApplyUnsuccessful(r) \/ ApplyForceTerminate(r)
       PROVE  QueuedOnce'
  BY <1>6, <1>10 DEF ApplyRunning, ApplyCompleted, ApplyUnsuccessful, ApplyForceTerminate,
     Settles, Dequeue
<1>11. ASSUME NEW h \in Requests, RequestWriteFails(h)
       PROVE  QueuedOnce'
  BY <1>7, <1>11 DEF RequestWriteFails, PersistFails, Respond
<1>12. ASSUME NEW r \in Runs, CompletionWriteFails(r)
       PROVE  QueuedOnce'
  <2>1. queue # << >> /\ queue' = Append(Tail(queue), Execution(r)) /\ phase' = phase
    BY <1>12 DEF CompletionWriteFails, PersistFails
  <2>2. Tail(queue) \in Seq(Ticket) /\ QueuedIn(Tail(queue), phase)
    BY <2>1, QueuedDequeue, QueueOps
  <2>3. QED
    BY <2>1, <2>2, QueuedAppend
<1>13. ASSUME NEW r \in Runs, ExecutionWriteFails(r) \/ ReapingWriteFails(r)
       PROVE  QueuedOnce'
  BY <1>6, <1>13 DEF ExecutionWriteFails, ReapingWriteFails, PersistFails
<1>14. CASE Restart
  BY <1>14 DEF Restart, QueuedIn
<1>15. QED
  BY <1>1, <1>4, <1>5, <1>8, <1>9, <1>10, <1>11, <1>12, <1>13, <1>14
  DEF Next, Commit, StoreFails, vars, serving

\* Every step leaves each cancellation flag with a request that will clear it.
LEMMA FlagsStep == IInv /\ [Next]_vars => FlagsHaveOwners'
<1> SUFFICES ASSUME IInv, [Next]_vars
             PROVE  FlagsHaveOwners'
  OBVIOUS
<1> USE DEF IInv, TypeOK, FlagsHaveOwners
<1>1. ASSUME cancellationRequests' \subseteq cancellationRequests,
             \A h \in Requests : phase[h] \in {"cancelling", "awaiting"} =>
                                   phase'[h] = phase[h] /\ job'[h] = job[h]
      PROVE  FlagsHaveOwners'
  BY <1>1
<1>2. ASSUME NEW h \in Requests, NEW o, NEW a, NEW r, Submit(h, o, a, r)
      PROVE  FlagsHaveOwners'
  BY <1>1, <1>2 DEF Submit, Admit
<1>3. ASSUME NEW h \in Requests, NEW o, NEW a, NEW r, CancelExecution(h, o, a, r)
      PROVE  FlagsHaveOwners'
  BY <1>3 DEF CancelExecution, Admit
<1>4. ASSUME NEW h \in Requests, Arrive(h)
      PROVE  FlagsHaveOwners'
  BY <1>2, <1>3, <1>4 DEF Arrive, CreateAgent, SendMessage, RetryRun, UpdateAgent, StartAgent,
     StopAgent, DeleteAgent, CancelRun
<1>5. ASSUME NEW h \in Requests, cancellationRequests' = Unflag(job[h].agent),
             \A g \in Requests \ {h} : phase'[g] = phase[g] /\ job'[g] = job[g]
      PROVE  FlagsHaveOwners'
  BY <1>5 DEF Unflag
<1>6. ASSUME NEW h \in Requests, RunnerCancelReturns(h)
      PROVE  FlagsHaveOwners'
  <2>1. CASE Awaited(job[h].agent) = NoRun
    BY <1>5, <1>6, <2>1 DEF RunnerCancelReturns, CancelDone, Respond
  <2>2. CASE Awaited(job[h].agent) # NoRun
    BY <1>6, <2>2 DEF RunnerCancelReturns
  <2>3. QED
    BY <2>1, <2>2
<1>7. ASSUME NEW h \in Requests, ExecutionAwaited(h) \/ ExecutionThrew(h)
      PROVE  FlagsHaveOwners'
  BY <1>5, <1>7 DEF ExecutionAwaited, ExecutionThrew, CancelDone, Respond
<1>8. ASSUME NEW h \in Requests, Archived(h) \/ ArchiveFails(h)
      PROVE  FlagsHaveOwners'
  BY <1>1, <1>8 DEF Archived, ArchiveFails, Respond
<1>9. ASSUME NEW r \in Runs, RunStep(r) \/ Sweep(r)
      PROVE  FlagsHaveOwners'
  BY <1>1, <1>9 DEF RunStep, CheckCancellation, RunnerSettles, Sweep, serving
<1>10. ASSUME NEW h \in Requests, queue # << >>, Head(queue) = Request(h), Respond(h),
              cancellationRequests' = cancellationRequests
       PROVE  FlagsHaveOwners'
  <2>1. phase[h] = "storing"
    BY <1>10, QueuedDequeue DEF QueuedOnce
  <2>2. QED
    BY <1>1, <1>10, <2>1 DEF Respond
<1>11. CASE Commit
  <2>1. ASSUME NEW h \in Requests,
               \/ ApplyCreate(h) \/ RefuseSend(h) \/ AcceptSend(h) \/ ApplyUpdate(h)
               \/ ApplyStart(h)  \/ ApplyStop(h)  \/ ApplyDelete(h)
        PROVE  FlagsHaveOwners'
    BY <1>10, <2>1 DEF ApplyCreate, RefuseSend, AcceptSend, ApplyUpdate, ApplyStart, ApplyStop,
       ApplyDelete, Served, Dequeue
  <2>2. ASSUME NEW r \in Runs, \/ ApplyRunning(r)      \/ ApplyCompleted(r)
                               \/ ApplyUnsuccessful(r) \/ ApplyForceTerminate(r)
        PROVE  FlagsHaveOwners'
    BY <1>1, <2>2 DEF ApplyRunning, ApplyCompleted, ApplyUnsuccessful, ApplyForceTerminate,
       Settles, Dequeue
  <2>3. QED
    BY <1>11, <2>1, <2>2 DEF Commit
<1>12. ASSUME NEW h \in Requests, RequestWriteFails(h)
       PROVE  FlagsHaveOwners'
  BY <1>10, <1>12 DEF RequestWriteFails, PersistFails
<1>13. ASSUME NEW r \in Runs,
              CompletionWriteFails(r) \/ ExecutionWriteFails(r) \/ ReapingWriteFails(r)
       PROVE  FlagsHaveOwners'
  BY <1>1, <1>13 DEF CompletionWriteFails, ExecutionWriteFails, ReapingWriteFails, PersistFails
<1>14. CASE Restart
  BY <1>14 DEF Restart
<1>15. CASE UNCHANGED vars
  BY <1>1, <1>15 DEF vars, serving
<1>16. QED
  BY <1>4, <1>6, <1>7, <1>8, <1>9, <1>11, <1>12, <1>13, <1>14, <1>15
  DEF Next, RequestStep, StoreFails

-----------------------------------------------------------------------------
(***************************************************************************)
(* The theorems.                                                           *)
(***************************************************************************)

\* A server that has just started satisfies the invariant.
LEMMA InvInit == Init => IInv
<1> SUFFICES ASSUME Init
             PROVE  IInv
  OBVIOUS
<1>1. TypeOK
  BY TypeInit
<1>2. MintsAreFresh /\ StartingIsNotCompleted /\ FlagsHaveOwners
  BY DEF Init, MintsAreFresh, StartingIsNotCompleted, FlagsHaveOwners, NoJob, Sends
<1>3. AnsweredOnce /\ BusyHasActiveRun /\ NoOrphanRuns /\ NoStaleError
  BY DEF Init, AnsweredOnce, BusyHasActiveRun, NoOrphanRuns, NoStaleError, InDb
<1>4. QueuedOnce
  BY DEF Init, QueuedOnce, QueuedIn
<1>5. QED
  BY <1>1, <1>2, <1>3, <1>4 DEF IInv

\* IInv is inductive, so it holds of every behaviour.
THEOREM Invariance == Spec => []IInv
<1>1. IInv /\ [Next]_vars => IInv'
  BY TypeStep, MintsStep, StartingStep, AnsweredStep, BusyStep, OrphanStep, ErrorStep,
     FlagsStep, QueuedStep DEF IInv
<1>2. QED
  BY <1>1, InvInit, PTL DEF Spec

\* Every variable keeps its type, so a run never has two assistant messages.
THEOREM TypeCorrect == Spec => []TypeOK
<1>1. IInv => TypeOK
  BY DEF IInv
<1>2. QED
  BY <1>1, Invariance, PTL

\* No Agent is left busy without a queued or running run: kills by the
\* watchdog, late completions, failed writes, deletes and boots included.
THEOREM NoAgentIsWedged == Spec => []BusyHasActiveRun
<1>1. IInv => BusyHasActiveRun
  BY DEF IInv
<1>2. QED
  BY <1>1, Invariance, PTL

\* A run has its one assistant message exactly when it is completed.
THEOREM MessagesAgreeWithRuns == Spec => []AnsweredOnce
<1>1. IInv => AnsweredOnce
  BY DEF IInv
<1>2. QED
  BY <1>1, Invariance, PTL

\* No stored run belongs to a deleted Agent, whatever raced deleteAgent.
THEOREM DeletedAgentsLeaveNoRuns == Spec => []NoOrphanRuns
<1>1. IInv => NoOrphanRuns
  BY DEF IInv
<1>2. QED
  BY <1>1, Invariance, PTL

\* An Agent that is ready or busy shows no error of an earlier run.
THEOREM ErrorsAreCurrent == Spec => []NoStaleError
<1>1. IInv => NoStaleError
  BY DEF IInv
<1>2. QED
  BY <1>1, Invariance, PTL

\* A cancellation flag is owned by a request that will clear it.
THEOREM FlagsAreOwned == Spec => []FlagsHaveOwners
<1>1. IInv => FlagsHaveOwners
  BY DEF IInv
<1>2. QED
  BY <1>1, Invariance, PTL

\* A closed run whose start is recorded is not reopened and does not change
\* its verdict: a completion that arrives late is ignored.
THEOREM ClosedForGood == Spec => ClosedRunStaysClosed
<1>1. ASSUME IInv, [Next]_vars, NEW r \in Runs, exec[r] # "starting",
             runStatus[r] \in {"completed", "failed", "cancelled"}
      PROVE  runStatus'[r] \in {runStatus[r], "removed"}
  <2> USE ConstantsAssumption, <1>1 DEF IInv, TypeOK, Active
  <2>1. CASE UNCHANGED db
    BY <2>1 DEF db
  <2>2. CASE Restart
    BY <2>2 DEF Restart, Boot
  <2>3. ASSUME NEW h \in Requests, AcceptSend(h)
        PROVE  runStatus'[r] = runStatus[r]
    <3>1. job[h].run \in Runs /\ runStatus[job[h].run] = "unused"
      BY <2>3, SentRunIsUnused DEF AcceptSend, Sends
    <3>2. runStatus' = [runStatus EXCEPT ![job[h].run] = "queued"]
      BY <2>3 DEF AcceptSend
    <3>3. QED
      BY <3>1, <3>2
  <2>4. ASSUME NEW h \in Requests, \/ ApplyCreate(h) \/ RefuseSend(h) \/ ApplyUpdate(h)
                                   \/ ApplyStart(h)  \/ ApplyStop(h)  \/ ApplyDelete(h)
        PROVE  runStatus'[r] \in {runStatus[r], "removed"}
    BY <2>4 DEF ApplyCreate, RefuseSend, ApplyUpdate, ApplyStart, ApplyStop, ApplyDelete,
       RemovedWith, db
  <2>5. ASSUME NEW s \in Runs, ApplyRunning(s) \/ ApplyCompleted(s)
        PROVE  runStatus'[r] = runStatus[r]
    BY <2>5 DEF ApplyRunning, ApplyCompleted, StillOpen
  <2>6. ASSUME NEW s \in Runs, ApplyUnsuccessful(s) \/ ApplyForceTerminate(s)
        PROVE  runStatus'[r] = runStatus[r]
    BY <2>6 DEF ApplyUnsuccessful, ApplyForceTerminate, Stale
  <2>7. QED
    BY <2>1, <2>2, <2>3, <2>4, <2>5, <2>6, OnlyCommitsWrite DEF Commit
<1>2. IInv /\ [Next]_vars =>
        [\A r \in Runs :
           /\ runStatus[r] \in {"completed", "failed", "cancelled"}
           /\ exec[r] # "starting"
           => runStatus'[r] \in {runStatus[r], "removed"}]_vars
  BY <1>1
<1>3. QED
  BY <1>2, Invariance, PTL DEF Spec, ClosedRunStaysClosed
-----------------------------------------------------------------------------
(***************************************************************************)
(* One active run.  A watchdog kill breaks it, and so does a stop that a   *)
(* start undoes (README, findings); without them it holds.                 *)
(***************************************************************************)

\* No watchdog kill, and no stop that a start could undo.
Calm == ~ Watchdog /\ ~ ({"start", "stop"} \subseteq Offered)

\* Requests are among those offered, and the watchdog has queued nothing.
Unreaped(q) == \A i \in 1..Len(q), r \in Runs : q[i] # Reaping(r)
OnlyOffered ==
  /\ \A h \in Requests : job[h].op # "none" => job[h].op \in Offered
  /\ Unreaped(queue)

\* The Agent of an active run admits no other.
ActiveIsHeld ==
  /\ \A r \in Runs : runStatus[r] \in Active => agentStatus[AgentOf[r]] \in {"busy", "stopped"}
  /\ "start" \in Offered => \A a \in Agents : agentStatus[a] # "stopped"

\* An execution under way has its run open, unless the run was deleted.
UnderWay == {"starting", "checking", "running", "closing"}
ExecutionsAreOpen ==
  \A r \in Runs :
    /\ exec[r] = "starting" => runStatus[r] \in {"queued", "removed"}
    /\ exec[r] \in UnderWay \ {"starting"} => runStatus[r] \in {"running", "removed"}

\* An active run is what its Agent executes, unless its execution was rejected.
ActiveIsExecuting ==
  \A r \in Runs :
    runStatus[r] \in Active =>
      \/ exec[r] = "rejected"
      \/ exec[r] \in UnderWay /\ activeExecutions[AgentOf[r]] = r

\* A run is removed only with its Agent.
RemovedWithItsAgent ==
  \A r \in Runs : runStatus[r] = "removed" => agentStatus[AgentOf[r]] = "deleted"

RunsInOrder ==
  ActiveIsHeld /\ ExecutionsAreOpen /\ ActiveIsExecuting /\ RemovedWithItsAgent /\ OneActiveRun

\* A cancel waits for the execution of its run, as long as the run is open.
Closed(r) == runStatus[r] \notin Active \/ exec[r] = "rejected"
CancelsAwaitTheirRun ==
  \A h \in Requests :
    job[h].op = "cancel" =>
      /\ job[h].run \in Runs /\ job[h].agent = AgentOf[job[h].run]
      /\ runStatus[job[h].run] # "unused"
      /\ phase[h] = "awaiting" => waits[h] = job[h].run \/ Closed(job[h].run)

\* The inductive invariant of a calm server, beside IInv.
CalmInv == OnlyOffered /\ RunsInOrder /\ CancelsAwaitTheirRun

\* What the store does to its queue adds no watchdog's mutation.
LEMMA UnreapedOps ==
  ASSUME NEW q \in Seq(Ticket), Unreaped(q), NEW t \in Ticket, \A r \in Runs : t # Reaping(r)
  PROVE  /\ Unreaped(Append(q, t))
         /\ q # << >> => Unreaped(Tail(q)) /\ Unreaped(Append(Tail(q), t))
<1>1. ASSUME NEW z \in Seq(Ticket), Unreaped(z)
      PROVE  Unreaped(Append(z, t))
  BY <1>1 DEF Unreaped
<1>2. ASSUME q # << >>
      PROVE  Unreaped(Tail(q)) /\ Tail(q) \in Seq(Ticket)
  BY <1>2 DEF Unreaped
<1>3. QED
  BY <1>1, <1>2

\* Without the watchdog no reaping is ever queued.
LEMMA UnreapedStep ==
  ASSUME Calm, IInv, OnlyOffered, [Next]_vars
  PROVE  Unreaped(queue')
<1>1. /\ \A h \in Requests, r \in Runs : Request(h) # Reaping(r)
      /\ \A s, r \in Runs : Execution(s) # Reaping(r)
  BY DEF Request, Execution, Reaping
<1>2. queue \in Seq(Ticket) /\ Unreaped(queue)
  BY DEF IInv, TypeOK, OnlyOffered
<1>3. \/ queue' \in {queue, << >>}
      \/ \E t \in {Request(h) : h \in Requests} \cup {Execution(r) : r \in Runs} :
            \/ queue' = Append(queue, t)
            \/ queue # << >> /\ queue' = Append(Tail(queue), t)
      \/ queue # << >> /\ queue' = Tail(queue)
  <2>1. ASSUME NEW h \in Requests, Arrive(h) \/ RequestStep(h)
        PROVE  queue' \in {queue, Append(queue, Request(h))}
    BY <2>1 DEF Arrive, CreateAgent, SendMessage, RetryRun, UpdateAgent, StartAgent, StopAgent,
       DeleteAgent, CancelRun, Submit, CancelExecution, Admit, RequestStep, RunnerCancelReturns,
       ExecutionAwaited, ExecutionThrew, Archived, ArchiveFails, CancelDone
  <2>2. ASSUME NEW r \in Runs, RunStep(r) \/ Sweep(r)
        PROVE  queue' \in {queue, Append(queue, Execution(r))}
    BY <2>2 DEF RunStep, CheckCancellation, RunnerSettles, Sweep, Calm
  <2>3. CASE Commit
    <3>1. ASSUME NEW h \in Requests, AcceptSend(h)
          PROVE  /\ job[h].run \in Runs /\ queue # << >>
                 /\ queue' = Append(Tail(queue), Execution(job[h].run))
      BY <3>1, SentRunIsUnused DEF AcceptSend, Dequeue, Sends
    <3>2. ASSUME NEW h \in Requests,
                 \/ ApplyCreate(h) \/ RefuseSend(h) \/ ApplyUpdate(h)
                 \/ ApplyStart(h)  \/ ApplyStop(h)  \/ ApplyDelete(h)
          PROVE  queue # << >> /\ queue' = Tail(queue)
      BY <3>2 DEF ApplyCreate, RefuseSend, ApplyUpdate, ApplyStart, ApplyStop, ApplyDelete, Served,
         Dequeue
    <3>3. ASSUME NEW r \in Runs, \/ ApplyRunning(r)      \/ ApplyCompleted(r)
                                 \/ ApplyUnsuccessful(r) \/ ApplyForceTerminate(r)
          PROVE  queue # << >> /\ queue' = Tail(queue)
      BY <3>3 DEF ApplyRunning, ApplyCompleted, ApplyUnsuccessful, ApplyForceTerminate, Dequeue
    <3>4. QED
      BY <2>3, <3>1, <3>2, <3>3 DEF Commit
  <2>4. CASE StoreFails
    BY <2>4 DEF StoreFails, RequestWriteFails, CompletionWriteFails, ExecutionWriteFails,
       ReapingWriteFails, PersistFails
  <2>5. CASE Restart
    BY <2>5 DEF Restart
  <2>6. CASE UNCHANGED vars
    BY <2>6 DEF vars
  <2>7. QED
    BY <2>1, <2>2, <2>3, <2>4, <2>5, <2>6 DEF Next
<1>4. \A t \in {Request(h) : h \in Requests} \cup {Execution(r) : r \in Runs} :
         t \in Ticket /\ \A r \in Runs : t # Reaping(r)
  BY <1>1, Tickets
<1>5. Unreaped(<< >>)
  BY DEF Unreaped
<1>6. queue # << >> => Unreaped(Tail(queue))
  <2>1. ASSUME queue # << >>
        PROVE  Head(queue) \in Ticket /\ \A r \in Runs : Head(queue) # Reaping(r)
    BY <1>2, <2>1 DEF Unreaped
  <2>2. QED
    BY <1>2, <2>1, UnreapedOps
<1>7. QED
  BY <1>2, <1>3, <1>4, <1>5, <1>6, UnreapedOps

\* What a step does to a request: a new one is offered, a cancel is for an
\* active run, and one that begins to wait does so for what its Agent executes.
Begun(h) ==
  /\ job'[h].op \in Offered /\ phase'[h] # "awaiting"
  /\ job'[h].op = "cancel" => /\ job'[h].run \in Runs
                              /\ job'[h].agent = AgentOf[job'[h].run]
                              /\ runStatus[job'[h].run] \in Active

BeganToWait(h) ==
  /\ waits'[h] = activeExecutions[job[h].agent] /\ waits'[h] # NoRun
  /\ UNCHANGED <<db, execs>>

Moved(h) ==
  /\ job'[h] = job[h] \/ job'[h] = NoJob \/ Begun(h)
  /\ phase'[h] = "awaiting" => \/ phase[h] = "awaiting" /\ waits'[h] = waits[h]
                               \/ BeganToWait(h)

\* Every step moves a request in one of these ways.
LEMMA RequestMoves ==
  ASSUME IInv, [Next]_vars, NEW h \in Requests
  PROVE  Moved(h)
<1> USE DEF IInv, TypeOK, Moved
<1>1. ASSUME NEW g \in Requests, NEW o, NEW a, NEW r, Submit(g, o, a, r), o # "cancel"
      PROVE  Moved(h)
  BY <1>1 DEF Submit, Admit, Begun
<1>2. ASSUME NEW g \in Requests, NEW o, NEW a, NEW r, CancelExecution(g, o, a, r),
             o = "cancel" => r \in Runs /\ a = AgentOf[r] /\ runStatus[r] \in Active
      PROVE  Moved(h)
  BY <1>2 DEF CancelExecution, Admit, Begun
<1>3. ASSUME NEW g \in Requests, Arrive(g)
      PROVE  Moved(h)
  BY <1>1, <1>2, <1>3 DEF Arrive, CreateAgent, SendMessage, RetryRun, UpdateAgent, StartAgent,
     StopAgent, DeleteAgent, CancelRun
<1>4. ASSUME NEW g \in Requests, CancelDone(g)
      PROVE  Moved(h)
  BY <1>4 DEF CancelDone, Respond
<1>5. ASSUME NEW g \in Requests, RunnerCancelReturns(g)
      PROVE  Moved(h)
  <2>1. CASE Awaited(job[g].agent) = NoRun
    BY <1>4, <1>5, <2>1 DEF RunnerCancelReturns
  <2>2. CASE Awaited(job[g].agent) # NoRun
    BY <1>5, <2>2 DEF RunnerCancelReturns, Awaited, BeganToWait
  <2>3. QED
    BY <2>1, <2>2
<1>6. ASSUME NEW g \in Requests,
             ExecutionAwaited(g) \/ ExecutionThrew(g) \/ Archived(g) \/ ArchiveFails(g)
      PROVE  Moved(h)
  BY <1>4, <1>6 DEF ExecutionAwaited, ExecutionThrew, Archived, ArchiveFails, Respond
<1>7. ASSUME NEW g \in Requests, Respond(g), waits' = waits
      PROVE  Moved(h)
  BY <1>7 DEF Respond
<1>8. CASE UNCHANGED serving
  BY <1>8 DEF serving
<1>9. CASE Commit \/ StoreFails
  <2>1. ASSUME NEW g \in Requests,
               \/ ApplyCreate(g) \/ RefuseSend(g) \/ AcceptSend(g) \/ ApplyUpdate(g)
               \/ ApplyStart(g)  \/ ApplyStop(g)  \/ ApplyDelete(g) \/ RequestWriteFails(g)
        PROVE  Moved(h)
    BY <1>7, <2>1 DEF ApplyCreate, RefuseSend, AcceptSend, ApplyUpdate, ApplyStart, ApplyStop,
       ApplyDelete, RequestWriteFails, PersistFails, Served, Dequeue
  <2>2. ASSUME NEW r \in Runs,
               \/ ApplyRunning(r) \/ ApplyCompleted(r) \/ ApplyUnsuccessful(r)
               \/ ApplyForceTerminate(r) \/ CompletionWriteFails(r)
               \/ ExecutionWriteFails(r) \/ ReapingWriteFails(r)
        PROVE  Moved(h)
    BY <1>8, <2>2 DEF ApplyRunning, ApplyCompleted, ApplyUnsuccessful, ApplyForceTerminate,
       Settles, Dequeue, CompletionWriteFails, ExecutionWriteFails, ReapingWriteFails,
       PersistFails, serving
  <2>3. QED
    BY <1>9, <2>1, <2>2 DEF Commit, StoreFails
<1>10. CASE Restart
  BY <1>10 DEF Restart
<1>11. ASSUME NEW r \in Runs, RunStep(r) \/ Sweep(r)
       PROVE  Moved(h)
  BY <1>8, <1>11 DEF RunStep, CheckCancellation, RunnerSettles, Sweep
<1>12. QED
  BY <1>3, <1>5, <1>6, <1>8, <1>9, <1>10, <1>11 DEF Next, RequestStep, vars

\* Every request is for an offered operation, and no watchdog's mutation waits.
LEMMA OfferedStep == Calm /\ IInv /\ OnlyOffered /\ [Next]_vars => OnlyOffered'
<1> SUFFICES ASSUME Calm, IInv, OnlyOffered, [Next]_vars
             PROVE  OnlyOffered'
  OBVIOUS
<1>1. Unreaped(queue)'
  BY UnreapedStep DEF Unreaped
<1>2. ASSUME NEW h \in Requests
      PROVE  (job[h].op # "none" => job[h].op \in Offered)'
  BY RequestMoves DEF Moved, Begun, NoJob, OnlyOffered
<1>3. QED
  BY <1>1, <1>2 DEF OnlyOffered

\* A run that is closed, or whose execution was rejected, does not open again.
StaysClosed ==
  \A r \in Runs : runStatus[r] # "unused" => /\ runStatus'[r] # "unused"
                                             /\ Closed(r) => Closed(r)'

\* A step that leaves the executions alone and activates nothing keeps the
\* runs in order, if it leaves the Agent of an active run as it was.
LEMMA OrderKept ==
  ASSUME IInv, RunsInOrder, exec' = exec, activeExecutions' = activeExecutions,
         \A r \in Runs : runStatus'[r] # runStatus[r] =>
           runStatus'[r] = "removed" /\ InDb(r) /\ agentStatus'[AgentOf[r]] = "deleted",
         \A a \in Agents : agentStatus'[a] # agentStatus[a] =>
           \/ agentStatus'[a] = "stopped" /\ "start" \notin Offered
           \/ agentStatus'[a] # "stopped" /\ \A r \in RunsOf(a) : runStatus'[r] \notin Active,
         \A a \in Agents : agentStatus[a] = "deleted" => agentStatus'[a] = "deleted"
  PROVE  RunsInOrder' /\ StaysClosed
<1> USE ConstantsAssumption DEF IInv, TypeOK, RunsInOrder, RunsOf, Active
<1>1. ActiveIsHeld'
  BY DEF ActiveIsHeld
<1>2. ExecutionsAreOpen' /\ ActiveIsExecuting'
  BY DEF ExecutionsAreOpen, ActiveIsExecuting, UnderWay
<1>3. RemovedWithItsAgent'
  BY DEF RemovedWithItsAgent
<1>4. OneActiveRun'
  BY DEF OneActiveRun
<1>5. StaysClosed
  BY DEF StaysClosed, Closed, InDb
<1>6. QED
  BY <1>1, <1>2, <1>3, <1>4, <1>5

\* The mutations of requests, the acceptance of a message aside.
LEMMA OrderServed ==
  ASSUME Calm, IInv, OnlyOffered, RunsInOrder, NEW h \in Requests,
         \/ ApplyCreate(h) \/ RefuseSend(h) \/ ApplyUpdate(h)
         \/ ApplyStart(h)  \/ ApplyStop(h)  \/ ApplyDelete(h)
  PROVE  RunsInOrder' /\ StaysClosed
<1> USE ConstantsAssumption DEF IInv, TypeOK, RunsInOrder
<1>0. exec' = exec /\ activeExecutions' = activeExecutions
  BY DEF ApplyCreate, RefuseSend, ApplyUpdate, ApplyStart, ApplyStop, ApplyDelete, Served, execs
<1>1. CASE ApplyCreate(h)
  <2>1. job[h].agent \in Agents /\ agentStatus[job[h].agent] = "unborn"
    BY <1>1 DEF ApplyCreate, MintsAreFresh
  <2>2. \A r \in RunsOf(job[h].agent) : runStatus[r] \notin Active
    BY <2>1 DEF ActiveIsHeld, RunsOf
  <2>3. runStatus' = runStatus /\ agentStatus' = [agentStatus EXCEPT ![job[h].agent] = "ready"]
    BY <1>1 DEF ApplyCreate
  <2>4. QED
    BY <1>0, <2>1, <2>2, <2>3, OrderKept
<1>2. CASE RefuseSend(h) \/ ApplyUpdate(h)
  <2>1. runStatus' = runStatus /\ agentStatus' = agentStatus
    BY <1>2 DEF RefuseSend, ApplyUpdate, db
  <2>2. QED
    BY <1>0, <2>1, OrderKept
<1>3. CASE ApplyStart(h)
  <2>1. "start" \in Offered
    BY <1>3 DEF ApplyStart, OnlyOffered
  <2>2. \A a \in Agents : agentStatus[a] \in Live \ {"busy"} =>
          \A r \in RunsOf(a) : runStatus[r] \notin Active
    BY <2>1 DEF ActiveIsHeld, RunsOf
  <2>3. /\ runStatus' = runStatus
        /\ agentStatus' = IF Exists(job[h].agent) /\ agentStatus[job[h].agent] # "busy"
                          THEN [agentStatus EXCEPT ![job[h].agent] = "ready"] ELSE agentStatus
    BY <1>3 DEF ApplyStart
  <2>4. QED
    BY <1>0, <2>2, <2>3, OrderKept DEF Exists, Live
<1>4. CASE ApplyStop(h)
  <2>1. "start" \notin Offered
    BY <1>4 DEF ApplyStop, OnlyOffered, Calm
  <2>2. /\ runStatus' = runStatus
        /\ agentStatus' = IF Exists(job[h].agent)
                          THEN [agentStatus EXCEPT ![job[h].agent] = "stopped"] ELSE agentStatus
    BY <1>4 DEF ApplyStop
  <2>3. QED
    BY <1>0, <2>1, <2>2, OrderKept DEF Exists, Live
<1>5. CASE ApplyDelete(h)
  <2> DEFINE a == job[h].agent
  <2>1. /\ runStatus' = [r \in Runs |-> IF r \in RemovedWith(a) THEN "removed" ELSE runStatus[r]]
        /\ agentStatus' = IF Exists(a) THEN [agentStatus EXCEPT ![a] = "deleted"] ELSE agentStatus
    BY <1>5 DEF ApplyDelete
  <2>2. \A r \in RemovedWith(a) : InDb(r) /\ Exists(AgentOf[r]) /\ AgentOf[r] = a
    BY DEF RemovedWith, RunsOf, NoOrphanRuns
  <2>3. \A r \in Runs : runStatus'[r] # runStatus[r] =>
          runStatus'[r] = "removed" /\ InDb(r) /\ agentStatus'[AgentOf[r]] = "deleted"
    BY <2>1, <2>2
  <2>4. \A b \in Agents : agentStatus'[b] # agentStatus[b] =>
          agentStatus'[b] # "stopped" /\ \A r \in RunsOf(b) : runStatus'[r] \notin Active
    <3>1. \A r \in RunsOf(a) : runStatus'[r] \notin Active
      BY <2>1 DEF RemovedWith, RunsOf, InDb, Active
    <3>2. QED
      BY <2>1, <3>1
  <2>5. \A b \in Agents : agentStatus[b] = "deleted" => agentStatus'[b] = "deleted"
    BY <2>1
  <2>6. QED
    BY <1>0, <2>3, <2>4, <2>5, OrderKept
<1>6. QED
  BY <1>1, <1>2, <1>3, <1>4, <1>5

\* A message is accepted only where no run of the Agent is active.
LEMMA OrderSent ==
  ASSUME IInv, RunsInOrder, NEW h \in Requests, AcceptSend(h)
  PROVE  RunsInOrder' /\ StaysClosed
<1> DEFINE r == job[h].run
           a == job[h].agent
<1> USE ConstantsAssumption DEF IInv, TypeOK, RunsInOrder
<1>1. r \in Runs /\ a = AgentOf[r] /\ a \in Agents /\ runStatus[r] = "unused"
  BY SentRunIsUnused DEF AcceptSend, Sends
<1>2. /\ agentStatus' = [agentStatus EXCEPT ![a] = "busy"]
      /\ runStatus' = [runStatus EXCEPT ![r] = "queued"]
      /\ exec' = [exec EXCEPT ![r] = "starting"]
      /\ activeExecutions' = [activeExecutions EXCEPT ![a] = r]
      /\ agentStatus[a] \in {"ready", "error"}
  BY DEF AcceptSend, Admits
<1> HIDE DEF r, a
<1>3. \A s \in Runs : AgentOf[s] = a => runStatus[s] \notin Active
  BY <1>2 DEF ActiveIsHeld
<1>4. ActiveIsHeld'
  BY <1>1, <1>2, <1>3 DEF ActiveIsHeld, Active
<1>5. ExecutionsAreOpen'
  BY <1>1, <1>2 DEF ExecutionsAreOpen, UnderWay
<1>6. ActiveIsExecuting'
  BY <1>1, <1>2, <1>3 DEF ActiveIsExecuting, UnderWay, Active
<1>7. RemovedWithItsAgent'
  BY <1>1, <1>2 DEF RemovedWithItsAgent
<1>8. OneActiveRun'
  BY <1>1, <1>2, <1>3 DEF OneActiveRun, Active
<1>9. StaysClosed
  BY <1>1, <1>2 DEF StaysClosed, Closed, Active
<1>10. QED
  BY <1>4, <1>5, <1>6, <1>7, <1>8, <1>9

\* An execution that is not yet over moves on, and writes nothing.
LEMMA OrderRunning ==
  ASSUME IInv, RunsInOrder, UNCHANGED <<agentStatus, runStatus, activeExecutions>>, NEW r \in Runs,
         exec[r] \in UnderWay \ {"starting"},
         \E p \in UnderWay \ {"starting"} : exec' = [exec EXCEPT ![r] = p]
  PROVE  RunsInOrder' /\ StaysClosed
<1> USE ConstantsAssumption DEF IInv, TypeOK, RunsInOrder
<1>1. ActiveIsHeld' /\ RemovedWithItsAgent' /\ OneActiveRun'
  BY DEF ActiveIsHeld, RemovedWithItsAgent, OneActiveRun
<1>2. ExecutionsAreOpen' /\ ActiveIsExecuting'
  BY DEF ExecutionsAreOpen, ActiveIsExecuting, UnderWay
<1>3. StaysClosed
  BY DEF StaysClosed, Closed, UnderWay
<1>4. QED
  BY <1>1, <1>2, <1>3

\* An execution settles: its run closes unless it was deleted, or the write
\* that would have closed it failed.
LEMMA OrderSettled ==
  ASSUME IInv, RunsInOrder, NEW r \in Runs,
         NEW how \in Ended, exec' = [exec EXCEPT ![r] = how],
         activeExecutions' =
           [activeExecutions EXCEPT ![AgentOf[r]] = IF @ = r THEN NoRun ELSE @],
         \/ how = "rejected" /\ UNCHANGED <<runStatus, agentStatus>>
         \/ runStatus[r] = "removed" /\ UNCHANGED <<runStatus, agentStatus>>
         \/ /\ \E v \in {"completed", "failed", "cancelled"} :
                 runStatus' = [runStatus EXCEPT ![r] = v]
            /\ \E v \in {"ready", "error", agentStatus[AgentOf[r]]} :
                 agentStatus' = [agentStatus EXCEPT ![AgentOf[r]] = v]
            /\ runStatus[r] = "running"
  PROVE  RunsInOrder' /\ StaysClosed
<1> DEFINE a == AgentOf[r]
<1> USE ConstantsAssumption DEF IInv, TypeOK, RunsInOrder
<1>1. \A s \in Runs \ {r} : exec'[s] = exec[s] /\ runStatus'[s] = runStatus[s]
  OBVIOUS
<1>2. \A s \in Runs \ {r} : activeExecutions[AgentOf[s]] = s =>
        activeExecutions'[AgentOf[s]] = s
  OBVIOUS
<1>3. how \in {"ended", "rejected"} /\ exec'[r] = how
  BY DEF Ended
<1>4. \/ how = "rejected" \/ runStatus'[r] \notin Active
  BY DEF Active
<1>5. ActiveIsHeld'
  <2>1. CASE UNCHANGED <<runStatus, agentStatus>>
    BY <2>1 DEF ActiveIsHeld
  <2>2. CASE runStatus[r] = "running" /\ runStatus'[r] \notin Active
    <3>1. \A s \in Runs \ {r} : AgentOf[s] = a => runStatus[s] \notin Active
      BY <2>2 DEF OneActiveRun, Active
    <3>2. \A b \in Agents \ {a} : agentStatus'[b] = agentStatus[b]
      OBVIOUS
    <3>3. agentStatus'[a] \in {"ready", "error", agentStatus[a]}
      OBVIOUS
    <3>4. QED
      BY <1>1, <2>2, <3>1, <3>2, <3>3 DEF ActiveIsHeld
  <2>3. QED
    BY <2>1, <2>2 DEF Active
<1>6. ExecutionsAreOpen'
  BY <1>1, <1>3 DEF ExecutionsAreOpen, UnderWay
<1>7. ActiveIsExecuting'
  BY <1>1, <1>2, <1>3, <1>4 DEF ActiveIsExecuting, UnderWay
<1>8. RemovedWithItsAgent'
  <2>1. runStatus[r] = "running" => agentStatus[a] \in {"busy", "stopped"}
    BY DEF ActiveIsHeld, Active
  <2>2. QED
    BY <2>1 DEF RemovedWithItsAgent
<1>9. OneActiveRun'
  BY <1>1 DEF OneActiveRun, Active
<1>10. StaysClosed
  BY <1>1, <1>3, <1>4 DEF StaysClosed, Closed, Active
<1>11. QED
  BY <1>5, <1>6, <1>7, <1>8, <1>9, <1>10

\* The mutations of executions.
LEMMA OrderExecuted ==
  ASSUME IInv, RunsInOrder, NEW r \in Runs,
         ApplyRunning(r) \/ ApplyCompleted(r) \/ ApplyUnsuccessful(r)
  PROVE  RunsInOrder' /\ StaysClosed
<1> DEFINE a == AgentOf[r]
<1> USE ConstantsAssumption DEF IInv, TypeOK, RunsInOrder
<1>1. CASE ApplyRunning(r)
  <2>1. /\ runStatus' = [runStatus EXCEPT ![r] = IF InDb(r) THEN "running" ELSE @]
        /\ exec' = [exec EXCEPT ![r] = "checking"]
        /\ exec[r] = "starting"
        /\ UNCHANGED <<agentStatus, activeExecutions>>
    BY <1>1 DEF ApplyRunning
  <2>2. runStatus[r] \in {"queued", "removed"}
    BY <2>1 DEF ExecutionsAreOpen
  <2>3. runStatus'[r] = IF runStatus[r] = "queued" THEN "running" ELSE "removed"
    BY <2>1, <2>2 DEF InDb
  <2>4. \A s \in Runs \ {r} : runStatus'[s] = runStatus[s] /\ exec'[s] = exec[s]
    BY <2>1
  <2>5. \A s \in Runs : runStatus'[s] \in Active <=> runStatus[s] \in Active
    BY <2>2, <2>3, <2>4 DEF Active
  <2>6. ActiveIsHeld' /\ OneActiveRun'
    BY <2>1, <2>5 DEF ActiveIsHeld, OneActiveRun
  <2>7. ExecutionsAreOpen' /\ RemovedWithItsAgent'
    BY <2>1, <2>2, <2>3, <2>4 DEF ExecutionsAreOpen, UnderWay, RemovedWithItsAgent
  <2>8. ActiveIsExecuting'
    BY <2>1, <2>4, <2>5 DEF ActiveIsExecuting, UnderWay
  <2>9. StaysClosed
    BY <2>1, <2>2, <2>3, <2>4, <2>5 DEF StaysClosed, Closed
  <2>10. QED
    BY <2>6, <2>7, <2>8, <2>9
<1>2. ASSUME exec[r] = "closing"
      PROVE  /\ runStatus[r] \in {"running", "removed"}
             /\ runStatus[r] = "running" => Exists(a)
             /\ runStatus[r] = "removed" => agentStatus[a] = "deleted"
  BY <1>2 DEF ExecutionsAreOpen, UnderWay, NoOrphanRuns, InDb, RemovedWithItsAgent
<1>3. CASE ApplyCompleted(r)
  <2>1. /\ exec[r] = "closing"
        /\ runStatus' = IF StillOpen(r) THEN [runStatus EXCEPT ![r] = "completed"] ELSE runStatus
        /\ agentStatus' = IF StillOpen(r) THEN [agentStatus EXCEPT ![a] = "ready"] ELSE agentStatus
        /\ Settles(r, "ended")
    BY <1>3 DEF ApplyCompleted
  <2>2. StillOpen(r) <=> runStatus[r] = "running"
    BY <1>2, <2>1 DEF StillOpen
  <2>3. QED
    BY <1>2, <2>1, <2>2, OrderSettled DEF Settles, Ended, UnderWay
<1>4. CASE ApplyUnsuccessful(r)
  <2> DEFINE touch == Exists(a) /\ agentStatus[a] # "stopped" /\ runStatus[r] # "completed"
  <2>1. /\ exec[r] = "closing"
        /\ outcome[r] \in {"failed", "cancelled"}
        /\ runStatus' = IF runStatus[r] = "running"
                        THEN [runStatus EXCEPT ![r] = outcome[r]] ELSE runStatus
        /\ agentStatus' = IF touch THEN [agentStatus EXCEPT ![a] = AgentAfter(outcome[r])]
                          ELSE agentStatus
        /\ Settles(r, "ended")
    BY <1>4 DEF ApplyUnsuccessful
  <2>2. AgentAfter(outcome[r]) \in {"ready", "error"}
    BY DEF AgentAfter
  <2>3. agentStatus' = agentStatus => agentStatus' = [agentStatus EXCEPT ![a] = agentStatus[a]]
    OBVIOUS
  <2>4. runStatus[r] = "removed" => ~ touch
    BY <1>2, <2>1 DEF Exists, Live
  <2> HIDE DEF touch
  <2>5. CASE runStatus[r] = "removed"
    BY <2>1, <2>4, <2>5, OrderSettled DEF Settles, Ended, UnderWay
  <2>6. CASE runStatus[r] = "running"
    <3>1. \E v \in {"completed", "failed", "cancelled"} :
            runStatus' = [runStatus EXCEPT ![r] = v]
      BY <2>1, <2>6
    <3>2. \E v \in {"ready", "error", agentStatus[a]} :
            agentStatus' = [agentStatus EXCEPT ![a] = v]
      BY <2>1, <2>2, <2>3
    <3>3. QED
      BY <2>1, <2>6, <3>1, <3>2, OrderSettled DEF Settles, Ended, UnderWay
  <2>7. QED
    BY <1>2, <2>1, <2>5, <2>6
<1>5. QED
  BY <1>1, <1>3, <1>4

\* A calm server keeps its runs in order.
LEMMA OrderStep ==
  ASSUME Calm, IInv, OnlyOffered, RunsInOrder, [Next]_vars
  PROVE  RunsInOrder' /\ StaysClosed
<1> USE ConstantsAssumption DEF IInv, TypeOK, RunsInOrder
<1>1. ASSUME UNCHANGED <<db, exec, activeExecutions>>
      PROVE  RunsInOrder' /\ StaysClosed
  BY <1>1, OrderKept DEF db
<1>2. ASSUME NEW h \in Requests, Arrive(h) \/ RequestStep(h)
      PROVE  RunsInOrder' /\ StaysClosed
  <2>1. UNCHANGED <<db, execs>>
    BY <1>2 DEF Arrive, CreateAgent, SendMessage, RetryRun, UpdateAgent, StartAgent, StopAgent,
       DeleteAgent, CancelRun, Submit, CancelExecution, Admit, RequestStep, RunnerCancelReturns,
       ExecutionAwaited, ExecutionThrew, Archived, ArchiveFails
  <2>2. QED
    BY <1>1, <2>1 DEF execs
<1>3. ASSUME NEW r \in Runs, RunStep(r)
      PROVE  RunsInOrder' /\ StaysClosed
  BY <1>3, OrderRunning DEF RunStep, CheckCancellation, RunnerSettles, db, UnderWay
<1>4. ASSUME NEW r \in Runs, Sweep(r)
      PROVE  RunsInOrder' /\ StaysClosed
  BY <1>4 DEF Sweep, Calm
<1>5. CASE Commit
  <2>1. ASSUME NEW r \in Runs, ApplyForceTerminate(r)
        PROVE  FALSE
    <3>1. queue # << >> /\ Head(queue) = Reaping(r)
      BY <2>1 DEF ApplyForceTerminate, Dequeue
    <3>2. queue[1] = Reaping(r) /\ 1 \in 1..Len(queue)
      BY <3>1
    <3>3. QED
      BY <3>2 DEF OnlyOffered, Unreaped
  <2>2. QED
    BY <1>5, <2>1, OrderServed, OrderSent, OrderExecuted DEF Commit
<1>6. CASE StoreFails
  <2>1. ASSUME NEW h \in Requests, RequestWriteFails(h)
        PROVE  RunsInOrder' /\ StaysClosed
    BY <1>1, <2>1 DEF RequestWriteFails, PersistFails, execs
  <2>2. ASSUME NEW r \in Runs, CompletionWriteFails(r) \/ ReapingWriteFails(r)
        PROVE  RunsInOrder' /\ StaysClosed
    BY <1>1, <2>2 DEF CompletionWriteFails, ReapingWriteFails, PersistFails, execs
  <2>3. ASSUME NEW r \in Runs, ExecutionWriteFails(r)
        PROVE  RunsInOrder' /\ StaysClosed
    BY <2>3, OrderSettled DEF ExecutionWriteFails, PersistFails, FailedWrite, Ended, db
  <2>4. QED
    BY <1>6, <2>1, <2>2, <2>3 DEF StoreFails
<1>7. CASE Restart
  <2>1. \A r \in Runs : runStatus'[r] \notin Active /\ exec'[r] = "none"
    BY <1>7 DEF Restart, Boot, InDb, Active
  <2>2. ActiveIsHeld'
    BY <1>7, <2>1 DEF Restart, Boot, ActiveIsHeld
  <2>3. RemovedWithItsAgent'
    BY <1>7 DEF Restart, Boot, RemovedWithItsAgent, NoOrphanRuns, Active, InDb, Exists
  <2>4. ExecutionsAreOpen' /\ ActiveIsExecuting' /\ OneActiveRun'
    BY <2>1 DEF ExecutionsAreOpen, UnderWay, ActiveIsExecuting, OneActiveRun
  <2>5. StaysClosed
    <3>1. \A r \in Runs : runStatus[r] # "unused" => runStatus'[r] # "unused"
      BY <1>7 DEF Restart, Boot
    <3>2. QED
      BY <2>1, <3>1 DEF StaysClosed, Closed
  <2>6. QED
    BY <2>2, <2>3, <2>4, <2>5
<1>8. CASE UNCHANGED vars
  BY <1>1, <1>8 DEF vars, execs
<1>9. QED
  BY <1>2, <1>3, <1>4, <1>5, <1>6, <1>7, <1>8 DEF Next

\* A cancel that begins to wait finds its run executing, or already closed.
LEMMA CancelsStep == Calm /\ IInv /\ CalmInv /\ [Next]_vars => CancelsAwaitTheirRun'
<1> SUFFICES ASSUME Calm, IInv, CalmInv, [Next]_vars, NEW h \in Requests, job'[h].op = "cancel"
             PROVE  /\ job'[h].run \in Runs /\ job'[h].agent = AgentOf[job'[h].run]
                    /\ runStatus'[job'[h].run] # "unused"
                    /\ phase'[h] = "awaiting" =>
                         \/ waits'[h] = job'[h].run
                         \/ runStatus'[job'[h].run] \notin Active
                         \/ exec'[job'[h].run] = "rejected"
  BY DEF CancelsAwaitTheirRun, Closed
<1> DEFINE r == job'[h].run
<1>1. StaysClosed
  BY OrderStep DEF CalmInv
<1>2. Moved(h)
  BY RequestMoves
<1>3. CASE job'[h] = job[h]
  <2>1. /\ r \in Runs /\ job[h].agent = AgentOf[r] /\ runStatus[r] # "unused"
        /\ phase[h] = "awaiting" => waits[h] = r \/ Closed(r)
    BY <1>3 DEF CalmInv, CancelsAwaitTheirRun
  <2>2. /\ runStatus'[r] # "unused"
        /\ Closed(r) => runStatus'[r] \notin Active \/ exec'[r] = "rejected"
    BY <1>1, <2>1 DEF StaysClosed, Closed
  <2>3. CASE phase[h] = "awaiting" /\ waits'[h] = waits[h]
    BY <1>3, <2>1, <2>2, <2>3 DEF Closed
  <2>4. CASE BeganToWait(h)
    <3>1. Closed(r) \/ activeExecutions[AgentOf[r]] = r
      BY <2>1 DEF Closed, CalmInv, RunsInOrder, ActiveIsExecuting
    <3>2. QED
      BY <1>3, <2>1, <2>2, <2>4, <3>1 DEF BeganToWait, Closed
  <2>5. CASE phase'[h] # "awaiting"
    BY <1>3, <2>1, <2>2, <2>5
  <2>6. QED
    BY <1>2, <2>3, <2>4, <2>5 DEF Moved
<1>4. CASE job'[h] = NoJob
  BY <1>4 DEF NoJob
<1>5. CASE Begun(h)
  <2>1. r \in Runs /\ job'[h].agent = AgentOf[r] /\ runStatus[r] # "unused"
    BY <1>5 DEF Begun, Active
  <2>2. runStatus'[r] # "unused"
    BY <1>1, <2>1 DEF StaysClosed
  <2>3. QED
    BY <1>5, <2>1, <2>2 DEF Begun
<1>6. QED
  BY <1>2, <1>3, <1>4, <1>5 DEF Moved

\* How a cancel's wait ends, faults apart.
LEMMA CancelEnds ==
  ASSUME IInv, [Next]_vars, NEW h \in Requests, job[h].op = "cancel",
         phase[h] \in {"cancelling", "awaiting"}, phase'[h] = "idle", faults' = faults
  PROVE  \/ RunnerCancelReturns(h) /\ Awaited(job[h].agent) = NoRun
         \/ ExecutionAwaited(h)
         \/ ExecutionThrew(h)
<1> USE DEF IInv, TypeOK
<1>1. ASSUME NEW g \in Requests \ {h},
             \/ \E o, a, r : Submit(g, o, a, r) \/ CancelExecution(g, o, a, r)
             \/ RequestStep(g)
      PROVE  FALSE
  BY <1>1 DEF Submit, CancelExecution, Admit, RequestStep, RunnerCancelReturns, ExecutionAwaited,
     ExecutionThrew, Archived, ArchiveFails, CancelDone, Respond
<1>2. ASSUME NEW g \in Requests, Arrive(g)
      PROVE  FALSE
  <2>1. \E o, a, r : Submit(g, o, a, r) \/ CancelExecution(g, o, a, r)
    BY <1>2 DEF Arrive, CreateAgent, SendMessage, RetryRun, UpdateAgent, StartAgent, StopAgent,
       DeleteAgent, CancelRun
  <2>2. phase[g] = "idle"
    BY <2>1 DEF Submit, CancelExecution, Admit
  <2>3. QED
    BY <1>1, <2>1, <2>2
<1>3. CASE RequestStep(h)
  <2>1. CASE RunnerCancelReturns(h) /\ Awaited(job[h].agent) # NoRun
    BY <2>1 DEF RunnerCancelReturns
  <2>2. CASE Archived(h) \/ ArchiveFails(h)
    BY <2>2 DEF Archived, ArchiveFails
  <2>3. QED
    BY <1>3, <2>1, <2>2 DEF RequestStep
<1>4. ASSUME NEW r \in Runs, RunStep(r) \/ Sweep(r)
      PROVE  FALSE
  BY <1>4 DEF RunStep, CheckCancellation, RunnerSettles, Sweep, serving
<1>5. CASE Commit
  <2>1. ASSUME NEW g \in Requests,
               \/ ApplyCreate(g) \/ RefuseSend(g) \/ AcceptSend(g) \/ ApplyUpdate(g)
               \/ ApplyStart(g)  \/ ApplyStop(g)  \/ ApplyDelete(g)
        PROVE  FALSE
    BY <2>1 DEF ApplyCreate, RefuseSend, AcceptSend, ApplyUpdate, ApplyStart, ApplyStop,
       ApplyDelete, Served, Respond
  <2>2. ASSUME NEW r \in Runs, \/ ApplyRunning(r)      \/ ApplyCompleted(r)
                               \/ ApplyUnsuccessful(r) \/ ApplyForceTerminate(r)
        PROVE  FALSE
    BY <2>2 DEF ApplyRunning, ApplyCompleted, ApplyUnsuccessful, ApplyForceTerminate, Settles
  <2>3. QED
    BY <1>5, <2>1, <2>2 DEF Commit
<1>6. CASE StoreFails \/ Restart
  BY <1>6 DEF StoreFails, RequestWriteFails, CompletionWriteFails, ExecutionWriteFails,
     ReapingWriteFails, PersistFails, Restart
<1>7. CASE UNCHANGED vars
  BY <1>7 DEF vars, serving
<1>8. QED
  BY <1>1, <1>2, <1>3, <1>4, <1>5, <1>6, <1>7 DEF Next

\* A calm server keeps CalmInv.
LEMMA CalmInvariance == ASSUME Calm PROVE Spec => []CalmInv
<1>1. Init => CalmInv
  BY ConstantsAssumption DEF Init, CalmInv, OnlyOffered, Unreaped, NoJob, RunsInOrder,
     ActiveIsHeld, ExecutionsAreOpen, UnderWay, ActiveIsExecuting, RemovedWithItsAgent,
     OneActiveRun, Active, CancelsAwaitTheirRun
<1>2. IInv /\ CalmInv /\ [Next]_vars => CalmInv'
  BY OfferedStep, OrderStep, CancelsStep DEF CalmInv
<1>3. QED
  BY <1>1, <1>2, Invariance, PTL DEF Spec

\* An Agent never has two active runs, if no watchdog kills one and clients do
\* not both stop and start Agents.  Either breaks it: the run
\* launchpad_two_active shows a kill; and a stop applied after a send it did not
\* see leaves an active run on a stopped Agent, which a start makes ready.
THEOREM OneRunWhenCalm == ASSUME Calm PROVE Spec => []OneActiveRun
<1>1. CalmInv => OneActiveRun
  BY DEF CalmInv, RunsInOrder
<1>2. QED
  BY <1>1, CalmInvariance, PTL

\* Under the same hypotheses cancelRun answers only once its run is closed,
\* faults apart: what it awaited was the execution of that run.
THEOREM CancelsCloseWhenCalm == ASSUME Calm PROVE Spec => CancelledRunIsClosed
<1>1. ASSUME IInv, CalmInv, [Next]_vars, NEW h \in Requests, job[h].op = "cancel",
             phase[h] \in {"cancelling", "awaiting"}, phase'[h] = "idle", faults' = faults
      PROVE  runStatus[job[h].run] \notin Active \/ exec[job[h].run] = "rejected"
  <2> DEFINE r == job[h].run
  <2>1. /\ r \in Runs /\ job[h].agent = AgentOf[r]
        /\ phase[h] = "awaiting" => waits[h] = r \/ Closed(r)
    BY <1>1 DEF CalmInv, CancelsAwaitTheirRun
  <2>2. runStatus[r] \in Active =>
          \/ exec[r] = "rejected"
          \/ exec[r] \in UnderWay /\ activeExecutions[AgentOf[r]] = r
    BY <1>1, <2>1 DEF CalmInv, RunsInOrder, ActiveIsExecuting
  <2>3. CASE Awaited(job[h].agent) = NoRun
    BY <2>1, <2>2, <2>3, ConstantsAssumption DEF Awaited
  <2>4. CASE ExecutionAwaited(h) \/ ExecutionThrew(h)
    BY <2>1, <2>2, <2>4 DEF ExecutionAwaited, ExecutionThrew, Closed, UnderWay
  <2>5. QED
    BY <1>1, <2>3, <2>4, CancelEnds
<1>2. IInv /\ CalmInv /\ [Next]_vars =>
        [\A h \in Requests :
           /\ job[h].op = "cancel" /\ phase[h] \in {"cancelling", "awaiting"}
           /\ phase'[h] = "idle" /\ faults' = faults
           => \/ runStatus[job[h].run] \notin Active
              \/ exec[job[h].run] = "rejected"]_vars
  BY <1>1
<1>3. QED
  BY <1>2, Invariance, CalmInvariance, PTL DEF Spec, CancelledRunIsClosed, CancelAnswersLast
=============================================================================
