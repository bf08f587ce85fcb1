------------------------------ MODULE RunStream ------------------------------
(***************************************************************************)
(* One Agent's runs from message to screen, with HEIMDALL=off: the service *)
(* admits a message under the Agent's principal, executes it through the   *)
(* plain runner, stores what becomes of it and publishes its events; the   *)
(* event stream of app.ts forwards them to clients, and the client of      *)
(* useRunEvents.ts shows them.                                             *)
(*                                                                         *)
(* A step is one turn of the server's event loop, or of a client's.  The   *)
(* store applies its mutations one at a time, in order; what a mutation's  *)
(* caller does when it returns belongs to the same step.  No write fails   *)
(* and the server does not restart here (Launchpad has both).              *)
(***************************************************************************)
EXTENDS Timeline, EventBus, Identity, CodexProcess, TLC

Traces == INSTANCE Trace

CONSTANTS
  Watchers,     \* clients that watch a run
  Order,        \* the ids sendMessage will mint, in order
  Scenarios     \* bound: what may happen together in one behaviour

\* provider: config.runtimeProvider; sent: how many of the messages are sent;
\* interrupts: what may cut each run short; watched: the runs clients look at;
\* revoked: how many principals may be revoked.
Interrupt == {"cancel", "reap", "timeout", "overflow"}

ASSUME ScenariosAssumption ==
  /\ Range(Order) = Runs /\ NoRun \notin Runs /\ "service" \notin Watchers
  /\ \A s \in Scenarios :
       /\ s.provider \in {"local-process", "container"} /\ s.sent \in 0..Len(Order)
       /\ s.interrupts \in [Runs -> SUBSET Interrupt]
       /\ s.watched \subseteq Runs /\ s.revoked \in Nat

VARIABLES
  scenario,
  \* the database
  agentStatus, runStatus, stage, timeline, agentPrincipals,
  queue,                \* the store's mutations not yet applied
  directory,            \* the identity directory in memory
  exec, verdict,        \* executeRun of each run, and how its runner settled
  activeExecution,      \* the entry of activeExecutions
  cancelFlag,           \* whether cancellationRequests holds the Agent
  cancel,               \* the cancel request of each run
  bus,
  client,               \* each watcher's hook: where it is and what it shows
  wire, served,         \* the stream to each watcher: bytes in flight, and its server end
  \* history
  log,                  \* every event emitted for a run
  got,                  \* the events each watcher was handed
  answered,             \* the principals whose revocation was answered
  reaped                \* the runs the watchdog closed

database == <<agentStatus, runStatus, stage, timeline, agentPrincipals>>
running  == <<exec, verdict, activeExecution, cancelFlag, cancel>>
watching == <<client, got>>
stream   == <<wire, served>>
vars     == <<scenario, database, queue, directory, running, bus, watching, stream, log, answered, reaped, process>>

Agent   == "agent"
Owner   == "owner"
Active  == {"queued", "running"}
Untold  == [phase |-> "none", told |-> NoRun, awaits |-> NoRun]
Absent  == [phase |-> "idle", run |-> NoRun, fetched |-> FALSE, timeline |-> InitialTimeline, seen |-> FALSE]

Init ==
  /\ agentStatus = "ready"
  /\ runStatus = [r \in Runs |-> "unused"]
  /\ stage = [r \in Runs |-> "queued"]
  /\ timeline = [r \in Runs |-> InitialTimeline]
  /\ directory = MintAgentPrincipal(<< >>, Agent, Owner)
  /\ agentPrincipals = directory
  /\ queue = << >>
  /\ exec = [r \in Runs |-> "none"] /\ verdict = [r \in Runs |-> "none"]
  /\ activeExecution = NoRun /\ cancelFlag = FALSE
  /\ cancel = [r \in Runs |-> Untold]
  /\ bus = NewBus(Runs)
  /\ client = [w \in Watchers |-> Absent]
  /\ wire = [w \in Watchers |-> << >>] /\ served = [w \in Watchers |-> "none"]
  /\ log = [r \in Runs |-> << >>] /\ got = [w \in Watchers |-> << >>] /\ answered = {} /\ reaped = {}
  /\ scenario \in Scenarios
  /\ ProcessInit(scenario.provider)

-----------------------------------------------------------------------------
(***************************************************************************)
(* Emitting.  The listeners of a run are the service's own, which enqueues *)
(* the event for the store, and the streams, which write it out and end    *)
(* themselves on a terminal event.                                         *)
(***************************************************************************)
IsOver(r)   == runStatus[r] \in TERMINAL_STAGES
Event(r, e) == [seq |-> 0, run |-> r, stage |-> e.stage, severity |-> e.severity, awaiting |-> FALSE]
Over(event) == event.stage \in TERMINAL_STAGES

Listens(b, w, r) == w \in b.listeners[r]

\* What emitting one event makes of the bus, the queue, the log and the streams.
PublishOne(world, event) ==
  LET r     == event.run
      sent  == Numbered(world.bus, event)
      hears == {w \in Watchers : Listens(world.bus, w, r)}
      after == Emit(world.bus, event)
  IN [bus    |-> IF Over(event) THEN [after EXCEPT !.listeners[r] = @ \ hears] ELSE after,
      queue  |-> IF Listens(world.bus, "service", r)
                 THEN Append(world.queue, [kind |-> "event", run |-> r, event |-> sent]) ELSE world.queue,
      log    |-> [world.log EXCEPT ![r] = Append(@, sent)],
      wire   |-> [w \in Watchers |-> IF w \in hears /\ client[w].phase = "live"
                                     THEN Append(world.wire[w], sent) ELSE world.wire[w]],
      served |-> [w \in Watchers |-> IF w \in hears /\ Over(event) THEN "ended" ELSE world.served[w]]]

\* A turn of the loop emits three events at most.
PublishNth(world, r, events, i) ==
  IF i \in DOMAIN events THEN PublishOne(world, Event(r, events[i])) ELSE world

Publish(r, events, pending, listeners) ==
  LET world == [bus |-> bus, queue |-> pending, log |-> log, wire |-> wire, served |-> served]
      Nth(from, i) == PublishNth(from, r, events, i)
      out   == Nth(Nth(Nth(world, 1), 2), 3)
  IN /\ bus' = [out.bus EXCEPT !.listeners[r] = @ \ listeners]
     /\ queue' = out.queue /\ log' = out.log /\ wire' = out.wire /\ served' = out.served

Quietly(pending) == queue' = pending /\ UNCHANGED <<bus, log, stream>>

-----------------------------------------------------------------------------
(***************************************************************************)
(* Messages and executions.                                                *)
(***************************************************************************)

\* sendMessage: the principal is looked up before the mutation is enqueued.
SendMessage(r) ==
  /\ exec[r] = "none"
  /\ \A i \in DOMAIN Order : Order[i] = r => i <= scenario.sent /\ \A j \in 1..(i - 1) : exec[Order[j]] # "none"
  /\ ActiveFor(directory, Agent) # 0
  /\ exec' = [exec EXCEPT ![r] = "sending"]
  /\ queue' = Append(queue, [kind |-> "admit", run |-> r])
  /\ UNCHANGED <<scenario, database, directory, verdict, activeExecution, cancelFlag, cancel, bus, watching,
                 stream, log, answered, reaped, process>>

\* The message's mutation: a run, and its execution, unless the Agent is busy.
Admit(m) ==
  LET r == m.run IN
  \/ /\ agentStatus = "busy"
     /\ exec' = [exec EXCEPT ![r] = "refused"]
     /\ Quietly(Tail(queue))
     /\ UNCHANGED <<scenario, database, directory, verdict, activeExecution, cancelFlag, cancel, watching,
                    answered, reaped, process>>
  \/ /\ agentStatus # "busy"
     /\ agentStatus' = "busy"
     /\ runStatus' = [runStatus EXCEPT ![r] = "queued"]
     /\ exec' = [exec EXCEPT ![r] = "starting"]
     /\ activeExecution' = r
     /\ bus' = Subscribe(bus, r, "service")
     /\ queue' = Append(Tail(queue), [kind |-> "start", run |-> r])
     /\ UNCHANGED <<scenario, stage, timeline, agentPrincipals, directory, verdict, cancelFlag, cancel, watching,
                    stream, log, answered, reaped, process>>

\* executeRun's first mutation sets the run running, whatever it was.
Start(m) ==
  /\ runStatus' = [runStatus EXCEPT ![m.run] = "running"]
  /\ exec' = [exec EXCEPT ![m.run] = "checking"]
  /\ Quietly(Tail(queue))
  /\ UNCHANGED <<scenario, agentStatus, stage, timeline, agentPrincipals, directory, verdict, activeExecution,
                 cancelFlag, cancel, watching, answered, reaped, process>>

\* The workspace has been scanned: the run is cancelled, or handed to the runner,
\* which refuses a second process for the Agent and may fail to start the first.
Settled(r, how) ==
  /\ exec' = [exec EXCEPT ![r] = "scanning"]
  /\ verdict' = [verdict EXCEPT ![r] = how]

Execute(r) ==
  /\ exec[r] = "checking"
  /\ \/ /\ cancelFlag
        /\ Settled(r, "cancelled")
        /\ Quietly(queue)
        /\ UNCHANGED process
     \/ /\ ~cancelFlag /\ Running
        /\ Settled(r, "failed")
        /\ Quietly(queue)
        /\ UNCHANGED process
     \/ /\ ~cancelFlag /\ ~Running
        /\ Publish(r, StartEvents, queue, {})
        /\ \/ /\ exec' = [exec EXCEPT ![r] = "running"]
              /\ Spawn(r)
              /\ UNCHANGED verdict
           \/ /\ Settled(r, "failed")
              /\ UNCHANGED process
  /\ UNCHANGED <<scenario, database, directory, activeExecution, cancelFlag, cancel, watching, answered, reaped>>

\* The process settles: its last events, and what the run is to become.  A cancel
\* that waited for it goes on to wait for the execution.
Awaits(c) ==
  IF activeExecution = NoRun THEN [c EXCEPT !.phase = "answered"]
  ELSE [c EXCEPT !.phase = "awaiting", !.awaits = activeExecution]

ProcessEnds ==
  LET r == active.run IN
  /\ Settle
  /\ Settled(r, Verdict)
  /\ Publish(r, EndEvents, queue, {})
  /\ cancel' = [c \in Runs |-> IF cancel[c].phase = "settling" /\ cancel[c].told = r
                               THEN Awaits(cancel[c]) ELSE cancel[c]]
  /\ UNCHANGED <<scenario, database, directory, activeExecution, cancelFlag, watching, answered, reaped>>

\* The changed files are computed and the closing mutation is enqueued.
Finish(r) ==
  /\ exec[r] = "scanning"
  /\ exec' = [exec EXCEPT ![r] = "closing"]
  /\ Quietly(Append(queue, [kind |-> "close", run |-> r]))
  /\ UNCHANGED <<scenario, database, directory, verdict, activeExecution, cancelFlag, cancel, watching,
                 answered, reaped, process>>

\* The closing mutation: a run that is no longer running keeps its status and is not
\* announced again.  A failure writes the Agent's status all the same.
FaultyStillOpen(r) == runStatus[r] # "unused"
StillOpen(r) == runStatus[r] = "running"

TerminalEvent(how) ==
  [stage |-> how, severity |-> CASE how = "completed" -> "success" [] how = "cancelled" -> "warn"
                                 [] OTHER -> "error"]

Ends(r) ==
  LET Answered == {c \in Runs : cancel[c].phase = "awaiting" /\ cancel[c].awaits = r}
  IN /\ exec' = [exec EXCEPT ![r] = "ended"]
     /\ activeExecution' = IF activeExecution = r THEN NoRun ELSE activeExecution
     /\ cancel' = [c \in Runs |-> IF c \in Answered THEN [cancel[c] EXCEPT !.phase = "answered"] ELSE cancel[c]]
     /\ cancelFlag' = (cancelFlag /\ Answered = {})

Close(m) ==
  LET r == m.run IN
  /\ runStatus' = IF StillOpen(r) THEN [runStatus EXCEPT ![r] = verdict[r]] ELSE runStatus
  /\ agentStatus' = IF verdict[r] = "completed"
                    THEN IF StillOpen(r) THEN "ready" ELSE agentStatus
                    ELSE IF verdict[r] = "cancelled" THEN "ready" ELSE "error"
  /\ Publish(r, IF StillOpen(r) THEN <<TerminalEvent(verdict[r])>> ELSE << >>, Tail(queue), {"service"})
  /\ Ends(r)
  /\ UNCHANGED <<scenario, stage, timeline, agentPrincipals, directory, verdict, watching, answered, reaped, process>>

\* applyRunEvent.
Record(m) ==
  LET r     == m.run
      shown == ApplyEventToTimeline(timeline[r], m.event)
  IN /\ IF Over(m.event)
        THEN /\ timeline' = [timeline EXCEPT ![r] = FinalizeTimeline(@, m.event.stage)]
             /\ stage' = [stage EXCEPT ![r] = m.event.stage]
        ELSE /\ timeline' = [timeline EXCEPT ![r] = shown]
             /\ stage' = [stage EXCEPT ![r] = StageShown(shown)]
     /\ Quietly(Tail(queue))
     /\ UNCHANGED <<scenario, agentStatus, runStatus, agentPrincipals, directory, running, watching,
                    answered, reaped, process>>

-----------------------------------------------------------------------------
(***************************************************************************)
(* The watchdog and the cancel.                                            *)
(***************************************************************************)

\* The sweep finds a run older than runMaxAgeMs.
Reap(r) ==
  /\ "reap" \in scenario.interrupts[r]
  /\ runStatus[r] \in Active
  /\ ~ \E i \in DOMAIN queue : queue[i] = [kind |-> "reap", run |-> r]
  /\ Quietly(Append(queue, [kind |-> "reap", run |-> r]))
  /\ UNCHANGED <<scenario, database, directory, running, watching, answered, reaped, process>>

\* Its mutation: if the run is still active it fails, is announced, and the process
\* of its Agent is told to stop.
ReapNow(m) ==
  LET r == m.run IN
  \/ /\ runStatus[r] \notin Active
     /\ Quietly(Tail(queue))
     /\ UNCHANGED <<scenario, database, directory, running, watching, answered, reaped, process>>
  \/ /\ runStatus[r] \in Active
     /\ runStatus' = [runStatus EXCEPT ![r] = "failed"]
     /\ timeline' = [timeline EXCEPT ![r] = FinalizeTimeline(@, "failed")]
     /\ stage' = [stage EXCEPT ![r] = "failed"]
     /\ agentStatus' = "error"
     /\ Publish(r, <<TerminalEvent("failed")>>, Tail(queue), {})
     /\ IF Running THEN Mark ELSE UNCHANGED process
     /\ reaped' = reaped \cup {r}
     /\ UNCHANGED <<scenario, agentPrincipals, directory, running, watching, answered>>

\* cancelRun: flag the Agent, end its process, wait for it, then for the execution.
Cancel(r) ==
  /\ "cancel" \in scenario.interrupts[r]
  /\ runStatus[r] \in Active /\ cancel[r].phase = "none"
  /\ IF Running
     THEN /\ Mark
          /\ cancel' = [cancel EXCEPT ![r].told = active.run,
                 ![r].phase = IF provider = "container" /\ removal[active.run] # "answered"
                              THEN "removing" ELSE "settling"]
          /\ cancelFlag' = TRUE
     ELSE /\ cancel' = [cancel EXCEPT ![r] = Awaits(@)]
          /\ cancelFlag' = (activeExecution # NoRun)
          /\ UNCHANGED process
  /\ Quietly(queue)
  /\ UNCHANGED <<scenario, database, directory, exec, verdict, activeExecution, watching, answered, reaped>>

\* The engine has answered: a cancel goes on, if its process is gone already to the execution.
Removed(r) ==
  LET Next_(c) == IF active.run = r THEN [c EXCEPT !.phase = "settling"] ELSE Awaits(c)
  IN /\ RemovalAnswers(r)
     /\ cancel' = [c \in Runs |-> IF cancel[c].phase = "removing" /\ cancel[c].told = r
                                  THEN Next_(cancel[c]) ELSE cancel[c]]
     /\ cancelFlag' = (cancelFlag /\ ~ \E c \in Runs : cancel'[c].phase = "answered" /\ cancel[c].phase = "removing")
     /\ Quietly(queue)
     /\ UNCHANGED <<scenario, database, directory, exec, verdict, activeExecution, watching, answered, reaped>>

-----------------------------------------------------------------------------
(***************************************************************************)
(* Principals.  The routes change the directory and answer once the table  *)
(* they then take a copy of is stored.                                     *)
(***************************************************************************)
ChangePrincipals ==
  /\ Cardinality({p \in DOMAIN directory : directory[p].revoked}) < scenario.revoked
  /\ ActiveFor(directory, Agent) # 0 \* else revoke answers 409; rotate changes nothing
  /\ \/ directory' = Revoke(directory, ActiveFor(directory, Agent))
     \/ directory' = Rotate(directory, Agent)
  /\ Quietly(Append(queue, [kind |-> "principals", run |-> NoRun, kept |-> directory',
                            revoked |-> ActiveFor(directory, Agent)]))
  /\ UNCHANGED <<scenario, database, running, watching, answered, reaped, process>>

KeepPrincipals(m) ==
  /\ agentPrincipals' = m.kept
  /\ answered' = answered \cup {m.revoked}
  /\ Quietly(Tail(queue))
  /\ UNCHANGED <<scenario, agentStatus, runStatus, stage, timeline, directory, running, watching, reaped, process>>

-----------------------------------------------------------------------------
(***************************************************************************)
(* The event stream and the client.                                        *)
(***************************************************************************)

\* The hook fetches the run; if that fails it has nothing to show yet.
Watch(w, r) ==
  /\ client[w].phase = "idle" /\ r \in scenario.watched /\ runStatus[r] # "unused"
  /\ \E ok \in BOOLEAN :
       client' = [client EXCEPT ![w] =
                    [phase |-> "opening", run |-> r, fetched |-> ok,
                     timeline |-> IF ok THEN timeline[r] ELSE InitialTimeline, seen |-> ok /\ IsOver(r)]]
  /\ Quietly(queue)
  /\ UNCHANGED <<scenario, database, directory, running, got, answered, reaped, process>>

\* The route replays the buffer and, in the same turn, ends the response if the run
\* was over, else listens.
FaultyServedAs(r) == "open"
ServedAs(r) == IF IsOver(r) THEN "ended" ELSE "open"

OpenStream(w) ==
  LET r == client[w].run IN
  /\ client[w].phase = "opening"
  /\ client' = [client EXCEPT ![w].phase = "live"]
  /\ wire' = [wire EXCEPT ![w] = Events(bus, r)]
  /\ served' = [served EXCEPT ![w] = ServedAs(r)]
  /\ bus' = IF ServedAs(r) = "open" THEN Subscribe(bus, r, w) ELSE bus
  /\ UNCHANGED <<scenario, database, queue, directory, running, got, log, answered, reaped, process>>

\* The client is handed the next event.  Without a run to show it only keeps it.
Deliver(w) ==
  /\ client[w].phase = "live" /\ wire[w] # << >>
  /\ wire' = [wire EXCEPT ![w] = Tail(@)]
  /\ got' = [got EXCEPT ![w] = Append(@, Head(wire[w]))]
  /\ client' = IF ~client[w].fetched THEN client
               ELSE [client EXCEPT ![w].timeline = ReduceTimeline(@, Head(wire[w]))]
  /\ UNCHANGED <<scenario, database, queue, directory, running, bus, served, log, answered, reaped, process>>

\* Once the stream is left, for good or bad, the pipeline shown is a fetched run's and
\* is left out of the model, and the events handed over are history no longer needed.
Leave(w, phase) ==
  /\ client' = [client EXCEPT ![w].phase = phase, ![w].timeline = InitialTimeline]
  /\ got' = [got EXCEPT ![w] = << >>]

\* The response is over: one more fetch, for what the events do not carry.
EndOfStream(w) ==
  /\ client[w].phase = "live" /\ wire[w] = << >> /\ served[w] = "ended"
  /\ Leave(w, "closing")
  /\ Quietly(queue)
  /\ UNCHANGED <<scenario, database, directory, running, answered, reaped, process>>

Refetch(w) ==
  /\ client[w].phase = "closing"
  /\ client' = [client EXCEPT ![w].phase = "closed", ![w].seen = @ \/ IsOver(client[w].run)]
  /\ Quietly(queue)
  /\ UNCHANGED <<scenario, database, directory, running, got, answered, reaped, process>>

\* The request, the response or the last fetch fails: the hook polls from now on.
\* What was in flight is lost; the server learns of it later.
Break(w) ==
  /\ client[w].phase \in {"opening", "live", "closing"}
  /\ Leave(w, "polling")
  /\ wire' = [wire EXCEPT ![w] = << >>]
  /\ UNCHANGED <<scenario, database, queue, directory, running, bus, served, log, answered, reaped, process>>

ServerSeesClose(w) ==
  /\ client[w].phase = "polling" /\ served[w] = "open"
  /\ served' = [served EXCEPT ![w] = "ended"]
  /\ bus' = Unsubscribe(bus, client[w].run, w)
  /\ UNCHANGED <<scenario, database, queue, directory, running, watching, wire, log, answered, reaped, process>>

\* The first poll to show that the run is over, which clears the interval.  The other
\* polls change nothing a property looks at: one served before this one and answered
\* after it shows the run as active again.
Poll(w) ==
  /\ client[w].phase = "polling" /\ ~client[w].seen /\ IsOver(client[w].run)
  /\ client' = [client EXCEPT ![w].seen = TRUE]
  /\ Quietly(queue)
  /\ UNCHANGED <<scenario, database, directory, running, got, answered, reaped, process>>

-----------------------------------------------------------------------------
ApplyNext ==
  /\ queue # << >>
  /\ LET m == Head(queue) IN
     \/ m.kind = "admit" /\ Admit(m)
     \/ m.kind = "start" /\ Start(m)
     \/ m.kind = "event" /\ Record(m)
     \/ m.kind = "close" /\ Close(m)
     \/ m.kind = "reap" /\ ReapNow(m)
     \/ m.kind = "principals" /\ KeepPrincipals(m)

ProcessMoves ==
  /\ \/ Exit \/ KillTimer
     \/ Running /\ "overflow" \in scenario.interrupts[active.run] /\ Overflow
     \/ Running /\ "timeout" \in scenario.interrupts[active.run] /\ Timeout
  /\ Quietly(queue)
  /\ UNCHANGED <<scenario, database, directory, running, watching, answered, reaped>>

Client(w) == OpenStream(w) \/ Deliver(w) \/ EndOfStream(w) \/ Refetch(w) \/ Poll(w)

Next ==
  \/ ApplyNext \/ ProcessMoves \/ ProcessEnds \/ ChangePrincipals
  \/ \E r \in Runs : SendMessage(r) \/ Execute(r) \/ Finish(r) \/ Reap(r) \/ Cancel(r) \/ Removed(r)
  \/ \E w \in Watchers : Client(w) \/ Break(w) \/ ServerSeesClose(w) \/ \E r \in Runs : Watch(w, r)

(***************************************************************************)
(* The event loop goes round, the sweep runs every fifteen seconds and a   *)
(* run gets old, and a client that stays gets its answers.  Nothing is     *)
(* assumed of the process or of the engine.                                *)
(***************************************************************************)
Fairness ==
  /\ WF_vars(ApplyNext)
  /\ \A r \in Runs : WF_vars(Reap(r))
  /\ \A w \in Watchers : WF_vars(Client(w))

Spec == Init /\ [][Next]_vars /\ Fairness

-----------------------------------------------------------------------------
\* A revocation that was answered is in the stored table, and no message is admitted
\* once every principal of the Agent has been revoked and answered for: the check is
\* made before the mutation is enqueued, the order of the store's queue makes it hold.
RevocationHolds ==
  [][/\ \A p \in answered' : agentPrincipals'[p].revoked
     /\ \A r \in Runs : runStatus[r] = "unused" /\ runStatus'[r] = "queued"
                        => \E p \in DOMAIN directory : p \notin answered]_vars

\* What a run's listeners are told of its end is the one status on record, and it was
\* there first; a run that its own execution closed ends up with a pipeline that has
\* nothing open and ends as it did, however far behind the store was; and the trace of
\* its events says error exactly when the record does.
Told(r)    == {i \in DOMAIN log[r] : Over(log[r][i])}
Drained(r) == exec[r] = "ended" /\ \A i \in DOMAIN queue : queue[i].run # r

ToldWhatIsKept ==
  \A r \in Runs :
    /\ Told(r) = {} \/ \E i \in Told(r) : Told(r) = {i} /\ log[r][i].stage = runStatus[r]
    /\ Drained(r) /\ r \notin reaped =>
         /\ timeline[r].ends = <<runStatus[r]>> /\ stage[r] = runStatus[r]
         /\ \A i \in Step : timeline[r].steps[i] \notin Open \cup {"pending"}
    /\ Told(r) # {} /\ r \notin reaped /\ Events(bus, r) # << >> =>
         (Traces!BuildTrace(Events(bus, r)).status = "error" <=> runStatus[r] = "failed")

\* What a stream has carried is a stretch of the run's events, in order, none twice and
\* none left out, that reaches to the newest event as long as it is served and back to
\* the oldest unless the buffer had dropped it; and a client that was handed them all,
\* on top of whatever it had fetched, shows the pipeline the store will hold.
Carried(w) == got[w] \o wire[w]

CarriesTheLog(w) ==
  LET r == client[w].run
      Newest == SubSeq(log[r], Len(log[r]) - Len(Carried(w)) + 1, Len(log[r]))
  IN /\ \E i \in 0..Len(log[r]) : Carried(w) = SubSeq(log[r], i + 1, i + Len(Carried(w)))
     /\ served[w] = "open" =>
          /\ Carried(w) = Newest
          /\ Len(Carried(w)) < MaxBuffered => Carried(w) = log[r]

ShowsWhatIsKept(w) ==
  LET r == client[w].run IN
  /\ served[w] = "open" /\ got[w] = log[r] /\ client[w].fetched
  /\ \A i \in DOMAIN queue : queue[i].run # r
  => client[w].timeline.steps = timeline[r].steps

StreamsAreFaithful ==
  \A w \in Watchers : client[w].phase = "live" => CarriesTheLog(w) /\ ShowsWhatIsKept(w)

\* When a cancel that found a process has waited for it, the process is gone and its
\* run was not taken for anything but cancelled, whatever else had cut it short. The
\* process is the child this server started: for a container the engine's client,
\* whose container may outlive it if rm --force failed. Heimdall is off.
CancelMeansStopped ==
  \A r \in Runs : cancel[r].told # NoRun /\ cancel[r].phase \in {"awaiting", "answered"} =>
    active.run # cancel[r].told /\ verdict[cancel[r].told] = "cancelled"

\* A client that stays with a run the watchdog will sweep learns how it ended: by the
\* stream, by the fetch after it, or by polling when either failed; wherever the route
\* found the run, and even if its process never ends.
SeesTheOutcome ==
  \A w \in Watchers :
    client[w].phase = "opening" /\ "reap" \in scenario.interrupts[client[w].run] ~> client[w].seen
=============================================================================
