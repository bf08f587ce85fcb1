------------------------------- MODULE Failures -------------------------------
(***************************************************************************)
(* What is told of a run that failed, or that has gone quiet: the chain of *)
(* causes as it is stored (errors.ts), what runAgent's catch keeps of it,  *)
(* the status a failed request is answered with (app.ts), and the          *)
(* diagnosis the client makes of a run (web lib/diagnostics.ts).           *)
(*                                                                         *)
(* An error is the chain of its causes, outermost first: a function on     *)
(* 1..n, or on all the positive numbers when a cause leads back to itself. *)
(* Times are numbers; the clock of the client need not agree with them.    *)
(***************************************************************************)
EXTENDS Integers, Sequences

CONSTANTS Absent,  \* undefined: the property is not there
          None,    \* null
          Empty,   \* the empty string
          Text, Containers

MAX_CAUSE_DEPTH == 8

\* A cause: an instance of Error or any other value, and what it carries.
Node == [isError : BOOLEAN, exitCode : Int \cup {Absent, None}, containerName : Containers \cup {Absent, None},
         stdout : Text \cup {Absent, Empty}, stderr : Text \cup {Absent, Empty}]

Chains == (UNION {[1..n -> Node] : n \in Nat \ {0}}) \cup [Nat \ {0} -> Node]

Bare == [isError |-> FALSE, exitCode |-> Absent, containerName |-> Absent, stdout |-> Absent, stderr |-> Absent]

First(S) == CHOOSE i \in S : \A j \in S : i <= j

\* RuntimeExitError: what is not given is null or empty, never absent.
RuntimeExitError(exitCode, containerName, stdout, stderr) ==
  [isError |-> TRUE, exitCode |-> exitCode,
   containerName |-> IF containerName = Absent THEN None ELSE containerName,
   stdout |-> IF stdout = Absent THEN Empty ELSE stdout,
   stderr |-> IF stderr = Absent THEN Empty ELSE stderr]

-----------------------------------------------------------------------------
(* The chain as it is stored                                                 *)

\* serializeError goes on to the cause of an Error only, and only so deep.
Kept(chain) == {i \in DOMAIN chain : i <= MAX_CAUSE_DEPTH + 1 /\ \A j \in 1..(i - 1) : chain[j].isError}

\* Empty output is left out; a value that is no Error keeps its message alone.
Output(text) == IF text = Empty THEN Absent ELSE text

Serialized(node) ==
  IF node.isError
  THEN [isError |-> TRUE, exitCode |-> node.exitCode, containerName |-> node.containerName,
        stdout |-> Output(node.stdout), stderr |-> Output(node.stderr)]
  ELSE Bare

SerializeError(chain) == [i \in Kept(chain) |-> Serialized(chain[i])]

HasLogs(node) == node.stdout # Absent \/ node.stderr # Absent
HasMeta(node) == node.exitCode # Absent \/ node.containerName # Absent

Given(value, default) == IF value = Absent THEN default ELSE value

\* The first node of the chain that carries any output, or that says how it ended.
FindLogsInChain(error) ==
  LET carriers == {i \in DOMAIN error : HasLogs(error[i])}
  IN IF carriers = {} THEN None
     ELSE [stdout |-> Given(error[First(carriers)].stdout, Empty),
           stderr |-> Given(error[First(carriers)].stderr, Empty)]

FindRuntimeMetaInChain(error) ==
  LET carriers == {i \in DOMAIN error : HasMeta(error[i])}
  IN IF carriers = {} THEN None
     ELSE [exitCode |-> Given(error[First(carriers)].exitCode, None),
           containerName |-> Given(error[First(carriers)].containerName, None)]

\* runAgent's catch, for a run that is still running: what is found in the chain
\* replaces what the run has, and nothing found replaces nothing.
Closed(run, chain, cancelled) ==
  LET error == SerializeError(chain)
      logs  == FindLogsInChain(error)
      meta  == FindRuntimeMetaInChain(error)
  IN [run EXCEPT !.status = IF cancelled THEN "cancelled" ELSE "failed", !.errorDetail = error,
                 !.logs = IF logs = None THEN @ ELSE logs,
                 !.exitCode = IF meta = None \/ meta.exitCode = None THEN @ ELSE meta.exitCode,
                 !.containerName = IF meta = None \/ meta.containerName = None THEN @ ELSE meta.containerName]

\* The client shows the cause the chain ends with.
DeepestCause(error) == CHOOSE i \in DOMAIN error : i + 1 \notin DOMAIN error

\* What a failed request is answered with: an HttpError's own status, 400 for input
\* that is not valid, the framework's when it is that of an error, 500 for the rest.
StatusOf(kind, statusCode) ==
  CASE kind = "HttpError"                                      -> statusCode
    [] kind = "ZodError"                                       -> 400
    [] kind = "framework" /\ statusCode \in 400..599           -> statusCode
    [] OTHER                                                   -> 500

-----------------------------------------------------------------------------
(* The diagnosis                                                             *)

Terminal(run) == run.status \in {"completed", "failed", "cancelled"}

\* The timeline's entry for the stage the run is in: the first, when a run was closed twice.
Entries(run) == {i \in DOMAIN run.timeline : run.timeline[i].stage = run.stage}
Entry(run)   == run.timeline[First(Entries(run))]

Since(time, start) == IF time > start THEN time - start ELSE 0

StageStartedAt(run) ==
  IF Entries(run) = {} \/ Entry(run).startedAt = None THEN run.createdAt ELSE Entry(run).startedAt

ElapsedInStage(run, now) ==
  IF Entries(run) = {} \/ Entry(run).endedAt = None
  THEN Since(now, StageStartedAt(run)) ELSE Since(Entry(run).endedAt, StageStartedAt(run))

ElapsedSinceLastEvent(run, now) ==
  Since(now, IF run.lastEventAt = None THEN run.createdAt ELSE run.lastEventAt)

IsStale(run, now, stall) == ~Terminal(run) /\ ElapsedSinceLastEvent(run, now) > stall

SawAnyProgress(run) ==
  \E i \in DOMAIN run.timeline : run.timeline[i].stage # "queued" /\ run.timeline[i].startedAt # None

AwaitsApproval(run) == run.stage = "approval" /\ Entries(run) # {} /\ Entry(run).status = "waiting"

\* What a quiet run is waiting for, by the stage it went quiet in.
Quiet(run) ==
  CASE run.stage = "container"                        -> "waiting-process"
    [] run.stage = "codex" /\ run.exitCode # None     -> "process-exited"
    [] run.stage = "codex" /\ run.exitCode = None     -> "no-response"
    [] OTHER                                          -> "stalled"

\* Not a sign of life since it was queued.
Silent(run, now, stall) == IsStale(run, now, stall) /\ ~SawAnyProgress(run)

Asking(run, now, stall) == ~Terminal(run) /\ ~Silent(run, now, stall) /\ AwaitsApproval(run)

Stuck(run, now, stall) == IsStale(run, now, stall) /\ SawAnyProgress(run) /\ ~AwaitsApproval(run)

Health(run, now, stall) ==
  CASE Terminal(run)           -> "terminal"
    [] Silent(run, now, stall) -> "no-events"
    [] Asking(run, now, stall) -> "awaiting-approval"
    [] Stuck(run, now, stall)  -> Quiet(run)
    [] OTHER                   -> "ok"

DiagnoseRun(run, now, stall) ==
  [health |-> Health(run, now, stall),
   elapsedInStage |-> ElapsedInStage(run, now),
   elapsedSinceLastEvent |-> ElapsedSinceLastEvent(run, now),
   isStale |-> IsStale(run, now, stall),
   awaitingApproval |-> Health(run, now, stall) = "awaiting-approval"]

IsDiagnosisAlarming(diagnosis) == diagnosis.health \notin {"ok", "terminal"}

\* StuckRunDiagnostic: whether the run is shown as stuck at all, and what is offered.
ShouldShow(run, now, stall) == run.status = "failed" \/ IsDiagnosisAlarming(DiagnoseRun(run, now, stall))
CanRetry(run)               == run.status \in {"failed", "cancelled"}
ContainerKnownRunning(run)  ==
  run.status \in {"queued", "running"} /\ run.containerName # None /\ run.exitCode = None
RestartAppropriate(run, agentStatus) ==
  agentStatus = "error" \/ (run.status = "failed" /\ agentStatus # "busy")
=============================================================================
