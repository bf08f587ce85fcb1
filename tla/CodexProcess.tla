---------------------------- MODULE CodexProcess ----------------------------
(***************************************************************************)
(* The plain runners: CodexRunner runs Codex as a child of the server,     *)
(* ContainerCodexRunner runs the engine's client as that child and Codex   *)
(* in a container it starts.  One Agent, so one entry in the map of active *)
(* processes.  Both decide in the same order what the end of the child     *)
(* means; they differ in how they end it.                                  *)
(*                                                                         *)
(* A child has exited when its code is known and has closed when its pipes *)
(* are closed too; only then does the run go on.  Codex may ignore SIGTERM *)
(* and end at any time of itself, so the signal alone changes nothing here.*)
(***************************************************************************)
EXTENDS Naturals, Sequences

CONSTANTS Runs, NoRun

VARIABLES
  provider,   \* config.runtimeProvider, fixed while the server runs
  child,      \* "none", "alive", "exited"
  exit,       \* how the child ended: its code and whether it had answered
  active,     \* the entry of the active map
  removal     \* the run's termination: its rm --force of the Agent's container

process == <<provider, child, exit, active, removal>>

Exits    == {"answered", "silent", "failed"}
Idle     == [run |-> NoRun, cancelled |-> FALSE, timedOut |-> FALSE, outputExceeded |-> FALSE,
             forceKill |-> FALSE]
Running  == active.run # NoRun

ProcessInit(configured) ==
  /\ provider = configured
  /\ child = "none" /\ exit = "none" /\ active = Idle
  /\ removal = [r \in Runs |-> "none"]

\* The events a start and an end emit, in their order.
StartEvents ==
  IF provider = "container" THEN <<[stage |-> "container", severity |-> "info"],
                                   [stage |-> "container", severity |-> "success"],
                                   [stage |-> "codex", severity |-> "info"]>>
  ELSE <<[stage |-> "codex", severity |-> "info"]>>

\* Why the run fails or is cancelled, in the order the code asks.
FaultyVerdict ==
  IF active.timedOut \/ active.outputExceeded THEN "failed"
  ELSE IF active.cancelled THEN "cancelled"
  ELSE IF exit = "answered" THEN "completed" ELSE "failed"
Verdict ==
  IF active.cancelled THEN "cancelled"
  ELSE IF active.timedOut \/ active.outputExceeded \/ exit # "answered" THEN "failed"
  ELSE "completed"

CutShort == active.cancelled \/ active.timedOut \/ active.outputExceeded
EndEvents ==
  IF CutShort THEN << >>
  ELSE CASE exit = "answered" -> <<[stage |-> "codex", severity |-> "info"],
                                   [stage |-> "parsing", severity |-> "info"]>>
         [] exit = "silent"   -> <<[stage |-> "codex", severity |-> "info"]>>
         [] exit = "failed"   -> <<[stage |-> "codex", severity |-> "error"]>>

\* Ending the child.  terminate does nothing to one that has exited, even if its
\* pipes are open; a container is removed once, later calls get the first promise.
Terminate(entry) ==
  /\ active' = [entry EXCEPT !.forceKill = @ \/ (provider = "local-process" /\ child = "alive")]
  /\ removal' = IF provider = "container" /\ removal[entry.run] = "none"
                THEN [removal EXCEPT ![entry.run] = "asked"] ELSE removal

-----------------------------------------------------------------------------
\* Actions on the child; the composing module adds what the run emits and decides.

Spawn(r) ==
  /\ child' = "alive" /\ exit' = "none"
  /\ active' = [Idle EXCEPT !.run = r]
  /\ UNCHANGED <<provider, removal>>

\* The process ends of itself.
Exit ==
  /\ child = "alive"
  /\ child' = "exited"
  /\ exit' \in Exits
  /\ UNCHANGED <<provider, active, removal>>

\* codexMaxOutputBytes is passed: output can arrive until the close.
Overflow ==
  /\ Running /\ ~active.outputExceeded
  /\ Terminate([active EXCEPT !.outputExceeded = TRUE])
  /\ UNCHANGED <<provider, child, exit>>

\* codexTimeoutMs is over.
Timeout ==
  /\ Running /\ ~active.timedOut
  /\ Terminate([active EXCEPT !.timedOut = TRUE])
  /\ UNCHANGED <<provider, child, exit>>

\* The engine answers rm --force, or fails to, and the client is sent signals instead.
\* A container not created yet is removed by a command that succeeds and changes
\* nothing; the containers of all the Agent's runs have one name. The child is the
\* engine's client: after a removal that failed the container itself, which the code
\* no longer looks at and this module has no state for, may run on.
RemovalAnswers(r) ==
  /\ removal[r] = "asked"
  /\ removal' = [removal EXCEPT ![r] = "answered"]
  /\ \/ child = "alive" /\ child' = "exited" /\ exit' = "failed" /\ UNCHANGED active
     \/ UNCHANGED <<child, exit, active>>
     \/ /\ active.run = r /\ child = "alive"
        /\ active' = [active EXCEPT !.forceKill = TRUE]
        /\ UNCHANGED <<child, exit>>
  /\ UNCHANGED provider

\* SIGKILL, three seconds after SIGTERM.
KillTimer ==
  /\ active.forceKill /\ child = "alive"
  /\ child' = "exited" /\ exit' = "failed"
  /\ UNCHANGED <<provider, active, removal>>

\* The pipes close: the run leaves the map and settles.
Settle ==
  /\ child = "exited"
  /\ child' = "none" /\ exit' = "none" /\ active' = Idle
  /\ UNCHANGED <<provider, removal>>

\* A cancel that finds an active process marks it and ends it.
Mark ==
  /\ Terminate([active EXCEPT !.cancelled = TRUE])
  /\ UNCHANGED <<provider, child, exit>>
=============================================================================
