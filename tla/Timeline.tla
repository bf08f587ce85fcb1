------------------------------ MODULE Timeline ------------------------------
(***************************************************************************)
(* The pipeline a run is shown as (timeline.ts).  The client keeps its own *)
(* copy of these functions (web lib/timeline.ts) and must end up showing   *)
(* what the server stored.  An event is a record with a stage, a severity  *)
(* and whether its message begins with "awaiting".                         *)
(***************************************************************************)
EXTENDS Naturals, Sequences, SequencesExt, FiniteSetsExt

PIPELINE_STAGES == <<"queued", "recon", "manifest", "permit", "approval",
                     "container", "codex", "parsing", "reconciliation">>
TERMINAL_STAGES == {"completed", "failed", "cancelled"}
Stages          == Range(PIPELINE_STAGES) \cup TERMINAL_STAGES

Step     == DOMAIN PIPELINE_STAGES
Open     == {"active", "waiting"}
Status   == Open \cup {"pending", "complete", "skipped", "failed"}

\* The entries of the pipeline, then one entry for each time the run was closed.
TimelineType == [steps : [Step -> Status], ends : Seq(TERMINAL_STAGES)]

InitialTimeline ==
  [steps |-> [i \in Step |-> IF i = 1 THEN "active" ELSE "pending"], ends |-> << >>]

\* What becomes of an entry the run has moved past.
Passed(status) == IF status \in Open THEN "complete"
                  ELSE IF status = "pending" THEN "skipped" ELSE status

\* The status an event gives the entry of its own stage.
Shown(event) == IF event.severity = "error" THEN "failed"
                ELSE IF event.awaiting THEN "waiting" ELSE "active"

\* An event of a terminal stage has no entry to apply to.
ApplyEventToTimeline(timeline, event) ==
  [timeline EXCEPT !.steps = [i \in Step |->
    IF \E s \in Step : PIPELINE_STAGES[s] = event.stage /\ i < s THEN Passed(@[i])
    ELSE IF PIPELINE_STAGES[i] = event.stage THEN Shown(event) ELSE @[i]]]

\* What becomes of an entry when the run is closed.
Closed(status, terminal) ==
  IF status \in Open
  THEN CASE terminal = "completed" -> "complete"
         [] terminal = "cancelled" -> "skipped"
         [] OTHER                  -> "failed"
  ELSE IF status = "pending" THEN "skipped" ELSE status

FinalizeTimeline(timeline, terminal) ==
  [steps |-> [i \in Step |-> Closed(timeline.steps[i], terminal)],
   ends  |-> Append(timeline.ends, terminal)]

\* The stage applyRunEvent stores with a timeline an event was applied to.
StageShown(timeline) ==
  PIPELINE_STAGES[Min({i \in Step : timeline.steps[i] \in Open \cup {"failed"}})]

\* The client's reducer.
ReduceTimeline(timeline, event) ==
  IF event.stage \in TERMINAL_STAGES THEN FinalizeTimeline(timeline, event.stage)
  ELSE ApplyEventToTimeline(timeline, event)
=============================================================================
