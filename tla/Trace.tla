-------------------------------- MODULE Trace --------------------------------
(***************************************************************************)
(* heimdall/trace.ts: the trace of a run, folded from the events the bus   *)
(* still holds for it.  Consecutive events of one stage are one span.      *)
(* Ids, times and durations are left out.                                  *)
(***************************************************************************)
EXTENDS Naturals, Sequences, FiniteSetsExt, Timeline

\* The positions at which a span begins, and where the span begun at i ends.
Begins(events) == {i \in DOMAIN events : i = 1 \/ events[i].stage # events[i - 1].stage}
EndOf(events, i) == Min({j \in Begins(events) : j > i} \cup {Len(events) + 1}) - 1

\* closeSpan is called on every span but the last, and on that one if the run is over.
SpanStatus(events, i) ==
  IF \E j \in i..EndOf(events, i) : events[j].severity = "error" THEN "error"
  ELSE IF EndOf(events, i) < Len(events) \/ Last(events).stage \in TERMINAL_STAGES THEN "ok"
  ELSE "in_progress"

\* No trace (404) without events.
BuildTrace(events) ==
  [spans  |-> [i \in Begins(events) |->
                [stage |-> events[i].stage, status |-> SpanStatus(events, i),
                 events |-> SubSeq(events, i, EndOf(events, i))]],
   status |-> IF \/ \E i \in Begins(events) : SpanStatus(events, i) = "error"
                 \/ Last(events).stage = "failed"
              THEN "error"
              ELSE IF Last(events).stage \in TERMINAL_STAGES THEN "ok" ELSE "in_progress"]
=============================================================================
