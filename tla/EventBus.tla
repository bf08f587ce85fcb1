------------------------------ MODULE EventBus ------------------------------
(***************************************************************************)
(* RunEventBus (events.ts): one sequence number for all runs, a bounded    *)
(* buffer for each of a bounded number of runs, and the listeners of each  *)
(* run.  A bus is a record; a Map keeps the order its keys were set in, so *)
(* the buffers are a sequence.                                             *)
(***************************************************************************)
EXTENDS Naturals, Sequences, SequencesExt, FiniteSetsExt

CONSTANTS MaxBuffered,   \* MAX_EVENTS_PER_RUN
          MaxTracked     \* MAX_TRACKED_RUNS

ASSUME LimitsAssumption == MaxBuffered \in Nat \ {0} /\ MaxTracked \in Nat \ {0}

NewBus(runs) == [seq |-> 0, buffers |-> << >>, listeners |-> [r \in runs |-> {}]]

IsBuffered(bus, run) == \E i \in DOMAIN bus.buffers : bus.buffers[i].run = run
Events(bus, run) ==
  IF IsBuffered(bus, run)
  THEN bus.buffers[CHOOSE i \in DOMAIN bus.buffers : bus.buffers[i].run = run].events
  ELSE << >>

\* The oldest buffer nobody listens to goes; if all are listened to, none does.
EvictIfNeeded(bus) ==
  LET Unheard == {i \in DOMAIN bus.buffers : bus.listeners[bus.buffers[i].run] = {}}
  IN IF Len(bus.buffers) < MaxTracked \/ Unheard = {} THEN bus
     ELSE [bus EXCEPT !.buffers = RemoveAt(@, Min(Unheard))]

\* The newest MaxBuffered events are kept.
FaultyCapped(events) == IF Len(events) > MaxBuffered THEN Front(events) ELSE events
Capped(events) == IF Len(events) > MaxBuffered THEN Tail(events) ELSE events

\* The run's buffer is there before the event is added to it.
Track(bus, run) ==
  IF IsBuffered(bus, run) THEN bus
  ELSE [EvictIfNeeded(bus) EXCEPT !.buffers = Append(@, [run |-> run, events |-> << >>])]
Hold(buffer, event) ==
  IF buffer.run = event.run THEN [buffer EXCEPT !.events = Capped(Append(@, event))] ELSE buffer

\* emit numbers the event and keeps it.  The listeners it then calls, in the same
\* turn, are the composing module's.
Numbered(bus, event) == [event EXCEPT !.seq = bus.seq]
Emit(bus, event) ==
  LET tracked == Track(bus, event.run)
  IN [tracked EXCEPT !.seq = @ + 1,
                     !.buffers = [i \in DOMAIN @ |-> Hold(@[i], Numbered(bus, event))]]

Subscribe(bus, run, listener)   == [bus EXCEPT !.listeners[run] = @ \cup {listener}]
Unsubscribe(bus, run, listener) == [bus EXCEPT !.listeners[run] = @ \ {listener}]
=============================================================================
