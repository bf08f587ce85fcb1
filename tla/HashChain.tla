------------------------------ MODULE HashChain ------------------------------
(***************************************************************************)
(* The chain of hashes that the ledger's events form (heimdall/store.ts),  *)
(* which Ledger.tla takes as unbroken.  An event's payload is a value;     *)
(* Hash stands for SHA-256 over the fields of an event, its index and the  *)
(* hash before it included.                                                *)
(***************************************************************************)
EXTENDS Integers, Sequences

CONSTANTS Payloads, Hash(_), GENESIS, Null

Last(s) == s[Len(s)]

Base(index, payload, prevHash) == [index |-> index, payload |-> payload, prevHash |-> prevHash]

\* hashEvent is given the event without its hash.
HashEvent(e) == Hash(Base(e.index, e.payload, e.prevHash))

IsEvent(e) == e = [index |-> e.index, payload |-> e.payload, prevHash |-> e.prevHash, hash |-> e.hash]

\* HeimdallStore.append: the index and the previous hash are those of the moment the
\* mutation runs, which is when its turn in the queue comes.
Appended(events, payload) ==
  LET base == Base(Len(events), payload, IF events = << >> THEN GENESIS ELSE Last(events).hash)
  IN Append(events, [index |-> base.index, payload |-> payload, prevHash |-> base.prevHash,
                     hash |-> Hash(base)])

\* What verify expects before the i-th event, and the links it stops at.
Prev(events, i)   == IF i = 1 THEN GENESIS ELSE events[i - 1].hash
Broken(events, i) == events[i].prevHash # Prev(events, i) \/ HashEvent(events[i]) # events[i].hash
BrokenLinks(events) == {i \in DOMAIN events : Broken(events, i)}

FirstOf(S) == CHOOSE i \in S : \A j \in S : i <= j

Verify(events) ==
  [valid    |-> BrokenLinks(events) = {},
   events   |-> Len(events),
   brokenAt |-> IF BrokenLinks(events) = {} THEN Null ELSE events[FirstOf(BrokenLinks(events))].index]

=============================================================================
