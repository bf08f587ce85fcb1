------------------------------- MODULE PureProofs -------------------------------
(***************************************************************************)
(* The theorems about operators that no run has variables for: what        *)
(* verifying the ledger's chain of hashes shows, for a ledger of any       *)
(* length, on the assumption that different events have different hashes,  *)
(* and what a failed or a quiet run is told by, for every chain of causes, *)
(* every timeline and every reading of the clock.                          *)
(***************************************************************************)
EXTENDS HashChain, Failures, WellFoundedInduction, TLAPS

Valid(events) == \A i \in DOMAIN events : ~Broken(events, i)

\* Every non-empty set of natural numbers has a least element.
LEMMA Least ==
  ASSUME NEW T, T \subseteq Nat, T # {}
  PROVE  \E x \in T : \A y \in T : x <= y
<1> DEFINE Less == {ss \in Nat \X Nat : ss[1] < ss[2]}
<1>1. OpToRel(<, Nat) = Less
  BY Zenon DEF OpToRel
<1>2. \E x \in T : \A y \in T : <<y, x>> \notin OpToRel(<, Nat)
  BY NatLessThanWellFounded, WFMin
<1>3. PICK x \in T : \A y \in T : <<y, x>> \notin Less
  BY <1>1, <1>2
<1>4. ASSUME NEW y \in T PROVE x <= y
  <2>1. x \in Nat /\ y \in Nat
    OBVIOUS
  <2>2. y < x => <<y, x>> \in Less
    BY <2>1
  <2> HIDE DEF Less
  <2>3. ~(y < x)
    BY <1>3, <2>2
  <2> QED BY <2>1, <2>3
<1> QED BY <1>4

\* verify reports the first event that does not follow from the one before it, and
\* none exactly when all of them do.
THEOREM VerifyFindsTheFirst ==
  ASSUME NEW S, NEW events \in Seq(S)
  PROVE  /\ Verify(events).valid <=> Valid(events)
         /\ ~Valid(events) => \E i \in DOMAIN events :
              /\ Broken(events, i) /\ \A j \in DOMAIN events : j < i => ~Broken(events, j)
              /\ Verify(events).brokenAt = events[i].index
<1>1. Verify(events).valid <=> Valid(events)
  BY DEF Verify, Valid, BrokenLinks
<1>2. ASSUME ~Valid(events)
      PROVE  \E i \in DOMAIN events :
               /\ Broken(events, i) /\ \A j \in DOMAIN events : j < i => ~Broken(events, j)
               /\ Verify(events).brokenAt = events[i].index
  <2>1. BrokenLinks(events) \subseteq Nat /\ BrokenLinks(events) # {}
    BY <1>2 DEF BrokenLinks, Valid
  <2>2. PICK i \in BrokenLinks(events) : \A j \in BrokenLinks(events) : i <= j
    BY <2>1, Least
  <2>3. FirstOf(BrokenLinks(events)) = i
    <3>1. \A k \in BrokenLinks(events) : (\A j \in BrokenLinks(events) : k <= j) => k = i
      BY <2>1, <2>2
    <3> QED BY <2>2, <3>1 DEF FirstOf
  <2>4. Verify(events).brokenAt = events[i].index
    BY <2>1, <2>3 DEF Verify
  <2>5. \A j \in DOMAIN events : j < i => ~Broken(events, j)
    BY <2>1, <2>2 DEF BrokenLinks
  <2> QED BY <2>2, <2>4, <2>5 DEF BrokenLinks
<1> QED BY <1>1, <1>2

\* An append to a ledger that verifies gives one that verifies, in whatever order the
\* appends of two runs take their turns.
THEOREM AppendKeepsTheChain ==
  ASSUME NEW S, NEW events \in Seq(S), NEW payload, Valid(events)
  PROVE  Valid(Appended(events, payload))
<1> DEFINE n    == Len(events)
           prev == IF events = << >> THEN GENESIS ELSE Last(events).hash
           e    == [index |-> n, payload |-> payload, prevHash |-> prev, hash |-> Hash(Base(n, payload, prev))]
           new  == Append(events, e)
<1>1. Appended(events, payload) = new
  BY DEF Appended, Base
<1>2. e.index = n /\ e.payload = payload /\ e.prevHash = prev /\ e.hash = Hash(Base(n, payload, prev))
  OBVIOUS
<1> HIDE DEF e
<1>3. /\ n \in Nat /\ DOMAIN events = 1..n /\ DOMAIN new = 1..(n + 1) /\ new[n + 1] = e
      /\ \A i \in 1..n : new[i] = events[i]
  OBVIOUS
<1> HIDE DEF new, prev
<1>4. ASSUME NEW i \in 1..n PROVE ~Broken(new, i)
  <2>1. new[i] = events[i] /\ ~Broken(events, i)
    BY <1>3 DEF Valid
  <2>2. Prev(new, i) = Prev(events, i)
    <3>1. i # 1 => new[i - 1] = events[i - 1]
      BY <1>3
    <3> QED BY <3>1 DEF Prev
  <2> QED BY <2>1, <2>2 DEF Broken
<1>5. ~Broken(new, n + 1)
  <2>1. Prev(new, n + 1) = prev
    <3>1. CASE n = 0
      <4>1. events = << >>
        BY <3>1
      <4> QED BY <3>1, <4>1 DEF Prev, prev
    <3>2. CASE n # 0
      <4>1. events # << >> /\ n + 1 # 1 /\ new[(n + 1) - 1] = events[n]
        BY <1>3, <3>2
      <4> QED BY <4>1 DEF Prev, prev, Last
    <3> QED BY <3>1, <3>2
  <2> QED BY <1>2, <1>3, <2>1 DEF Broken, HashEvent
<1> QED BY <1>1, <1>3, <1>4, <1>5 DEF Valid

\* Two ledgers that verify, have the same number of events and end in the same hash
\* are the same ledger: a change to any event, however many of the hashes after it are
\* made to fit, shows in verify, in the number of events or in the last hash.
THEOREM ChainFixesTheLedger ==
  ASSUME NEW S, NEW old \in Seq(S), NEW new \in Seq(S), \A e \in S : IsEvent(e),
         \A i, j, p, q, f, g : Hash(Base(i, p, f)) = Hash(Base(j, q, g)) => i = j /\ p = q /\ f = g,
         Valid(old), Valid(new), Len(old) = Len(new),
         old # << >> => Last(old).hash = Last(new).hash
  PROVE  old = new
<1> DEFINE n == Len(old)
           D == {d \in Nat : d < n /\ old[n - d] # new[n - d]}
<1>1. n \in Nat /\ DOMAIN old = 1..n /\ DOMAIN new = 1..n
  OBVIOUS
<1>2. ASSUME NEW i \in 1..n, old[i].hash = new[i].hash
      PROVE  old[i] = new[i] /\ old[i].prevHash = new[i].prevHash
  <2>1. IsEvent(old[i]) /\ IsEvent(new[i]) /\ ~Broken(old, i) /\ ~Broken(new, i)
    BY <1>1 DEF Valid
  <2>2. Hash(Base(old[i].index, old[i].payload, old[i].prevHash)) = Hash(Base(new[i].index, new[i].payload, new[i].prevHash))
    BY <1>2, <2>1 DEF Broken, HashEvent
  <2>3. /\ old[i].index = new[i].index /\ old[i].payload = new[i].payload
        /\ old[i].prevHash = new[i].prevHash
    BY <2>2
  <2> QED BY <1>2, <2>1, <2>3 DEF IsEvent
<1>3. D = {}
  <2> SUFFICES ASSUME D # {} PROVE FALSE
    OBVIOUS
  <2>1. PICK d \in D : \A c \in D : d <= c
    BY Least
  <2>2. d \in Nat /\ d < n /\ old[n - d] # new[n - d] /\ n - d \in 1..n
    BY <1>1, <2>1
  <2>3. old[n - d].hash = new[n - d].hash
    <3>1. CASE d = 0
      <4>1. old # << >> /\ n - d = n
        BY <1>1, <2>2, <3>1
      <4> QED BY <4>1 DEF Last
    <3>2. CASE d # 0
      <4>1. d - 1 \in Nat /\ d - 1 < n /\ d - 1 \notin D
        BY <1>1, <2>1, <2>2, <3>2
      <4>2. PICK k : k = n - (d - 1) /\ k \in 1..n /\ k # 1 /\ k - 1 = n - d
        BY <1>1, <2>2, <3>2
      <4>3. old[k] = new[k]
        BY <4>1, <4>2
      <4>4. old[k].prevHash = new[k].prevHash /\ ~Broken(old, k) /\ ~Broken(new, k)
        BY <1>1, <4>2, <4>3 DEF Valid
      <4>5. old[k].prevHash = old[k - 1].hash /\ new[k].prevHash = new[k - 1].hash
        BY <4>2, <4>4 DEF Broken, Prev
      <4> QED BY <4>2, <4>4, <4>5
    <3> QED BY <3>1, <3>2
  <2> QED BY <1>2, <2>2, <2>3
<1>4. ASSUME NEW i \in 1..n PROVE old[i] = new[i]
  <2>1. n - i \in Nat /\ n - i < n /\ n - (n - i) = i
    BY <1>1
  <2> QED BY <1>3, <2>1
<1> QED BY <1>1, <1>4

\* What the chain does not show: a ledger whose last events are gone verifies as well as
\* the whole one.  Only the number of events tells them apart.
THEOREM PrefixVerifies ==
  ASSUME NEW S, NEW events \in Seq(S), Valid(events), NEW n \in 0..Len(events)
  PROVE  Valid(SubSeq(events, 1, n))
<1>1. /\ DOMAIN SubSeq(events, 1, n) = 1..n /\ 1..n \subseteq DOMAIN events
      /\ \A i \in 1..n : SubSeq(events, 1, n)[i] = events[i]
  OBVIOUS
<1> DEFINE some == SubSeq(events, 1, n)
<1> HIDE DEF some
<1>2. ASSUME NEW i \in 1..n PROVE ~Broken(some, i)
  <2>1. some[i] = events[i] /\ ~Broken(events, i) /\ (i # 1 => some[i - 1] = events[i - 1])
    BY <1>1 DEF Valid, some
  <2>2. Prev(some, i) = Prev(events, i)
    BY <2>1 DEF Prev
  <2> QED BY <2>1, <2>2 DEF Broken
<1> QED BY <1>1, <1>2 DEF Valid, some

-----------------------------------------------------------------------------

\* The first of a set of positive numbers is in it, and before the others.
LEMMA FirstIsLeast ==
  ASSUME NEW S, NEW n \in S, S \subseteq Nat, \A j \in S : n <= j
  PROVE  First(S) = n
<1>1. \A i \in S : (\A j \in S : i <= j) => i = n
  BY Z3
<1> QED BY <1>1 DEF First

\* serializeError comes to an end on every error, a cause that leads back to itself
\* included: MAX_CAUSE_DEPTH + 1 nodes at most are stored, and they are the first ones.
THEOREM ChainIsCut ==
  ASSUME NEW chain \in Chains
  PROVE  /\ DOMAIN SerializeError(chain) \subseteq 1..(MAX_CAUSE_DEPTH + 1)
         /\ 1 \in DOMAIN SerializeError(chain)
         /\ \A i \in DOMAIN SerializeError(chain) : \A j \in 1..i : j \in DOMAIN SerializeError(chain)
<1>1. DOMAIN SerializeError(chain) = Kept(chain)
  BY DEF SerializeError
<1>2. \/ \E n \in Nat \ {0} : DOMAIN chain = 1..n
      \/ DOMAIN chain = Nat \ {0}
  <2>1. CASE chain \in [Nat \ {0} -> Node]
    BY <2>1
  <2>2. CASE chain \in UNION {[1..n -> Node] : n \in Nat \ {0}}
    <3>1. PICK n \in Nat \ {0} : chain \in [1..n -> Node]
      BY <2>2
    <3> QED BY <3>1
  <2> QED BY <2>1, <2>2 DEF Chains
<1>3. DOMAIN chain \subseteq Nat \ {0} /\ 1 \in DOMAIN chain
      /\ \A i \in DOMAIN chain : \A j \in 1..i : j \in DOMAIN chain
  <2>1. CASE \E n \in Nat \ {0} : DOMAIN chain = 1..n
    BY <2>1
  <2>2. CASE DOMAIN chain = Nat \ {0}
    BY <2>2
  <2> QED BY <1>2, <2>1, <2>2
<1> QED BY <1>1, <1>3 DEF Kept, MAX_CAUSE_DEPTH

\* The output of a runtime that failed reaches the stored run, however the error was
\* wrapped: the first error that carries any, when nothing above it in the chain does
\* and it is no deeper than serializeError goes.
THEOREM LogsReachTheRun ==
  ASSUME Empty # Absent, NEW chain \in Chains, NEW n \in DOMAIN chain, n <= MAX_CAUSE_DEPTH + 1,
         chain[n].isError, chain[n].stdout \notin {Absent, Empty} \/ chain[n].stderr \notin {Absent, Empty},
         \A i \in 1..(n - 1) : chain[i].isError /\ chain[i].stdout \in {Absent, Empty}
                                                /\ chain[i].stderr \in {Absent, Empty}
  PROVE  FindLogsInChain(SerializeError(chain)) =
           [stdout |-> Given(chain[n].stdout, Empty), stderr |-> Given(chain[n].stderr, Empty)]
<1> DEFINE error == SerializeError(chain)
           S     == {i \in DOMAIN error : HasLogs(error[i])}
<1>1. /\ DOMAIN chain \subseteq Nat \ {0}
      /\ \A i \in DOMAIN chain : chain[i] \in Node
  <2>1. CASE chain \in [Nat \ {0} -> Node]
    BY <2>1
  <2>2. CASE chain \in UNION {[1..m -> Node] : m \in Nat \ {0}}
    <3>1. PICK m \in Nat \ {0} : chain \in [1..m -> Node]
      BY <2>2
    <3> QED BY <3>1
  <2> QED BY <2>1, <2>2 DEF Chains
<1>2. /\ DOMAIN error = Kept(chain) /\ \A i \in Kept(chain) : error[i] = Serialized(chain[i])
      /\ Kept(chain) \subseteq DOMAIN chain
  BY DEF SerializeError, Kept
<1>3. n \in Kept(chain)
  BY <1>1 DEF Kept
<1>4. /\ error[n].stdout = Output(chain[n].stdout)
      /\ error[n].stderr = Output(chain[n].stderr)
  <2>1. chain[n] \in Node /\ error[n] = Serialized(chain[n])
    BY <1>1, <1>2, <1>3
  <2> HIDE DEF error
  <2> QED BY <2>1 DEF Serialized, Node
<1>5. HasLogs(error[n])
  BY <1>4 DEF HasLogs, Output
<1>6. ASSUME NEW i \in Kept(chain), i < n PROVE ~HasLogs(error[i])
  <2>1. i \in 1..(n - 1) /\ chain[i] \in Node
    BY <1>1, <1>2, <1>6
  <2>2. /\ error[i].stdout = Output(chain[i].stdout)
        /\ error[i].stderr = Output(chain[i].stderr)
    BY <1>2, <2>1 DEF Serialized, Node
  <2> QED BY <2>1, <2>2 DEF HasLogs, Output
<1> HIDE DEF error
<1>7. S \subseteq Nat /\ n \in S /\ \A j \in S : n <= j
  BY <1>1, <1>2, <1>3, <1>5, <1>6
<1>8. First(S) = n
  BY <1>7, FirstIsLeast
<1>9. FindLogsInChain(error) = [stdout |-> Given(error[n].stdout, Empty), stderr |-> Given(error[n].stderr, Empty)]
  BY <1>7, <1>8 DEF FindLogsInChain
<1>10. /\ Given(error[n].stdout, Empty) = Given(chain[n].stdout, Empty)
       /\ Given(error[n].stderr, Empty) = Given(chain[n].stderr, Empty)
  BY <1>4 DEF Given, Output
<1> QED BY <1>9, <1>10 DEF error

\* A run is reported as stuck when it is not over and either nothing was heard of it
\* for longer than the threshold or it waits for an approval; a run that is over never
\* is, and one that was heard of lately is only for the approval it waits for.
THEOREM AlarmedWhenStuck ==
  ASSUME NEW run, NEW now, NEW stall
  PROVE  IsDiagnosisAlarming(DiagnoseRun(run, now, stall)) <=>
           ~Terminal(run) /\ (IsStale(run, now, stall) \/ AwaitsApproval(run))
<1>1. Quiet(run) \notin {"ok", "terminal"}
  BY DEF Quiet
<1>2. Terminal(run) \in BOOLEAN /\ IsStale(run, now, stall) \in BOOLEAN
      /\ SawAnyProgress(run) \in BOOLEAN /\ AwaitsApproval(run) \in BOOLEAN
  BY DEF Terminal, IsStale, SawAnyProgress, AwaitsApproval
<1>3. DiagnoseRun(run, now, stall).health = Health(run, now, stall)
  BY DEF DiagnoseRun
<1>4. IsStale(run, now, stall) => ~Terminal(run)
  BY DEF IsStale
<1>5. CASE Terminal(run)
  BY <1>2, <1>3, <1>4, <1>5 DEF Health, IsDiagnosisAlarming, Silent, Asking, Stuck
<1>6. CASE Silent(run, now, stall)
  BY <1>2, <1>3, <1>4, <1>6 DEF Health, IsDiagnosisAlarming, Silent, Asking, Stuck
<1>7. CASE Asking(run, now, stall)
  BY <1>2, <1>3, <1>4, <1>7 DEF Health, IsDiagnosisAlarming, Silent, Asking, Stuck
<1>8. CASE Stuck(run, now, stall)
  BY <1>1, <1>2, <1>3, <1>4, <1>8 DEF Health, IsDiagnosisAlarming, Silent, Asking, Stuck
<1>9. CASE ~Terminal(run) /\ ~IsStale(run, now, stall) /\ ~AwaitsApproval(run)
  BY <1>2, <1>3, <1>4, <1>9 DEF Health, IsDiagnosisAlarming, Silent, Asking, Stuck
<1> QED BY <1>2, <1>4, <1>5, <1>6, <1>7, <1>8, <1>9 DEF Silent, Asking, Stuck

\* Silence is not taken back by waiting.
LEMMA StaleStaysStale ==
  ASSUME NEW run, NEW now \in Int, NEW later \in Int, NEW stall \in Nat, now <= later,
         run.createdAt \in Int, run.lastEventAt \in Int \cup {None}, IsStale(run, now, stall)
  PROVE  IsStale(run, later, stall)
<1> DEFINE heard == IF run.lastEventAt = None THEN run.createdAt ELSE run.lastEventAt
<1>1. heard \in Int
  OBVIOUS
<1>2. ~Terminal(run) /\ Since(now, heard) > stall
  BY DEF IsStale, ElapsedSinceLastEvent
<1> HIDE DEF heard
<1>3. Since(later, heard) >= Since(now, heard) /\ Since(later, heard) \in Int /\ Since(now, heard) \in Int
  BY <1>1 DEF Since
<1>4. Since(later, heard) > stall
  BY <1>2, <1>3
<1> QED BY <1>2, <1>4 DEF IsStale, ElapsedSinceLastEvent, heard

\* A run that is not over and was silent for longer than the threshold is shown as
\* stuck, then and for as long as nothing more is heard of it, in every stage of the
\* pipeline: no stage's wait is taken for progress.
THEOREM SilenceIsShown ==
  ASSUME NEW run, NEW now \in Int, NEW later \in Int, NEW stall \in Nat, now <= later,
         run.createdAt \in Int, run.lastEventAt \in Int \cup {None}, IsStale(run, now, stall)
  PROVE  ShouldShow(run, later, stall)
<1>1. IsStale(run, later, stall)
  BY StaleStaysStale
<1>2. ~Terminal(run)
  BY <1>1 DEF IsStale
<1> QED BY <1>1, <1>2, AlarmedWhenStuck DEF ShouldShow

=============================================================================
