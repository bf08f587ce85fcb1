------------------------- MODULE CoordinationProofs -------------------------
(***************************************************************************)
(* Theorems about Coordination, for any participants, bounds of the        *)
(* countdown and number of drivers: the coordinator implements Countdown,  *)
(* keeps the rotation and never orphans a turn.                            *)
(***************************************************************************)
EXTENDS Coordination, SequenceTheorems, FiniteSetTheorems, TLAPS

\* The committed messages are the countdown so far, and next follows them.
CountsSoFar ==
  /\ \A i \in DOMAIN messages : messages[i].value = From - i + 1
  /\ next = From - Len(messages)
  /\ status = "running" => next >= To

RunningHasTurn == \A d \in Drivers : pc[d] = "running" => turn[d] \in Agents

\* The inductive invariant.
IInv ==
  /\ TypeOK
  /\ CountsSoFar
  /\ RunningHasTurn
  /\ TurnIsCurrent
  /\ RoundRobin
  /\ TurnHasDriver

-----------------------------------------------------------------------------

\* The rotation always names a participant: the modulus stays within the list.
LEMMA NextParticipantType == TypeOK => NextParticipant \in Agents
<1> SUFFICES ASSUME TypeOK
             PROVE  NextParticipant \in Agents
  OBVIOUS
<1>1. Len(messages) \in Nat
  BY DEF TypeOK
<1>2. Len(Participants) \in Nat \ {0} /\ DOMAIN Participants = 1..Len(Participants)
  BY SessionAssumption
<1>3. Len(messages) % Len(Participants) \in 0..(Len(Participants) - 1)
  BY <1>1, <1>2
<1>4. (Len(messages) % Len(Participants)) + 1 \in DOMAIN Participants
  BY <1>2, <1>3
<1>5. QED
  BY <1>4 DEF NextParticipant, Agents

\* A new session satisfies the invariant.
LEMMA InvInit == Init => IInv
<1> SUFFICES ASSUME Init
             PROVE  IInv
  OBVIOUS
<1>1. TypeOK
  BY SessionAssumption DEF Init, TypeOK
<1>2. CountsSoFar
  BY SessionAssumption DEF Init, CountsSoFar
<1>3. RunningHasTurn /\ TurnIsCurrent /\ RoundRobin /\ TurnHasDriver
  BY DEF Init, RunningHasTurn, TurnIsCurrent, RoundRobin, TurnHasDriver
<1>4. QED
  BY <1>1, <1>2, <1>3 DEF IInv

-----------------------------------------------------------------------------
(***************************************************************************)
(* One lemma per action.                                                   *)
(***************************************************************************)

\* A turn offered, or offered to an Agent that is gone, keeps the invariant: it is
\* of the next participant and for the next value.
LEMMA OfferKeeps ==
  ASSUME IInv, NEW d \in Drivers, Offer(d) \/ OfferGone(d)
  PROVE  IInv'
<1> USE DEF IInv, TypeOK, driving
<1>0. NextParticipant \in Agents
  BY NextParticipantType
<1>1. TypeOK'
  <2>1. rejections' \in Nat
    BY DEF Offer, OfferGone
  <2>2. inFlight' \in Turn \cup {NoTurn}
    <3>1. [agent |-> NextParticipant, expected |-> next, expired |-> FALSE] \in Turn
      BY <1>0 DEF Turn
    <3>2. QED
      BY <3>1 DEF Offer, OfferGone
  <2>3. lastRejected' \in Rejected \cup {NoTurn}
    BY <1>0 DEF Offer, OfferGone, Rejected, Rejection, Turn
  <2>4. attempt' \in [Drivers -> Nat]
    BY DEF Offer, OfferGone, Skipped
  <2>5. /\ pc' \in [Drivers -> {"asleep", "offering", "running", "left"}]
        /\ turn' \in [Drivers -> Agents \cup {NoTurn}]
    BY <1>0 DEF Offer, OfferGone
  <2>6. QED
    BY <2>1, <2>2, <2>3, <2>4, <2>5 DEF Offer, OfferGone
<1>2. CountsSoFar' /\ RoundRobin'
  BY DEF Offer, OfferGone, CountsSoFar, RoundRobin
<1>3. RunningHasTurn'
  BY <1>0 DEF Offer, OfferGone, RunningHasTurn
<1>4. TurnIsCurrent'
  BY DEF Offer, OfferGone, TurnIsCurrent, NextParticipant, Claimable
<1>5. TurnHasDriver'
  BY <1>0 DEF Offer, OfferGone, TurnHasDriver
<1>6. QED
  BY <1>1, <1>2, <1>3, <1>4, <1>5

\* A turn that ends without a commit clears its Agent's turn or touches none.
LEMMA TurnEnds ==
  ASSUME IInv, NEW d \in Drivers, pc[d] = "running", GoesOn(d),
         UNCHANGED <<next, messages, status>>,
         \/ inFlight' = NoTurn
         \/ inFlight' = inFlight /\ ~(status = "running" /\ Holds(turn[d])),
         rejections' \in Nat, lastRejected' \in Rejected \cup {NoTurn}
  PROVE  IInv'
<1> USE DEF IInv, TypeOK, GoesOn
<1>1. TypeOK'
  BY DEF GoesOnAfter
<1>2. CountsSoFar' /\ RoundRobin'
  BY DEF CountsSoFar, RoundRobin
<1>3. RunningHasTurn'
  BY DEF RunningHasTurn, GoesOnAfter
<1>4. TurnIsCurrent'
  BY DEF TurnIsCurrent, NextParticipant
<1>5. TurnHasDriver'
  BY DEF TurnHasDriver, TurnIsCurrent, Holds
<1>6. QED
  BY <1>1, <1>2, <1>3, <1>4, <1>5

\* An accepted commit keeps the invariant: the value it appends is the one the
\* countdown expects, from the participant whose turn it is.
LEMMA CommitKeeps ==
  ASSUME IInv, NEW d \in Drivers, NEW said \in Replies, CommitAccepted(d, said)
  PROVE  IInv'
<1> USE DEF IInv, TypeOK, CommitAccepted
<1> DEFINE m == [agent |-> turn[d], value |-> said]
<1>1. /\ inFlight # NoTurn /\ inFlight \in Turn
      /\ said = next /\ turn[d] = NextParticipant /\ turn[d] \in Agents
      /\ next' = next - 1
  BY DEF Holds, Accepts, TurnIsCurrent, Runs, RunningHasTurn
<1>2. m \in Message
  BY <1>1 DEF Message, Turn
<1>3. /\ messages' = Append(messages, m) /\ messages' \in Seq(Message)
      /\ Len(messages') = Len(messages) + 1
      /\ DOMAIN messages' = 1..(Len(messages) + 1)
      /\ messages'[Len(messages) + 1] = m
      /\ \A i \in 1..Len(messages) : messages'[i] = messages[i]
      /\ DOMAIN messages = 1..Len(messages) /\ Len(messages) \in Nat
  BY <1>2
<1>4. TypeOK'
  <2>1. next' \in Int
    BY <1>1
  <2>2. status' \in {"running", "completed", "stopped"}
    OBVIOUS
  <2>3. /\ pc' \in [Drivers -> {"asleep", "offering", "running", "left"}]
        /\ turn' \in [Drivers -> Agents \cup {NoTurn}]
        /\ UNCHANGED <<gone, attempt>>
    BY DEF GoesOn
  <2>4. QED
    BY <1>3, <2>1, <2>2, <2>3
<1>5. CountsSoFar'
  <2>1. next' = From - Len(messages')
    BY <1>1, <1>3, SessionAssumption DEF CountsSoFar
  <2>2. \A i \in DOMAIN messages' : messages'[i].value = From - i + 1
    BY <1>1, <1>3, SessionAssumption DEF CountsSoFar
  <2>3. status' = "running" => next' >= To
    BY <1>1, SessionAssumption DEF Reached
  <2>4. QED
    BY <2>1, <2>2, <2>3 DEF CountsSoFar
<1>6. RunningHasTurn'
  BY DEF GoesOn, GoesOnAfter, RunningHasTurn
<1>7. TurnIsCurrent' /\ TurnHasDriver'
  BY DEF TurnIsCurrent, TurnHasDriver
<1>8. RoundRobin'
  <2> SUFFICES ASSUME NEW i \in DOMAIN messages'
               PROVE  messages'[i].agent = Participants[((i - 1) % Len(Participants)) + 1]
    BY DEF RoundRobin
  <2>1. CASE i \in 1..Len(messages)
    BY <1>3, <2>1 DEF RoundRobin
  <2>2. CASE i = Len(messages) + 1
    <3>1. messages'[i].agent = turn[d] /\ i - 1 = Len(messages)
      BY <1>3, <2>2
    <3>2. QED
      BY <1>1, <3>1 DEF NextParticipant
  <2>3. QED
    BY <1>3, <2>1, <2>2
<1>9. QED
  BY <1>4, <1>5, <1>6, <1>7, <1>8

\* Every step keeps the invariant.
LEMMA Inductive == IInv /\ [Next]_vars => IInv'
<1> SUFFICES ASSUME IInv, [Next]_vars
             PROVE  IInv'
  OBVIOUS
<1>1. ASSUME NEW d \in Drivers, Begin(d) \/ Leave(d)
      PROVE  IInv'
  BY <1>1 DEF Begin, Leave, session, IInv, TypeOK, CountsSoFar, RunningHasTurn, TurnIsCurrent,
     RoundRobin, TurnHasDriver, NextParticipant
<1>2. ASSUME NEW d \in Drivers, Offer(d) \/ OfferGone(d)
      PROVE  IInv'
  BY <1>2, OfferKeeps
<1>3. ASSUME NEW d \in Drivers, RunSettles(d)
      PROVE  IInv'
  <2>1. ASSUME NEW said \in Replies, CommitAccepted(d, said)
        PROVE  IInv'
    BY <2>1, CommitKeeps
  <2>2. ASSUME NEW said \in Replies, CommitRejected(d, said)
        PROVE  IInv'
    <3>1. /\ pc[d] = "running" /\ GoesOn(d) /\ UNCHANGED <<next, messages, status>>
          /\ inFlight' = NoTurn
      BY <2>2 DEF CommitRejected, Runs
    <3>2. rejections' \in Nat
      BY <2>2 DEF CommitRejected, IInv, TypeOK
    <3>3. lastRejected' \in Rejected \cup {NoTurn}
      BY <2>2 DEF CommitRejected, Runs, IInv, TypeOK, RunningHasTurn, Rejection, Rejected
    <3>4. QED
      BY <3>1, <3>2, <3>3, TurnEnds
  <2>3. CASE CommitIgnored(d)
    BY <2>3, TurnEnds DEF CommitIgnored, Runs, session, IInv, TypeOK
  <2>4. CASE Fail(d)
    <3>1. /\ pc[d] = "running" /\ GoesOn(d) /\ UNCHANGED <<next, messages, status>>
          /\ \/ inFlight' = NoTurn
             \/ inFlight' = inFlight /\ ~(status = "running" /\ Holds(turn[d]))
      BY <2>4 DEF Fail, Runs, GivenBack
    <3>2. rejections' \in Nat
      BY <2>4 DEF Fail, IInv, TypeOK
    <3>3. lastRejected' \in Rejected \cup {NoTurn}
      BY <2>4 DEF Fail, Runs, IInv, TypeOK, RunningHasTurn, Rejection, Rejected
    <3>4. QED
      BY <3>1, <3>2, <3>3, TurnEnds
  <2>5. QED
    BY <1>3, <2>1, <2>2, <2>3, <2>4 DEF RunSettles
<1>4. CASE Stop
  BY <1>4 DEF Stop, TurnAfterStop, driving, IInv, TypeOK, CountsSoFar, RunningHasTurn,
     TurnIsCurrent, RoundRobin, TurnHasDriver
<1>5. CASE DeadlinePasses
  <2>1. /\ inFlight' \in Turn /\ inFlight # NoTurn /\ inFlight \in Turn
        /\ inFlight'.agent = inFlight.agent /\ inFlight'.expected = inFlight.expected
    BY <1>5 DEF DeadlinePasses, IInv, TypeOK, Turn
  <2>2. UNCHANGED <<status, next, messages, rejections, lastRejected, gone, pc, turn, attempt>>
    BY <1>5 DEF DeadlinePasses, driving
  <2>3. QED
    BY <2>1, <2>2 DEF IInv, TypeOK, CountsSoFar, RunningHasTurn, TurnIsCurrent, RoundRobin,
       TurnHasDriver, NextParticipant
<1>6. ASSUME NEW a \in Agents, DeleteAgent(a)
      PROVE  IInv'
  BY <1>6 DEF DeleteAgent, session, driving, IInv, TypeOK, CountsSoFar, RunningHasTurn,
     TurnIsCurrent, RoundRobin, TurnHasDriver, NextParticipant
<1>7. CASE UNCHANGED vars
  BY <1>7 DEF vars, session, driving, IInv, TypeOK, CountsSoFar, RunningHasTurn, TurnIsCurrent,
     RoundRobin, TurnHasDriver, NextParticipant
<1>8. QED
  BY <1>1, <1>2, <1>3, <1>4, <1>5, <1>6, <1>7 DEF Next, DriverStep, LoopStep

-----------------------------------------------------------------------------
(***************************************************************************)
(* The theorems.                                                           *)
(***************************************************************************)

\* The invariant holds of every behaviour.
THEOREM Invariance == Spec => []IInv
  BY InvInit, Inductive, PTL DEF Spec

\* Every variable keeps its type: a committed value is always a number.
THEOREM TypeCorrect == Spec => []TypeOK
<1>1. IInv => TypeOK
  BY DEF IInv
<1>2. QED
  BY <1>1, Invariance, PTL

\* A turn in flight is for the current number and participant.
THEOREM TurnsAreCurrent == Spec => []TurnIsCurrent
<1>1. IInv => TurnIsCurrent
  BY DEF IInv
<1>2. QED
  BY <1>1, Invariance, PTL

\* Messages follow the rotation of the participants.
THEOREM Rotation == Spec => []RoundRobin
<1>1. IInv => RoundRobin
  BY DEF IInv
<1>2. QED
  BY <1>1, Invariance, PTL

\* No turn in flight is without a driver that will give it back.
THEOREM NoOrphanTurn == Spec => []TurnHasDriver
<1>1. IInv => TurnHasDriver
  BY DEF IInv
<1>2. QED
  BY <1>1, Invariance, PTL

\* The values of a longer conversation are the old ones and the new one, which is
\* how a commit is one step of Countdown.
LEMMA ValuesAppend ==
  ASSUME NEW q \in Seq(Message), NEW m \in Message
  PROVE  /\ Len([i \in DOMAIN q |-> q[i].value]) = Len(q)
         /\ [i \in DOMAIN Append(q, m) |-> Append(q, m)[i].value] =
              Append([i \in DOMAIN q |-> q[i].value], m.value)
<1> DEFINE v == [i \in DOMAIN q |-> q[i].value]
           z == Append(q, m)
           w == [i \in DOMAIN z |-> z[i].value]
<1>1. z \in Seq(Message) /\ Len(z) = Len(q) + 1 /\ Len(q) \in Nat
  OBVIOUS
<1>2. \A i \in 1..Len(z) : z[i] = IF i = Len(q) + 1 THEN m ELSE q[i]
  OBVIOUS
<1>3. DOMAIN q = 1..Len(q) /\ DOMAIN z = 1..Len(z)
  BY <1>1, LenProperties
<1>4. \A x \in Message : x.value \in Int
  BY DEF Message
<1>5. \A i \in 1..Len(q) : q[i] \in Message
  BY ElementOfSeq
<1>6. \A i \in DOMAIN q : q[i].value \in Int
  BY <1>3, <1>4, <1>5
<1>7. \A i \in DOMAIN z : z[i].value \in Int
  BY <1>1, <1>2, <1>3, <1>4, <1>5
<1>8. v \in [1..Len(q) -> Int] /\ w \in [1..Len(z) -> Int]
  BY <1>3, <1>6, <1>7
<1>9. v \in Seq(Int) /\ w \in Seq(Int) /\ Len(v) = Len(q) /\ Len(w) = Len(q) + 1
  BY <1>1, <1>8, SeqDef
<1>10. m.value \in Int
  BY DEF Message
<1>11. /\ Append(v, m.value) \in Seq(Int) /\ Len(Append(v, m.value)) = Len(q) + 1
      /\ \A i \in 1..(Len(q) + 1) :
           Append(v, m.value)[i] = IF i = Len(q) + 1 THEN m.value ELSE v[i]
  <2> HIDE DEF v
  <2>1. QED
    BY <1>1, <1>9, <1>10
<1>12. \A i \in 1..(Len(q) + 1) : w[i] = IF i = Len(q) + 1 THEN m.value ELSE v[i]
  BY <1>1, <1>2, <1>3
<1>13. w = Append(v, m.value)
  <2> HIDE DEF v, w
  <2>1. QED
    BY <1>9, <1>11, <1>12, SeqEqual
<1>14. QED
  BY <1>9, <1>13

\* The coordinator implements the countdown: an accepted reply is the next
\* number, the last one ends the session, and everything else is a stutter.
THEOREM Refinement == Spec => CountsDown
<1> DEFINE values == [i \in DOMAIN messages |-> messages[i].value]
           over == status # "running"
<1>1. Init => Abstract!Init
  BY DEF Init, Abstract!Init
<1>2. ASSUME IInv, NEW d \in Drivers, NEW said \in Replies, CommitAccepted(d, said)
      PROVE  Abstract!Say
  <2>1. /\ status = "running" /\ said = next /\ next \in Int
        /\ status' = IF Reached(next - 1) THEN "completed" ELSE status
        /\ messages' = Append(messages, [agent |-> turn[d], value |-> said])
    BY <1>2 DEF CommitAccepted, Holds, Accepts, TurnIsCurrent, IInv, TypeOK
  <2>2. messages \in Seq(Message) /\ next = From - Len(messages) /\ next >= To
    BY <1>2, <2>1 DEF IInv, TypeOK, CountsSoFar
  <2>3. [agent |-> turn[d], value |-> said] \in Message
    BY <1>2, <2>1 DEF CommitAccepted, Runs, RunningHasTurn, IInv, Message
  <2>4. Len(values) = Len(messages) /\ values' = Append(values, said)
    <3>1. DOMAIN messages' = DOMAIN Append(messages, [agent |-> turn[d], value |-> said])
      BY <2>1
    <3>2. values' = [i \in DOMAIN Append(messages, [agent |-> turn[d], value |-> said]) |->
                       Append(messages, [agent |-> turn[d], value |-> said])[i].value]
      BY <2>1, <3>1
    <3>3. [agent |-> turn[d], value |-> said].value = said
      OBVIOUS
    <3>4. QED
      BY <2>2, <2>3, <3>2, <3>3, ValuesAppend
  <2>5. values' = Append(values, From - Len(values))
    BY <2>1, <2>2, <2>4
  <2>6. status' # "running" <=> next = To
    <3>1. next \in Int /\ To \in Int /\ next >= To
      BY <2>1, <2>2, SessionAssumption
    <3>2. next - 1 < To <=> next = To
      BY <3>1
    <3>3. QED
      BY <2>1, <3>2 DEF Reached
  <2>7. over' = (From - Len(values) = To)
    BY <2>2, <2>4, <2>6
  <2>8. QED
    BY <2>1, <2>5, <2>7 DEF Abstract!Say
<1>3. ASSUME IInv, [Next]_vars
      PROVE  [Abstract!Next]_<<values, over>>
  <2>1. CASE UNCHANGED <<messages, status>>
    BY <2>1
  <2>2. CASE Stop
    BY <2>2 DEF Stop, Abstract!Next, Abstract!GiveUp
  <2>3. CASE \E d \in Drivers, said \in Replies : CommitAccepted(d, said)
    BY <1>2, <1>3, <2>3 DEF Abstract!Next
  <2>4. QED
    BY <1>3, <2>1, <2>2, <2>3 DEF Next, DriverStep, LoopStep, Begin, Leave, Offer, OfferGone, RunSettles,
       CommitRejected, CommitIgnored, Fail, DeadlinePasses, DeleteAgent, vars, session
<1>4. QED
  BY <1>1, <1>3, Invariance, PTL DEF Spec, CountsDown, Abstract!Spec
-----------------------------------------------------------------------------
(***************************************************************************)
(* What becomes of the turns that were claimed.                            *)
(***************************************************************************)

\* A driver that counts one more attempt makes one more claim.
LEMMA OneMoreClaim ==
  ASSUME TypeOK, NEW d \in Drivers, attempt' = [attempt EXCEPT ![d] = @ + 1], IsFiniteSet(Claims)
  PROVE  IsFiniteSet(Claims') /\ Cardinality(Claims') = Cardinality(Claims) + 1
<1> DEFINE n == attempt[d] + 1
<1>1. attempt \in [Drivers -> Nat] /\ attempt[d] \in Nat
  BY DEF TypeOK
<1>2. \A e \in Drivers : 1..attempt'[e] = IF e = d THEN 1..attempt[d] \cup {n} ELSE 1..attempt[e]
  <2>1. 1..n = 1..attempt[d] \cup {n}
    BY <1>1
  <2>2. \A e \in Drivers : attempt'[e] = IF e = d THEN n ELSE attempt[e]
    BY <1>1
  <2>3. QED
    BY <2>1, <2>2
<1>3. Claims' = Claims \cup {<<d, n>>}
  <2>1. ASSUME NEW x
        PROVE  x \in Claims' <=> x \in Claims \/ x = <<d, n>>
    <3>1. x \in Claims' <=> \E e \in Drivers : \E k \in 1..attempt'[e] : x = <<e, k>>
      BY DEF Claims
    <3>2. x \in Claims <=> \E e \in Drivers : \E k \in 1..attempt[e] : x = <<e, k>>
      BY DEF Claims
    <3>3. /\ n \in 1..attempt'[d]
          /\ \A e \in Drivers : 1..attempt[e] \subseteq 1..attempt'[e]
      BY <1>2
    <3>4. \A e \in Drivers : \A k \in 1..attempt'[e] : k \in 1..attempt[e] \/ (e = d /\ k = n)
      BY <1>2
    <3> HIDE DEF n
    <3>5. QED
      BY <3>1, <3>2, <3>3, <3>4
  <2>2. QED
    BY <2>1
<1>4. <<d, n>> \notin Claims
  <2>1. \A e \in Drivers : <<d, n>> \notin {e} \X (1..attempt[e])
    BY <1>1
  <2>2. QED
    BY <2>1 DEF Claims
<1>5. QED
  BY <1>3, <1>4, FS_AddElement

\* What the record counts, with the claims finite in number.
OnRecord == IsFiniteSet(Claims) /\ TurnsOnRecord

\* A step that claims nothing and accounts for what was in flight keeps the record.
LEMMA RecordStays ==
  ASSUME IInv, OnRecord, UNCHANGED attempt,
         status = "stopped" => status' = "stopped",
         status' # "stopped" =>
            Len(messages') + rejections' + (IF inFlight' # NoTurn THEN 1 ELSE 0)
              = Len(messages) + rejections + (IF inFlight # NoTurn THEN 1 ELSE 0)
  PROVE  OnRecord'
<1>1. Claims' = Claims
  BY DEF Claims
<1>2. QED
  BY <1>1 DEF OnRecord, TurnsOnRecord

\* A claim puts a turn in flight, and puts what it reclaims on record.
LEMMA RecordClaims ==
  ASSUME IInv, OnRecord, NEW d \in Drivers, Offer(d) \/ OfferGone(d)
  PROVE  OnRecord'
<1>1. attempt' = [attempt EXCEPT ![d] = @ + 1] /\ UNCHANGED <<status, messages>> /\ status = "running"
  BY DEF Offer, OfferGone, Skipped, Claimable
<1>2. Len(messages) \in Nat /\ rejections \in Nat
  BY DEF IInv, TypeOK
<1> DEFINE recorded == Len(messages) + rejections + (IF inFlight # NoTurn THEN 1 ELSE 0)
<1>3. recorded' = recorded + 1
  <2>1. CASE Offer(d)
    <3>1. inFlight' \in Turn
      BY <2>1, NextParticipantType DEF Offer, Turn, IInv, TypeOK
    <3>2. inFlight' # NoTurn
      BY <3>1, SessionAssumption
    <3>3. QED
      BY <1>1, <1>2, <2>1, <3>2 DEF Offer
  <2>2. CASE OfferGone(d)
    BY <1>1, <1>2, <2>2 DEF OfferGone
  <2>3. QED
    BY <2>1, <2>2
<1>4. IsFiniteSet(Claims') /\ Cardinality(Claims') = Cardinality(Claims) + 1
  BY <1>1, OneMoreClaim DEF IInv, OnRecord
<1>5. Cardinality(Claims) = recorded
  BY <1>1 DEF OnRecord, TurnsOnRecord
<1> HIDE DEF recorded
<1>6. Cardinality(Claims') = recorded'
  BY <1>3, <1>4, <1>5
<1>7. QED
  BY <1>4, <1>6 DEF OnRecord, TurnsOnRecord, recorded

\* Every step keeps the record complete.
LEMMA RecordKeeps == IInv /\ OnRecord /\ [Next]_vars => OnRecord'
<1> SUFFICES ASSUME IInv, OnRecord, [Next]_vars
             PROVE  OnRecord'
  OBVIOUS
<1>1. Len(messages) \in Nat /\ rejections \in Nat /\ NoTurn \notin Turn /\ inFlight \in Turn \cup {NoTurn}
  BY SessionAssumption DEF IInv, TypeOK
<1>2. ASSUME NEW d \in Drivers, Begin(d) \/ Leave(d) \/ RunSettles(d)
      PROVE  OnRecord'
  <2>1. UNCHANGED attempt /\ (status = "stopped" => status' = "stopped")
    BY <1>2 DEF Begin, Leave, RunSettles, CommitAccepted, CommitRejected, CommitIgnored, Fail, GoesOn, session
  <2>2. Len(messages') + rejections' + (IF inFlight' # NoTurn THEN 1 ELSE 0)
          = Len(messages) + rejections + (IF inFlight # NoTurn THEN 1 ELSE 0)
    <3>1. ASSUME NEW said \in Replies, CommitAccepted(d, said)
          PROVE  Len(messages') = Len(messages) + 1 /\ rejections' = rejections
                 /\ inFlight # NoTurn /\ inFlight' = NoTurn
      <4>1. messages \in Seq(Message) /\ messages' = Append(messages, [agent |-> turn[d], value |-> said])
        BY <3>1 DEF CommitAccepted, IInv, TypeOK
      <4>2. QED
        BY <3>1, <4>1 DEF CommitAccepted, Holds
    <3>2. ASSUME NEW said \in Replies, CommitRejected(d, said)
          PROVE  messages' = messages /\ rejections' = rejections + 1
                 /\ inFlight # NoTurn /\ inFlight' = NoTurn
      BY <3>2 DEF CommitRejected, Holds
    <3>3. CASE CommitIgnored(d) \/ Begin(d) \/ Leave(d)
      BY <3>3 DEF CommitIgnored, Begin, Leave, session
    <3>4. CASE Fail(d)
      BY <1>1, <3>4 DEF Fail, Holds, GivenBack
    <3>5. QED
      BY <1>1, <1>2, <3>1, <3>2, <3>3, <3>4 DEF RunSettles
  <2>3. QED
    BY <2>1, <2>2, RecordStays
<1>3. CASE Stop
  BY <1>3, RecordStays DEF Stop, driving
<1>4. CASE DeadlinePasses
  <2>1. inFlight' \in Turn
    BY <1>1, <1>4 DEF DeadlinePasses, Turn
  <2>2. QED
    BY <1>1, <1>4, <2>1, RecordStays DEF DeadlinePasses, driving
<1>5. ASSUME NEW a \in Agents, DeleteAgent(a)
      PROVE  OnRecord'
  BY <1>5, RecordStays DEF DeleteAgent, session, driving
<1>6. CASE UNCHANGED vars
  BY <1>6, RecordStays DEF vars, session, driving
<1>7. QED
  BY <1>2, <1>3, <1>4, <1>5, <1>6, RecordClaims DEF Next, DriverStep, LoopStep

\* Every turn that was ever claimed is a message, a rejection or in flight, unless the
\* session was stopped (coordination.ts, claim, commit and fail): the counts a session
\* shows its users add up, for any number of drivers and however their turns end.
THEOREM TurnsAreOnRecord == Spec => []TurnsOnRecord
<1>1. Init => OnRecord
  <2> SUFFICES ASSUME Init
               PROVE  OnRecord
    OBVIOUS
  <2>1. \A d \in Drivers : 1..attempt[d] = {}
    BY DEF Init
  <2>2. Claims = {}
    BY <2>1 DEF Claims
  <2>3. Len(messages) = 0 /\ rejections = 0 /\ inFlight = NoTurn
    BY DEF Init
  <2>4. QED
    BY <2>2, <2>3, FS_EmptySet DEF OnRecord, TurnsOnRecord
<1>2. OnRecord => TurnsOnRecord
  BY DEF OnRecord
<1>3. QED
  BY <1>1, <1>2, RecordKeeps, Invariance, PTL DEF Spec

\* A driver leaves an open session only when it has spent its attempts, or leaves it to
\* the holder of the turn in flight.
LEMMA LeavingKeeps ==
  ASSUME IInv, LeftOverOrSpent, [Next]_vars
  PROVE  LeftOverOrSpent'
<1> SUFFICES ASSUME \A e \in Drivers : pc'[e] = "left", status' = "running"
             PROVE  \E e \in Drivers : attempt'[e] >= MaxTurns
  BY DEF LeftOverOrSpent, MaxTurns
<1>1. pc \in [Drivers -> {"asleep", "offering", "running", "left"}] /\ attempt \in [Drivers -> Nat]
  BY DEF IInv, TypeOK
<1>2. CASE UNCHANGED <<pc, attempt>> /\ status = "running"
  BY <1>2 DEF LeftOverOrSpent
<1>3. ASSUME NEW d \in Drivers, Leave(d)
      PROVE  \E e \in Drivers : attempt'[e] >= MaxTurns
  <2>1. pc' = [pc EXCEPT ![d] = "left"] /\ pc[d] = "offering" /\ UNCHANGED <<status, inFlight, attempt>>
    BY <1>3 DEF Leave, session
  <2>2. CASE attempt[d] >= MaxTurns
    BY <2>1, <2>2
  <2>3. CASE ~ Claimable
    <3>1. inFlight # NoTurn
      BY <2>1, <2>3 DEF Claimable
    <3>2. PICK e \in Drivers : pc[e] = "running"
      BY <3>1 DEF IInv, TurnHasDriver
    <3>3. pc'[e] = "running"
      BY <1>1, <2>1, <3>2
    <3>4. QED
      BY <3>3
  <2>4. QED
    BY <1>3, <2>2, <2>3 DEF Leave, Quits
<1>4. ASSUME NEW d \in Drivers, pc'[d] # "left"
      PROVE  FALSE
  BY <1>4
<1>5. ASSUME NEW d \in Drivers, Begin(d) \/ Offer(d) \/ OfferGone(d) \/ RunSettles(d)
      PROVE  pc'[d] # "left"
  <2>1. CASE Begin(d) \/ Offer(d) \/ OfferGone(d)
    BY <1>1, <2>1 DEF Begin, Offer, OfferGone
  <2>2. CASE RunSettles(d)
    <3>1. GoesOn(d)
      BY <2>2 DEF RunSettles, CommitAccepted, CommitRejected, CommitIgnored, Fail
    <3>2. QED
      BY <1>1, <3>1 DEF GoesOn, GoesOnAfter
  <2>3. QED
    BY <1>5, <2>1, <2>2
<1>6. CASE Stop \/ DeadlinePasses \/ (\E a \in Agents : DeleteAgent(a)) \/ UNCHANGED vars
  BY <1>2, <1>6 DEF Stop, DeadlinePasses, DeleteAgent, vars, session, driving
<1>7. QED
  BY <1>3, <1>4, <1>5, <1>6 DEF Next, DriverStep, LoopStep

\* A session that every driver has left is over, or was given up by one that spent its
\* attempts (agent-service.ts, runCoordination): it is never dropped in between. A session
\* has a driver from the start.
THEOREM NoneIsDropped ==
  ASSUME Drivers # {}
  PROVE  Spec => []LeftOverOrSpent
<1>1. Init => LeftOverOrSpent
  BY DEF Init, LeftOverOrSpent
<1>2. IInv /\ LeftOverOrSpent /\ [Next]_vars => LeftOverOrSpent'
  BY LeavingKeeps
<1>3. QED
  BY <1>1, <1>2, Invariance, PTL DEF Spec
=============================================================================
