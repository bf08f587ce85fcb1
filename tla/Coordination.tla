---------------------------- MODULE Coordination ----------------------------
(***************************************************************************)
(* One coordination session: the Coordinator's compare-and-set on turns,   *)
(* and the runCoordination loops that drive it.                            *)
(*                                                                         *)
(* The route that creates a session starts one driver.  The Coordinator    *)
(* promises its invariant to any number of claimants, so Drivers is a      *)
(* parameter: with two of them a deadline can pass, a turn be reclaimed    *)
(* and the first holder answer late.                                       *)
(*                                                                         *)
(* Whatever runs between two waits of the event loop is not interleaved:   *)
(* from the end of one runner.run to the start of the next, a driver is    *)
(* "offering" and nothing else moves (Quiet).                              *)
(***************************************************************************)
EXTENDS Integers, Sequences, FiniteSets

CONSTANTS
  Participants,   \* the Agents taking turns, in order
  From, To,       \* the countdown
  Drivers,        \* the runCoordination calls on this session
  NoTurn, NoNumber

Agents  == {Participants[i] : i \in DOMAIN Participants}
Replies == (To - 1)..(From + 1) \cup {NoNumber}
MaxTurns == (From - To + 1) * 4

Message  == [agent : Agents, value : Int]
Turn     == [agent : Agents, expected : Int, expired : BOOLEAN]
\* A rejected turn; "at" is its place among the messages.
Rejected == [agent : Agents, why : {"timeout", "reply", "error"}, at : Nat]

ASSUME SessionAssumption ==
  /\ Participants \in Seq(Agents) /\ Participants # << >>
  /\ From \in Nat /\ To \in Nat /\ To <= From
  /\ NoTurn \notin Turn
  /\ NoNumber \notin Int

VARIABLES
  \* the session
  status, next, messages, inFlight, rejections, lastRejected,
  \* the Agents deleted since it was created
  gone,
  \* the drivers: where each is, the Agent whose turn it runs, its attempts
  pc, turn, attempt

session == <<status, next, messages, inFlight, rejections, lastRejected>>
driving == <<pc, turn, attempt>>
vars    == <<session, gone, driving>>

Rejection(a, why) == [agent |-> a, why |-> why, at |-> Len(messages)]

Init ==
  /\ status = "running" /\ next = From /\ messages = << >>
  /\ inFlight = NoTurn /\ rejections = 0 /\ lastRejected = NoTurn
  /\ gone = {}
  /\ pc = [d \in Drivers |-> "asleep"]
  /\ turn = [d \in Drivers |-> NoTurn]
  /\ attempt = [d \in Drivers |-> 0]

Quiet == \A d \in Drivers : pc[d] # "offering"

-----------------------------------------------------------------------------
(***************************************************************************)
(* The decisions of the Coordinator, each preceded by the form a slip      *)
(* would give it.                                                          *)
(***************************************************************************)

\* Round-robin by the number of committed turns.
NextParticipant == Participants[(Len(messages) % Len(Participants)) + 1]

\* A claim is refused once the session is over or while a turn is in flight.
Claimable == status = "running" /\ (inFlight # NoTurn => inFlight.expired)

\* The loop ends once its attempts are spent or claim returns null.
FaultyQuits(d) == attempt[d] >= MaxTurns \/ status # "running"
Quits(d) == attempt[d] >= MaxTurns \/ ~Claimable

\* A reply counts only from the Agent whose turn it is, and only if it is the
\* number the turn expects.
FaultyHolds(a) == inFlight # NoTurn
Holds(a) == inFlight # NoTurn /\ inFlight.agent = a
FaultyAcceptsAny(said) == TRUE
FaultyAccepts(said) == said # NoNumber
Accepts(said) == said = inFlight.expected

\* The session is complete below its target.
Reached(n) == n < To

\* What stop, and a turn that errored, leave in flight.
FaultyTurnAfterStop == inFlight
TurnAfterStop == NoTurn
FaultyGivenBack == inFlight
GivenBack == NoTurn

\* The loop counts an attempt whose Agent no longer exists.
FaultySkipped(d) == attempt
Skipped(d) == [attempt EXCEPT ![d] = @ + 1]

\* The driver goes on while the session runs.
FaultyGoesOnAfter(s) == s = "running" /\ messages' # messages
GoesOnAfter(s) == s = "running"

-----------------------------------------------------------------------------
(***************************************************************************)
(* runCoordination.                                                        *)
(***************************************************************************)

Begin(d) ==
  /\ Quiet
  /\ pc[d] = "asleep"
  /\ pc' = [pc EXCEPT ![d] = "offering"]
  /\ UNCHANGED <<session, gone, turn, attempt>>

\* The loop ends: its attempts are spent, or claim returned null.
Leave(d) ==
  /\ pc[d] = "offering"
  /\ Quits(d)
  /\ pc' = [pc EXCEPT ![d] = "left"]
  /\ UNCHANGED <<session, gone, turn, attempt>>

\* claim, and the start of the Agent's run.
Offer(d) ==
  LET who == NextParticipant IN
  /\ pc[d] = "offering"
  /\ attempt[d] < MaxTurns /\ Claimable
  /\ who \notin gone
  /\ inFlight' = [agent |-> who, expected |-> next, expired |-> FALSE]
  /\ rejections' = rejections + (IF inFlight # NoTurn THEN 1 ELSE 0)
  /\ lastRejected' = IF inFlight # NoTurn
                     THEN Rejection(inFlight.agent, "timeout") ELSE lastRejected
  /\ attempt' = [attempt EXCEPT ![d] = @ + 1]
  /\ turn' = [turn EXCEPT ![d] = who]
  /\ pc' = [pc EXCEPT ![d] = "running"]
  /\ UNCHANGED <<status, next, messages, gone>>

\* claim, then fail because the Agent no longer exists; the loop goes on.
OfferGone(d) ==
  LET who == NextParticipant IN
  /\ pc[d] = "offering"
  /\ attempt[d] < MaxTurns /\ Claimable
  /\ who \in gone
  /\ inFlight' = NoTurn
  /\ rejections' = rejections + (IF inFlight # NoTurn THEN 2 ELSE 1)
  /\ lastRejected' = Rejection(who, "error")
  /\ attempt' = Skipped(d)
  /\ UNCHANGED <<status, next, messages, gone, pc, turn>>

\* The driver looks at the session once its turn is over.
GoesOn(d) ==
  /\ pc' = [pc EXCEPT ![d] = IF GoesOnAfter(status') THEN "offering" ELSE "left"]
  /\ turn' = [turn EXCEPT ![d] = NoTurn]
  /\ UNCHANGED <<gone, attempt>>

Runs(d) == Quiet /\ pc[d] = "running"

\* runner.run resolved: commit accepts the reply.
CommitAccepted(d, said) ==
  /\ Runs(d)
  /\ status = "running" /\ Holds(turn[d]) /\ Accepts(said)
  /\ messages' = Append(messages, [agent |-> turn[d], value |-> said])
  /\ inFlight' = NoTurn
  /\ next' = inFlight.expected - 1
  /\ status' = IF Reached(next') THEN "completed" ELSE status
  /\ UNCHANGED <<rejections, lastRejected>>
  /\ GoesOn(d)

\* commit rejects the reply: the same number will be offered again.
CommitRejected(d, said) ==
  /\ Runs(d)
  /\ status = "running" /\ Holds(turn[d]) /\ ~Accepts(said)
  /\ inFlight' = NoTurn
  /\ rejections' = rejections + 1
  /\ lastRejected' = Rejection(turn[d], "reply")
  /\ UNCHANGED <<status, next, messages>>
  /\ GoesOn(d)

\* commit ignores the reply: the session is over, or it is not the Agent's turn.
CommitIgnored(d) ==
  /\ Runs(d)
  /\ ~(status = "running" /\ Holds(turn[d]))
  /\ UNCHANGED session
  /\ GoesOn(d)

\* runner.run threw: fail gives the turn back, if it is still the Agent's.
Fail(d) ==
  /\ Runs(d)
  /\ IF Holds(turn[d])
     THEN /\ inFlight' = GivenBack
          /\ rejections' = rejections + 1
          /\ lastRejected' = Rejection(turn[d], "error")
     ELSE UNCHANGED <<inFlight, rejections, lastRejected>>
  /\ UNCHANGED <<status, next, messages>>
  /\ GoesOn(d)

RunSettles(d) ==
  \/ \E said \in Replies : CommitAccepted(d, said) \/ CommitRejected(d, said)
  \/ CommitIgnored(d)
  \/ Fail(d)

-----------------------------------------------------------------------------
(***************************************************************************)
(* Everything else: the operator, the clock, and deleteAgent.              *)
(***************************************************************************)

Stop ==
  /\ Quiet
  /\ status = "running"
  /\ status' = "stopped"
  /\ inFlight' = TurnAfterStop
  /\ UNCHANGED <<next, messages, rejections, lastRejected, gone, driving>>

DeadlinePasses ==
  /\ Quiet
  /\ inFlight # NoTurn /\ ~inFlight.expired
  /\ inFlight' = [inFlight EXCEPT !.expired = TRUE]
  /\ UNCHANGED <<status, next, messages, rejections, lastRejected, gone, driving>>

DeleteAgent(a) ==
  /\ Quiet
  /\ a \notin gone
  /\ gone' = gone \cup {a}
  /\ UNCHANGED <<session, driving>>

LoopStep(d)   == Begin(d) \/ Leave(d) \/ Offer(d) \/ OfferGone(d)
DriverStep(d) == LoopStep(d) \/ RunSettles(d)

Next ==
  \/ \E d \in Drivers : DriverStep(d)
  \/ Stop
  \/ DeadlinePasses
  \/ \E a \in Agents : DeleteAgent(a)

Spec == Init /\ [][Next]_vars

\* A started driver goes round its loop. Nothing is asked of runner.run.
FairSpec == Spec /\ \A d \in Drivers : WF_vars(LoopStep(d))

-----------------------------------------------------------------------------
(***************************************************************************)
(* Properties.                                                             *)
(***************************************************************************)

TypeOK ==
  /\ status \in {"running", "completed", "stopped"}
  /\ next \in Int
  /\ messages \in Seq(Message)
  /\ inFlight \in Turn \cup {NoTurn}
  /\ rejections \in Nat
  /\ lastRejected \in Rejected \cup {NoTurn}
  /\ gone \subseteq Agents
  /\ pc \in [Drivers -> {"asleep", "offering", "running", "left"}]
  /\ turn \in [Drivers -> Agents \cup {NoTurn}]
  /\ attempt \in [Drivers -> Nat]

\* "No duplicate or missing number": whatever the Agents reply and however
\* late, the messages are the countdown, as verify would find them.
Abstract == INSTANCE Countdown
  WITH said <- [i \in DOMAIN messages |-> messages[i].value],
       over <- status # "running"
CountsDown == Abstract!Spec

\* The turn in flight is for the number and the Agent the session is at, and
\* a session that is over has none: a late answer finds no turn to take.
TurnIsCurrent ==
  inFlight # NoTurn => /\ status = "running"
                       /\ inFlight.expected = next
                       /\ inFlight.agent = NextParticipant

\* The turn order is visible: each message is its participant's, in rotation,
\* even when a reclaimed turn is answered late.
RoundRobin ==
  \A i \in DOMAIN messages :
    messages[i].agent = Participants[((i - 1) % Len(Participants)) + 1]

\* A turn in flight always has a driver that will give it back, so no claim
\* waits for a holder that has left.
TurnHasDriver ==
  inFlight # NoTurn => \E d \in Drivers : pc[d] = "running" /\ turn[d] = inFlight.agent

\* Every claimed turn is on record: as a message, as a rejection or in flight,
\* unless stop threw it away.
Claims == UNION {{d} \X (1..attempt[d]) : d \in Drivers}
TurnsOnRecord ==
  status # "stopped" =>
    Cardinality(Claims) = Len(messages) + rejections + (IF inFlight # NoTurn THEN 1 ELSE 0)

\* A session all drivers have left is over, or some driver spent its attempts.
LeftOverOrSpent ==
  (\A d \in Drivers : pc[d] = "left") /\ status = "running"
    => \E d \in Drivers : attempt[d] >= MaxTurns

\* Every driver ends, whatever the Agents reply and whoever is deleted, if the runs it
\* waits for settle. coordination.ts:16 says a turn past its deadline is reclaimed, "so
\* one unresponsive Agent cannot wedge the session forever": only the next claim looks
\* at the deadline, and the driver whose runner.run does not settle never comes to it.
\* A session with no other driver is then wedged, as long as nobody stops it.
RunsSettle == \A d \in Drivers : WF_vars(RunSettles(d))

DriversLeave == RunsSettle => \A d \in Drivers : <>(pc[d] = "left")

\* "The number is re-offered to the next participant" (fail, coordination.ts).
FailedTurnMovesOn ==
  [][/\ Cardinality(Agents) > 1
     /\ inFlight = NoTurn /\ inFlight' # NoTurn
     /\ lastRejected # NoTurn
     => ~(/\ lastRejected.why = "error" /\ lastRejected.at = Len(messages)
          /\ inFlight'.agent = lastRejected.agent)]_vars
=============================================================================
