----------------------------- MODULE Countdown -----------------------------
(***************************************************************************)
(* What a coordination session promises: its messages are From, From - 1,  *)
(* ... in that order, without a gap or a repetition; it is over as soon as *)
(* it reaches To, and may be given up before.                              *)
(***************************************************************************)
EXTENDS Integers, Sequences

CONSTANTS From, To    \* naturals, To <= From

VARIABLES said, over

Init == said = << >> /\ over = FALSE

Say ==
  /\ ~over
  /\ said' = Append(said, From - Len(said))
  /\ over' = (From - Len(said) = To)

GiveUp == ~over /\ over' = TRUE /\ UNCHANGED said

Next == Say \/ GiveUp

Spec == Init /\ [][Next]_<<said, over>>
=============================================================================
