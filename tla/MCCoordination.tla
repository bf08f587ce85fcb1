--------------------------- MODULE MCCoordination ---------------------------
(* Instances of Coordination for TLC. *)
EXTENDS Coordination

CONSTANTS a, b

Alternating == <<a, b>>

\* The schema lets an Agent be named twice.
Repeating == <<a, b, a>>
=============================================================================
