---------------------------- MODULE MCRunStream ----------------------------
(* Two messages to one Agent, one client, and a buffer that a container's run  *)
(* outgrows.                                                                   *)
EXTENDS RunStream, PureChecks

mcOrder == <<"r1", "r2">>

On(runtime, sent, first, second, watched, revoked) ==
  [provider |-> runtime, sent |-> sent, interrupts |-> [r1 |-> first, r2 |-> second],
   watched |-> watched, revoked |-> revoked]

\* A local child with everything that can cut it short, watched; a container that
\* outgrows its buffer, watched; two messages, the second sent as soon as the Agent
\* is free, with cancels that overlap it, local and in the container whose name both
\* runs share; two messages and two revocations; and a run watched while the next
\* one takes its buffer.
mcScenarios ==
  {On("local-process", 1, {"cancel", "reap", "timeout"}, {}, {"r1"}, 0),
   On("container", 1, {"reap", "overflow"}, {}, {"r1"}, 0),
   On("local-process", 2, {"cancel", "reap"}, {"cancel"}, {}, 0),
   On("container", 2, {"cancel", "timeout"}, {"cancel"}, {}, 0),
   On("local-process", 2, {}, {}, {}, 2),
   On("local-process", 2, {}, {}, {"r1", "r2"}, 0)}
=============================================================================
