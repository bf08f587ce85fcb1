------------------------------ MODULE Identity ------------------------------
(***************************************************************************)
(* The agent principals of heimdall/identity.ts.  The directory is a Map   *)
(* in the order its keys were set, here the sequence of its principals.    *)
(* A principal is the record of the Agent it acts for, the human it acts   *)
(* on behalf of, its version and whether it is revoked; its id is its      *)
(* place.  Names, tokens and times are left out.                           *)
(***************************************************************************)
EXTENDS Naturals, Sequences, FiniteSetsExt

Principals(agents, humans) ==
  [agentId : agents, ownerId : humans, version : Nat, revoked : BOOLEAN]

MintAgentPrincipal(directory, agent, owner) ==
  Append(directory, [agentId |-> agent, ownerId |-> owner, version |-> 1, revoked |-> FALSE])

\* The Agent's first principal that is not revoked, 0 when it has none.
FaultyActiveFor(directory, agent) ==
  LET Own == {p \in DOMAIN directory : directory[p].agentId = agent}
  IN IF Own = {} THEN 0 ELSE Min(Own)
ActiveFor(directory, agent) ==
  LET Live == {p \in DOMAIN directory : directory[p].agentId = agent /\ ~directory[p].revoked}
  IN IF Live = {} THEN 0 ELSE Min(Live)

Revoke(directory, p) == [directory EXCEPT ![p].revoked = TRUE]

\* Null, and nothing changed, when the Agent has no active principal.
Rotate(directory, agent) ==
  LET current == ActiveFor(directory, agent)
      minted  == MintAgentPrincipal(Revoke(directory, current), agent, directory[current].ownerId)
  IN IF current = 0 THEN directory
     ELSE [minted EXCEPT ![Len(minted)].version = directory[current].version + 1]
=============================================================================
