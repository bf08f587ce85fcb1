------------------------------- MODULE Accounts -------------------------------
(***************************************************************************)
(* Agent principals across restarts: AgentService.createAgent, the revoke  *)
(* and rotate routes of app.ts, the IdentityDirectory they change and the  *)
(* table of the store that is to outlive the process.                      *)
(*                                                                         *)
(* The directory is changed at once, the table through the store's queue,  *)
(* whose writes are taken one at a time, can fail, and are lost in a       *)
(* crash.  An Agent is created in three steps, between which the other     *)
(* requests run.  Identity.tla has the directory in the order of its keys; *)
(* here a principal goes by its id, which is what survives a restart.      *)
(***************************************************************************)
EXTENDS Integers, Sequences, FiniteSets

CONSTANTS Agents, Humans, Ids,
          SeedsBeforeLoad   \* whether boot restores and writes before the store is loaded

VARIABLES
  directory,  \* IdentityDirectory.agents: the principals by id
  table,      \* database.agentPrincipals, by id
  stored,     \* the Agents in database.agents
  workspaces, \* the directories under the workspace root
  creating,   \* the requests to create an Agent: the principal minted for it
  queue,      \* JsonStore.queue
  used,       \* the Agents and ids ever drawn: a UUID is not drawn twice
  promised    \* the principals whose revocation a response has confirmed

vars == <<directory, table, stored, workspaces, creating, queue, used, promised>>

NoPrincipals == [id \in {} |-> id]

Principal == [agentId : Agents, ownerId : Humans, version : Nat, revoked : BOOLEAN]
Tables    == UNION {[S -> Principal] : S \in SUBSET Ids}

Minted(agent, owner, version) ==
  [agentId |-> agent, ownerId |-> owner, version |-> version, revoked |-> FALSE]

\* Map.set, and what restoring a table with an id twice comes to: the later one stays.
With(f, id, p) == [x \in DOMAIN f \cup {id} |-> IF x = id THEN p ELSE f[x]]

Without(f, x)   == [y \in DOMAIN f \ {x} |-> f[y]]

InForce(f, agent) == {x \in DOMAIN f : f[x].agentId = agent /\ ~f[x].revoked}
Revoked(f)        == {x \in DOMAIN f : f[x].revoked}

Revocation(f, id) == With(f, id, [f[id] EXCEPT !.revoked = TRUE])

\* A mutation of the store: the whole table as it was when the request asked for it,
\* with the principal it revoked; or a new Agent and its principal; or an Agent's end.
Persist(f, revoked)  == [kind |-> "persist", table |-> f, revoked |-> revoked]
Store(agent, id, p)  == [kind |-> "store", agent |-> agent, id |-> id, principal |-> p]
Remove(agent)        == [kind |-> "remove", agent |-> agent]

-----------------------------------------------------------------------------
(* The database starts without Agents.                                       *)

Init ==
  /\ directory = NoPrincipals /\ table = NoPrincipals /\ creating = NoPrincipals
  /\ queue = << >> /\ stored = {} /\ workspaces = {} /\ used = {} /\ promised = {}

\* createAgent, up to its first await: a principal of the Agent's own.
Mint(agent, owner, id) ==
  /\ agent \notin used /\ id \notin used /\ used' = used \cup {agent, id}
  /\ directory' = With(directory, id, Minted(agent, owner, 1))
  /\ creating' = With(creating, agent, id)
  /\ UNCHANGED <<table, stored, workspaces, queue, promised>>

\* WorkspaceManager.create: a new directory with its three files.  The principal goes
\* into the table as it was minted.
MakeWorkspace(agent) ==
  /\ agent \in DOMAIN creating /\ agent \notin workspaces
  /\ workspaces' = workspaces \cup {agent}
  /\ queue' = Append(queue, Store(agent, creating[agent], Minted(agent, directory[creating[agent]].ownerId, 1)))
  /\ UNCHANGED <<directory, table, stored, creating, used, promised>>

\* It fails before or after the directory is there; nothing is taken back.
MakeWorkspaceFails(agent) ==
  /\ agent \in DOMAIN creating /\ agent \notin workspaces
  /\ workspaces' \in {workspaces, workspaces \cup {agent}}
  /\ creating' = Without(creating, agent)
  /\ UNCHANGED <<directory, table, stored, queue, used, promised>>

\* POST /api/identity/agents/:id/revoke; without a principal in force it answers 409.
Revoke(agent) ==
  /\ agent \in stored
  /\ \E id \in InForce(directory, agent) :
       /\ directory' = Revocation(directory, id)
       /\ queue' = Append(queue, Persist(directory', {id}))
  /\ UNCHANGED <<table, stored, workspaces, creating, used, promised>>

\* POST .../rotate: the table is written even when there was nothing to rotate.
Rotate(agent, next) ==
  /\ agent \in stored
  /\ \/ \E id \in InForce(directory, agent) :
          /\ next \notin used /\ used' = used \cup {next}
          /\ directory' = With(Revocation(directory, id), next,
                               Minted(agent, directory[id].ownerId, directory[id].version + 1))
          /\ queue' = Append(queue, Persist(directory', {id}))
     \/ /\ InForce(directory, agent) = {}
        /\ queue' = Append(queue, Persist(directory, {}))
        /\ UNCHANGED <<directory, used>>
  /\ UNCHANGED <<table, stored, workspaces, creating, promised>>

\* deleteAgent, when its executions have ended: WorkspaceManager.archive, then the
\* mutation.  The principals stay.
Delete(agent) ==
  /\ agent \in stored /\ agent \in workspaces
  /\ workspaces' = workspaces \ {agent}
  /\ queue' = Append(queue, Remove(agent))
  /\ UNCHANGED <<directory, table, stored, creating, used, promised>>

\* JsonStore.mutate takes the next mutation: the file is replaced whole, then the
\* request goes on to its answer.
Write ==
  /\ queue # << >>
  /\ queue' = Tail(queue)
  /\ LET op == Head(queue)
     IN \/ /\ op.kind = "persist"
           /\ table' = op.table /\ promised' = promised \cup op.revoked
           /\ UNCHANGED <<stored, creating>>
        \/ /\ op.kind = "store"
           /\ table' = With(table, op.id, op.principal) /\ stored' = stored \cup {op.agent}
           /\ creating' = Without(creating, op.agent)
           /\ UNCHANGED promised
        \/ /\ op.kind = "remove"
           /\ stored' = stored \ {op.agent}
           /\ UNCHANGED <<table, creating, promised>>
  /\ UNCHANGED <<directory, workspaces, used>>

\* The write is rejected, and the request with it; the mutations behind it go on.
WriteFails ==
  /\ queue # << >>
  /\ queue' = Tail(queue)
  /\ creating' = IF Head(queue).kind = "store"
                 THEN Without(creating, Head(queue).agent) ELSE creating
  /\ UNCHANGED <<directory, table, stored, workspaces, used, promised>>

\* The process ends at any point, and starts again: seedIdentities restores the table
\* the store holds. As index.ts calls it, before the store has loaded its file, that is
\* an empty one, which is then written over the file, the Agents with it.
Restart ==
  /\ IF SeedsBeforeLoad
     THEN table' = NoPrincipals /\ stored' = {}
     ELSE UNCHANGED <<table, stored>>
  /\ directory' = table' /\ queue' = << >> /\ creating' = NoPrincipals
  /\ UNCHANGED <<workspaces, used, promised>>

Next ==
  \/ \E agent \in Agents, owner \in Humans, id \in Ids : Mint(agent, owner, id)
  \/ \E agent \in Agents : MakeWorkspace(agent) \/ MakeWorkspaceFails(agent)
  \/ \E agent \in Agents : Revoke(agent) \/ Delete(agent)
  \/ \E agent \in Agents, id \in Ids : Rotate(agent, id)
  \/ Write \/ WriteFails \/ Restart

Spec == Init /\ [][Next]_vars

-----------------------------------------------------------------------------
(* What the identity plane promises                                          *)

\* An Agent has one principal in force at most, in memory and in the table, whatever
\* fails: who executed a run is never ambiguous (activeFor takes the first it finds).
Unambiguous(f) ==
  \A x, y \in DOMAIN f : f[x].agentId = f[y].agentId /\ ~f[x].revoked /\ ~f[y].revoked => x = y
OneInForce == Unambiguous(directory) /\ Unambiguous(table)

\* persistPrincipals, agent-service.ts 227: a revocation survives a restart, from the
\* response that confirms it on. So it does if the store is loaded before seedIdentities
\* restores from it; not with the boot of index.ts, which loses every principal.
RevocationsLast == promised \subseteq Revoked(table) \cap Revoked(directory)

\* Every stored Agent has a principal, so that a run of it is attributed to its owner.
StoredAgentsHavePrincipals ==
  \A agent \in stored : /\ \E x \in DOMAIN table : table[x].agentId = agent
                        /\ \E x \in DOMAIN directory : directory[x].agentId = agent
=============================================================================
