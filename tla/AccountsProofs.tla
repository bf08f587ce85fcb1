---------------------------- MODULE AccountsProofs ----------------------------
(***************************************************************************)
(* The promises of the identity plane, for any number of Agents, humans    *)
(* and requests, of failed writes and of restarts.                         *)
(***************************************************************************)
EXTENDS Accounts, TLAPS

Ops == [kind : {"persist"}, table : Tables, revoked : SUBSET Ids]
         \cup [kind : {"store"}, agent : Agents, id : Ids, principal : Principal]
         \cup [kind : {"remove"}, agent : Agents]

Types ==
  /\ directory \in Tables /\ table \in Tables /\ queue \in Seq(Ops)
  /\ creating \in UNION {[S -> Ids] : S \in SUBSET Agents}

Persists(i) == i \in DOMAIN queue /\ queue[i].kind = "persist"
Stores(i)   == i \in DOMAIN queue /\ queue[i].kind = "store"

\* A table in memory, on disk or on its way there is in order: nothing in it is yet to
\* be drawn, and an Agent that is being created has in it its new principal at most.
InOrder(f) ==
  /\ Unambiguous(f)
  /\ \A x \in DOMAIN f : x \in used /\ f[x].agentId \in used
  /\ \A x \in DOMAIN f, a \in DOMAIN creating :
       (f[x].agentId = a <=> x = creating[a]) /\ (x = creating[a] => ~f[x].revoked)

TablesInOrder ==
  InOrder(directory) /\ InOrder(table) /\ \A i : Persists(i) => InOrder(queue[i].table)

\* An Agent is stored once, by the request that drew its id.
Creations ==
  /\ stored \subseteq used
  /\ \A a \in DOMAIN creating : a \in used \ stored /\ creating[a] \in used \cap DOMAIN directory
  /\ \A i : Stores(i) => /\ queue[i].agent \in DOMAIN creating \cap workspaces
                         /\ queue[i].id = creating[queue[i].agent]
                         /\ queue[i].principal.agentId = queue[i].agent
                         /\ ~queue[i].principal.revoked
  /\ \A i, j : Stores(i) /\ Stores(j) /\ queue[i].agent = queue[j].agent => i = j

\* The tables on their way are ever later states of the directory: no write takes back
\* a revocation that an earlier one made.
Revocations ==
  /\ ~SeedsBeforeLoad => promised \subseteq Revoked(table)
  /\ Revoked(table) \subseteq Revoked(directory)
  /\ \A i : Persists(i) =>
       /\ queue[i].revoked \subseteq Revoked(queue[i].table)
       /\ Revoked(table) \subseteq Revoked(queue[i].table)
       /\ Revoked(queue[i].table) \subseteq Revoked(directory)
  /\ \A i, j : Persists(i) /\ Persists(j) /\ i < j =>
       Revoked(queue[i].table) \subseteq Revoked(queue[j].table)

Has(f, a) == \E x \in DOMAIN f : f[x].agentId = a

\* Nor does one take back a principal: a table has those of the Agents that will be
\* stored when it is written.
Owned ==
  /\ \A a \in stored : /\ Has(table, a) /\ Has(directory, a)
                       /\ \A i : Persists(i) => Has(queue[i].table, a)
  /\ \A i, j : Stores(i) /\ Persists(j) /\ i < j => queue[i].id \in DOMAIN queue[j].table

IInv == Types /\ TablesInOrder /\ Creations /\ Revocations /\ Owned

-----------------------------------------------------------------------------
(* What With, Without and Revocation do to a table                           *)

\* Writing one entry of a table changes that entry alone.
LEMMA WithFacts ==
  ASSUME NEW f \in Tables, NEW id \in Ids, NEW p \in Principal
  PROVE  /\ With(f, id, p) \in Tables /\ DOMAIN With(f, id, p) = DOMAIN f \cup {id}
         /\ With(f, id, p)[id] = p
         /\ \A x \in DOMAIN f : x # id => With(f, id, p)[x] = f[x]
<1>1. PICK S \in SUBSET Ids : f \in [S -> Principal]
  BY DEF Tables
<1>2. S \cup {id} \in SUBSET Ids /\ With(f, id, p) \in [S \cup {id} -> Principal]
  BY <1>1 DEF With
<1> QED BY <1>1, <1>2 DEF Tables, With

\* IdentityDirectory.revoke changes one principal, and nothing but whether it is revoked.
LEMMA RevocationFacts ==
  ASSUME NEW f \in Tables, NEW id \in DOMAIN f
  PROVE  /\ Revocation(f, id) \in Tables /\ DOMAIN Revocation(f, id) = DOMAIN f
         /\ \A x \in DOMAIN f : /\ Revocation(f, id)[x].agentId = f[x].agentId
                                /\ Revocation(f, id)[x].revoked = (x = id \/ f[x].revoked)
         /\ Revoked(Revocation(f, id)) = Revoked(f) \cup {id}
<1>1. PICK S \in SUBSET Ids : f \in [S -> Principal]
  BY DEF Tables
<1> DEFINE p == [f[id] EXCEPT !.revoked = TRUE]
<1>2. id \in Ids /\ f[id] \in Principal /\ \A x \in DOMAIN f : f[x].revoked \in BOOLEAN
  BY <1>1 DEF Principal
<1>3. p \in Principal /\ p.agentId = f[id].agentId /\ p.revoked = TRUE
  BY <1>2 DEF Principal
<1>4. Revocation(f, id) = With(f, id, p)
  BY DEF Revocation
<1> HIDE DEF p
<1>5. /\ With(f, id, p) \in Tables /\ DOMAIN With(f, id, p) = DOMAIN f \cup {id}
      /\ With(f, id, p)[id] = p
      /\ \A x \in DOMAIN f : x # id => With(f, id, p)[x] = f[x]
  BY <1>2, <1>3, WithFacts
<1>6. \A x \in DOMAIN f : /\ With(f, id, p)[x].agentId = f[x].agentId
                          /\ With(f, id, p)[x].revoked = (x = id \/ f[x].revoked)
  BY <1>2, <1>3, <1>5
<1>7. Revoked(With(f, id, p)) = Revoked(f) \cup {id}
  BY <1>5, <1>6 DEF Revoked
<1> QED BY <1>4, <1>5, <1>6, <1>7

\* What is in a table has the types of a principal's fields.
LEMMA PrincipalFacts ==
  ASSUME NEW f \in Tables, NEW x \in DOMAIN f
  PROVE  /\ x \in Ids /\ f[x] \in Principal
         /\ f[x].agentId \in Agents /\ f[x].ownerId \in Humans /\ f[x].version \in Nat /\ f[x].revoked \in BOOLEAN
  BY DEF Tables, Principal

\* A principal just minted is one, of its Agent and in force.
LEMMA MintedFacts ==
  ASSUME NEW a \in Agents, NEW o \in Humans, NEW v \in Nat
  PROVE  /\ Minted(a, o, v) \in Principal
         /\ Minted(a, o, v).agentId = a /\ Minted(a, o, v).revoked = FALSE
  BY DEF Minted, Principal

\* A step that leaves the queue, or lengthens it by one, or takes its head.
LEMMA Lengthened ==
  ASSUME NEW q \in Seq(Ops), NEW op \in Ops
  PROVE  /\ Append(q, op) \in Seq(Ops) /\ DOMAIN q = 1..Len(q) /\ Len(q) \in Nat
         /\ DOMAIN Append(q, op) = DOMAIN q \cup {Len(q) + 1}
         /\ \A i \in DOMAIN q : Append(q, op)[i] = q[i]
         /\ Append(q, op)[Len(q) + 1] = op
  OBVIOUS

\* The queue without its head, as JsonStore.mutate leaves it.
LEMMA Shortened ==
  ASSUME NEW q \in Seq(Ops), q # << >>
  PROVE  /\ Tail(q) \in Seq(Ops) /\ 1 \in DOMAIN q /\ Head(q) = q[1] /\ q[1] \in Ops
         /\ \A i \in DOMAIN Tail(q) : i \in Nat /\ i + 1 \in DOMAIN q /\ i + 1 > 1 /\ Tail(q)[i] = q[i + 1]
  OBVIOUS

\* The three mutations, and the fields each of them carries.
LEMMA OpFacts ==
  /\ \A f \in Tables, S \in SUBSET Ids :
       /\ Persist(f, S) \in Ops /\ Persist(f, S).kind = "persist"
       /\ Persist(f, S).table = f /\ Persist(f, S).revoked = S
  /\ \A a \in Agents, id \in Ids, p \in Principal :
       /\ Store(a, id, p) \in Ops /\ Store(a, id, p).kind = "store"
       /\ Store(a, id, p).agent = a /\ Store(a, id, p).id = id /\ Store(a, id, p).principal = p
  /\ \A a \in Agents : Remove(a) \in Ops /\ Remove(a).kind = "remove"
  /\ \A op \in Ops : /\ op.kind = "persist" => op.table \in Tables /\ op.revoked \subseteq Ids
                     /\ op.kind = "store" => op.agent \in Agents /\ op.id \in Ids /\ op.principal \in Principal
<1>1. \A f \in Tables, S \in SUBSET Ids :
       /\ Persist(f, S) \in Ops /\ Persist(f, S).kind = "persist"
       /\ Persist(f, S).table = f /\ Persist(f, S).revoked = S
  BY DEF Persist, Ops
<1>2. \A a \in Agents, id \in Ids, p \in Principal :
       /\ Store(a, id, p) \in Ops /\ Store(a, id, p).kind = "store"
       /\ Store(a, id, p).agent = a /\ Store(a, id, p).id = id /\ Store(a, id, p).principal = p
  BY DEF Store, Ops
<1>3. \A a \in Agents : Remove(a) \in Ops /\ Remove(a).kind = "remove"
  BY DEF Remove, Ops
<1>4. ASSUME NEW op \in Ops
      PROVE  /\ op.kind = "persist" => op.table \in Tables /\ op.revoked \subseteq Ids
             /\ op.kind = "store" => op.agent \in Agents /\ op.id \in Ids /\ op.principal \in Principal
  BY DEF Ops
<1> QED BY <1>1, <1>2, <1>3, <1>4

-----------------------------------------------------------------------------
(* The directory starts in order, and every step keeps it so                 *)

\* The empty directory and table are in order.
LEMMA Initially == Init => IInv
<1> SUFFICES ASSUME Init PROVE IInv
  OBVIOUS
<1>1. NoPrincipals \in [{} -> Principal] /\ NoPrincipals \in [{} -> Ids] /\ DOMAIN NoPrincipals = {}
  BY DEF NoPrincipals
<1>2. Types
  BY <1>1 DEF Init, Types, Tables
<1>3. DOMAIN queue = {} /\ \A i : ~Persists(i) /\ ~Stores(i)
  BY DEF Init, Persists, Stores
<1> QED BY <1>1, <1>2, <1>3 DEF IInv, Init, TablesInOrder, InOrder, Unambiguous, Creations, Revocations, Revoked, Owned

\* createAgent's first step: the new principal is the first of a new Agent, so there is no
\* second one in force; nothing is stored of it yet.
LEMMA MintStep ==
  ASSUME IInv, NEW agent \in Agents, NEW owner \in Humans, NEW id \in Ids, Mint(agent, owner, id)
  PROVE  IInv'
<1> USE DEF IInv
<1>1. /\ Minted(agent, owner, 1) \in Principal
      /\ Minted(agent, owner, 1).agentId = agent /\ Minted(agent, owner, 1).revoked = FALSE
  BY MintedFacts
<1>2. /\ directory' \in Tables /\ DOMAIN directory' = DOMAIN directory \cup {id}
      /\ directory'[id] = Minted(agent, owner, 1)
      /\ \A x \in DOMAIN directory : x # id => directory'[x] = directory[x]
  <2>1. directory' = With(directory, id, Minted(agent, owner, 1)) /\ directory \in Tables
    BY DEF Mint, Types
  <2>2. ASSUME NEW p \in Principal
        PROVE  /\ With(directory, id, p) \in Tables
               /\ DOMAIN With(directory, id, p) = DOMAIN directory \cup {id}
               /\ With(directory, id, p)[id] = p
               /\ \A x \in DOMAIN directory : x # id => With(directory, id, p)[x] = directory[x]
    BY <2>1, WithFacts
  <2> QED BY <1>1, <2>1, <2>2
<1>3. agent \notin used /\ id \notin used /\ used' = used \cup {agent, id}
  BY DEF Mint
<1>4. id \notin DOMAIN directory /\ id \notin DOMAIN table /\ agent \notin DOMAIN creating
  BY <1>3 DEF TablesInOrder, InOrder, Creations
<1>5. /\ DOMAIN creating' = DOMAIN creating \cup {agent} /\ creating'[agent] = id
      /\ \A a \in DOMAIN creating : creating'[a] = creating[a]
      /\ creating' \in UNION {[S -> Ids] : S \in SUBSET Agents}
  <2>1. PICK S \in SUBSET Agents : creating \in [S -> Ids]
    BY DEF Types
  <2>2. creating' \in [S \cup {agent} -> Ids] /\ S \cup {agent} \in SUBSET Agents
    BY <2>1 DEF Mint, With
  <2> QED BY <1>4, <2>1, <2>2 DEF Mint, With
<1>6. /\ table' = table /\ queue' = queue /\ stored' = stored
      /\ workspaces' = workspaces /\ promised' = promised
      /\ \A i : (Persists(i)' <=> Persists(i)) /\ (Stores(i)' <=> Stores(i))
  BY DEF Mint, Persists, Stores
<1>7. Types'
  BY <1>2, <1>5, <1>6 DEF Types
<1>8. TablesInOrder'
  <2>1. ASSUME NEW f, InOrder(f) PROVE InOrder(f)'
    <3>1. Unambiguous(f)' <=> Unambiguous(f)
      BY DEF Unambiguous
    <3>2. \A x \in DOMAIN f : x # id /\ f[x].agentId # agent
      BY <1>3, <2>1 DEF InOrder
    <3> QED BY <1>3, <1>5, <2>1, <3>1, <3>2 DEF InOrder
  <2>2. InOrder(directory)'
    <3>1. \A x \in DOMAIN directory : x # id /\ directory[x].agentId # agent
      BY <1>3 DEF TablesInOrder, InOrder
    <3>2. Unambiguous(directory)'
      BY <1>1, <1>2, <3>1 DEF TablesInOrder, InOrder, Unambiguous
    <3>3. \A x \in DOMAIN directory' : x \in used' /\ directory'[x].agentId \in used'
      BY <1>1, <1>2, <1>3 DEF TablesInOrder, InOrder
    <3>4. \A a \in DOMAIN creating : creating[a] \in used /\ a \in used
      BY DEF Creations
    <3>5. ASSUME NEW x \in DOMAIN directory', NEW a \in DOMAIN creating'
          PROVE  (directory'[x].agentId = a <=> x = creating'[a]) /\ (x = creating'[a] => ~directory'[x].revoked)
      BY <1>1, <1>2, <1>3, <1>5, <3>1, <3>4 DEF TablesInOrder, InOrder
    <3> QED BY <3>2, <3>3, <3>5 DEF InOrder
  <2> QED BY <1>6, <2>1, <2>2 DEF TablesInOrder
<1>9. Creations'
  BY <1>2, <1>3, <1>4, <1>5, <1>6 DEF Creations
<1>10. Revocations'
  <2>1. Revoked(directory) \subseteq Revoked(directory)'
    BY <1>2, <1>4 DEF Revoked
  <2> QED BY <1>6, <2>1 DEF Revocations, Revoked
<1>11. Owned'
  <2>1. \A a : Has(directory, a) => Has(directory, a)'
    BY <1>2, <1>4 DEF Has
  <2> QED BY <1>6, <2>1 DEF Owned, Has
<1> QED BY <1>7, <1>8, <1>9, <1>10, <1>11

\* A request that ends leaves the others' principals as they are.
LEMMA WithoutFacts ==
  ASSUME Types, NEW a
  PROVE  /\ Without(creating, a) \in UNION {[S -> Ids] : S \in SUBSET Agents}
         /\ DOMAIN Without(creating, a) = DOMAIN creating \ {a}
         /\ \A b \in DOMAIN creating \ {a} : Without(creating, a)[b] = creating[b]
<1>1. PICK S \in SUBSET Agents : creating \in [S -> Ids]
  BY DEF Types
<1>2. S \ {a} \in SUBSET Agents /\ Without(creating, a) \in [S \ {a} -> Ids]
  BY <1>1 DEF Without
<1> QED BY <1>1, <1>2 DEF Without

\* Less being created leaves a table in order.
LEMMA FewerCreations ==
  ASSUME NEW f, InOrder(f), used \subseteq used', DOMAIN creating' \subseteq DOMAIN creating,
         \A a \in DOMAIN creating' : creating'[a] = creating[a]
  PROVE  InOrder(f)'
<1>1. Unambiguous(f)' <=> Unambiguous(f)
  BY DEF Unambiguous
<1> QED BY <1>1 DEF InOrder

\* The directory is made and the Agent's mutation enqueued, once for each Agent: the
\* request waits for it.
LEMMA MakeWorkspaceStep ==
  ASSUME IInv, NEW agent \in Agents, MakeWorkspace(agent)
  PROVE  IInv'
<1> DEFINE owner == directory[creating[agent]].ownerId
           op    == Store(agent, creating[agent], Minted(agent, owner, 1))
           n     == Len(queue) + 1
<1>1. Types /\ TablesInOrder /\ Creations /\ Revocations /\ Owned
  BY DEF IInv
<1>2. agent \in DOMAIN creating /\ creating[agent] \in DOMAIN directory /\ agent \notin workspaces
  BY <1>1 DEF MakeWorkspace, Creations
<1>3. creating[agent] \in Ids /\ owner \in Humans
  BY <1>1, <1>2, PrincipalFacts DEF Types
<1>4. /\ Minted(agent, owner, 1) \in Principal
      /\ Minted(agent, owner, 1).agentId = agent /\ Minted(agent, owner, 1).revoked = FALSE
  BY <1>3, MintedFacts
<1>5. /\ op \in Ops /\ op.kind = "store" /\ op.agent = agent /\ op.id = creating[agent]
      /\ op.principal.agentId = agent /\ op.principal.revoked = FALSE
  BY <1>3, <1>4, OpFacts
<1>6. queue' = Append(queue, op) /\ queue \in Seq(Ops)
  BY <1>1 DEF MakeWorkspace, Types
<1> HIDE DEF op
<1>7. /\ queue' \in Seq(Ops) /\ DOMAIN queue' = DOMAIN queue \cup {n} /\ queue'[n] = op
      /\ DOMAIN queue = 1..Len(queue) /\ Len(queue) \in Nat
      /\ \A i \in DOMAIN queue : queue'[i] = queue[i]
  BY <1>5, <1>6, Lengthened
<1>8. /\ directory' = directory /\ table' = table /\ stored' = stored /\ creating' = creating
      /\ used' = used /\ promised' = promised /\ workspaces' = workspaces \cup {agent}
  BY DEF MakeWorkspace
<1>9. \A i : /\ Persists(i)' <=> Persists(i)
             /\ Persists(i) => queue'[i] = queue[i]
             /\ Stores(i)' <=> Stores(i) \/ i = n
             /\ Stores(i) => queue'[i] = queue[i] /\ i # n
  BY <1>5, <1>7 DEF Persists, Stores
<1>10. Types'
  BY <1>1, <1>7, <1>8 DEF Types
<1>11. TablesInOrder'
  BY <1>1, <1>8, <1>9, FewerCreations DEF TablesInOrder
<1>12. Creations'
  <2>1. \A i : Stores(i) => queue[i].agent # agent
    BY <1>1, <1>2 DEF Creations
  <2> QED BY <1>1, <1>2, <1>5, <1>7, <1>8, <1>9, <2>1 DEF Creations
<1>13. Revocations'
  BY <1>1, <1>8, <1>9 DEF Revocations, Revoked
<1>14. Owned'
  <2>1. \A i, j : Stores(i)' /\ Persists(j)' /\ i < j => Stores(i)
    BY <1>7, <1>9 DEF Persists
  <2> QED BY <1>1, <1>8, <1>9, <2>1 DEF Owned, Has
<1> QED BY <1>10, <1>11, <1>12, <1>13, <1>14 DEF IInv

\* A creation that fails leaves a principal behind that no stored Agent has.
LEMMA MakeWorkspaceFailsStep ==
  ASSUME IInv, NEW agent \in Agents, MakeWorkspaceFails(agent)
  PROVE  IInv'
<1>1. Types /\ TablesInOrder /\ Creations /\ Revocations /\ Owned
  BY DEF IInv
<1>2. /\ directory' = directory /\ table' = table /\ stored' = stored /\ queue' = queue
      /\ used' = used /\ promised' = promised /\ workspaces \subseteq workspaces'
      /\ \A i : (Persists(i)' <=> Persists(i)) /\ (Stores(i)' <=> Stores(i))
  BY DEF MakeWorkspaceFails, Persists, Stores
<1>3. /\ creating' \in UNION {[S -> Ids] : S \in SUBSET Agents}
      /\ DOMAIN creating' = DOMAIN creating \ {agent}
      /\ \A b \in DOMAIN creating \ {agent} : creating'[b] = creating[b]
  BY <1>1, WithoutFacts DEF MakeWorkspaceFails
<1>4. Types'
  BY <1>1, <1>2, <1>3 DEF Types
<1>5. TablesInOrder'
  BY <1>1, <1>2, <1>3, FewerCreations DEF TablesInOrder
<1>6. Creations'
  <2>1. \A i : Stores(i) => queue[i].agent # agent
    BY <1>1 DEF Creations, MakeWorkspaceFails
  <2> QED BY <1>1, <1>2, <1>3, <2>1 DEF Creations
<1>7. Revocations'
  BY <1>1, <1>2 DEF Revocations, Revoked
<1>8. Owned'
  BY <1>1, <1>2 DEF Owned, Has
<1> QED BY <1>4, <1>5, <1>6, <1>7, <1>8 DEF IInv

\* deleteAgent enqueues the removal and keeps the principals.
LEMMA DeleteStep ==
  ASSUME IInv, NEW agent \in Agents, Delete(agent)
  PROVE  IInv'
<1> DEFINE n == Len(queue) + 1
<1>1. Types /\ TablesInOrder /\ Creations /\ Revocations /\ Owned
  BY DEF IInv
<1>2. Remove(agent) \in Ops /\ Remove(agent).kind = "remove"
  BY OpFacts
<1>3. queue' = Append(queue, Remove(agent)) /\ queue \in Seq(Ops)
  BY <1>1 DEF Delete, Types
<1>4. /\ queue' \in Seq(Ops) /\ DOMAIN queue' = DOMAIN queue \cup {n} /\ queue'[n] = Remove(agent)
      /\ \A i \in DOMAIN queue : queue'[i] = queue[i]
      /\ n \notin DOMAIN queue
  BY <1>2, <1>3, Lengthened
<1>5. /\ directory' = directory /\ table' = table /\ stored' = stored /\ creating' = creating
      /\ used' = used /\ promised' = promised /\ workspaces' = workspaces \ {agent}
  BY DEF Delete
<1>6. \A i : /\ Persists(i)' <=> Persists(i)
             /\ Persists(i) => queue'[i] = queue[i]
             /\ Stores(i)' <=> Stores(i)
             /\ Stores(i) => queue'[i] = queue[i]
  BY <1>2, <1>4 DEF Persists, Stores
<1>7. Types'
  BY <1>1, <1>4, <1>5 DEF Types
<1>8. TablesInOrder'
  BY <1>1, <1>5, <1>6, FewerCreations DEF TablesInOrder
<1>9. Creations'
  <2>1. \A i : Stores(i) => queue[i].agent # agent
    BY <1>1 DEF Creations, Delete
  <2> QED BY <1>1, <1>5, <1>6, <2>1 DEF Creations
<1>10. Revocations'
  BY <1>1, <1>5, <1>6 DEF Revocations, Revoked
<1>11. Owned'
  BY <1>1, <1>5, <1>6 DEF Owned, Has
<1> QED BY <1>7, <1>8, <1>9, <1>10, <1>11 DEF IInv

\* A request that changes the directory and asks for the table to be written: what it
\* leaves of the directory must be in order, and must keep its principals and what is
\* revoked of them.
LEMMA PersistStep ==
  ASSUME IInv, NEW S \in SUBSET Ids, directory' \in Tables, InOrder(directory)',
         used \subseteq used', DOMAIN directory \subseteq DOMAIN directory',
         \A x \in DOMAIN directory : directory'[x].agentId = directory[x].agentId,
         Revoked(directory) \cup S \subseteq Revoked(directory'),
         queue' = Append(queue, Persist(directory', S)),
         UNCHANGED <<table, stored, workspaces, creating, promised>>
  PROVE  IInv'
<1> DEFINE n  == Len(queue) + 1
           op == Persist(directory', S)
<1>1. Types /\ TablesInOrder /\ Creations /\ Revocations /\ Owned
  BY DEF IInv
<1>2. op \in Ops /\ op.kind = "persist" /\ op.table = directory' /\ op.revoked = S
  BY OpFacts
<1>3. queue' = Append(queue, op) /\ queue \in Seq(Ops)
  BY <1>1 DEF Types
<1> HIDE DEF op
<1>4. /\ queue' \in Seq(Ops) /\ DOMAIN queue' = DOMAIN queue \cup {n} /\ queue'[n] = op
      /\ DOMAIN queue = 1..Len(queue) /\ Len(queue) \in Nat
      /\ \A i \in DOMAIN queue : queue'[i] = queue[i]
  BY <1>2, <1>3, Lengthened
<1>5. \A i : /\ Persists(i)' <=> Persists(i) \/ i = n
             /\ Persists(i) => queue'[i] = queue[i]
             /\ Stores(i)' <=> Stores(i)
             /\ Stores(i) => queue'[i] = queue[i]
  BY <1>2, <1>4 DEF Persists, Stores
<1>6. Types'
  BY <1>1, <1>4 DEF Types
<1>7. TablesInOrder'
  <2>1. \A f : InOrder(f) => InOrder(f)'
    BY FewerCreations
  <2>2. InOrder(table)'
    BY <1>1, <2>1 DEF TablesInOrder
  <2>3. ASSUME NEW i, Persists(i)' PROVE InOrder(queue[i].table)'
    <3>1. CASE i = n
      BY <1>2, <1>4, <3>1
    <3>2. CASE Persists(i)
      BY <1>1, <1>5, <2>1, <3>2 DEF TablesInOrder
    <3> QED BY <1>5, <2>3, <3>1, <3>2
  <2> QED BY <2>2, <2>3 DEF TablesInOrder
<1>8. Creations'
  BY <1>1, <1>5 DEF Creations
<1>9. Revocations'
  <2>1. Revoked(table)' = Revoked(table) /\ Revoked(directory)' = Revoked(directory')
    BY DEF Revoked
  <2>2. \A i : Persists(i) => Revoked(queue[i].table)' = Revoked(queue[i].table)
    BY <1>5 DEF Revoked
  <2>3. Revoked(queue'[n].table) = Revoked(directory')
    BY <1>2, <1>4
  <2>4. \A i : Persists(i) => i < n
    BY <1>4 DEF Persists
  <2>5. Revoked(table) \subseteq Revoked(directory')
    BY <1>1 DEF Revocations
  <2>6. ASSUME NEW i, Persists(i)'
        PROVE  /\ queue'[i].revoked \subseteq Revoked(queue'[i].table)
               /\ Revoked(table) \subseteq Revoked(queue'[i].table)
               /\ Revoked(queue'[i].table) \subseteq Revoked(directory')
    BY <1>1, <1>2, <1>4, <1>5, <2>3, <2>5, <2>6 DEF Revocations
  <2>7. ASSUME NEW i, NEW j, Persists(i)', Persists(j)', i < j
        PROVE  Revoked(queue'[i].table) \subseteq Revoked(queue'[j].table)
    <3>1. Persists(i)
      BY <1>4, <1>5, <2>4, <2>7 DEF Persists
    <3> QED BY <1>1, <1>5, <2>3, <2>6, <2>7, <3>1 DEF Revocations
  <2> QED BY <1>1, <2>1, <2>5, <2>6, <2>7 DEF Revocations, Revoked
<1>10. Owned'
  <2>1. \A a : Has(directory, a) => Has(directory', a)
    BY DEF Has
  <2>2. ASSUME NEW a \in stored
        PROVE  /\ Has(table, a) /\ Has(directory', a)
               /\ \A i : Persists(i)' => Has(queue'[i].table, a)
    <3>1. Has(table, a) /\ Has(directory', a) /\ \A i : Persists(i) => Has(queue[i].table, a)
      BY <1>1, <2>1 DEF Owned
    <3>2. Has(queue'[n].table, a)
      BY <1>2, <1>4, <3>1
    <3> QED BY <1>5, <3>1, <3>2
  <2>3. \A i : Stores(i) => queue[i].id \in DOMAIN directory
    BY <1>1 DEF Creations
  <2>4. ASSUME NEW i, NEW j, Stores(i)', Persists(j)', i < j
        PROVE  queue'[i].id \in DOMAIN queue'[j].table
    <3>1. Stores(i) /\ queue'[i] = queue[i]
      BY <1>5, <2>4
    <3>2. CASE j = n
      BY <1>2, <1>4, <2>3, <3>1, <3>2
    <3>3. CASE Persists(j)
      BY <1>1, <1>5, <2>4, <3>1, <3>3 DEF Owned
    <3> QED BY <1>5, <2>4, <3>2, <3>3
  <2> QED BY <2>2, <2>4 DEF Owned, Has
<1> QED BY <1>6, <1>7, <1>8, <1>9, <1>10 DEF IInv

\* The revoke route: the table it enqueues is the directory as it now stands.
LEMMA RevokeStep ==
  ASSUME IInv, NEW agent \in Agents, Revoke(agent)
  PROVE  IInv'
<1>1. Types /\ TablesInOrder /\ Creations /\ Revocations /\ Owned
  BY DEF IInv
<1>2. PICK id \in InForce(directory, agent) :
        /\ directory' = Revocation(directory, id)
        /\ queue' = Append(queue, Persist(directory', {id}))
  BY DEF Revoke
<1>3. id \in DOMAIN directory /\ directory[id].agentId = agent /\ id \in Ids /\ directory \in Tables
  BY <1>1, <1>2, PrincipalFacts DEF InForce, Types
<1>4. /\ directory' \in Tables /\ DOMAIN directory' = DOMAIN directory
      /\ \A x \in DOMAIN directory : /\ directory'[x].agentId = directory[x].agentId
                                     /\ directory'[x].revoked = (x = id \/ directory[x].revoked)
      /\ Revoked(directory') = Revoked(directory) \cup {id}
  BY <1>2, <1>3, RevocationFacts
<1>5. UNCHANGED <<table, stored, workspaces, creating, used, promised>>
  BY DEF Revoke
<1>6. agent \notin DOMAIN creating
  BY <1>1 DEF Creations, Revoke
<1>7. InOrder(directory)'
  <2>1. \A x \in DOMAIN directory : directory[x].revoked \in BOOLEAN
    BY <1>3, PrincipalFacts
  <2>2. Unambiguous(directory) /\ \A x \in DOMAIN directory : x \in used /\ directory[x].agentId \in used
    BY <1>1 DEF TablesInOrder, InOrder
  <2>3. ASSUME NEW x \in DOMAIN directory, NEW y \in DOMAIN directory,
               directory'[x].agentId = directory'[y].agentId, ~directory'[x].revoked, ~directory'[y].revoked
        PROVE  x = y
    BY <1>4, <2>1, <2>2, <2>3 DEF Unambiguous
  <2>4. ASSUME NEW x \in DOMAIN directory, NEW a \in DOMAIN creating
        PROVE  /\ directory'[x].agentId = a <=> x = creating[a]
               /\ x = creating[a] => ~directory'[x].revoked
    <3>1. /\ directory[x].agentId = a <=> x = creating[a]
          /\ x = creating[a] => ~directory[x].revoked
      BY <1>1 DEF TablesInOrder, InOrder
    <3>2. x = creating[a] => x # id
      BY <1>3, <1>6, <3>1
    <3> QED BY <1>4, <2>1, <3>1, <3>2
  <2>5. Unambiguous(directory)'
    BY <1>4, <2>3 DEF Unambiguous
  <2> QED BY <1>4, <1>5, <2>2, <2>4, <2>5 DEF InOrder
<1> QED BY <1>2, <1>3, <1>4, <1>5, <1>7, PersistStep

\* The rotate route: the old principal is revoked in the step that puts its successor in
\* force, and both are in the table it enqueues.
LEMMA RotateStep ==
  ASSUME IInv, NEW agent \in Agents, NEW next \in Ids, Rotate(agent, next)
  PROVE  IInv'
<1>1. Types /\ TablesInOrder /\ Creations /\ Revocations /\ Owned
  BY DEF IInv
<1>2. UNCHANGED <<table, stored, workspaces, creating, promised>>
  BY DEF Rotate
<1>3. CASE InForce(directory, agent) = {} /\ queue' = Append(queue, Persist(directory, {}))
             /\ UNCHANGED <<directory, used>>
  <2>1. InOrder(directory)' /\ directory' \in Tables
    BY <1>1, <1>2, <1>3, FewerCreations DEF TablesInOrder, Types
  <2> QED BY <1>2, <1>3, <2>1, PersistStep
<1>4. ASSUME NEW id \in InForce(directory, agent),
             next \notin used, used' = used \cup {next},
             directory' = With(Revocation(directory, id), next,
                               Minted(agent, directory[id].ownerId, directory[id].version + 1)),
             queue' = Append(queue, Persist(directory', {id}))
      PROVE  IInv'
  <2> DEFINE mid == Revocation(directory, id)
             p   == Minted(agent, directory[id].ownerId, directory[id].version + 1)
  <2>1. /\ id \in DOMAIN directory /\ directory[id].agentId = agent /\ id \in Ids
        /\ directory \in Tables /\ directory[id].ownerId \in Humans /\ directory[id].version + 1 \in Nat
    BY <1>1, PrincipalFacts DEF InForce, Types
  <2>2. p \in Principal /\ p.agentId = agent /\ p.revoked = FALSE
    BY <2>1, MintedFacts
  <2>3. /\ mid \in Tables /\ DOMAIN mid = DOMAIN directory
        /\ \A x \in DOMAIN directory : /\ mid[x].agentId = directory[x].agentId
                                       /\ mid[x].revoked = (x = id \/ directory[x].revoked)
        /\ Revoked(mid) = Revoked(directory) \cup {id}
    BY <2>1, RevocationFacts
  <2>4. directory' = With(mid, next, p)
    BY <1>4
  <2> HIDE DEF mid, p
  <2>5. /\ directory' \in Tables /\ DOMAIN directory' = DOMAIN directory \cup {next}
        /\ directory'[next] = p
        /\ \A x \in DOMAIN directory : x # next => directory'[x] = mid[x]
    BY <2>2, <2>3, <2>4, WithFacts
  <2>6. next \notin DOMAIN directory /\ agent \in used
    BY <1>1, <1>4 DEF TablesInOrder, InOrder, Creations, Rotate
  <2>7. /\ \A x \in DOMAIN directory :
              /\ directory'[x].agentId = directory[x].agentId
              /\ directory'[x].revoked = (x = id \/ directory[x].revoked)
        /\ Revoked(directory) \cup {id} \subseteq Revoked(directory')
    BY <2>1, <2>3, <2>5, <2>6 DEF Revoked
  <2>8. InOrder(directory)'
    <3>1. Unambiguous(directory)'
      <4>1. \A x \in DOMAIN directory : directory[x].revoked \in BOOLEAN
        BY <2>1, PrincipalFacts
      <4>2. ~directory[id].revoked /\ Unambiguous(directory)
        BY <1>1 DEF TablesInOrder, InOrder, InForce
      <4>3. \A x \in DOMAIN directory : directory[x].agentId = agent => directory'[x].revoked = TRUE
        BY <2>1, <2>7, <4>1, <4>2 DEF Unambiguous
      <4>4. ASSUME NEW x \in DOMAIN directory, NEW y \in DOMAIN directory,
                   directory'[x].agentId = directory'[y].agentId, ~directory'[x].revoked, ~directory'[y].revoked
            PROVE  x = y
        BY <2>7, <4>1, <4>2, <4>4 DEF Unambiguous
      <4>5. \A x \in DOMAIN directory : ~directory'[x].revoked => directory'[x].agentId # agent
        BY <2>7, <4>3
      <4> QED BY <2>2, <2>5, <4>4, <4>5 DEF Unambiguous
    <3>2. agent \notin DOMAIN creating
      BY <1>1 DEF Creations, Rotate
    <3>3. \A a \in DOMAIN creating : creating[a] # next /\ creating[a] # id
      BY <1>1, <1>4, <2>1, <3>2 DEF Creations, TablesInOrder, InOrder
    <3>4. \A x \in DOMAIN directory' : x \in used' /\ directory'[x].agentId \in used'
      BY <1>1, <1>4, <2>2, <2>5, <2>6, <2>7 DEF TablesInOrder, InOrder
    <3>5. ASSUME NEW x \in DOMAIN directory', NEW a \in DOMAIN creating
          PROVE  /\ directory'[x].agentId = a <=> x = creating[a]
                 /\ x = creating[a] => ~directory'[x].revoked
      <4>1. CASE x = next
        BY <2>2, <2>5, <3>2, <3>3, <4>1
      <4>2. CASE x \in DOMAIN directory
        <5>1. /\ directory[x].agentId = a <=> x = creating[a]
              /\ x = creating[a] => ~directory[x].revoked
          BY <1>1, <4>2 DEF TablesInOrder, InOrder
        <5>2. directory[x].revoked \in BOOLEAN
          BY <2>1, <4>2, PrincipalFacts
        <5> QED BY <2>7, <3>3, <4>2, <5>1, <5>2
      <4> QED BY <2>5, <4>1, <4>2
    <3> QED BY <1>2, <3>1, <3>4, <3>5 DEF InOrder
  <2> QED BY <1>2, <1>4, <2>1, <2>5, <2>7, <2>8, PersistStep
<1> QED BY <1>3, <1>4 DEF Rotate

\* A write takes the head of the queue; the others move up.
LEMMA Moved ==
  ASSUME Types, queue # << >>, queue' = Tail(queue)
  PROVE  /\ queue' \in Seq(Ops) /\ Head(queue) = queue[1] /\ queue[1] \in Ops /\ 1 \in DOMAIN queue
         /\ \A i : Persists(i)' => Persists(i + 1) /\ queue'[i] = queue[i + 1]
         /\ \A i : Stores(i)' => Stores(i + 1) /\ queue'[i] = queue[i + 1]
         /\ \A i : Persists(i)' \/ Stores(i)' => i \in Nat /\ i + 1 > 1
<1>1. queue \in Seq(Ops)
  BY DEF Types
<1>2. /\ Tail(queue) \in Seq(Ops) /\ 1 \in DOMAIN queue /\ Head(queue) = queue[1] /\ queue[1] \in Ops
      /\ \A i \in DOMAIN Tail(queue) :
           i \in Nat /\ i + 1 \in DOMAIN queue /\ i + 1 > 1 /\ Tail(queue)[i] = queue[i + 1]
  BY <1>1, Shortened
<1> QED BY <1>2 DEF Persists, Stores

\* The writes that are left are in order among themselves, whatever is written or
\* given up of the first.
LEMMA WritesMoved ==
  ASSUME IInv, queue # << >>, queue' = Tail(queue),
         UNCHANGED <<directory, workspaces, used>>, stored' \subseteq used,
         creating' \in UNION {[S -> Ids] : S \in SUBSET Agents},
         DOMAIN creating' \subseteq DOMAIN creating \ stored',
         \A a \in DOMAIN creating' : creating'[a] = creating[a],
         \A i : Stores(i)' => queue'[i].agent \in DOMAIN creating'
  PROVE  /\ queue' \in Seq(Ops) /\ InOrder(directory)' /\ Creations'
         /\ \A i : Persists(i)' => InOrder(queue[i].table)'
         /\ \A f : InOrder(f) => InOrder(f)'
         /\ \A i, j : Persists(i)' /\ Persists(j)' /\ i < j =>
              Revoked(queue'[i].table) \subseteq Revoked(queue'[j].table)
         /\ \A i, j : Stores(i)' /\ Persists(j)' /\ i < j => queue'[i].id \in DOMAIN queue'[j].table
<1>1. Types /\ TablesInOrder /\ Creations /\ Revocations /\ Owned
  BY DEF IInv
<1>2. /\ queue' \in Seq(Ops)
      /\ \A i : Persists(i)' => Persists(i + 1) /\ queue'[i] = queue[i + 1]
      /\ \A i : Stores(i)' => Stores(i + 1) /\ queue'[i] = queue[i + 1]
      /\ \A i : Persists(i)' \/ Stores(i)' => i \in Nat /\ i + 1 > 1
  BY <1>1, Moved
<1>3. \A f : InOrder(f) => InOrder(f)'
  BY FewerCreations
<1>4. ASSUME NEW i, Persists(i)' PROVE InOrder(queue[i].table)'
  <2>1. PICK k : k = i + 1 /\ Persists(k) /\ queue'[i] = queue[k]
    BY <1>2, <1>4
  <2>2. InOrder(queue[k].table)
    BY <1>1, <2>1 DEF TablesInOrder
  <2> QED BY <1>3, <2>1, <2>2
<1>5. Creations'
  <2>1. ASSUME NEW i, Stores(i)'
        PROVE  /\ queue'[i].agent \in DOMAIN creating' \cap workspaces
               /\ queue'[i].id = creating'[queue'[i].agent]
               /\ queue'[i].principal.agentId = queue'[i].agent
               /\ ~queue'[i].principal.revoked
    <3>1. PICK k : k = i + 1 /\ Stores(k) /\ queue'[i] = queue[k]
      BY <1>2, <2>1
    <3>2. queue'[i].agent \in DOMAIN creating'
      BY <2>1
    <3> QED BY <1>1, <3>1, <3>2 DEF Creations
  <2>2. ASSUME NEW i, NEW j, Stores(i)', Stores(j)', queue'[i].agent = queue'[j].agent
        PROVE  i = j
    <3>1. PICK k : k = i + 1 /\ Stores(k) /\ queue'[i] = queue[k]
      BY <1>2, <2>2
    <3>2. PICK m : m = j + 1 /\ Stores(m) /\ queue'[j] = queue[m]
      BY <1>2, <2>2
    <3>3. k = m
      BY <1>1, <2>2, <3>1, <3>2 DEF Creations
    <3> QED BY <1>2, <2>2, <3>1, <3>2, <3>3
  <2> QED BY <1>1, <2>1, <2>2 DEF Creations
<1>6. ASSUME NEW i, NEW j, Persists(i)', Persists(j)', i < j
      PROVE  Revoked(queue'[i].table) \subseteq Revoked(queue'[j].table)
  <2>1. PICK k : k = i + 1 /\ Persists(k) /\ queue'[i] = queue[k]
    BY <1>2, <1>6
  <2>2. PICK m : m = j + 1 /\ Persists(m) /\ queue'[j] = queue[m]
    BY <1>2, <1>6
  <2>3. k < m
    BY <1>2, <1>6, <2>1, <2>2
  <2>4. Revoked(queue[k].table) \subseteq Revoked(queue[m].table)
    BY <1>1, <2>1, <2>2, <2>3 DEF Revocations
  <2> QED BY <2>1, <2>2, <2>4
<1>7. ASSUME NEW i, NEW j, Stores(i)', Persists(j)', i < j
      PROVE  queue'[i].id \in DOMAIN queue'[j].table
  <2>1. PICK k : k = i + 1 /\ Stores(k) /\ queue'[i] = queue[k]
    BY <1>2, <1>7
  <2>2. PICK m : m = j + 1 /\ Persists(m) /\ queue'[j] = queue[m]
    BY <1>2, <1>7
  <2>3. k < m
    BY <1>2, <1>7, <2>1, <2>2
  <2> QED BY <1>1, <2>1, <2>2, <2>3 DEF Owned
<1>8. InOrder(directory)'
  BY <1>1, <1>3 DEF TablesInOrder
<1> QED BY <1>2, <1>3, <1>4, <1>5, <1>6, <1>7, <1>8

\* A table is written whole: it is a later state of the directory than the one it replaces,
\* so it takes back neither a revocation nor a stored Agent's principal.
LEMMA PersistWritten ==
  ASSUME IInv, queue # << >>, queue' = Tail(queue), Head(queue).kind = "persist",
         table' = Head(queue).table, promised' = promised \cup Head(queue).revoked,
         UNCHANGED <<directory, workspaces, used, stored, creating>>
  PROVE  IInv'
<1>1. Types /\ TablesInOrder /\ Creations /\ Revocations /\ Owned
  BY DEF IInv
<1>2. /\ Head(queue) = queue[1] /\ queue[1] \in Ops /\ 1 \in DOMAIN queue
      /\ \A i : Persists(i)' => Persists(i + 1) /\ queue'[i] = queue[i + 1]
      /\ \A i : Stores(i)' => Stores(i + 1) /\ queue'[i] = queue[i + 1]
      /\ \A i : Persists(i)' \/ Stores(i)' => i \in Nat /\ i + 1 > 1
  BY <1>1, Moved
<1>3. Persists(1) /\ table' = queue[1].table /\ table' \in Tables
  BY <1>2, OpFacts DEF Persists
<1>4. /\ queue' \in Seq(Ops) /\ InOrder(directory)' /\ Creations'
      /\ \A i : Persists(i)' => InOrder(queue[i].table)'
      /\ \A f : InOrder(f) => InOrder(f)'
      /\ \A i, j : Persists(i)' /\ Persists(j)' /\ i < j =>
           Revoked(queue'[i].table) \subseteq Revoked(queue'[j].table)
      /\ \A i, j : Stores(i)' /\ Persists(j)' /\ i < j => queue'[i].id \in DOMAIN queue'[j].table
  <2>1. ASSUME NEW i, Stores(i)' PROVE queue'[i].agent \in DOMAIN creating'
    <3>1. PICK k : Stores(k) /\ queue'[i] = queue[k]
      BY <1>2, <2>1
    <3> QED BY <1>1, <3>1 DEF Creations
  <2>2. /\ stored' \subseteq used /\ DOMAIN creating' \subseteq DOMAIN creating \ stored'
        /\ creating' \in UNION {[S -> Ids] : S \in SUBSET Agents}
    BY <1>1 DEF Types, Creations
  <2> QED BY <2>1, <2>2, WritesMoved
<1>5. Types'
  BY <1>1, <1>3, <1>4 DEF Types
<1>6. TablesInOrder'
  <2> DEFINE f == queue[1].table
  <2>1. InOrder(f) /\ table' = f
    BY <1>1, <1>3 DEF TablesInOrder
  <2> HIDE DEF f
  <2>2. Unambiguous(table)'
    BY <2>1 DEF InOrder, Unambiguous
  <2>3. InOrder(table)'
    BY <2>1, <2>2 DEF InOrder
  <2> QED BY <1>4, <2>3 DEF TablesInOrder
<1>7. Revocations'
  <2>1. ~SeedsBeforeLoad => promised' \subseteq Revoked(table')
    BY <1>1, <1>2, <1>3 DEF Revocations
  <2>2. Revoked(table') \subseteq Revoked(directory)
    BY <1>1, <1>3 DEF Revocations
  <2>3. ASSUME NEW i, Persists(i)'
        PROVE  /\ queue'[i].revoked \subseteq Revoked(queue'[i].table)
               /\ Revoked(table') \subseteq Revoked(queue'[i].table)
               /\ Revoked(queue'[i].table) \subseteq Revoked(directory)
    <3>1. PICK k : k > 1 /\ Persists(k) /\ queue'[i] = queue[k]
      BY <1>2, <2>3
    <3>2. Revoked(queue[1].table) \subseteq Revoked(queue[k].table)
      BY <1>1, <1>3, <3>1 DEF Revocations
    <3> QED BY <1>1, <1>3, <3>1, <3>2 DEF Revocations
  <2> QED BY <1>4, <2>1, <2>2, <2>3 DEF Revocations, Revoked
<1>8. Owned'
  <2>1. \A a \in stored : /\ Has(table', a) /\ Has(directory, a)
                          /\ \A i : Persists(i)' => Has(queue'[i].table, a)
    BY <1>1, <1>2, <1>3 DEF Owned
  <2> QED BY <1>4, <2>1 DEF Owned, Has
<1> QED BY <1>4, <1>5, <1>6, <1>7, <1>8 DEF IInv

\* createAgent's mutation adds the principal as it was minted.  Nobody can have revoked it
\* before: the routes know stored Agents only.
LEMMA StoreWritten ==
  ASSUME IInv, queue # << >>, queue' = Tail(queue), Head(queue).kind = "store",
         table' = With(table, Head(queue).id, Head(queue).principal),
         stored' = stored \cup {Head(queue).agent},
         creating' = Without(creating, Head(queue).agent),
         UNCHANGED <<directory, workspaces, used, promised>>
  PROVE  IInv'
<1>1. Types /\ TablesInOrder /\ Creations /\ Revocations /\ Owned
  BY DEF IInv
<1>2. /\ Head(queue) = queue[1] /\ queue[1] \in Ops /\ 1 \in DOMAIN queue
      /\ \A i : Persists(i)' => Persists(i + 1) /\ queue'[i] = queue[i + 1]
      /\ \A i : Stores(i)' => Stores(i + 1) /\ queue'[i] = queue[i + 1]
      /\ \A i : Persists(i)' \/ Stores(i)' => i \in Nat /\ i + 1 > 1
  BY <1>1, Moved
<1> DEFINE agent == queue[1].agent
           id    == queue[1].id
           p     == queue[1].principal
<1>3. /\ Stores(1) /\ agent \in DOMAIN creating /\ id = creating[agent]
      /\ p.agentId = agent /\ ~p.revoked /\ p \in Principal /\ id \in Ids
      /\ agent \in used \ stored /\ id \in used /\ id \in DOMAIN directory
  <2>1. Stores(1)
    BY <1>2 DEF Stores
  <2> QED BY <1>1, <1>2, <2>1, OpFacts DEF Creations
<1>4. /\ table' = With(table, id, p) /\ stored' = stored \cup {agent}
      /\ creating' = Without(creating, agent)
  BY <1>2
<1>5. \A i, j : Stores(i) /\ Stores(j) /\ queue[i].agent = queue[j].agent => i = j
  BY <1>1 DEF Creations
<1>6. ASSUME NEW i, Stores(i)' PROVE queue'[i].agent \in DOMAIN creating \ {agent}
  <2>1. PICK k : k > 1 /\ Stores(k) /\ queue'[i] = queue[k]
    BY <1>2, <1>6
  <2>2. queue[k].agent # agent
    BY <1>3, <1>5, <2>1
  <2> QED BY <1>1, <2>1, <2>2 DEF Creations
<1> HIDE DEF agent, id, p
<1>7. /\ creating' \in UNION {[S -> Ids] : S \in SUBSET Agents}
      /\ DOMAIN creating' = DOMAIN creating \ {agent}
      /\ \A a \in DOMAIN creating \ {agent} : creating'[a] = creating[a]
  <2>1. ASSUME NEW b
        PROVE  /\ Without(creating, b) \in UNION {[S -> Ids] : S \in SUBSET Agents}
               /\ DOMAIN Without(creating, b) = DOMAIN creating \ {b}
               /\ \A a \in DOMAIN creating \ {b} : Without(creating, b)[a] = creating[a]
    BY <1>1, WithoutFacts
  <2>2. /\ Without(creating, agent) \in UNION {[S -> Ids] : S \in SUBSET Agents}
        /\ DOMAIN Without(creating, agent) = DOMAIN creating \ {agent}
        /\ \A a \in DOMAIN creating \ {agent} : Without(creating, agent)[a] = creating[a]
    BY ONLY <2>1
  <2> QED BY ONLY <1>4, <2>2
<1>8. /\ table' \in Tables /\ DOMAIN table' = DOMAIN table \cup {id} /\ table'[id] = p
      /\ \A x \in DOMAIN table : x # id => table'[x] = table[x]
  <2>1. table \in Tables
    BY <1>1 DEF Types
  <2>2. ASSUME NEW x \in Ids, NEW r \in Principal
        PROVE  /\ With(table, x, r) \in Tables /\ DOMAIN With(table, x, r) = DOMAIN table \cup {x}
               /\ With(table, x, r)[x] = r
               /\ \A y \in DOMAIN table : y # x => With(table, x, r)[y] = table[y]
    BY <2>1, WithFacts
  <2>3. /\ With(table, id, p) \in Tables /\ DOMAIN With(table, id, p) = DOMAIN table \cup {id}
        /\ With(table, id, p)[id] = p
        /\ \A y \in DOMAIN table : y # id => With(table, id, p)[y] = table[y]
    BY ONLY <1>3, <2>2
  <2> QED BY ONLY <1>4, <2>3
<1>9. /\ queue' \in Seq(Ops) /\ InOrder(directory)' /\ Creations'
      /\ \A i : Persists(i)' => InOrder(queue[i].table)'
      /\ \A f : InOrder(f) => InOrder(f)'
      /\ \A i, j : Persists(i)' /\ Persists(j)' /\ i < j =>
           Revoked(queue'[i].table) \subseteq Revoked(queue'[j].table)
      /\ \A i, j : Stores(i)' /\ Persists(j)' /\ i < j => queue'[i].id \in DOMAIN queue'[j].table
  <2>1. /\ stored' \subseteq used /\ DOMAIN creating' \subseteq DOMAIN creating \ stored'
        /\ \A i : Stores(i)' => queue'[i].agent \in DOMAIN creating'
        /\ \A a \in DOMAIN creating' : creating'[a] = creating[a]
    BY <1>1, <1>3, <1>4, <1>6, <1>7 DEF Creations
  <2> QED BY <1>7, <2>1, WritesMoved
<1>10. Types'
  BY <1>1, <1>7, <1>8, <1>9 DEF Types
<1>11. ASSUME NEW f, InOrder(f), NEW x \in DOMAIN f
       PROVE  /\ f[x].agentId = agent <=> x = id
              /\ x = id => ~f[x].revoked
  BY <1>3, <1>11 DEF InOrder
<1>12. InOrder(table)
  BY <1>1 DEF TablesInOrder
<1>13. TablesInOrder'
  <2>1. ASSUME NEW x \in DOMAIN table', NEW y \in DOMAIN table',
               table'[x].agentId = table'[y].agentId, ~table'[x].revoked, ~table'[y].revoked
        PROVE  x = y
    <3>1. \A z \in DOMAIN table' : table'[z].agentId = agent <=> z = id
      BY <1>3, <1>8, <1>11, <1>12
    <3>2. CASE x = id \/ y = id
      BY <1>3, <1>8, <2>1, <3>1, <3>2
    <3>3. CASE x # id /\ y # id
      BY <1>8, <1>12, <2>1, <3>3 DEF InOrder, Unambiguous
    <3> QED BY <3>2, <3>3
  <2>2. \A x \in DOMAIN table' : x \in used /\ table'[x].agentId \in used
    BY <1>3, <1>8, <1>12 DEF InOrder
  <2>3. ASSUME NEW x \in DOMAIN table', NEW a \in DOMAIN creating'
        PROVE  /\ table'[x].agentId = a <=> x = creating'[a]
               /\ x = creating'[a] => ~table'[x].revoked
    <3>1. creating'[a] = creating[a] /\ a # agent /\ a \in DOMAIN creating
      BY <1>7
    <3>2. creating[a] # id
      <4>1. InOrder(directory)
        BY <1>1 DEF TablesInOrder
      <4> QED BY <1>3, <1>11, <3>1, <4>1 DEF InOrder
    <3>3. CASE x = id
      BY <1>3, <1>8, <3>1, <3>2, <3>3
    <3>4. CASE x # id
      BY <1>8, <1>12, <3>1, <3>4 DEF InOrder
    <3> QED BY <3>3, <3>4
  <2>4. InOrder(table)'
    <3>1. Unambiguous(table)'
      BY <2>1 DEF Unambiguous
    <3> QED BY <2>2, <2>3, <3>1 DEF InOrder
  <2> QED BY <1>9, <2>4 DEF TablesInOrder
<1>14. Revocations'
  <2>1. Revoked(table') = Revoked(table)
    BY <1>3, <1>8, <1>11, <1>12 DEF Revoked
  <2>2. ASSUME NEW i, Persists(i)'
        PROVE  /\ queue'[i].revoked \subseteq Revoked(queue'[i].table)
               /\ Revoked(table) \subseteq Revoked(queue'[i].table)
               /\ Revoked(queue'[i].table) \subseteq Revoked(directory)
    <3>1. PICK k : Persists(k) /\ queue'[i] = queue[k]
      BY <1>2, <2>2
    <3> QED BY <1>1, <3>1 DEF Revocations
  <2>3. (~SeedsBeforeLoad => promised \subseteq Revoked(table)) /\ Revoked(table) \subseteq Revoked(directory)
    BY <1>1 DEF Revocations
  <2> QED BY <1>9, <2>1, <2>2, <2>3 DEF Revocations, Revoked
<1>15. Owned'
  <2>1. \A a : Has(table, a) => Has(table', a)
    BY <1>3, <1>8, <1>11, <1>12 DEF Has
  <2>2. Has(table', agent)
    BY <1>3, <1>8 DEF Has
  <2>3. Has(directory, agent)
    <3>1. InOrder(directory)
      BY <1>1 DEF TablesInOrder
    <3> QED BY <1>3, <1>11, <3>1 DEF Has
  <2>4. ASSUME NEW i, Persists(i)', NEW a \in stored' PROVE Has(queue'[i].table, a)
    <3>1. PICK k : k > 1 /\ Persists(k) /\ queue'[i] = queue[k]
      BY <1>2, <2>4
    <3>2. CASE a \in stored
      BY <1>1, <3>1, <3>2 DEF Owned
    <3>3. CASE a = agent
      <4>1. id \in DOMAIN queue[k].table /\ InOrder(queue[k].table)
        BY <1>1, <1>3, <3>1 DEF Owned, TablesInOrder, id
      <4> QED BY <1>11, <3>1, <3>3, <4>1 DEF Has
    <3> QED BY <1>4, <2>4, <3>2, <3>3
  <2>5. \A a \in stored' : /\ Has(table', a) /\ Has(directory, a)
                           /\ \A i : Persists(i)' => Has(queue'[i].table, a)
    BY <1>1, <1>4, <2>1, <2>2, <2>3, <2>4 DEF Owned
  <2> QED BY <1>9, <2>5 DEF Owned, Has
<1> QED BY <1>9, <1>10, <1>13, <1>14, <1>15 DEF IInv

\* A write that leaves the table as it is: the end of an Agent, and one that fails.
LEMMA TableKept ==
  ASSUME IInv, queue # << >>, queue' = Tail(queue), stored' \subseteq stored,
         \/ creating' = creating /\ Head(queue).kind # "store"
         \/ creating' = Without(creating, Head(queue).agent) /\ Head(queue).kind = "store",
         UNCHANGED <<directory, workspaces, used, table, promised>>
  PROVE  IInv'
<1>1. Types /\ TablesInOrder /\ Creations /\ Revocations /\ Owned
  BY DEF IInv
<1>2. /\ Head(queue) = queue[1] /\ queue[1] \in Ops /\ 1 \in DOMAIN queue
      /\ \A i : Persists(i)' => Persists(i + 1) /\ queue'[i] = queue[i + 1]
      /\ \A i : Stores(i)' => Stores(i + 1) /\ queue'[i] = queue[i + 1]
      /\ \A i : Persists(i)' \/ Stores(i)' => i \in Nat /\ i + 1 > 1
  BY <1>1, Moved
<1>3. /\ creating' \in UNION {[S -> Ids] : S \in SUBSET Agents}
      /\ DOMAIN creating' \subseteq DOMAIN creating
      /\ \A a \in DOMAIN creating' : creating'[a] = creating[a]
      /\ \A a \in DOMAIN creating \ DOMAIN creating' : Stores(1) /\ a = queue[1].agent
  <2>1. CASE creating' = creating
    BY <1>1, <2>1 DEF Types
  <2>2. CASE creating' = Without(creating, queue[1].agent) /\ queue[1].kind = "store"
    BY <1>1, <1>2, <2>2, WithoutFacts DEF Stores
  <2> QED BY <1>2, <2>1, <2>2
<1>4. ASSUME NEW i, Stores(i)' PROVE queue'[i].agent \in DOMAIN creating'
  <2>1. PICK k : k > 1 /\ Stores(k) /\ queue'[i] = queue[k]
    BY <1>2, <1>4
  <2>2. queue[k].agent \in DOMAIN creating
    BY <1>1, <2>1 DEF Creations
  <2>3. Stores(1) => queue[k].agent # queue[1].agent
    BY <1>1, <2>1 DEF Creations
  <2> QED BY <1>3, <2>1, <2>2, <2>3
<1>5. /\ queue' \in Seq(Ops) /\ InOrder(directory)' /\ Creations'
      /\ \A i : Persists(i)' => InOrder(queue[i].table)'
      /\ \A f : InOrder(f) => InOrder(f)'
      /\ \A i, j : Persists(i)' /\ Persists(j)' /\ i < j =>
           Revoked(queue'[i].table) \subseteq Revoked(queue'[j].table)
      /\ \A i, j : Stores(i)' /\ Persists(j)' /\ i < j => queue'[i].id \in DOMAIN queue'[j].table
  <2>1. stored' \subseteq used /\ DOMAIN creating' \subseteq DOMAIN creating \ stored'
    BY <1>1, <1>3 DEF Creations
  <2>2. \A i : Stores(i)' => queue'[i].agent \in DOMAIN creating'
    BY <1>4
  <2> QED BY <1>3, <2>1, <2>2, WritesMoved
<1>6. Types'
  BY <1>1, <1>3, <1>5 DEF Types
<1>7. TablesInOrder'
  BY <1>1, <1>5 DEF TablesInOrder
<1>8. Revocations'
  <2>1. ASSUME NEW i, Persists(i)'
        PROVE  /\ queue'[i].revoked \subseteq Revoked(queue'[i].table)
               /\ Revoked(table) \subseteq Revoked(queue'[i].table)
               /\ Revoked(queue'[i].table) \subseteq Revoked(directory)
    <3>1. PICK k : Persists(k) /\ queue'[i] = queue[k]
      BY <1>2, <2>1
    <3> QED BY <1>1, <3>1 DEF Revocations
  <2>2. (~SeedsBeforeLoad => promised \subseteq Revoked(table)) /\ Revoked(table) \subseteq Revoked(directory)
    BY <1>1 DEF Revocations
  <2> QED BY <1>5, <2>1, <2>2 DEF Revocations, Revoked
<1>9. Owned'
  <2>1. ASSUME NEW i, Persists(i)', NEW a \in stored PROVE Has(queue'[i].table, a)
    <3>1. PICK k : Persists(k) /\ queue'[i] = queue[k]
      BY <1>2, <2>1
    <3> QED BY <1>1, <3>1 DEF Owned
  <2>2. \A a \in stored' : /\ Has(table, a) /\ Has(directory, a)
                           /\ \A i : Persists(i)' => Has(queue'[i].table, a)
    BY <1>1, <2>1 DEF Owned
  <2> QED BY <1>5, <2>2 DEF Owned, Has
<1> QED BY <1>5, <1>6, <1>7, <1>8, <1>9 DEF IInv

\* A restart gives up what was being created and what waited to be written; with the
\* boot of index.ts, everything that was stored.
LEMMA RestartStep ==
  ASSUME IInv, Restart PROVE IInv'
<1>1. Types /\ TablesInOrder /\ Creations /\ Revocations /\ Owned
  BY DEF IInv
<1>2. NoPrincipals \in [{} -> Ids] /\ NoPrincipals \in [{} -> Principal] /\ DOMAIN NoPrincipals = {}
  BY DEF NoPrincipals
<1>3. /\ directory' = table' /\ DOMAIN queue' = {} /\ queue' \in Seq(Ops)
      /\ creating' \in [{} -> Ids] /\ DOMAIN creating' = {}
      /\ UNCHANGED <<workspaces, used, promised>>
      /\ \A i : ~Persists(i)' /\ ~Stores(i)'
  BY <1>2 DEF Restart, Persists, Stores
<1>4. CASE ~SeedsBeforeLoad
  <2>1. table' = table /\ stored' = stored
    BY <1>4 DEF Restart
  <2>2. Types'
    BY <1>1, <1>3, <2>1 DEF Types
  <2>3. InOrder(table)' /\ InOrder(directory)'
    <3>1. InOrder(table)
      BY <1>1 DEF TablesInOrder
    <3>2. Unambiguous(table)' /\ Unambiguous(directory)'
      BY <1>3, <2>1, <3>1 DEF InOrder, Unambiguous
    <3> QED BY <1>3, <2>1, <3>1, <3>2 DEF InOrder
  <2>4. TablesInOrder' /\ Creations'
    BY <1>1, <1>3, <2>1, <2>3 DEF TablesInOrder, Creations
  <2>5. Revocations' /\ Owned'
    BY <1>1, <1>3, <2>1 DEF Revocations, Owned, Revoked, Has
  <2> QED BY <2>2, <2>4, <2>5 DEF IInv
<1>5. CASE SeedsBeforeLoad
  <2>1. table' = NoPrincipals /\ stored' = {} /\ DOMAIN table' = {}
    BY <1>2, <1>5 DEF Restart
  <2>2. Types'
    <3>1. table' \in Tables
      BY <1>2, <2>1 DEF Tables
    <3> QED BY <1>1, <1>3, <3>1 DEF Types
  <2>3. InOrder(table)' /\ InOrder(directory)'
    <3>1. Unambiguous(table)' /\ Unambiguous(directory)'
      BY <1>3, <2>1 DEF Unambiguous
    <3> QED BY <1>3, <2>1, <3>1 DEF InOrder
  <2>4. TablesInOrder' /\ Creations'
    BY <1>1, <1>3, <2>1, <2>3 DEF TablesInOrder, Creations
  <2>5. Revocations' /\ Owned'
    BY <1>3, <1>5, <2>1 DEF Revocations, Owned, Revoked
  <2> QED BY <2>2, <2>4, <2>5 DEF IInv
<1> QED BY <1>4, <1>5

\* IInv speaks of the state alone.
LEMMA Stuttering == IInv /\ UNCHANGED vars => IInv'
  BY DEF vars, IInv, Types, TablesInOrder, InOrder, Unambiguous, Persists, Stores, Creations,
         Revocations, Revoked, Owned, Has

\* Every step keeps what the tables promise.
LEMMA Invariance == IInv /\ [Next]_vars => IInv'
<1> SUFFICES ASSUME IInv, [Next]_vars PROVE IInv'
  OBVIOUS
<1>1. CASE \E agent \in Agents, owner \in Humans, id \in Ids : Mint(agent, owner, id)
  BY <1>1, MintStep
<1>2. CASE \E agent \in Agents : MakeWorkspace(agent) \/ MakeWorkspaceFails(agent)
  BY <1>2, MakeWorkspaceStep, MakeWorkspaceFailsStep
<1>3. CASE \E agent \in Agents : Revoke(agent) \/ Delete(agent)
  BY <1>3, RevokeStep, DeleteStep
<1>4. CASE \E agent \in Agents, id \in Ids : Rotate(agent, id)
  BY <1>4, RotateStep
<1>5. CASE Write
  <2>1. CASE Head(queue).kind = "persist"
    BY <1>5, <2>1, PersistWritten DEF Write
  <2>2. CASE Head(queue).kind = "store"
    BY <1>5, <2>2, StoreWritten DEF Write
  <2>3. CASE Head(queue).kind = "remove"
    BY <1>5, <2>3, TableKept DEF Write
  <2> QED BY <1>5, <2>1, <2>2, <2>3 DEF Write
<1>6. CASE WriteFails
  BY <1>6, TableKept DEF WriteFails
<1>7. CASE Restart
  BY <1>7, RestartStep
<1>8. CASE UNCHANGED vars
  BY <1>8, Stuttering
<1> QED BY <1>1, <1>2, <1>3, <1>4, <1>5, <1>6, <1>7, <1>8 DEF Next

\* So the tables keep it in every behaviour.
LEMMA Always == Spec => []IInv
  BY Initially, Invariance, PTL DEF Spec

-----------------------------------------------------------------------------
(* The promises                                                              *)

\* IdentityDirectory.activeFor takes the first principal in force that it finds, and
\* there is never a second one to find, in memory or in the table a restart restores:
\* not after a rotation whose write failed, nor after one while the Agent was being
\* created.
THEOREM OnePrincipalInForce == Spec => []OneInForce
<1>1. IInv => OneInForce
  BY DEF IInv, TablesInOrder, InOrder, OneInForce
<1> QED BY <1>1, Always, PTL

\* persistPrincipals writes the whole table as it stands: where the store is loaded
\* before seedIdentities restores from it, a revocation that a response has confirmed is
\* never taken back, by a write that was asked for earlier, by the creation of another
\* Agent, or by a restart. The boot of index.ts is not of this kind (SeedsBeforeLoad).
THEOREM ConfirmedRevocationsLast == ASSUME ~SeedsBeforeLoad PROVE Spec => []RevocationsLast
<1>1. IInv => RevocationsLast
  BY DEF IInv, Revocations, RevocationsLast
<1> QED BY <1>1, Always, PTL

\* createAgent mints before it stores, and the two go to disk together: there is no
\* stored Agent whose runs could not be attributed to an owner, after a crash either.
THEOREM EveryAgentHasAPrincipal == Spec => []StoredAgentsHavePrincipals
<1>1. IInv => StoredAgentsHavePrincipals
  BY DEF IInv, Owned, Has, StoredAgentsHavePrincipals
<1> QED BY <1>1, Always, PTL
=============================================================================
