---------------------------- MODULE WorkspaceProofs ----------------------------
(***************************************************************************)
(* What a run is said to have changed, for every workspace.                *)
(***************************************************************************)
EXTENDS Workspace, FiniteSetTheorems, TLAPS

Changed(before, after) == {c.path : c \in DiffSnapshots(before, after)}

\* The change made for a path is about that path, and shows both sides exactly where it
\* has the text of both.
LEMMA ChangeShape ==
  ASSUME NEW before, NEW after, NEW p
  PROVE  /\ Deleted(before, p).path = p
         /\ Modified(before, after, p).path = p
         /\ Added(after, p).path = p
         /\ (Deleted(before, p).diff # {}) <=> (before[p].content # {})
         /\ (Modified(before, after, p).diff # {}) <=> (before[p].content # {} /\ after[p].content # {})
         /\ (Added(after, p).diff # {}) <=> (after[p].content # {})
<1>1. \A x, y : (Sides(x, y) # {}) <=> (x # {} /\ y # {})
  BY DEF Sides
<1>2. \A x : /\ (Sides(x, {""}) # {}) <=> (x # {})
             /\ (Sides({""}, x) # {}) <=> (x # {})
  <2> DEFINE none == {""}
  <2>1. none # {}
    OBVIOUS
  <2> HIDE DEF none
  <2> QED BY <1>1, <2>1
<1>3. Deleted(before, p).path = p /\ Deleted(before, p).diff = Sides(before[p].content, {""})
  BY DEF Deleted, Change
<1>4. /\ Modified(before, after, p).path = p
      /\ Modified(before, after, p).diff = Sides(before[p].content, after[p].content)
  BY DEF Modified, Change
<1>5. Added(after, p).path = p /\ Added(after, p).diff = Sides({""}, after[p].content)
  BY DEF Added, Change
<1>6. (Deleted(before, p).diff # {}) <=> (before[p].content # {})
  BY <1>2, <1>3
<1>7. (Modified(before, after, p).diff # {}) <=> (before[p].content # {} /\ after[p].content # {})
  BY <1>1, <1>4
<1>8. (Added(after, p).diff # {}) <=> (after[p].content # {})
  BY <1>2, <1>5
<1> QED BY <1>3, <1>4, <1>5, <1>6, <1>7, <1>8

\* diffSnapshots is exact: it lists a path exactly when one side alone has it, or both
\* have it with another size or time.  A change that keeps both is not seen.
THEOREM DiffIsExact ==
  ASSUME NEW before, NEW after, NEW p
  PROVE  p \in Changed(before, after) <=>
           \/ p \in DOMAIN before /\ p \notin DOMAIN after
           \/ p \in DOMAIN after /\ p \notin DOMAIN before
           \/ p \in DOMAIN before \cap DOMAIN after /\ Differs(before, after, p)
<1>1. \A q : Deleted(before, q).path = q /\ Modified(before, after, q).path = q /\ Added(after, q).path = q
  BY ChangeShape
<1> QED BY <1>1 DEF Changed, DiffSnapshots, Deletions, Modifications, Additions

\* Nothing is listed between a snapshot and itself, and what two runs in a row changed
\* covers what they changed together.
THEOREM ChangesAccumulate ==
  ASSUME NEW first, NEW second, NEW third
  PROVE  /\ Changed(first, first) = {}
         /\ Changed(first, third) \subseteq Changed(first, second) \cup Changed(second, third)
<1>1. Changed(first, first) = {}
  BY DiffIsExact DEF Differs
<1>2. ASSUME NEW p \in Changed(first, third)
      PROVE  p \in Changed(first, second) \cup Changed(second, third)
  BY <1>2, DiffIsExact DEF Differs
<1> QED BY <1>1, <1>2

\* A file is listed once.
THEOREM OneChangePerFile ==
  ASSUME NEW before, NEW after,
         NEW c \in DiffSnapshots(before, after), NEW d \in DiffSnapshots(before, after),
         c.path = d.path
  PROVE  c = d
<1>1. \A q : Deleted(before, q).path = q /\ Modified(before, after, q).path = q /\ Added(after, q).path = q
  BY ChangeShape
<1>2. ASSUME NEW e \in DiffSnapshots(before, after)
      PROVE  \/ /\ e.path \in DOMAIN before \ DOMAIN after
                /\ e = Deleted(before, e.path)
             \/ /\ e.path \in DOMAIN before \cap DOMAIN after
                /\ e = Modified(before, after, e.path)
             \/ /\ e.path \in DOMAIN after \ DOMAIN before
                /\ e = Added(after, e.path)
  BY <1>1 DEF DiffSnapshots, Deletions, Modifications, Additions
<1> QED BY <1>2

\* The limit on entries loses nothing of a workspace that is within it: whatever the
\* order its directories are read in, its snapshot is whole.
THEOREM SnapshotIsWhole ==
  ASSUME NEW ws, NEW snapshot, IsSnapshot(ws, snapshot), MAX_WALK_ENTRIES \in Nat,
         IsFiniteSet(Walked(ws)), Cardinality(Walked(ws)) <= MAX_WALK_ENTRIES
  PROVE  /\ DOMAIN snapshot = Walked(ws)
         /\ \A p \in Walked(ws) : snapshot[p] = SnapshotEntry(ws.files[p])
<1>1. PICK entered \in SUBSET ws.directories :
        /\ DOMAIN snapshot = {p \in Walked(ws) : Above(p) \subseteq entered}
        /\ \A p \in DOMAIN snapshot : snapshot[p] = SnapshotEntry(ws.files[p])
        /\ entered = ws.directories \/ Cardinality(DOMAIN snapshot) > MAX_WALK_ENTRIES
  BY DEF IsSnapshot
<1>2. DOMAIN snapshot \subseteq Walked(ws)
  BY <1>1
<1>3. Cardinality(DOMAIN snapshot) <= Cardinality(Walked(ws))
  BY <1>2, FS_Subset
<1>4. Cardinality(DOMAIN snapshot) \in Nat /\ Cardinality(Walked(ws)) \in Nat
  BY <1>2, FS_Subset, FS_CardinalityType
<1>5. entered = ws.directories
  BY <1>1, <1>3, <1>4
<1>6. \A p \in Walked(ws) : Above(p) \subseteq ws.directories
  BY DEF Walked, Reaches
<1> QED BY <1>1, <1>5, <1>6

\* So the changes recorded for a run are the workspace's: a file the walk comes by is
\* among them exactly when it came, went, or has another size or time.
THEOREM RunChangesAreExact ==
  ASSUME NEW old, NEW new, NEW before, NEW after, IsSnapshot(old, before), IsSnapshot(new, after),
         MAX_WALK_ENTRIES \in Nat,
         IsFiniteSet(Walked(old)), Cardinality(Walked(old)) <= MAX_WALK_ENTRIES,
         IsFiniteSet(Walked(new)), Cardinality(Walked(new)) <= MAX_WALK_ENTRIES
  PROVE  Changed(before, after) =
           (Walked(old) \ Walked(new)) \cup (Walked(new) \ Walked(old))
             \cup {p \in Walked(old) \cap Walked(new) :
                     \/ old.files[p].size # new.files[p].size
                     \/ old.files[p].mtimeMs # new.files[p].mtimeMs}
<1>1. /\ DOMAIN before = Walked(old)
      /\ \A p \in Walked(old) : before[p] = SnapshotEntry(old.files[p])
  BY SnapshotIsWhole
<1>2. /\ DOMAIN after = Walked(new)
      /\ \A p \in Walked(new) : after[p] = SnapshotEntry(new.files[p])
  BY SnapshotIsWhole
<1>3. ASSUME NEW p \in Walked(old) \cap Walked(new)
      PROVE  Differs(before, after, p) <=>
               \/ old.files[p].size # new.files[p].size
               \/ old.files[p].mtimeMs # new.files[p].mtimeMs
  BY <1>1, <1>2 DEF Differs, SnapshotEntry
<1> QED BY <1>1, <1>2, <1>3, DiffIsExact

\* Both sides are shown exactly where the text of both was kept.
THEOREM TextIsShownWhenKept ==
  ASSUME NEW before, NEW after, NEW c \in DiffSnapshots(before, after)
  PROVE  c.diff # {} <=>
           /\ c.path \in DOMAIN before => before[c.path].content # {}
           /\ c.path \in DOMAIN after  => after[c.path].content # {}
<1>1. CASE c \in Deletions(before, after)
  <2>1. PICK p \in DOMAIN before \ DOMAIN after : c = Deleted(before, p)
    BY <1>1 DEF Deletions
  <2>2. c.path = p /\ ((c.diff # {}) <=> (before[p].content # {}))
    BY <2>1, ChangeShape
  <2> QED BY <2>1, <2>2
<1>2. CASE c \in Modifications(before, after)
  <2>1. PICK p \in DOMAIN before \cap DOMAIN after : c = Modified(before, after, p)
    BY <1>2 DEF Modifications
  <2> QED BY <2>1, ChangeShape
<1>3. CASE c \in Additions(before, after)
  <2>1. PICK p \in DOMAIN after \ DOMAIN before : c = Added(after, p)
    BY <1>3 DEF Additions
  <2>2. c.path = p /\ ((c.diff # {}) <=> (after[p].content # {}))
    BY <2>1, ChangeShape
  <2> QED BY <2>1, <2>2
<1> QED BY <1>1, <1>2, <1>3 DEF DiffSnapshots
=============================================================================
