------------------------------- MODULE Workspace -------------------------------
(***************************************************************************)
(* The Agent's directory as the server reads it: files.ts (listing,        *)
(* search, preview, and the snapshots a run's changes are the difference   *)
(* of), and the scans of the runner and of the planner.                    *)
(*                                                                         *)
(* A path is the sequence of its names below the workspace's root, which   *)
(* is the empty one.  A workspace is a record of the directories that can  *)
(* be read, the other entries that are no files, and the files with their  *)
(* size, time of change, text and the place of their first NUL byte.  The  *)
(* order in which a directory is read is the file system's; an operator    *)
(* Is... says which results that order may give.                           *)
(***************************************************************************)
EXTENDS Integers, Sequences, SequencesExt, FiniteSets

CONSTANTS
  EXCLUDED_DIRS, MAX_WALK_DEPTH, MAX_WALK_ENTRIES,
  MAX_SNAPSHOT_CONTENT_BYTES, MAX_PREVIEW_BYTES, MAX_SEARCH_RESULTS,
  BinaryProbe,              \* the bytes looksBinary looks at
  DotNames, DigestSkipped,  \* names the planner's scan leaves out
  Rank                      \* EXCERPT_RANK and EXCERPT_SKIP: a name's rank, 0 for none

-----------------------------------------------------------------------------
(* Where a path leads                                                        *)

\* path.normalize, then path.resolve, one segment at a time.
Normalised(absolute, path) ==
  FoldLeft(LAMBDA done, name :
             IF name = "." THEN done
             ELSE IF name # ".." THEN Append(done, name)
             ELSE IF done # << >> /\ Last(done) # ".." THEN Front(done)
             ELSE IF absolute THEN done ELSE Append(done, name),
           << >>, path)

\* The resolved path, or nothing where the code throws.  `absolute` says that the
\* request's path begins with a slash, which is taken off afterwards.
ResolveWorkspacePath(root, absolute, path) ==
  {r \in {Normalised(TRUE, root \o Normalised(absolute, path))} : IsPrefix(root, r)}

-----------------------------------------------------------------------------
(* Walking                                                                   *)

Above(path) == {SubSeq(path, 1, i) : i \in 0..(Len(path) - 1)}

\* What a walk that reads directories down to a depth and passes over names comes by.
Reaches(ws, path, depth, excluded) ==
  /\ Above(path) \subseteq ws.directories /\ Len(path) <= depth + 1
  /\ \A i \in DOMAIN path : path[i] \notin excluded

Entries(ws) == DOMAIN ws.files \cup ws.others

LooksBinary(file) == file.nul < BinaryProbe /\ file.nul < file.size

\* Text is kept of what is small and not binary.
SnapshotEntry(file) ==
  [size |-> file.size, mtimeMs |-> file.mtimeMs,
   content |-> IF file.size <= MAX_SNAPSHOT_CONTENT_BYTES /\ ~LooksBinary(file) THEN {file.text} ELSE {}]

Walked(ws) == {p \in DOMAIN ws.files : Reaches(ws, p, MAX_WALK_DEPTH, EXCLUDED_DIRS)}

\* The limit is looked at on entering a directory, and not within one.
IsSnapshot(ws, snapshot) ==
  \E entered \in SUBSET ws.directories :
    /\ DOMAIN snapshot = {p \in Walked(ws) : Above(p) \subseteq entered}
    /\ \A p \in DOMAIN snapshot : snapshot[p] = SnapshotEntry(ws.files[p])
    /\ entered = ws.directories \/ Cardinality(DOMAIN snapshot) > MAX_WALK_ENTRIES

\* Directories first.  What is neither a directory nor a file is left out; a directory
\* that cannot be read lists nothing, and is listed.
Children(ws, kinds, dir) ==
  {p \in kinds : Len(p) = Len(dir) + 1 /\ IsPrefix(dir, p) /\ Last(p) \notin EXCLUDED_DIRS}

IsListing(ws, dir, listing) ==
  LET folders == Children(ws, ws.directories \cup ws.closed, dir)
      plain   == Children(ws, DOMAIN ws.files, dir)
  IN IF dir \notin ws.directories THEN listing = << >>
     ELSE /\ ToSet(listing) = folders \cup plain /\ Len(listing) = Cardinality(folders \cup plain)
          /\ \A i \in DOMAIN listing : listing[i] \in folders <=> i <= Cardinality(folders)

\* `hits` are the names that hold the trimmed query; an empty query finds nothing.
Found(ws, hits) == {p \in Entries(ws) : Reaches(ws, p, MAX_WALK_DEPTH, EXCLUDED_DIRS) /\ Last(p) \in hits}

IsUpTo(limit, found, all) ==
  found \subseteq all /\ Cardinality(found) <= limit /\ (found = all \/ Cardinality(found) = limit)

IsSearch(ws, hits, found) == IsUpTo(MAX_SEARCH_RESULTS, found, Found(ws, hits))

\* What the Files tab shows of a file: no text of a binary one, a megabyte of another.
Preview(file) ==
  [size |-> file.size, binary |-> LooksBinary(file), truncated |-> file.size > MAX_PREVIEW_BYTES,
   shown |-> IF LooksBinary(file) THEN 0
             ELSE IF file.size > MAX_PREVIEW_BYTES THEN MAX_PREVIEW_BYTES ELSE file.size]

\* runner.ts: the files a permit is scored against.
IsWorkspaceList(ws, list) ==
  LET all == {p \in Entries(ws) : Reaches(ws, p, 6, {"node_modules", ".git", "dist"})}
  IN list \subseteq all /\ (list = all \/ Cardinality(list) > 5000)

-----------------------------------------------------------------------------
(* What a run changed                                                        *)

\* The texts the two sides are compared by, lines of which diffLines marks; a file
\* that was not there has an empty one.
BuildFileDiff(before, after) == [before |-> before, after |-> after]
Sides(before, after) ==
  IF before # {} /\ after # {}
  THEN {BuildFileDiff(b, a) : b \in before, a \in after} ELSE {}

Change(path, kind, sizeBefore, sizeAfter, diff) ==
  [path |-> path, kind |-> kind, sizeBefore |-> sizeBefore, sizeAfter |-> sizeAfter, diff |-> diff]

Differs(before, after, p) ==
  before[p].size # after[p].size \/ before[p].mtimeMs # after[p].mtimeMs

Deleted(before, p)  == Change(p, "deleted", {before[p].size}, {}, Sides(before[p].content, {""}))
Modified(before, after, p) ==
  Change(p, "modified", {before[p].size}, {after[p].size}, Sides(before[p].content, after[p].content))
Added(after, p)     == Change(p, "added", {}, {after[p].size}, Sides({""}, after[p].content))

Deletions(before, after) == {Deleted(before, p) : p \in DOMAIN before \ DOMAIN after}
Modifications(before, after) ==
  {Modified(before, after, p) : p \in {q \in DOMAIN before \cap DOMAIN after : Differs(before, after, q)}}
Additions(before, after) == {Added(after, p) : p \in DOMAIN after \ DOMAIN before}

DiffSnapshots(before, after) ==
  Deletions(before, after) \cup Modifications(before, after) \cup Additions(before, after)

-----------------------------------------------------------------------------
(* What the planner is shown                                                 *)

\* Dot-directories are passed over, files whose name begins with a dot are not.
IsTree(ws, limit, tree) ==
  LET all == {p \in Entries(ws) : /\ Reaches(ws, p, 4, DigestSkipped)
                                  /\ \A i \in 1..(Len(p) - 1) : p[i] \notin DotNames}
  IN IsUpTo(limit, ToSet(tree), all) /\ Len(tree) = Cardinality(ToSet(tree))

\* By rank, then by depth; which of two equals comes first is their spelling's matter.
IsRanked(tree, ranked) ==
  /\ ToSet(ranked) = {p \in ToSet(tree) : Rank[Last(p)] # 0} /\ Len(ranked) = Cardinality(ToSet(ranked))
  /\ \A i, j \in DOMAIN ranked : i < j =>
       \/ Rank[Last(ranked[i])] < Rank[Last(ranked[j])]
       \/ Rank[Last(ranked[i])] = Rank[Last(ranked[j])] /\ Len(ranked[i]) <= Len(ranked[j])

\* At most two of a kind, and `most` in all.
Picks(ranked, most) ==
  FoldLeft(LAMBDA picks, p :
             IF \/ Len(picks) >= most
                \/ Cardinality({i \in DOMAIN picks : Rank[Last(picks[i])] = Rank[Last(p)]}) >= 2
             THEN picks ELSE Append(picks, p),
           << >>, ranked)

\* How much of each pick is quoted: what is too large or no file costs nothing.
Least(a, b) == IF a < b THEN a ELSE b
Excerpts(ws, picks, each, budget) ==
  FoldLeft(LAMBDA quoted, p :
             IF quoted.budget <= 0 \/ p \notin DOMAIN ws.files \/ ws.files[p].size > 200000 THEN quoted
             ELSE LET n == Least(ws.files[p].size, Least(each, quoted.budget))
                  IN [budget |-> quoted.budget - n, parts |-> Append(quoted.parts, <<p, n>>)],
           [budget |-> budget, parts |-> << >>], picks).parts

\* A repair is about the reply's form: the excerpts are left out of it, the tree is not.
PlannerMessages(digest, journal, repair) ==
  {"task", "tree"}
    \cup (IF repair = {} /\ digest.parts # << >> THEN {"excerpts"} ELSE {})
    \cup (IF journal # << >> THEN {"journal"} ELSE {})
    \cup (IF repair # {} THEN {"repair"} ELSE {})
=============================================================================
