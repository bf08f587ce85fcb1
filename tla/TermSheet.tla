------------------------------ MODULE TermSheet ------------------------------
(* termsheet.ts and the classifiers of engine.ts: what a path, a command or a  *)
(* host is to the platform, and the points it costs. Text is abstracted to     *)
(* what the code tells apart: a path is a model value, and the outcome of each *)
(* regular expression on it is membership in a constant set.                   *)
EXTENDS Integers, FiniteSets, FiniteSetsExt

CONSTANTS Paths,       \* workspace-relative paths and globs
          Globs,       \* the paths with a wildcard
          Inside,      \* the paths that resolve inside the workspace
          Linked,      \* inside by name, but through a symbolic link that leads out
          Matches,     \* the paths a glob's pattern matches
          Kind,        \* what classifyTarget makes of a path's name
          Credential,  \* the paths shaped like a credential
          Platform,    \* the paths of the platform itself
          Canary,      \* the decoy file
          Journals,    \* the paths named error.txt
          Tracked,     \* the paths git tracks
          Ignored,     \* the paths below a git-ignored directory
          Content,     \* what a file's content is for the payload inspection
          Hosts,       \* host names
          Words        \* the words of a command

Kinds   == {"source", "config", "dependency", "build", "dotfile", "unknown"}
Classes == {"none", "metadata", "public", "dependency", "source_code", "undeclared"}

ASSUME WorldAssumption ==
    /\ Globs \subseteq Paths /\ Inside \subseteq Paths /\ Linked \subseteq Inside
    /\ Matches \in [Globs -> SUBSET Paths]
    /\ Kind \in [Paths -> Kinds]
    /\ Content \in [Paths -> {"absent", "clean", "secret"}]
    /\ Credential \cup Platform \cup Journals \cup Tracked \cup Ignored \subseteq Paths
    /\ Canary \in Paths
    /\ "-" \notin Hosts /\ "none" \notin Words

Ops == {"FS_READ", "FS_WRITE", "FS_DELETE", "EXEC", "NET_READ", "NET_WRITE", "ENV_READ", "PROC_SPAWN"}

-----------------------------------------------------------------------------
(* The axes *)

A2_TARGET == [source |-> 0, config |-> 1, dependency |-> 2, build |-> 3, dotfile |-> 6, unknown |-> 6]
A5_EGRESS == [none |-> 0, metadata |-> 0, public |-> 1, dependency |-> 2, source_code |-> 3, undeclared |-> 5]

TierFor(points) ==
    IF points <= 2 THEN "T0"
    ELSE IF points <= 4  THEN "T1"
    ELSE IF points <= 9  THEN "T2"
    ELSE IF points <= 14 THEN "T3" ELSE "T4"

Rank == [T0 |-> 0, T1 |-> 1, T2 |-> 2, T3 |-> 3, T4 |-> 4]

ClassifyTarget(p) == IF p \in Inside THEN A2_TARGET[Kind[p]] ELSE 6

\* The files a path stands for: itself, or those of the workspace its pattern matches.
ResolveGlob(p, files) == IF p \in Globs THEN Matches[p] \cap files ELSE {p}

\* Scope: the number of files, except that a glob never counts as the smallest band.
BlastPoints(paths, files) ==
    LET n    == MapThenSumSet(LAMBDA p : Cardinality(ResolveGlob(p, files)), paths)
        band == IF n <= 3 THEN 0 ELSE IF n <= 10 THEN 1 ELSE IF n <= 50 THEN 3 ELSE 5
    IN  IF paths \cap Globs # {} /\ band < 1 THEN 1 ELSE band

Taints == [none |-> 0, workspace |-> 2, external |-> 4]
==============================================================================
