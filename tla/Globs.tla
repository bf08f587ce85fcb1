-------------------------------- MODULE Globs --------------------------------
(***************************************************************************)
(* The paths of a manifest and the globs among them (heimdall/engine.ts).  *)
(* A path and a glob are sequences of characters: "/", "*", "?" and others. *)
(***************************************************************************)
EXTENDS Integers, Sequences

IsGlob(p) == \E i \in DOMAIN p : p[i] \in {"*", "?"}

\* globToRegExp and the match of the expression it makes: "**" is any text, with a "/"
\* right after it swallowed; "*" is any text within a name, "?" one character of one.
\* m[<<i, j>>]: the glob from i on matches the path from j on.
MatchesGlob(glob, path) ==
  LET at(s, i) == IF i \in DOMAIN s THEN s[i] ELSE "end"
      m[ij \in (1..(Len(glob) + 1)) \X (1..(Len(path) + 1))] ==
        LET i == ij[1]
            j == ij[2]
        IN CASE at(glob, i) = "end" -> j = Len(path) + 1
             [] at(glob, i) = "*" /\ at(glob, i + 1) = "*" ->
                  \E k \in j..(Len(path) + 1) : m[<<IF at(glob, i + 2) = "/" THEN i + 3 ELSE i + 2, k>>]
             [] at(glob, i) = "*" /\ at(glob, i + 1) # "*" ->
                  \E k \in j..(Len(path) + 1) : (\A x \in j..(k - 1) : path[x] # "/") /\ m[<<i + 1, k>>]
             [] at(glob, i) = "?" -> at(path, j) \notin {"/", "end"} /\ m[<<i + 1, j + 1>>]
             [] OTHER -> at(path, j) = at(glob, i) /\ m[<<i + 1, j + 1>>]
  IN m[<<1, 1>>]

\* resolveGlob: a path that is no glob stands for itself, there or not.
ResolveGlob(glob, files) == IF IsGlob(glob) THEN {f \in files : MatchesGlob(glob, f)} ELSE {glob}

-----------------------------------------------------------------------------
(* The reference: the names of a path one by one                             *)

Segments(p) ==
  LET ends == {i \in 0..(Len(p) + 1) : i \in {0, Len(p) + 1} \/ p[i] = "/"}
  IN {<<i, j>> \in ends \X ends : i < j /\ \A k \in ends : k <= i \/ j <= k}

Name(p, s)  == SubSeq(p, s[1] + 1, s[2] - 1)
Depth(p)    == {i \in DOMAIN p : p[i] = "/"}

\* "*" and "?" do not leave a name: without a "**" a glob stands for files of its own
\* depth, each name matched by the glob's name in its place.
StaysInItsDirectory(globs, paths) ==
  \A glob \in globs, path \in paths :
    (\A i \in 1..(Len(glob) - 1) : ~(glob[i] = "*" /\ glob[i + 1] = "*")) /\ MatchesGlob(glob, path) =>
      \E f \in [Segments(path) -> Segments(glob)] :
        /\ \A s, t \in Segments(path) : s[1] < t[1] <=> f[s][1] < f[t][1]
        /\ \A t \in Segments(glob) : \E s \in Segments(path) : f[s] = t
        /\ \A s \in Segments(path) : MatchesGlob(Name(glob, f[s]), Name(path, s))

\* A glob matches the path it is, read as a path.
MatchesItself(globs) == \A glob \in globs : ~IsGlob(glob) => MatchesGlob(glob, glob)
=============================================================================
