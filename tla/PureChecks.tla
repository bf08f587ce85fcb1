------------------------------ MODULE PureChecks ------------------------------
(***************************************************************************)
(* The operators of the modules without a state, checked against reference *)
(* definitions on every small input.  TLC evaluates the assumptions before *)
(* the run whose module extends this one.                                  *)
(***************************************************************************)
LOCAL INSTANCE Integers
LOCAL INSTANCE Sequences
LOCAL INSTANCE SequencesExt

LOCAL Texts(alphabet, n) == UNION {[1..k -> alphabet] : k \in 0..n}

-----------------------------------------------------------------------------
(* Workspace.tla                                                             *)

LOCAL Names == {"a", "b", ".."}
LOCAL Ranks == [name \in Names |-> IF name = ".." THEN 0 ELSE IF name = "a" THEN 1 ELSE 2]

LOCAL WS == INSTANCE Workspace WITH
  EXCLUDED_DIRS <- {"node_modules"}, MAX_WALK_DEPTH <- 1, MAX_WALK_ENTRIES <- 2,
  MAX_SNAPSHOT_CONTENT_BYTES <- 2, MAX_PREVIEW_BYTES <- 2, MAX_SEARCH_RESULTS <- 2,
  BinaryProbe <- 2, DotNames <- {}, DigestSkipped <- {}, Rank <- Ranks

\* Going where a path leads, a name at a time, from the root of the file system on.
LOCAL Led(from, path) ==
  FoldLeft(LAMBDA at, name : IF name # ".." THEN Append(at, name)
                             ELSE IF at = << >> THEN at ELSE Front(at), from, path)

\* resolveWorkspacePath gives the file a relative path leads to from the workspace, or
\* refuses it when that is outside; an absolute one is taken from the workspace, and
\* its ".." cannot leave it.
ASSUME PathsResolve ==
  \A path \in Texts(Names, 5), root \in {<<"a">>, <<"a", "b">>} :
    /\ WS!ResolveWorkspacePath(root, FALSE, path) = {r \in {Led(root, path)} : IsPrefix(root, r)}
    /\ WS!ResolveWorkspacePath(root, TRUE, path) = {root \o Led(<< >>, path)}

\* The planner is shown the first two files of each rank, as far as there is room, in
\* the order of their ranks.
ASSUME PicksAreTheFirst ==
  \A kinds \in Texts({"a", "b"}, 5), most \in 0..5 :
    LET ranked == [i \in DOMAIN kinds |-> <<kinds[i]>>]
        free   == {i \in DOMAIN ranked : Len(SelectSeq(SubSeq(kinds, 1, i - 1), LAMBDA k : k = kinds[i])) < 2}
        taken  == SetToSortSeq(free, <)
    IN WS!Picks(ranked, most) =
         [k \in 1..(IF Len(taken) < most THEN Len(taken) ELSE most) |-> ranked[taken[k]]]

\* What is quoted of them is within the budget of the whole and of each, nothing is
\* quoted after the budget is used up, and no file is cut while there is room for it.
ASSUME ExcerptsFit ==
  \A sizes \in [{<<"a">>, <<"b">>, <<"..">>} -> {0, 1, 3, 200001}], budget \in 0..4 :
    LET ws    == [files |-> [p \in DOMAIN sizes |-> [size |-> sizes[p]]]]
        parts == WS!Excerpts(ws, <<<<"a">>, <<"x">>, <<"b">>, <<"..">>>>, 2, budget)
        cost  == FoldLeft(LAMBDA sum, part : sum + part[2], 0, parts)
    IN /\ cost <= budget
       /\ \A i \in DOMAIN parts :
            LET p == parts[i][1]
                n == parts[i][2]
            IN sizes[p] <= 200000 /\ n <= 2 /\ (n < sizes[p] /\ n < 2 => cost = budget)

-----------------------------------------------------------------------------
(* Streams.tla, Journal.tla, Globs.tla, Launch.tla                           *)

LOCAL Fix(line) == IF line = <<"u">> THEN <<"U">> ELSE line
LOCAL ST == INSTANCE Streams WITH MaxOutputBytes <- 4, StderrTail <- 2, NormaliseStreamLine <- Fix

\* Chunks are cut anywhere but within a character: lines that end in either way, and
\* events that any number of empty lines follow.
ASSUME StreamsArriveWhole ==
  /\ ST!LinesArriveWhole(Texts({"n", "r", "h", "l"}, 4))
  /\ ST!EventsArriveWhole(Texts({"n", "h", "l"}, 4) \cup Texts({"n", "u"}, 5))

LOCAL Counts == {"input_tokens", "prompt_tokens", "output_tokens", "completion_tokens", "total_tokens"}

\* The usage of a response, with any of the counts missing.
ASSUME UsageIsRepaired == ST!UsageIsComplete(UNION {[S -> 1..2] : S \in SUBSET Counts})

LOCAL JN == INSTANCE Journal WITH MAX_JOURNAL_ENTRIES <- 3

\* Files of up to five lines of any kind, with room for three entries.
ASSUME JournalsAreKept ==
  JN!JournalIsBounded(Texts(JN!Kind, 5)) /\ JN!EntriesAreKept(Texts(JN!Kind, 4))

LOCAL GL == INSTANCE Globs

\* Globs and paths of up to four characters.
ASSUME GlobsMatch ==
  /\ GL!StaysInItsDirectory(Texts({"*", "/", "a"}, 4), Texts({"/", "a", "b"}, 3))
  /\ GL!MatchesItself(Texts({"*", "/", "a"}, 4))

LOCAL LN == INSTANCE Launch WITH InstanceWidth <- 2, AgentWidth <- 4, TokenWidth <- 3

\* Ids of three characters, the ones a name may hold and one that is replaced.
ASSUME LaunchesAreApart ==
  /\ LN!NamesAreDistinct([1..3 -> {"a", "-", "b"}], Texts({"a", "-"}, 3))
  /\ LN!InstancesAreApart([1..3 -> {"a", "-", "b"}], Texts({"a", "-"}, 3))
  /\ LN!PathsAreKept(Texts({"a", "/"}, 3), <<"h", "/">>) /\ LN!DefaultsAreSound
=============================================================================
