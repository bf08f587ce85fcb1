------------------------------- MODULE Journal -------------------------------
(***************************************************************************)
(* The journal a run leaves in the workspace for the planner of the next   *)
(* one (heimdall/store.ts).  The file is its lines; a line is a comment,   *)
(* reads like an instruction, begins an entry, is blank, or is plain text. *)
(* Whether a line reads like an instruction is the verdict of a list of    *)
(* regular expressions (manifest.ts).                                      *)
(***************************************************************************)
EXTENDS Integers, Sequences, FiniteSets, SequencesExt

CONSTANT MAX_JOURNAL_ENTRIES

Kind == {"comment", "injection", "entry", "blank", "text"}

\* JOURNAL_HEADER is comments; appendJournal writes it in front of the entries.
Header == <<"comment", "comment">>

\* readJournal
ReadJournal(file) == SelectSeq(file, LAMBDA line : line \notin {"comment", "injection"})

\* split(/\n(?=- \[)/): an entry goes on to the line before the next one; what is in
\* front of the first is taken for one too.
Starts(lines)   == {i \in DOMAIN lines : i = 1 \/ lines[i] = "entry"}
Lines(lines, i) == {j \in DOMAIN lines : j >= i /\ \A k \in Starts(lines) : k <= j => k <= i}

\* Entries that are blank are left out, the others trimmed of the blank lines around them.
Entries(lines) == {i \in Starts(lines) : \E j \in Lines(lines, i) : lines[j] # "blank"}
Trimmed(lines, i) ==
  {j \in Lines(lines, i) : /\ \E k \in Lines(lines, i) : k <= j /\ lines[k] # "blank"
                           /\ \E k \in Lines(lines, i) : k >= j /\ lines[k] # "blank"}

\* The last entries, the new one among them.
KeptEntries(lines) ==
  {i \in Entries(lines) : Cardinality({j \in Entries(lines) : j > i}) < MAX_JOURNAL_ENTRIES - 1}

\* appendJournal: an entry is one line, whatever its text; one without a body is dropped,
\* and one that reads like an instruction is written, to be left out when it is read.
AppendJournal(file, body) ==
  IF body = "blank" THEN file
  ELSE LET lines == ReadJournal(file)
           kept  == UNION {Trimmed(lines, i) : i \in KeptEntries(lines)}
           order == SetToSortSeq(kept, <)
       IN Header \o [k \in DOMAIN order |-> lines[order[k]]]
                 \o <<IF body = "injection" THEN "injection" ELSE "entry">>

-----------------------------------------------------------------------------
(* What the planner may count on, over a set of files                        *)

\* The journal stays bounded, whatever was in the file, written by hand or by the agent,
\* and the last thing a run noted is in it.
JournalIsBounded(files) ==
  \A file \in files :
    LET new == ReadJournal(AppendJournal(file, "text"))
    IN Cardinality(Entries(new)) <= MAX_JOURNAL_ENTRIES /\ Last(new) = "entry"

\* What is kept does not change: the next run finds the entries as they were, the
\* oldest aside, also after one that is never shown.
EntriesAreKept(files) ==
  \A file \in files, body \in {"text", "injection"} :
    LET once  == AppendJournal(file, body)
        twice == AppendJournal(once, "text")
    IN \E i \in 0..Len(ReadJournal(once)) :
         ReadJournal(twice) = SubSeq(ReadJournal(once), i + 1, Len(ReadJournal(once))) \o <<"entry">>
=============================================================================
