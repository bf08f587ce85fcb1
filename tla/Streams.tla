------------------------------- MODULE Streams -------------------------------
(***************************************************************************)
(* Output that arrives in pieces: what codex prints, a line an event       *)
(* (codex-runner.ts, container-codex-runner.ts), and the stream of a model *)
(* provider that the egress proxy repairs as it passes (proxy.ts).         *)
(*                                                                         *)
(* A chunk is a sequence of bytes: "n" and "r" end lines, "h" and "l" are  *)
(* the two bytes of one character, and any other is a character.  Each     *)
(* chunk is decoded on its own.                                            *)
(***************************************************************************)
EXTENDS Integers, Sequences, SequencesExt, FiniteSetsExt

CONSTANTS MaxOutputBytes, StderrTail,
          NormaliseStreamLine(_)  \* proxy.ts: a line of the stream, repaired

\* chunk.toString("utf8"): half a character is not one.
Pair(chunk, i) == i \in 1..(Len(chunk) - 1) /\ chunk[i] = "h" /\ chunk[i + 1] = "l"
Decode(chunk) ==
  LET kept == SetToSortSeq({i \in DOMAIN chunk : ~Pair(chunk, i - 1)}, <)
  IN [k \in DOMAIN kept |-> IF Pair(chunk, kept[k]) THEN "hl"
                            ELSE IF chunk[kept[k]] \in {"h", "l"} THEN "?" ELSE chunk[kept[k]]]

Last0(S) == Max(S \cup {0})

-----------------------------------------------------------------------------
(* Lines of events                                                           *)

\* split(/\r?\n/): the text up to each end of line, and what is after the last one.
LineEnds(text) == {i \in DOMAIN text : text[i] = "n"}
LineUpTo(text, i) ==
  LET start == Last0({j \in LineEnds(text) : j < i}) + 1
      end   == IF i > start /\ text[i - 1] = "r" THEN i - 2 ELSE i - 1
  IN SubSeq(text, start, end)
Lines(text) == LET ends == SetToSortSeq(LineEnds(text), <) IN [k \in DOMAIN ends |-> LineUpTo(text, ends[k])]
Rest(text)  == SubSeq(text, Last0(LineEnds(text)) + 1, Len(text))

Fresh == [stdout |-> << >>, lines |-> << >>, stderr |-> << >>, bytes |-> 0, outputExceeded |-> FALSE]

\* consume: what is past the limit is counted and not read; an unfinished line waits
\* for the next chunk; of what codex says on stderr the end is kept.
Consume(s, chunk, target) ==
  LET bytes  == s.bytes + Len(chunk)
      text   == s.stdout \o Decode(chunk)
      stderr == s.stderr \o Decode(chunk)
  IN IF bytes > MaxOutputBytes THEN [s EXCEPT !.bytes = bytes, !.outputExceeded = TRUE]
     ELSE IF target = "stdout"
     THEN [s EXCEPT !.bytes = bytes, !.stdout = Rest(text), !.lines = @ \o Lines(text)]
     ELSE [s EXCEPT !.bytes = bytes, !.stderr = SubSeq(stderr, Max({1, Len(stderr) - StderrTail + 1}), Len(stderr))]

\* parseCodexEventLine: an event is its type and the fields that have the type they
\* should; a line that is not JSON, or of another type, changes nothing.
ParseCodexEventLine(event, parsed) ==
  CASE event.type = "thread.started" /\ event.threadId # "" -> [parsed EXCEPT !.threadId = event.threadId]
    [] event.type = "agent_message"                         -> [parsed EXCEPT !.messages = Append(@, event.text)]
    [] event.type = "turn.completed"                        -> [parsed EXCEPT !.usage = event.usage]
    [] event.type = "error"                                 -> [parsed EXCEPT !.errors = Append(@, event.text)]
    [] OTHER                                                -> parsed

\* buildCodexArgs: a thread is resumed, and the prompt comes last.
BuildCodexArgs(request, sandboxMode, workspacePath) ==
  <<"exec", "--json", "--sandbox", sandboxMode, "--skip-git-repo-check", "-C", workspacePath>>
    \o (IF request.threadId # "" THEN <<"resume", request.threadId>> ELSE << >>) \o <<request.prompt>>

-----------------------------------------------------------------------------
(* The provider's stream                                                     *)

\* A number under either of two names, the first one first; otherwise zero.
Num(u, name, other) ==
  IF name \in DOMAIN u /\ u[name] \in Int THEN u[name]
  ELSE IF other \in DOMAIN u /\ u[other] \in Int THEN u[other] ELSE 0

NormaliseUsage(u) ==
  LET input  == Num(u, "input_tokens", "prompt_tokens")
      output == Num(u, "output_tokens", "completion_tokens")
      fixed  == [input_tokens |-> input, output_tokens |-> output,
                 total_tokens |-> IF "total_tokens" \in DOMAIN u /\ u["total_tokens"] \in Int
                                  THEN u["total_tokens"] ELSE input + output]
  IN [k \in DOMAIN u \cup DOMAIN fixed |-> IF k \in DOMAIN fixed THEN fixed[k] ELSE u[k]]

\* split(/\n\n/), leftmost first: where an event is over.
EventEnds(text) ==
  LET over[i \in 0..Len(text)] == i > 1 /\ text[i] = "n" /\ text[i - 1] = "n" /\ ~over[i - 1]
  IN {i \in DOMAIN text : over[i]}

\* Every line of some events, repaired.
Repaired(text) ==
  LET ends   == SetToSortSeq({i \in DOMAIN text : text[i] = "n"}, <)
      starts == [k \in DOMAIN ends |-> IF k = 1 THEN 1 ELSE ends[k - 1] + 1]
  IN FlattenSeq([k \in DOMAIN ends |-> NormaliseStreamLine(SubSeq(text, starts[k], ends[k] - 1)) \o <<"n">>])

\* createStreamNormaliser: whole events pass on, the last one waits to be complete.
Transform(s, chunk) ==
  LET text == s.buffer \o Decode(chunk)
      over == Last0(EventEnds(text))
  IN [buffer |-> SubSeq(text, over + 1, Len(text)), out |-> s.out \o Repaired(SubSeq(text, 1, over))]

\* At the end of the stream what waited is passed on, as an event of its own.
Flush(s) ==
  IF s.buffer = << >> THEN s ELSE [buffer |-> << >>, out |-> s.out \o Repaired(s.buffer \o <<"n", "n">>)]

-----------------------------------------------------------------------------
(* How the pieces are cut is not to matter                                   *)

Fed(text, cuts, F(_, _), start) ==
  LET ends == SetToSortSeq(cuts \cup {Len(text)}, <)
      chunk(k) == SubSeq(text, IF k = 1 THEN 1 ELSE ends[k - 1] + 1, ends[k])
  IN FoldLeft(LAMBDA s, k : F(s, chunk(k)), start, [k \in DOMAIN ends |-> k])

\* Cuts that go through no character.
Cuts(text) == {cuts \in SUBSET (1..(Len(text) - 1)) : \A i \in cuts : ~Pair(text, i)}

\* The lines codex printed and the text left over are the same however they arrive.
LinesArriveWhole(texts) ==
  \A text \in texts : Len(text) <= MaxOutputBytes => \A cuts \in Cuts(text) :
    LET s == Fed(text, cuts, LAMBDA t, chunk : Consume(t, chunk, "stdout"), Fresh)
    IN s.lines = Lines(Decode(text)) /\ s.stdout = Rest(Decode(text))

\* The repaired stream is that of the whole text, every event ended.
EventsArriveWhole(texts) ==
  \A text \in texts : \A cuts \in Cuts(text) :
    LET t == Decode(text)
        s == Flush(Fed(text, cuts, Transform, [buffer |-> << >>, out |-> << >>]))
    IN s.out = Repaired(IF Last0(EventEnds(t)) = Len(t) THEN t ELSE t \o <<"n", "n">>)

\* What codex needs to be there is there, and what the provider said of it stays.
UsageIsComplete(usages) ==
  \A u \in usages :
    LET v == NormaliseUsage(u)
    IN /\ \A k \in {"input_tokens", "output_tokens", "total_tokens"} :
             k \in DOMAIN v /\ v[k] \in Int /\ (k \in DOMAIN u /\ u[k] \in Int => v[k] = u[k])
       /\ NormaliseUsage(v) = v
=============================================================================
