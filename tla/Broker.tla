-------------------------------- MODULE Broker --------------------------------
(* broker.ts: what an event of the agent says it did, whether the permit covers  *)
(* it, what the report says afterwards, and how the container is mounted.        *)
EXTENDS Engine

-----------------------------------------------------------------------------
(* Events. An item of the agent's event stream names a command (perhaps wrapped *)
(* in a shell, perhaps an apply_patch of several files), a set of file changes, *)
(* a host, or something this version does not know. A path is as the agent      *)
(* reports it: relative, or below the container's mount.                        *)

Target(path, mounted) == [path |-> path, mounted |-> mounted]
Exec(script, wrapped) == [script |-> script, wrapped |-> wrapped]

\* observeEvents: item.updated carries no new decision; an item of an unknown type
\* that names no command, path or host is inert. The runner takes an action up once
\* for each id; each file of an item has its own.
ObserveEvents(e) ==
    IF e.phase = "updated" THEN {}
    ELSE CASE e.kind = "command"  -> {[op |-> "EXEC", target |-> e.command, id |-> <<e.id>>]}
           [] e.kind \in {"apply_patch", "file_change"} ->
                 {[op |-> x.op, target |-> x.target, id |-> <<e.id, x.target>>] : x \in e.changes}
           [] e.kind = "web"      -> {[op |-> "NET", target |-> e.host, id |-> <<e.id>>]}
           [] e.kind = "unmapped" -> {[op |-> "UNKNOWN", target |-> e.inert, id |-> <<e.id>>]}
           [] OTHER               -> {}

Inert(a) == a.op = "UNKNOWN" /\ a.target

-----------------------------------------------------------------------------
(* Paths *)

StripContainerPrefix(t) == t.path

EscapesWorkspace(p) == p \notin Inside \/ p \in Linked

\* A granted glob is a pattern: files the run is about to create match it too.
PathMatchesGrant(p, grant) == IF grant \in Globs THEN p \in Matches[grant] ELSE p = grant

PathGranted(p, granted) == ~ EscapesWorkspace(p) /\ \E g \in granted : PathMatchesGrant(p, g)

-----------------------------------------------------------------------------
(* Commands *)

UnwrapShellCommand(t) == t.script

\* What the words of a text begin with. A grant covers its own text and what extends it
\* by arguments.
Begins(text, words) == Len(words) <= Len(text) /\ SubSeq(text, 1, Len(words)) = words

SegmentGranted(seg, granted) == \E g \in granted : Begins(seg, g.text)

\* commandGranted: a redirection needs a write grant; a command is granted as it
\* stands, or when it has segments, each of them is, and nothing in it is unreadable.
CommandGranted(s, p) ==
    /\ \A w \in s.writes : PathGranted(w, p.doors.writes)
    /\ \/ \E g \in p.doors.commands : s.text = g.text
       \/ /\ ~ s.opaque /\ s.segs # << >>
          /\ \A i \in DOMAIN s.segs : SegmentGranted(s.segs[i], p.doors.commands)

\* checkAction: whatever is not granted is refused, and nothing once the permit is over.
FaultyCheckAction(a, p) ==
    CASE a.op = "EXEC" -> CommandGranted(UnwrapShellCommand(a.target), p)
      [] a.op \in {"FS_WRITE", "FS_DELETE"} ->
            PathGranted(StripContainerPrefix(a.target), p.doors.writes \cup p.doors.reads)
      [] a.op = "NET"  -> a.target \in p.doors.hosts
      [] OTHER         -> FALSE
CheckAction(a, p) ==
    /\ ~ p.expired
    /\ CASE a.op = "EXEC" -> CommandGranted(UnwrapShellCommand(a.target), p)
         [] a.op \in {"FS_WRITE", "FS_DELETE"} -> PathGranted(StripContainerPrefix(a.target), p.doors.writes)
         [] a.op = "FS_READ" -> PathGranted(StripContainerPrefix(a.target), p.doors.reads \cup p.doors.writes)
         [] a.op = "NET" -> a.target \in p.doors.hosts
         [] OTHER        -> FALSE

-----------------------------------------------------------------------------
(* reconcile: the report of what was declared against what was seen. It compares *)
(* a command as ONE text, where the broker takes it apart. What the report lists *)
(* as declared and never used is left out.                                       *)

\* The text of s is the text of g, or that text, a space, and more.
TextBegins(s, g) == Begins(s.text, g.text)

UndeclaredActions(p, actual) ==
    {a \in actual :
        \/ /\ a.op \in {"FS_WRITE", "FS_DELETE"}
           /\ ~ \E g \in p.doors.writes : PathMatchesGrant(StripContainerPrefix(a.target), g)
        \/ a.op = "EXEC" /\ ~ \E g \in p.doors.commands : TextBegins(UnwrapShellCommand(a.target), g)}

-----------------------------------------------------------------------------
(* buildHeimdallRunArgs refuses a permit that was not decided or was altered;    *)
(* the workspace is writable as soon as one write is granted.                    *)
Launchable(p) == ~ p.denied /\ ~ p.requiresHumanApproval /\ Intact(p)
MountIsWritable(p) == p.doors.writes # {}
==============================================================================
