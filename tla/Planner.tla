-------------------------------- MODULE Planner --------------------------------
(* planner.ts and manifest.ts: how a manifest comes out of a model's reply. The    *)
(* reply is data; what matters is what is kept of it, what is dropped, and when    *)
(* planning gives up.                                                              *)
EXTENDS Engine

\* capabilitySchema, for an entry as the model wrote it: its operation is known and
\* the fields the operation needs are there.
Valid(c) ==
    /\ c.op \in Ops
    /\ c.op \in {"NET_READ", "NET_WRITE"}           => c.host # NoHost
    /\ c.op = "EXEC"                                => c.command # NoCommand
    /\ c.op \in {"FS_READ", "FS_WRITE", "FS_DELETE"} => c.paths # {}

\* normaliseCapability: what a model puts under another name (a url, files) is taken
\* when the proper field is missing.
NormaliseCapability(c) ==
    [op |-> c.op, command |-> c.command, class |-> c.class, payload |-> c.payload,
     host |-> IF c.host = NoHost THEN c.url ELSE c.host, paths |-> IF c.paths = {} THEN c.files ELSE c.paths]

\* relativizeManifestPaths: the agent names files below the container's mount.
Relativize(targets) == {t.path : t \in targets}

\* A network write without a payload class is undeclared, never none.
Capability(c) ==
    [op |-> c.op, host |-> c.host, command |-> c.command, payload |-> Relativize(c.payload),
     paths |-> Relativize(c.paths),
     class |-> IF c.op = "NET_WRITE" /\ c.class = "-" THEN "undeclared" ELSE c.class]

\* parseManifest fails on prose, on an error reply, and when no entry is left;
\* an entry that does not validate is dropped, never granted.
Normalised(reply) == {NormaliseCapability(c) : c \in reply.entries}
Parses(reply) == reply.shape = "object" /\ \E c \in Normalised(reply) : Valid(c)
ParseManifest(reply) ==
    [capabilities |-> {Capability(c) : c \in {x \in Normalised(reply) : Valid(x)}}, long |-> reply.long]

\* callProvider asks for structured output first and, when the provider does not
\* implement it, once more without. What failed or came back empty is no reply.
NoReply == [shape |-> "none", entries |-> {}, long |-> FALSE]

\* plan: the reply if it parses, else the one to a repair prompt if that does.
Plan(replies) ==
    LET good == {i \in 1..2 : Parses(replies[i])}
    IN  IF good = {} THEN {} ELSE {ParseManifest(replies[Min(good)])}
==============================================================================
