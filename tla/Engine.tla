-------------------------------- MODULE Engine --------------------------------
(* engine.ts: from a declared capability to a verdict, and from the verdicts to *)
(* the permit. Pure operators; Adjudication.tla says when they are applied, and *)
(* to which policy, precedents and observations.                                *)
EXTENDS TermSheet, Sequences

NoHost    == "-"
NoCommand == [text |-> << >>, segs |-> << >>, writes |-> {}, opaque |-> FALSE, harmful |-> FALSE]

\* A command, as far as the permit, the broker and the report read it: the words of its
\* text between spaces, its top-level segments (the words of each, less the redirections
\* the broker knows), the files it redirects to, whether it holds a construct that cannot be read off the
\* text, and whether rule H5 or H6 matches it. A shell splits where no space is, so the
\* first word of the text need not be that of the first segment.
IsCommand(s) ==
    /\ DOMAIN s = {"text", "segs", "writes", "opaque", "harmful"}
    /\ s.text \in Seq(Words) /\ s.segs \in Seq(Seq(Words))
    /\ s.writes \subseteq Paths /\ s.opaque \in BOOLEAN /\ s.harmful \in BOOLEAN

\* The first word of the command's text.
Bin(s) == IF s.text = << >> THEN "none" ELSE s.text[1]

-----------------------------------------------------------------------------
(* Hard rules *)

\* What a precedent is remembered under: a command counts by its first word, the
\* payload files not at all.
Fingerprint(c) ==
    [op |-> c.op, host |-> c.host, class |-> IF c.class = "-" THEN "none" ELSE c.class,
     bin |-> Bin(c.command), paths |-> c.paths]

FaultyForbiddenPrior(c, ctx) == FALSE
ForbiddenPrior(c, ctx) ==
    \E x \in ctx.precedents : x.fp = Fingerprint(c) /\ x.decision = "denied"

\* hardRule: T4 whatever the score. Which of the rules is named does not matter here.
Forbidden(c, ctx) ==
    \/ (c.paths \cup c.payload) \cap ({Canary} \cup Credential \cup Platform) # {}
    \/ c.op = "FS_DELETE" /\ ~ c.paths \subseteq Inside
    \/ c.op \in {"FS_WRITE", "FS_DELETE"} /\ c.paths \cap Journals # {}
    \/ c.op = "EXEC" /\ c.command.harmful
    \/ /\ c.op = "NET_WRITE"
       /\ \E p \in c.payload : p \notin Inside \/ Content[p] = "secret"
    \/ ForbiddenPrior(c, ctx)

-----------------------------------------------------------------------------
(* Scoring *)

\* An install outside the allowed commands costs what any other command costs.
OperationPoints(c, policy) ==
    LET within  == c.paths \subseteq Inside
        allowed == c.host \in policy.hosts
    IN  CASE c.op = "FS_READ"    -> IF within THEN 0 ELSE 5
          [] c.op = "FS_WRITE"   -> IF within THEN 1 ELSE 8
          [] c.op = "FS_DELETE"  -> 3
          [] c.op = "EXEC"       -> IF Bin(c.command) \in policy.commands THEN 1 ELSE 4
          [] c.op = "NET_READ"   -> IF allowed THEN 1 ELSE 4
          [] c.op = "NET_WRITE"  -> IF allowed THEN 4 ELSE 7
          [] c.op = "ENV_READ"   -> 6
          [] c.op = "PROC_SPAWN" -> 5

TargetPoints(c) == IF c.paths = {} THEN 0 ELSE Max({ClassifyTarget(p) : p \in c.paths})

ReversibilityPoints(c) ==
    CASE c.op \in {"NET_WRITE", "PROC_SPAWN"} -> 4
      [] c.op = "FS_DELETE"                   -> 3
      [] c.op = "FS_WRITE"                    -> IF c.paths # {} /\ c.paths \subseteq Tracked THEN 0 ELSE 1
      [] OTHER                                -> 0

EgressPoints(c) == IF c.op # "NET_WRITE" THEN 0 ELSE A5_EGRESS[IF c.class = "-" THEN "undeclared" ELSE c.class]

ContextPoints(c, ctx) ==
    Taints[ctx.taint] + (IF \E x \in ctx.precedents : x.fp = Fingerprint(c) THEN 0 ELSE 1)
                      + (IF ctx.completedRuns < 5 THEN 1 ELSE 0)

FaultyHasValidPrecedent(c, ctx) ==
    \E x \in ctx.precedents : /\ x.fp = Fingerprint(c) /\ x.decision = "approved"
                              /\ x.version = ctx.version
HasValidPrecedent(c, ctx) ==
    \E x \in ctx.precedents : /\ x.fp = Fingerprint(c) /\ x.decision = "approved"
                              /\ x.version = ctx.version /\ x.live

StandingGrant(c, policy) == c.host # NoHost /\ c.class # "-" /\ <<c.host, c.class>> \in policy.grants

\* The score but for what a precedent takes off.
BasePoints(c, policy, ctx) ==
    OperationPoints(c, policy) + TargetPoints(c) + ReversibilityPoints(c)
        + BlastPoints(c.paths, ctx.files) + EgressPoints(c) + ContextPoints(c, ctx)
        - (IF StandingGrant(c, policy) THEN 6 ELSE 0)
        - (IF c.paths # {} /\ c.paths \subseteq Ignored THEN 3 ELSE 0)

Points(c, policy, ctx) == BasePoints(c, policy, ctx) - (IF HasValidPrecedent(c, ctx) THEN 4 ELSE 0)

ScoreCapability(c, policy, ctx) == IF Forbidden(c, ctx) THEN "T4" ELSE TierFor(Points(c, policy, ctx))

-----------------------------------------------------------------------------
(* The conditional band: what code may resolve without a person. A verdict is a *)
(* tier and the paths it covers.                                                *)

\* R4: the files of the workspace the globs stand for now, if there are few enough.
Concrete(c, files) == UNION {ResolveGlob(p, files) : p \in c.paths} \cap Inside
Narrowable(c, policy, ctx) ==
    /\ c.paths \cap Globs # {}
    /\ Cardinality(Concrete(c, ctx.files)) \in 1..policy.narrow

\* R5: every payload file that could be read was, and nothing in it looks like a secret.
PayloadClean(c) ==
    /\ c.op = "NET_WRITE"
    /\ \E p \in c.payload : Content[p] = "clean"
    /\ \A p \in c.payload : Content[p] # "secret"

ResolveConditional(c, policy, ctx) ==
    LET whole(tier) == [tier |-> tier, paths |-> c.paths]
        scored == ScoreCapability(c, policy, ctx)
    IN  IF scored # "T2" THEN whole(scored)
        ELSE IF HasValidPrecedent(c, ctx) \/ StandingGrant(c, policy) THEN whole("T1")
        ELSE IF ctx.taint # "none" THEN whole("T3")
        ELSE IF c.op = "FS_WRITE" /\ c.paths # {} /\ c.paths \subseteq Inside THEN whole("T1")
        ELSE IF Narrowable(c, policy, ctx) THEN [tier |-> "T1", paths |-> Concrete(c, ctx.files)]
        ELSE IF PayloadClean(c) THEN whole("T1")
        ELSE whole("T3")

-----------------------------------------------------------------------------
(* The permit *)

\* What the capabilities of a set open, each with the paths of its verdict.
Doors(caps, verdicts) ==
    LET of(ops) == UNION {verdicts[c].paths : c \in {x \in caps : x.op \in ops}}
    IN  [writes   |-> of({"FS_WRITE", "FS_DELETE"}),
         reads    |-> of({"FS_READ"}),
         hosts    |-> {c.host : c \in caps} \ {NoHost},
         commands |-> {c.command : c \in {x \in caps : x.op = "EXEC"}}]

\* The hash stands for what it binds: the run and the granted set.
PermitHash(p) == [run |-> p.run, agent |-> p.agent, doors |-> p.doors]

OfTier(p, tiers) == {c \in DOMAIN p.verdicts : p.verdicts[c].tier \in tiers}

RunTier(tiers) == CHOOSE t \in tiers \cup {"T0"} : \A u \in tiers : Rank[u] <= Rank[t]

\* buildPermit. `long` says that the manifest asks for more time than the policy allows.
BuildPermit(run, agent, manifest, policy, ctx) ==
    LET verdicts == [c \in manifest.capabilities |-> ResolveConditional(c, policy, ctx)]
        tier     == RunTier({verdicts[c].tier : c \in manifest.capabilities}
                            \cup (IF manifest.long THEN {"T4"} ELSE {}))
        granted  == {c \in manifest.capabilities : verdicts[c].tier \in {"T0", "T1"}}
        doors    == Doors(granted, verdicts)
    IN  [run |-> run, agent |-> agent, version |-> ctx.version, tier |-> tier, verdicts |-> verdicts,
         doors |-> doors, requiresHumanApproval |-> tier = "T3", denied |-> tier = "T4", expired |-> FALSE,
         requestHash |-> [run |-> run, agent |-> agent, doors |-> doors], approvedHash |-> {}]

\* runner.ts: the agent's own model calls go through the proxy too.
GrantProviderHost(p, host) ==
    LET next == [p EXCEPT !.doors.hosts = @ \cup {host}]
    IN  [next EXCEPT !.requestHash = PermitHash(next)]

FaultyApprovedTiers == {"T0", "T1"}
ApprovedTiers == {"T3"}

Join(d, e) == [writes |-> d.writes \cup e.writes, reads |-> d.reads \cup e.reads,
               hosts |-> d.hosts \cup e.hosts, commands |-> d.commands \cup e.commands]

\* applyApproval: the verdicts a person was asked about become granted, and the
\* window starts again.
ApplyApproval(p) ==
    LET next == [p EXCEPT !.doors = Join(@, Doors(OfTier(p, ApprovedTiers), p.verdicts)),
                          !.requiresHumanApproval = FALSE, !.expired = FALSE]
    IN  [next EXCEPT !.requestHash = PermitHash(next), !.approvedHash = {PermitHash(next)}]

\* verifyPermitIntegrity, before the container is built.
Intact(p) == p.requestHash = PermitHash(p) /\ p.approvedHash \subseteq {PermitHash(p)}
==============================================================================
