--------------------------- MODULE MCAdjudication ---------------------------
(* A small world for Adjudication: one of each kind of path, command and host   *)
(* that the rules tell apart.                                                   *)
EXTENDS Adjudication

mcPaths   == {"src", "new", "t1", "test/**", "env", "err", "out", "canary", "readme"}
mcGlobs   == {"test/**"}
mcInside  == mcPaths \ {"out"}
mcMatches == [g \in mcGlobs |-> {"t1"}]
mcKind    == [p \in mcPaths |-> IF p = "env" THEN "dotfile" ELSE IF p = "canary" THEN "unknown" ELSE "source"]
mcTracked == {"src", "t1", "readme"}
mcContent == [p \in mcPaths |-> IF p = "new" THEN "absent" ELSE IF p = "env" THEN "secret" ELSE "clean"]
mcFiles   == {"src", "t1", "env", "err", "canary", "readme"}

mcHosts == {"api", "web", "llm", "telemetry"}
mcWords == {"npm", "make", "test", "deploy", "test;", ">src", "test>/dev/null"}

Script(text, segs, writes) ==
    [text |-> text, segs |-> segs, writes |-> writes, opaque |-> FALSE, harmful |-> FALSE]
theTest    == <<"npm", "test">>
npmTest    == Script(theTest, <<theTest>>, {})
makeDeploy == Script(<<"make", "deploy">>, << <<"make", "deploy">> >>, {})
twoTests   == Script(<<"npm", "test;", "npm", "test">>, <<theTest, theTest>>, {})
testToSrc  == Script(<<"npm", "test", ">src">>, <<theTest>>, {"src"})
quietTest  == Script(<<"npm", "test>/dev/null">>, <<theTest>>, {})

mcPolicyOf == [default |-> [hosts |-> {"api"}, commands |-> {"npm"}, grants |-> {}, narrow |-> 20],
               wide    |-> [hosts |-> {"api", "web"}, commands |-> {"npm"}, grants |-> {<<"web", "public">>}, narrow |-> 1]]

On(op, paths)   == [op |-> op, host |-> NoHost, command |-> NoCommand, class |-> "-", payload |-> {},
                    url |-> NoHost, files |-> {},
                    paths |-> {Target(p, TRUE) : p \in paths}]
Runs_(s)        == [On("EXEC", {}) EXCEPT !.command = s]
Sends(h, class, payload) ==
    [On("NET_WRITE", {}) EXCEPT !.host = h, !.class = class, !.payload = {Target(p, FALSE) : p \in payload}]
Reply(entries)  == [shape |-> "object", entries |-> entries, long |-> FALSE]

\* The routine; a post a person is asked about, beside a malformed entry; what holds
\* instructions and is never allowed, beside a command; another post that counts as
\* the first.
mcReplies ==
    [r1 |-> {Reply({On("FS_WRITE", {"src"}), Runs_(npmTest), On("FS_DELETE", {"test/**"}),
                    On("FS_READ", {"readme"})}),
             Reply({Sends("web", "public", {"src"}), Runs_(NoCommand)}),
             Reply({On("FS_READ", {"out"}), Runs_(npmTest)})},
     r2 |-> {Reply({[Sends(NoHost, "public", {"readme"}) EXCEPT !.url = "web"]})}]
mcMaxActs == [r1 |-> 1, r2 |-> 0]

Command(s)  == [id |-> "c", kind |-> "command", phase |-> "started", command |-> Exec(s, TRUE)]
Change(op, p) == [op |-> op, target |-> Target(p, TRUE)]
mcItems ==
    {Command(twoTests), Command(testToSrc), Command(quietTest), Command(makeDeploy),
     [id |-> "f", kind |-> "file_change", phase |-> "completed",
      changes |-> {Change("FS_DELETE", "t1"), Change("FS_WRITE", "readme")}]}

Ask(form, host, capability, secret) ==
    [form |-> form, host |-> host, secret |-> secret, capability |-> capability]
mcRequests == {Ask("direct", NoHost, TRUE, "head"), Ask("forward", "web", TRUE, "none"),
               Ask("tunnel", "telemetry", FALSE, "none")}
mcChanges  == {{"src", "new", "err"}}
=============================================================================
