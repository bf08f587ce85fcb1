-------------------------------- MODULE Launch --------------------------------
(***************************************************************************)
(* The configuration the server starts with (config.ts) and the container  *)
(* it runs an Agent in (container-codex-runner.ts).  The environment is a  *)
(* record of the variables that are set; text is a sequence of characters  *)
(* where its length or its beginning matters, and a value elsewhere.       *)
(***************************************************************************)
EXTENDS Integers, Sequences, SequencesExt

CONSTANTS InstanceWidth, AgentWidth,  \* the characters of an id that a name has room for
          TokenWidth                  \* the least length of a token

Loopback == {"127.0.0.1", "::1", "localhost"}

\* The least and the greatest value of the numbers the environment may set, and what
\* they are when it does not.
Least == [PORT |-> 1, CODEX_TIMEOUT_MS |-> 1000, CODEX_MAX_OUTPUT_BYTES |-> 65536,
          RUN_STALL_THRESHOLD_MS |-> 1000, RUN_MAX_AGE_MS |-> 60000, CONTAINER_PIDS_LIMIT |-> 1]
Default == [PORT |-> 3000, CODEX_TIMEOUT_MS |-> 600000, CODEX_MAX_OUTPUT_BYTES |-> 2097152,
            RUN_STALL_THRESHOLD_MS |-> 20000, RUN_MAX_AGE_MS |-> 3600000, CONTAINER_PIDS_LIMIT |-> 256]
Options == [RUNTIME_PROVIDER |-> <<"local-process", "container">>,
            CODEX_SANDBOX_MODE |-> <<"workspace-write", "read-only", "danger-full-access">>,
            MODEL_PROVIDER |-> <<"ark", "openrouter">>, NODE_ENV |-> <<"development", "test", "production">>]

Setting(env, name, default) == IF name \in DOMAIN env THEN env[name] ELSE default

\* envSchema: every variable that is set has a value of its kind.
Parses(env) ==
  /\ \A name \in DOMAIN Least \cap DOMAIN env : env[name] \in Int /\ env[name] >= Least[name]
  /\ Setting(env, "PORT", Default.PORT) <= 65535
  /\ \A name \in DOMAIN Options \cap DOMAIN env : env[name] \in Range(Options[name])

\* loadConfig: a production server that others can reach has a token.
Accepts(env, token) ==
  /\ Parses(env)
  /\ Setting(env, "NODE_ENV", "development") = "production" /\ Setting(env, "HOST", "0.0.0.0") \notin Loopback =>
       Len(token) >= TokenWidth /\ ~IsPrefix(<<"replace-">>, token)

LoadConfig(env) ==
  [name \in DOMAIN Default \cup DOMAIN Options |->
     IF name \in DOMAIN env THEN env[name]
     ELSE IF name \in DOMAIN Default THEN Default[name] ELSE Head(Options[name])]

\* The provider's name, its key's variable and its own settings.
ActiveProvider(config, settings) ==
  IF config.MODEL_PROVIDER = "openrouter"
  THEN [id |-> "openrouter", key |-> settings.openrouter.key, model |-> settings.openrouter.model,
        baseUrl |-> settings.openrouter.baseUrl, envKey |-> "OPENROUTER_API_KEY"]
  ELSE [id |-> "ark", key |-> settings.ark.key, model |-> settings.ark.model,
        baseUrl |-> settings.ark.baseUrl, envKey |-> "ARK_API_KEY"]

\* A provider is configured when what the template says is replaced.
IsArkConfigured(provider) ==
  /\ provider.key # << >> /\ ~IsPrefix(<<"replace-">>, provider.key)
  /\ provider.model # << >> /\ "replace-" \notin Range(provider.model)

\* The settings codex is started with; the key itself is never among them.
RenderCodexConfig(provider, baseUrl, proxied) ==
  [model |-> IF provider.model = << >> THEN <<"not-configured">> ELSE provider.model,
   provider |-> provider.id, baseUrl |-> baseUrl, envKey |-> provider.envKey,
   headers |-> IF proxied THEN {"x-heimdall-capability"} ELSE {}]

WithoutSlashes(path) ==
  SubSeq(path, 1, CHOOSE n \in 0..Len(path) : /\ n # 0 => path[n] # "/"
                                              /\ \A i \in (n + 1)..Len(path) : path[i] = "/")

\* providerBaseUrlThroughProxy: the proxy's origin and the provider's own path.
ProviderBaseUrlThroughProxy(realPath, proxyOrigin) == WithoutSlashes(proxyOrigin) \o WithoutSlashes(realPath)

-----------------------------------------------------------------------------
(* The container                                                             *)

SafeName(id, width) ==
  [i \in 1..(IF Len(id) < width THEN Len(id) ELSE width) |-> IF id[i] = "unsafe" THEN "-" ELSE id[i]]

ContainerName(agentId, instanceId) ==
  <<"launchpad", "-">> \o SafeName(instanceId, InstanceWidth) \o <<"-">> \o SafeName(agentId, AgentWidth)

\* buildContainerRunArgs: options and their values, then the image and the command.
BuildContainerRunArgs(request, config, provider, codexArgs) ==
  <<"run", "--rm", "--init",
    <<"--name", ContainerName(request.agentId, config.instanceId)>>,
    <<"--label", "runtime", request.agentId, config.instanceId>>>>
  \o (IF config.engine = "podman" THEN << <<"--userns", "keep-id">> >> ELSE << >>)
  \o << <<"--network", "bridge">>, <<"--security-opt", "no-new-privileges">>, <<"--cap-drop", "ALL">>,
        <<"--cpus", config.cpus>>, <<"--memory", config.memory>>, <<"--pids-limit", config.pids>>,
        <<"--user", config.user>>, <<"--env", provider.envKey>>, <<"--env", "CODEX_HOME", "HOME", "NO_COLOR">>,
        <<"--mount", request.workspacePath, "/workspace">>, <<"--mount", config.codexHome, "/codex-home">>,
        <<"--workdir", "/workspace">>, config.image, "codex">>
  \o codexArgs

-----------------------------------------------------------------------------
(* What the runs count on                                                    *)

\* The Agents of one server, whose ids have one length, never share a container's name.
NamesAreDistinct(agents, instances) ==
  \A a, b \in agents, i \in instances :
    ContainerName(a, i) = ContainerName(b, i) => a = b

\* Nor do those of two servers, when their instance ids fit into the name.
InstancesAreApart(agents, instances) ==
  \A a, b \in agents, i, j \in {k \in instances : Len(k) <= InstanceWidth} :
    ContainerName(a, i) = ContainerName(b, j) => a = b /\ i = j

\* A request that codex sends to the proxy has the path it would have had.
PathsAreKept(paths, origin) ==
  \A p, q \in paths : WithoutSlashes(p) # WithoutSlashes(q) =>
    ProviderBaseUrlThroughProxy(p, origin) # ProviderBaseUrlThroughProxy(q, origin)

\* An empty environment is accepted, and gives a run longer than its process may take.
DefaultsAreSound ==
  /\ Accepts([HOST |-> "0.0.0.0"], << >>)
  /\ LET c == LoadConfig([HOST |-> "0.0.0.0"])
     IN Parses(c) /\ c.RUN_STALL_THRESHOLD_MS < c.CODEX_TIMEOUT_MS /\ c.CODEX_TIMEOUT_MS < c.RUN_MAX_AGE_MS
=============================================================================
