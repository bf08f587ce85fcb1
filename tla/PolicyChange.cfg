SPECIFICATION HistorySpec
CONSTANTS
  Paths <- mcPaths
  Globs <- mcGlobs
  Inside <- mcInside
  Linked = {}
  Matches <- mcMatches
  Kind <- mcKind
  Credential = {"env"}
  Platform = {}
  Canary = "canary"
  Journals = {"err"}
  Tracked <- mcTracked
  Ignored = {}
  Content <- mcContent
  Hosts <- mcHosts
  Words <- mcWords
  ProviderHost = "llm"
  TelemetryHosts = {"telemetry"}
  Runs = {"r1", "r2"}
  Agents = {"a1"}
  Policies = {"default", "wide"}
  DefaultPolicy = "default"
  PolicyOf <- mcPolicyOf
  WorkspaceFiles <- mcFiles
  Readme = "readme"
  Injected = {"out"}
  Replies <- mcReplies
  Items <- mcItems
  Requests <- mcRequests
  Changes <- mcChanges
  MaxRuns = 1
  MaxActs <- mcMaxActs
  MaxEvents = 1
  MaxVersion = 2
PROPERTY PolicyChangeInvalidates
CHECK_DEADLOCK FALSE
