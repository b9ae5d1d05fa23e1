CONSTANTS
  Null = Null
  m1 = m1
  n1 = n1
  gpt = gpt
  gone = gone
  t1 = t1
  t2 = t2
  Msgs = {m1}
  Notes = {n1}
  Models = {gpt, gone}
  ToolNames = {}
  InitialConfig <- MCInitialConfig
  HostConfigs = {}
  RunSettings <- OneSetting
  OpIds = {o1, o2}
  MaxIds = 3
  Replies <- PlainAnswer
  LastReplies <- PlainAnswer
  BeforeDrive = {"ok"}
  DownModels = {gone}
  ToolRegistry = {}
  MaxAttempts = 2
  SafeTools = {}
  ToolResults = {}
  BeforeTool = {"run"}
  Aux = {}
  HostActions = {"append", "abort"}
  MaxPrompt = 0
  DriveModes <- Callers
  MaxPendingAborts = 1
  MaxStops = 1
  Enabled = TRUE
  Overflows = {}
  SummaryReplies = {"stop", "retryable", "fatal"}
  Decisions = {"decline", "metered", "generate"}
  Labels = {TRUE}
  StructuralKinds = {"compaction", "navigation", "summarized"}
SYMMETRY Alike
SPECIFICATION StructuralSpec
INVARIANTS
  StructuralWorkIsExact
PROPERTIES
  ImplementsLifecycle
