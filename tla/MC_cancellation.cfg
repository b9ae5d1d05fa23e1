CONSTANTS
  Null = Null
  m1 = m1
  n1 = n1
  gpt = gpt
  gone = gone
  t1 = t1
  t2 = t2
  Msgs = {m1}
  Notes = {}
  Models = {gpt}
  ToolNames = {t1, t2}
  InitialConfig <- MCInitialConfig
  HostConfigs = {}
  RunSettings <- EachSetting
  OpIds = {o1, o2}
  MaxIds = 3
  Replies <- CallsAndErrors
  LastReplies <- PlainAnswer
  BeforeDrive = {"ok"}
  DownModels = {}
  ToolRegistry = {t1, t2}
  MaxAttempts = 2
  SafeTools = {t1}
  ToolResults <- OneOutcome
  BeforeTool = {"run"}
  Aux = {}
  HostActions = {"abort", "join"}
  MaxPrompt = 1
  DriveModes <- Callers
  MaxPendingAborts = 2
  MaxStops = 1
  Enabled = TRUE
  Overflows = {}
  SummaryReplies = {}
  Decisions = {}
  Labels = {FALSE}
  StructuralKinds = {}
SYMMETRY Alike
SPECIFICATION RunSpec
INVARIANTS
  Coherent
  PassOwnsOperation
  NoInvariantFault
  UnsafeToolsRunOnce
  ReleasedMeansCancelled
PROPERTIES
  EffectsOnlyWhileRunning
