CONSTANTS
  Null = Null
  Parts = {"loop_queues", "loop_faults", "loop_batch", "session_run", "session_abort", "session_recovery",
           "session_file", "session_tree", "session_fork", "jsonl", "jsonl_fork", "repo",
           "repo_apart", "repo_torn", "cut", "file_queue", "watch", "settings",
           "settings_again", "auth", "auth_abort", "models", "models_shown", "catalog",
           "catalog_again", "codex", "codex_faults", "codex_accounts", "edit_one", "edit_two",
           "edit_endings", "output_tail", "output_head", "shell", "delta", "delta_arrays",
           "delta_strings", "codec"}
SPECIFICATION Spec
INVARIANTS
  QueuedInputIsServed
  CallsAreAnswered
  ContextSurvives
  WrittenSurvives
  OthersSurvive
  OneRefreshServesAll
  SnapshotIsCurrent
  RequestsKeepTheirContext
  ReplicaIsExact
  ToolsAreExact
PROPERTIES
  CatalogNeverGoesBack
