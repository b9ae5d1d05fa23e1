CONSTANTS
  Null = Null
  Parts = {"loop_settles", "session_aborts", "session_settles", "file_queue_ends", "watch_settles", "settings_flush",
           "auth_settles", "models_settle", "codex_settles", "shell_ends"}
SPECIFICATION FairSpec
PROPERTIES
  CallsEnd
