CONSTANTS
  Null = Null
  s1 = s1
  s2 = s2
  Parts = {"router", "router_close", "protocol", "protocol_stream", "binding_keyed", "binding_anytime",
           "binding_singleton", "workers", "workers_two", "server_handover", "worker_handover", "facets",
           "facets_fail", "publisher", "relay_full", "relay", "reconnect", "screen",
           "screen_images", "screen_forced", "editor_kill", "editor_yank", "editor_paste", "editor_history",
           "editor_markers", "editor_stale", "autocomplete", "overlays", "overlays_resized", "stdin",
           "stdin_expires", "input", "input_escape", "rpc", "rpc_overlap"}
SPECIFICATION Spec
INVARIANTS
  StreamHasNoGap
  NoStaleReplica
  AttachedIsHeld
  SettledIsExact
  RelayedInOrder
  ReplacedIsTornDown
  TypedIsKept
  EscapeFits
  ScreenShowsContent
