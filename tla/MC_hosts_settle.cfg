CONSTANTS
  Null = Null
  s1 = s1
  s2 = s2
  Parts = {"router_ends", "protocol_settles", "workers_settle", "facets_settle", "relay_stops", "reconnect_settles",
           "screen_drawn", "autocomplete_settles", "input_settles", "rpc_settles", "publisher"}
SPECIFICATION FairSpec
PROPERTIES
  EndsAreReached
  InputSettles
