CONSTANTS
  Null = Null
  Parts = {"cut"}
SPECIFICATION Spec
INVARIANTS
  NothingForgotten
