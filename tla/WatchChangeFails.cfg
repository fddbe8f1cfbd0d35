\* A watch_change hook that fails once.
CONSTANTS
  Files = {a, b}
  Tsconfigs = {}
  Added = {}
  Proxies = {}
  Route = a
  Target <- MCTarget
  Callers = {c}
  RunCall = c
  Waiters = {}
  RebuildAlways = FALSE
  HasHmrCallback = TRUE
  Failures = {"watch_change"}
  MayClose = FALSE
  LoopLimit = 8
  MaxEdits = 2
  MaxTriggers = 0
SPECIFICATION Spec
INVARIANTS
  EnsureIsFresh
\* An idle dev server waits for edits and requests.
CHECK_DEADLOCK FALSE
