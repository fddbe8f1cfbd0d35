\* Two files, a page load, a manual restart and builds that fail anywhere but in
\* the hooks, with the default (on demand) rebuild strategy.
CONSTANTS
  Files = {a, b}
  Tsconfigs = {}
  Added = {}
  Proxies = {}
  Route = a
  Target <- MCTarget
  Callers = {c}
  RunCall = c
  Waiters = {}
  RebuildAlways = FALSE
  HasHmrCallback = TRUE
  Failures = {"hmr_scan", "hmr_late", "before_scan", "scan", "generate"}
  MayClose = FALSE
  LoopLimit = 8
  MaxEdits = 3
  MaxTriggers = 1
SPECIFICATION Spec
INVARIANTS
  TypeOK
  BuildsAccountedFor
  FreshMeansFresh
  EnsureIsFresh
  SafetyValveUnused
  FailedRebuildStaysStale
\* An idle dev server waits for edits and requests.
CHECK_DEADLOCK FALSE
