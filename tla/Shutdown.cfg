\* Edits during builds and hooks that may fail, a page load, a waiter, and
\* close() at any moment.
CONSTANTS
  Files = {a}
  Tsconfigs = {}
  Added = {}
  Proxies = {}
  Route = a
  Target <- MCTarget
  Callers = {c}
  RunCall = c
  Waiters = {w}
  RebuildAlways = FALSE
  HasHmrCallback = FALSE
  Failures = {"watch_change", "hot_update", "scan", "close_bundle"}
  MayClose = TRUE
  LoopLimit = 8
  MaxEdits = 2
  MaxTriggers = 0
SPECIFICATION FairSpec
INVARIANTS
  ReportIsHeard
PROPERTIES
  CallsReturn
  CloseReturnsEventually
  EditsReachGraph
  QueuedWorkRuns
\* An idle dev server waits for edits and requests.
CHECK_DEADLOCK FALSE
