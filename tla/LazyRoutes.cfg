\* A tsconfig, an import that only an edit brings in and a lazily compiled route,
\* with a rebuild after every change.
CONSTANTS
  Files = {a, t, n, r}
  Tsconfigs = {t}
  Added = {n}
  Proxies = {p}
  Route = r
  Target <- MCTarget
  Callers = {c}
  RunCall = c
  Waiters = {}
  RebuildAlways = TRUE
  HasHmrCallback = TRUE
  Failures = {"hmr_scan", "hmr_late", "scan", "lazy_scan"}
  MayClose = FALSE
  LoopLimit = 8
  MaxEdits = 2
  MaxTriggers = 0
SPECIFICATION Spec
INVARIANTS
  GraphIsWatched
  ReloadBeforePatch
\* An idle dev server waits for edits and requests.
CHECK_DEADLOCK FALSE
