\* One task that reads two files, edits of every kind, failing builds, and a
\* call of close() at any moment.
CONSTANTS
  NTasks = 1
  Files = {a, b}
  Entry = a
  Imports <- MCImports
  Renames = TRUE
  Failures = {"scan", "register", "register_late", "write"}
  Callers = {c}
  MaxEdits = 2
SPECIFICATION FairSpec
INVARIANTS
  TypeOK
  EditsAreNotForgotten
  CloseIsComplete
  AtMostOneLateStart
PROPERTIES
  CloseReturns
  EditsAreBuilt
\* An idle or closed watcher waits for edits.
CHECK_DEADLOCK FALSE
