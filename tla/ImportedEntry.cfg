\* The user's first entry imports the second.
CONSTANTS
  Modules <- MCModules
  Projects <- ImportedEntry
SPECIFICATION Spec
INVARIANT
  EntriesAreIsolated
\* A page ends once it has loaded all it can.
CHECK_DEADLOCK FALSE
