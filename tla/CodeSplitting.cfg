\* No entry given by the user is imported by another.
CONSTANTS
  Modules <- MCModules
  Projects <- MCProjects
SPECIFICATION Spec
INVARIANTS
  EntriesAreIsolated
  ChunksStayAcyclic
\* A page ends once it has loaded all it can.
CHECK_DEADLOCK FALSE
