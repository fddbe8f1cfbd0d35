\* Two edits are scanned together, the scan fails, and the third edit repairs it.
CONSTANTS
  Ids <- MovedIds
  Runtime = "runtime"
  Entries <- MCEntries
  Contents <- MovedContents
  NativeLoad = FALSE
  MaxEdits = 3
SPECIFICATION Spec
INVARIANTS
  EveryEditCounts
