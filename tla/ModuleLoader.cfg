\* Three edits, each followed by scans of either kind.
CONSTANTS
  Ids <- MCIds
  Runtime = "runtime"
  Entries <- MCEntries
  Contents <- MCContents
  NativeLoad = FALSE
  MaxEdits = 3
SPECIFICATION FairSpec
INVARIANTS
  TypeOK
  FullScanExact
  PartialScanCovers
  CacheIsWhole
  DynamicEntriesMatchImports
PROPERTIES
  FailureRestoresCache
  ScanEnds
