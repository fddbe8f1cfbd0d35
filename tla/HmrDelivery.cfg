\* One page, one lazily compiled route, two edits, failing builds and imports.
CONSTANTS
  e = e
  r = r
  a = a
  b = b
  Modules = {e, r, a, b}
  Entry = e
  Routes = {r}
  Shapes <- MCShapes
  FirstImports <- MCFirstImports
  Accepting = {a, r}
  AcceptedDeps = {}
  Clients = {c}
  MAX_PENDING_PAYLOADS_PER_CLIENT = 1
  Failures = {"hmr", "rebuild", "import"}
  MaxEdits = 2
SPECIFICATION Spec
INVARIANTS
  TypeOK
  ShipMapIsHonest
  StampNamesOneFactory
  NoMissingFactory
  NoSequenceGap
  PagesAreCurrent
PROPERTIES
  NeverOlder
\* An idle dev server waits for edits and requests.
CHECK_DEADLOCK FALSE
