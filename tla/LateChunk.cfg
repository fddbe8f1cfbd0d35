\* A page whose client leaves patches of modules that never ran alone, and a lazy
\* chunk rendered before such a patch that lands after it.
CONSTANTS
  e = e
  r = r
  a = a
  b = b
  Modules = {e, r, a, b}
  Entry = e
  Routes = {r}
  Shapes <- MCShapes
  FirstImports <- MCFirstImports
  Accepting = {a, r}
  AcceptedDeps = {}
  Clients = {c}
  MAX_PENDING_PAYLOADS_PER_CLIENT = 1
  Failures = {"hmr", "rebuild", "import"}
  MaxEdits = 2
SPECIFICATION Spec
INVARIANT
  LateChunksAreHarmless
\* An idle dev server waits for edits and requests.
CHECK_DEADLOCK FALSE
