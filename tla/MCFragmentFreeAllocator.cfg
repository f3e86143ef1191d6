CONSTANTS
  Block = {1, 2, 3, 4, 5, 6, 7, 8}
  Ref = {r1, r2, r3}
  Handle = {h1, h2, h3}
  PoolSize = 11
  ChunkSize = 2
  SizeLimit = 16
  Request = {0, 1, 4, 15}
  NULL = NULL
SPECIFICATION Spec
SYMMETRY Addresses
VIEW View
INVARIANTS ListsAgree BooksBalance GrantCoversRequest
PROPERTIES ImplementsArena MovePreservesContent
CHECK_DEADLOCK FALSE
