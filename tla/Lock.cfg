CONSTANTS
  c1 = c1  c2 = c2   a = a  b = b  k1 = k1 
  Clients = {c1, c2}
  Owners = {a, b}
  OwnerOf <- OneEach
  Keys = {k1}
  Ids = {1, 2, 3, 4}
  NoOwner = NoOwner
  NoRow = NoRow
  TTL = 2
  MaxTime = 5
  Serializable = TRUE
SPECIFICATION Spec
INVARIANTS TypeOK MutualExclusion
PROPERTY ImplementsLease
CHECK_DEADLOCK FALSE
