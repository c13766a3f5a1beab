CONSTANTS
  v = v
  a = a
  f1 = f1
  i1 = i1
  Meta = Meta
  Torn = Torn
  None = None
  Tracks = {v, a}
  Followers = {f1}
  Iterators = {i1}
  Filter <- MCFilter
  MaxChunks = 3
  FollowChunks = 2
SPECIFICATION MCSpec
CHECK_DEADLOCK FALSE
INVARIANTS TypeOK FollowerExact FollowerEndsForAReason CommittedIntact IteratorExact
PROPERTIES ImplementsLogTail CancelEndsFollow CloseEndsFollow FollowerCatchesUp
