CONSTANTS
  assert = assert
  call1 = call1
  call2 = call2
  track = track
  weak = weak
  it1 = it1
  it2 = it2
  Handle = {assert, call1, call2, track, weak}
  KindOf <- MCKindOf
  Iterator <- MCIterator
  Value = {v1, v2}
  None = None
  Tombstone = Tombstone
  Unborn = Unborn
  MaxOps = 2
SPECIFICATION Spec
INVARIANTS HandleInv StoppedForAReason
PROPERTIES HandlesSpec IterationsEnd
CHECK_DEADLOCK FALSE
