\* The helper thread protocol: two kinds, two chunks.
SPECIFICATION LiveSpec
CONSTANTS
  NumKinds = 2
  Chunks = {c1, c2}
  MaxFree = 1
  CanBackgroundAllocate = TRUE
  MinChunkSet = 1
  MaxEmptyChunkAge = 1
INVARIANTS HeapExclusive StatesCoherent NoLostWakeup NothingLeftBehind
PROPERTIES ShrinkHonoured HelperProgress
