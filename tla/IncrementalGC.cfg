SPECIFICATION MCSpec
CONSTANTS
  c1 = c1  c2 = c2  a1 = a1  a2 = a2  o1 = o1  o2 = o2  o3 = o3  Nil = Nil
  Arenas <- TwoArenas  Compartments <- WideComps  CompOf <- WideCompOf
  Objects <- WideObjects  ArenaOf <- WideArenaOf  NumSlots <- WideSlots
  StackLimit = 1  MallocFails = FALSE  HasTriggers = FALSE  HasGray = FALSE
  Checked = {"wide", "comps", "gray"}
INVARIANTS NothingLiveSwept SnapshotMarked MarkerCoherent HeapsSound
PROPERTIES SlicesEnd
