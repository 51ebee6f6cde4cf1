SPECIFICATION Spec
CONSTANTS
  k1 = k1  k2 = k2  k3 = k3  k4 = k4  k5 = k5
  Keys <- FiveKeys
  KeyHash <- HashOfFive
  Bits = 6
  MinLog2 = 2
  LimitLog2 = 4
  MallocFails = TRUE
  InitFails = FALSE
INVARIANTS TableCoherent
PROPERTIES ImplementsKeySet
