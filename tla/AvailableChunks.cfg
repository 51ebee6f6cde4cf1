SPECIFICATION LiveSpec
CONSTANTS
  c1 = c1  c2 = c2  c3 = c3  a1 = a1  a2 = a2
  Nil = Nil  HeadAddr = HeadAddr
  Chunks <- ThreeChunks
  Arenas <- TwoArenas
  MaxUsed = 4
INVARIANTS ListCoherent ArenasAccounted
PROPERTIES ImplementsHeap DecommitEnds
