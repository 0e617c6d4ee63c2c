SPECIFICATION Spec
CONSTANTS
  N = 4
  MaxSize = 12
INVARIANTS
  SlotIsTable
  ReachableIffNoGap
  ChunksTileFile
