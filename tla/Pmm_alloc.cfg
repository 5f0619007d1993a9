CONSTANTS
  PMM_FRAME_SIZE = 2
  MAX_FRAMES = 9
  WORD_BITS = 5
  WORD_BYTES = 1
  LOW_END = 2
  VGA_BASE = 0
  VGA_SIZE = 1
  KernelEnd = 3
  COUNTER = 256
  MemoryMaps <- Maps
  RamContents <- AnyRam
  Counts = {0, 1, 2, 3}
SPECIFICATION Spec
INVARIANTS TypeOK HeldIsMarked KernelNeverGiven ScanFindsRun
PROPERTY CountFollowsBits
