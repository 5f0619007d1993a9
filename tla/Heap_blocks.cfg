CONSTANTS
  PMM_FRAME_SIZE = 16
  BLOCK_HEADER_SIZE = 4
  WORD = 2
  MIN_BLOCK_SIZE = 8
  INITIAL_PAGES = 2
  COUNTER = 8
  Sizes = {3, 8, 14}
  Aligns = {4}
  FramesRunOut = TRUE
  MaxPages = 3
SPECIFICATION Spec
INVARIANTS BlocksDisjoint FreeListExact FitsRequest
PROPERTIES ImplementsAllocator NoByteLost
