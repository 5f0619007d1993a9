CONSTANTS
  VGA_WIDTH = 2
  VGA_HEIGHT = 2
  FIFO = 3
  Threads = {a}
  ROWS = 4
SPECIFICATION FairSpec
INVARIANTS ScreenIsWindow PanicReadable NoByteLost
PROPERTY OutputEnds
