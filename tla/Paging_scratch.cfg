CONSTANTS
  PAGE_TABLE_ENTRIES = 3
  LOW = 13
  Machines <- LateMachines
  HEAP_START <- HeapStart
  HeapPages = 4
  UserPages <- ElfPages
  PMM_FRAME_SIZE = 2
  Addrs <- SomeAddrs
  Lens <- SomeLens
SPECIFICATION Spec
INVARIANT TranslatesAsAsked
