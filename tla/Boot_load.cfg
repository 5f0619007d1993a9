CONSTANTS
  PAGE_TABLE_ENTRIES = 3
  LOW = 100
  Machines <- SomeMachines
  HEAP_START <- HeapStart
  HeapPages = 14
  UserPages <- NoAddrs
  PMM_FRAME_SIZE = 2
  Addrs <- NoAddrs
  Lens <- NoAddrs
  HeapInitPages = 4
  StackPages = 3
  PHDR_SIZE = 1
  STACK_PAGE = 18
  Images <- SomeImages
SPECIFICATION BootSpec
INVARIANTS KernelStacksWhole ImageInPlace UserStackReady NoFrameLost StaysBelow
