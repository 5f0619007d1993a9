CONSTANTS
  PAGE_TABLE_ENTRIES = 3
  LOW = 13
  Machines <- BootMachines
  HEAP_START <- HeapStart
  HeapPages = 4
  UserPages <- ElfPages
  PMM_FRAME_SIZE = 2
  Addrs <- SomeAddrs
  Lens <- SomeLens
SPECIFICATION Spec
INVARIANTS TranslatesAsAsked SpacesApart UserMemCheckExact
PROPERTY FreesExactly
