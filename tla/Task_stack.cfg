CONSTANTS
  MAX_TASKS = 4
  TIME_SLICE = 10
  UserSpaces = {4096}
  SCE = FALSE
  UserOps = {}
SPECIFICATION Spec
INVARIANT StackMapped
