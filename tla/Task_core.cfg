CONSTANTS
  MAX_TASKS = 5
  TIME_SLICE = 10
  UserSpaces = {4096}
  SCE = TRUE
  UserOps = {"exit", "yield", "other", "exception"}
SPECIFICATION FairSpec
INVARIANTS TypeOK ReadyExact Rsp0Own Preemptible NothingInService
PROPERTIES ImplementsRoundRobin StarvationFree KeyServed
