CONSTANTS
  Tasks = {boot, idle, a, b, u, v}
  Boot = boot
  Idle = idle
  Users = {u, v}
  NULL = NULL
SPECIFICATION ListSpec
INVARIANTS ListWellFormed YieldsToAnother
PROPERTY ImplementsRoundRobin
