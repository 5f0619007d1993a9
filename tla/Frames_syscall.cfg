CONSTANTS
  Boot = boot
  Threads = {idle}
  UserTasks = {u}
  Raised = {}
  Syscalls = {"other"}
SPECIFICATION Spec
INVARIANT SyscallReturns
