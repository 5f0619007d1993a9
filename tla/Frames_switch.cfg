CONSTANTS
  Boot = boot
  Threads = {idle}
  UserTasks = {u, v}
  Raised = {0, 1, 6, 11, 12, 13, 14}
  Syscalls = {"exit", "yield", "other"}
SPECIFICATION Spec
INVARIANTS Resumes HandledAsRaised StackBounded
