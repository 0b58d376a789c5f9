SPECIFICATION Spec
CONSTANTS
  Threads = {main, idle, t1, t2, t3, t4, t5}
  Procs = {kernel, user1, user2}
  KernelProc = kernel
  MainThread = main
  IdleThread = idle
  NULL = NULL
  MAX_THREADS = 6
  MAX_PROCESSES = 3
  MAX_VM_REGIONS = 6
  ELF_REGIONS = 2
SYMMETRY Spare
INVARIANTS TypeOK NoThreadLost LockHolderNotPreempted ThreadLimit HaltCause
CHECK_DEADLOCK FALSE
