SPECIFICATION FairSpec
CONSTANTS
  Threads = {main, idle, t1, t2}
  Procs = {kernel, user}
  KernelProc = kernel
  MainThread = main
  IdleThread = idle
  NULL = NULL
  MAX_THREADS = 5
  MAX_PROCESSES = 2
  MAX_VM_REGIONS = 5
  ELF_REGIONS = 2
PROPERTIES EveryThreadRuns CallsReturn
CHECK_DEADLOCK FALSE
