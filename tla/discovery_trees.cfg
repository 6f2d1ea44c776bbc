SPECIFICATION Spec
CONSTANTS
  Cpu <- MCCpu
  NoLink = NoLink
  NoCluster = NoCluster
  Machine <- MCMachine
INVARIANTS
  CpusFindTheirPools
  PoolsFormTree
CHECK_DEADLOCK FALSE
