SPECIFICATION Spec
CONSTANTS
  Pool <- ClustersPool
  Root = 0
  Path <- ClustersPath
  CpusOf <- ClustersCpus
  MemTotal <- ClustersMem
  NumasOf <- ClustersNumas
  EnforceMemory = TRUE
  GpuFirst = FALSE
  NoGrant = NoGrant
  PolicyContainer = {}
  s1 = s1
  s2 = s2
  a1 = a1
  a2 = a2
  a3 = a3
  c1 = c1
  ga = ga
  gc = gc
  ra1 = ra1
  ra2 = ra2
  rc = rc
  Sandbox = {s1, s2}
  Ctr = {a1, a2, a3, c1}
  Gid = {ga, gc, ra1, ra2, rc}
  UidOf <- MCUidOf
  SandboxOf <- MCSandboxOf
  GidOf <- MCGidOf
  ReloadedGidOf <- MCReloadedGidOf
  SpecOf <- MCSpecOf
  SystemCtr = {}
  BestEffortCtr = {}
  NumaCpus <- MCNumaCpus
  NoCtr = NoCtr
  MaxFaults = 2
INVARIANTS
  WithinCapacity
  PinnedHasGrant
  NumaFits
CHECK_DEADLOCK FALSE
