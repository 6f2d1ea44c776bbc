SPECIFICATION Spec
CONSTANTS
  Pool <- ClustersPool
  Root = 0
  Path <- ClustersPath
  CpusOf <- ClustersCpus
  MemTotal <- ClustersMem
  NumasOf <- ClustersNumas
  EnforceMemory = FALSE
  GpuFirst = FALSE
  NoGrant = NoGrant
  NoSupply = NoSupply
  PolicyContainer = {}
  s1 = s1
  s2 = s2
  a1 = a1
  a2 = a2
  b1 = b1
  ga = ga
  gb = gb
  Sandbox = {s1, s2}
  Ctr = {a1, a2, b1}
  Gid = {ga, gb}
  SandboxOf <- MCSandboxOf
  GidOf <- MCGidOf
  SpecOf <- MCSpecOf
  SystemCtr = {}
  UnpinnedCtr = {}
  MaxFaults = 1
INVARIANTS
  PinnedHasGrant
  GrantHasOwner
  SerialBooksCover
  SerialWithinCapacity
CHECK_DEADLOCK FALSE
