SPECIFICATION Spec
CONSTANTS
  Pool <- ClustersPool
  Root = 0
  Path <- ClustersPath
  CpusOf <- ClustersCpus
  MemTotal <- ClustersMem
  NumasOf <- ClustersNumas
  EnforceMemory = TRUE
  GpuFirst = FALSE
  NoGrant = NoGrant
  PolicyContainer = {}
  s1 = s1
  s2 = s2
  s3 = s3
  s4 = s4
  s5 = s5
  a1 = a1
  a2 = a2
  b1 = b1
  b2 = b2
  c1 = c1
  k1 = k1
  e1 = e1
  ga = ga
  gb = gb
  gc = gc
  gk = gk
  ge = ge
  Sandbox = {s3}
  Ctr = {b1, b2}
  Gid = {gb}
  UidOf <- MCUidOf
  SandboxOf <- MCSandboxOf
  GidOf <- MCGidOf
  SpecOf <- MCSpecOf
  SystemCtr = {}
  BestEffortCtr = {}
  PromptRemoval = FALSE
PROPERTY RemovalSparesRunning
