SPECIFICATION PolicySpec
CONSTANTS
  Pool <- SocketsPool
  Root = 0
  Path <- SocketsPath
  CpusOf <- SocketsCpus
  MemTotal <- SocketsMem
  NumasOf <- SocketsNumas
  EnforceMemory = TRUE
  GpuFirst = TRUE
  Gid = {g1, g2, g3}
  NoGrant = NoGrant
  PolicyContainer <- MCContainers
INVARIANTS
  Ledger
  WithinCapacity
  WithinMemory
  SelectionIsSortAndScan
  RebuildRecovers
