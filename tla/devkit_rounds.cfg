CONSTANTS
  MaxCpu = 7
  MaxPid = 9
  MaxCpuElements = 3
  MaxPidElements = 3
  RawConfigs <- MCRawConfigs
  Malformed = Malformed
  Missing = Missing
  Outputs <- MCOutputs
  None = None
  MaxEdits = 1
  MaxRestarts = 1
SPECIFICATION DevkitSpec
INVARIANTS ScopeCheckIsExact PublishedFitsScope SeriesDistinct NodesUnderTheirParents LogTellsState
PROPERTIES SuccessTimeKept ConfigTakesEffect
