CONSTANTS
  Type = {1, 2}
  Device = {d1}
  Nil = Nil
  MaxServers = 3
  MaxBusChanges = 2
  MaxKubeletRestarts = 1
SPECIFICATION PluginFairSpec
INVARIANTS NoUpdateLost
PROPERTY KubeletConverges
CHECK_DEADLOCK FALSE
