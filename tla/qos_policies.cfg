CONSTANTS
  n1 = n1
  n2 = n2
  Node = {n1, n2}
  PodNode = {n2}
  NodeLabels <- MCNodeLabels
  Specs <- MCSpecs
  SupportedKeys = {"MB", "L3"}
  None = None
  Default = "default"
  MaxWrites = 3
  MaxFaults = 1
SPECIFICATION QosSpec
INVARIANTS Settled PodSettled DeletionNotForgotten
CHECK_DEADLOCK FALSE
