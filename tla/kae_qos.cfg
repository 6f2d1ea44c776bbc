CONSTANTS
  Name = {p1, p2}
  Dev = {d1, d2}
  Annotations = {0, 300, 1000}
  None = None
  MaxPods = 2
  MaxRestarts = 2
SPECIFICATION KaeFairSpec
INVARIANTS NoLeakedQos
PROPERTY QosConverges
CHECK_DEADLOCK FALSE
