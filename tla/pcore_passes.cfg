SPECIFICATION FairSpec
CONSTANTS
  Pod <- ThreePods
  Eligible <- OddPods
  Pair <- TwoPairs
  Wide = Wide
  Absent = Absent
  NoPair = NoPair
  MaxFaults = 1
INVARIANTS
  ChangeIsPending
  TargetsDistinct
PROPERTIES
  KeepsPair
  Converges
