SPECIFICATION Spec
CONSTANTS
  MaxHops = 2
  Chains <- MixedChain
CHECK_DEADLOCK FALSE
INVARIANT EveryHopRouted
