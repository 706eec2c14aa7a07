SPECIFICATION FairSpec
CONSTANTS
  MaxHops = 4
  Chains <- AllChains
CHECK_DEADLOCK FALSE
INVARIANTS HopsRouted NothingLeaks OneSocket
PROPERTIES Settles
