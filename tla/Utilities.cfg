SPECIFICATION FairSpec
CONSTANTS
  Subjects = {"messages", "dns", "balancer", "measure"}
  Hosts = {3, 4, 11}
  Names = {1, 2, 5}
  Extra = 2
  Fronts <- SomeFronts
  ExtensionLists <- SomeExtensions
  Cuts <- SomeCuts
  Spoilt = {1, 4, 5, 6, 8, 9, 44, 46, 50, 54, 56, 60, 64}
  Lookups = {q1, q2}
  Servers = {s1, s2}
  Sinkholes = {s1}
  MaxBogusRetries = 3
  Limit = 1
  Candidates = {a, b}
  Weights = {0, 2, 3}
  MaxPool = 4
  Stages <- SomeStages
  ChunkSizes = {2}
  MaxChunks = 3
  MaxTime = 6
CHECK_DEADLOCK FALSE
INVARIANTS ReadAsMeant NameRead BogusOnlyAsLastResort Proportional WindowExact MetersExact
PROPERTIES AnswerStable QueriesSettle MetersCatchUp
