CONSTANTS
  r1 = r1
  r2 = r2
  r3 = r3
  Rule <- MCRule
  RuleList <- MCRuleList
  Capability <- MCCapability
  RequireChoices <- MCRequireChoices
  ProvideChoices <- MCProvideChoices
  PhaseChoices <- MCPhaseChoices
  Requests <- MCRequests
SPECIFICATION FairSpec
INVARIANTS
  TypeOK
  DependenciesFirst
  EachRuleOnce
  CycleIsReal
  EveryRuleHasOneRun
  ProvidersDecidedFirst
  RanOnEarlierCapabilities
PROPERTIES
  ImplementsPromise
  AnalysisEnds
CHECK_DEADLOCK FALSE
