CONSTANTS
  q1 = q1
  q2 = q2
  Query <- MCQuery
  Measure <- MCMeasure
  Severe <- MCSevere
  Channels <- MCChannels
  Threshold = 2
  MaxRows = 2
  MaxPolls = 3
  NoSnapshot = NoSnapshot
  Torn = Torn
SPECIFICATION FairSpec
INVARIANTS
  TypeOK
  SavedMeansTried
  ToldOnce
PROPERTY StopEnds
