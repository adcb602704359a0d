SPECIFICATION ConfigurationSpec
CONSTANTS
  Links <- MCLinks
  Options <- MCOptions
  Files <- MCFiles
  Lists <- MCLists
  ReadBack <- MCReadBack
  Mixed <- MCMixed
  Malformed <- MCMalformed
  EarlyData <- MCEarlyData
  Assets <- MCAssets
  MaxTrips = 2
INVARIANTS
  LinksReachTheCore
  FilesMerge
  FeaturesResolve
  RulesKeepMeaning
CHECK_DEADLOCK FALSE
