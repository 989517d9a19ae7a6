SPECIFICATION FairSpec
CONSTANTS
  Module <- AllModules
  Position <- OrderPosition
  Depends <- AllDepends
  Conflicts <- AllConflicts
  Provides <- AllProvides
  Replaces <- AllReplaces
  LoadByDefault <- Defaults
  StaticModules = {"docking"}
  Protocols = {"gadu_protocol"}
  EnsuredModules <- HistoryEnsured
  DialogModule = "sms"
  Rank <- DependsRank
  MaxStarts = 2
  Releases <- AllReleases
  Upgrades <- Families
  MaxDialogs = 1
INVARIANTS
  TypeOK
  UsageCountsUsers
  DependenciesActive
  KilledOnlyForDialogs
  NoConflictActive
PROPERTIES
  StartFollowsChoices
  LoopsTerminate
