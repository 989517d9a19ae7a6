SPECIFICATION Spec
CONSTANTS
  Module <- AllModules
  Position <- OrderPosition
  Depends <- AllDepends
  Conflicts <- AllConflicts
  Provides <- AllProvides
  Replaces <- AllReplaces
  LoadByDefault <- Defaults
  StaticModules = {"docking"}
  Protocols = {"gadu_protocol"}
  EnsuredModules <- HistoryEnsured
  DialogModule = "sms"
  Rank <- DependsRank
  MaxStarts = 2
  Releases <- DockingReleases
  Upgrades <- DockingUpgrades
  MaxDialogs = 0
PROPERTY ReplacementLoaded
