SPECIFICATION FairSpec
CONSTANTS
  Descriptions = {"", "busy"}
  NoDescription = ""
  ServerFile <- NoFile
  HubAddress = Hub0
  NoAddress = Null
  UserTypes = {"Online", "Offline"}
  UserModes = {"NoChange", "Busy", "ExtendedAway", "Invisible", "Offline"}
  OnlyTls = FALSE
  MaxLoginTimers = 2
  MaxPasswordWindows = 1
INVARIANTS
  SessionOwned
  ShownOnlineIsLoggedIn
  SessionIsReported
PROPERTIES
  ImplementsSession
  LoginEnds
  PromisesAreKept
