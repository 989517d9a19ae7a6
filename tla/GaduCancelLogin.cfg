SPECIFICATION Spec
CONSTANTS
  Descriptions = {"", "busy"}
  NoDescription = ""
  ServerFile <- NoFile
  HubAddress = Hub0
  NoAddress = Null
  UserTypes = {"Online", "Offline"}
  UserModes = {"NoChange", "Busy", "ExtendedAway"}
  OnlyTls = FALSE
  MaxLoginTimers = 1
  MaxPasswordWindows = 1
INVARIANT CancelledLoginStaysOffline
