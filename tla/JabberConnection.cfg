SPECIFICATION FairSpec
CONSTANTS
  Descriptions = {"", "busy"}
  NoDescription = ""
  UserTypes <- MCUserTypes
  UserModes <- MCUserModes
  MaxRetries = 2
  MaxPasswordWindows = 2
  MaxQuestions = 2
  MaxAbandoned = 1
INVARIANTS SessionIsShown AnnouncedIsWanted
PROPERTIES SessionFollowsWish PromisesAreKept
