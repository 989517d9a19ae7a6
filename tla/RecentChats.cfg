SPECIFICATION Spec
CONSTANTS
  Chats = {c1, c2, c3, c4}
  MaxRecentChatCount = 3
  Timeouts = {0, 1}
  MaxTime = 5
  MaxRestarts = 2
SYMMETRY Symmetry
INVARIANTS
  TypeOK
  Bounded
  UsedAreOnTop
  CleanUpFollowsUse
