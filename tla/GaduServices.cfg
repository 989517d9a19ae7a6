SPECIFICATION Spec
CONSTANTS
  Messages = {"private", "conference"}
  RecipientsOf <- ChatContacts
  Pieces = 2
  Outgoing = {"sent"}
  Incoming = {"received"}
  FileSize = 1
  MaxOperations = 4
  MaxRestarts = 1
INVARIANTS
  TypeOK
  SocketsFollowService
  FinishedIsWhole
PROPERTIES
  FirstAnswerStands
  ImportIsWhole
