SPECIFICATION FairSpec
CONSTANTS
  Importers <- OneImporter
  Entries = 1
  MaxEvents = 2
  MaxRegistrations = 1
  MaxImports = 1
  LateAccounts = TRUE
INVARIANTS
  TypeOK
  ImportedChatIsOnDisk
  NothingIsLeftBehind
PROPERTIES
  ImplementsQueue
  SavingGoesOn
CHECK_DEADLOCK FALSE
