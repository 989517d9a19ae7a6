SPECIFICATION FairClients
CONSTANTS
  ServerFile <- OneAddress
  HubAddress = Hub0
  NoAddress = Null
  Accounts = {a1, a2}
  TlsAccounts = {a2}
INVARIANTS
  ClientsTypeOK
  ListsAreSound
  TlsOnTlsPort
PROPERTY
  EveryServerTried
