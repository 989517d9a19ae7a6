SPECIFICATION FairSpec
CONSTANTS
  Contact <- Contacts
  Account <- Accounts
  AccountOf <- Owners
  MaxWakeUps = 2
  MaxFetches = 1
PROPERTY JobsDoNotStop
