SPECIFICATION FairSpec
CONSTANTS
  Contact <- Contacts
  Account <- Accounts
  AccountOf <- Owners
  MaxWakeUps = 3
  MaxFetches = 2
INVARIANTS
  OneRunnerAtATime
  NoJobForgotten
PROPERTY AskedJobsEnd
