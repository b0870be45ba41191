SPECIFICATION FairSpec
CONSTANTS
  Tasks = {t1, t2}
  MaxLogins = 2
  MaxVersion = 1
  MaxCreds = 4
  MaxFaults = 1
INVARIANTS
  TypeOK
  OneLiveCredential
  ExchangedOnce
  ReplayNeedsFault
PROPERTIES
  CredentialsSpec
  GetsCredential
CHECK_DEADLOCK FALSE
