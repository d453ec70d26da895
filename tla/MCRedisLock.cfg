SPECIFICATION FairSpec
CONSTANTS
  c1 = c1
  c2 = c2
  c3 = c3
  c4 = c4
  c5 = c5
  NoToken = NoToken
  NoClient = NoClient
  Overrun <- MCOverrun
  Clients <- MCClients
  Spinners <- MCSpinners
  Token <- MCToken
INVARIANTS
  TypeOK
  MutualExclusion
  KeyNamesWriter
PROPERTIES
  LeaseEndsEventually
  ImplementsMutexLock
  NoForeignRelease
