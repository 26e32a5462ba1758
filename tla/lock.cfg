CONSTANTS
  s1 = s1
  s2 = s2
  s3 = s3
  None = None
  Sessions <- MCSessions
  FailingUnlock <- MCFailingUnlock
SPECIFICATION FairSpec
INVARIANT TypeOK
INVARIANT LockCoherent
INVARIANT GrantStands
INVARIANT NoLockWithoutFile
PROPERTY RefinesNetconfLock
 
