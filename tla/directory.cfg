SPECIFICATION Spec
CONSTANTS
  t1 = t1
  t2 = t2
  a = a
  b = b
  c = c
  Thread <- MCThread
  Name <- MCName
  Bucket <- MCBucket
  Hash <- MCHash
  Mech = "RWLOCK"
  MaxINumber = 2
SYMMETRY ThreadSymmetry
INVARIANTS TypeOK NoDataRace LocksAgree NoDeadlock NoCircularWait
PROPERTY ImplementsAtomicDirectory
