\* Deadlines kept, the lock may be lost, fair processes: the lease covers the run and every job is settled. No symmetry.
SPECIFICATION FairSpec
CONSTANTS
  NoToken = NoToken
  NoWorker = NoWorker
  NoProfile = NoProfile
  InitialBackoff = 1
  Jobs = {j1}
  MoveJobs = {j1}
  Workers = {w1, w2}
  Tokens = {t1, t2, t3}
  Profiles = {p1}
  MaxAttempts = 3
  MaxBackoff = 2
  BatchSize = 1
  RunTimeout = 2
  Grace = 1
  Lease = 3
  MaxFaults = 2
INVARIANTS LiveClaimsHold
PROPERTIES EveryJobSettles
CHECK_DEADLOCK FALSE
