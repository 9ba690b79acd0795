\* One MOVE job, two processes, two sending profiles, no timing assumption.
SPECIFICATION Spec
CONSTANTS
  NoToken = NoToken
  NoWorker = NoWorker
  NoProfile = NoProfile
  InitialBackoff = 1
  Jobs = {j1}
  MoveJobs = {j1}
  Workers = {w1, w2}
  Tokens = {t1, t2, t3}
  Profiles = {p1, p2}
  MaxAttempts = 3
  MaxBackoff = 1
  BatchSize = 1
  RunTimeout = 1
  Grace = 0
  Lease = 1
  MaxFaults = 2
SYMMETRY Symmetry
INVARIANTS TypeOK OneHolder LoadedCountIsCurrent SentWasAccepted HiddenWhenMoved
PROPERTIES SettledIsFinal ClaimIsExclusive
CHECK_DEADLOCK FALSE
