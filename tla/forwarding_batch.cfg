\* Two jobs in one batch, one of them COPY: partly settled batches.
SPECIFICATION Spec
CONSTANTS
  NoToken = NoToken
  NoWorker = NoWorker
  NoProfile = NoProfile
  InitialBackoff = 1
  Jobs = {j1, j2}
  MoveJobs = {j2}
  Workers = {w1}
  Tokens = {t1, t2, t3}
  Profiles = {p1}
  MaxAttempts = 2
  MaxBackoff = 1
  BatchSize = 2
  RunTimeout = 1
  Grace = 0
  Lease = 1
  MaxFaults = 1
SYMMETRY Symmetry
INVARIANTS OpenJobsStayClaimable
PROPERTIES ImplementsLifecycle
CHECK_DEADLOCK FALSE
