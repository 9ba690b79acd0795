\* Three faults: lost connections, failed writes, stuck runs, crashes; a fair supervisor.
\* Durations ordered as the retention worker's: an interval longer than the file may be
\* old, and a run limit shorter than it.
SPECIFICATION FairSpec
CONSTANTS
  NoFile = NoFile
  Interval = 6
  Retry = 1
  RunTimeout = 3
  Heartbeat = 2
  HealthTimeout = 1
  Shutdown = 2
  MaxAge = 5
  Skew = 1
  MaxFaults = 3
INVARIANTS DoctorIsRight OverdueRunIsReported OwnFileVouches QuitsInTime
PROPERTIES LateStartsAreBounded RunsRecur
