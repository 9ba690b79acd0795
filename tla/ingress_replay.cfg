\* A replay answered while the first request fails.
SPECIFICATION SteadySpec
CONSTANTS
  Mails = {m1}
  Attempts = {a1, a2}
  Targets = {inbox, box}
  ForwardTargets = {box}
  Refused = Refused
  NoAttempt = NoAttempt
  MaxFaults = 1
SYMMETRY Symmetry
INVARIANTS ReplayedIsStored
CHECK_DEADLOCK FALSE
