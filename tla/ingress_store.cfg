\* Three attempts to deliver one mail, two faults, settings that change.
SPECIFICATION Spec
CONSTANTS
  Mails = {m1}
  Attempts = {a1, a2, a3}
  Targets = {inbox, box}
  ForwardTargets = {box}
  Refused = Refused
  NoAttempt = NoAttempt
  MaxFaults = 2
SYMMETRY Symmetry
INVARIANTS StoredOnce AcceptedIsStored ReservationHasReason RawObjectGoesByRefusal
PROPERTIES ReleasesOnlyOwn
CHECK_DEADLOCK FALSE
