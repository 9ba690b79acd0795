\* A refusal after the mail was stored.
SPECIFICATION Spec
CONSTANTS
  Mails = {m1}
  Attempts = {a1, a2}
  Targets = {inbox, box}
  ForwardTargets = {box}
  Refused = Refused
  NoAttempt = NoAttempt
  MaxFaults = 0
SYMMETRY Symmetry
INVARIANTS RawObjectIsKept
CHECK_DEADLOCK FALSE
