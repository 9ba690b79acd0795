\* Two GETs in flight, two writes, two identities.
SPECIFICATION Spec
CONSTANTS
  Reads <- MCReads
  Writes <- MCWrites
  Flights = {f1, f2}
  Attempts = {a1, a2}
  Users = {u1, u2}
  NoUser = NoUser
  NoFlight = NoFlight
  NoEntry = NoEntry
SYMMETRY Symmetry
INVARIANTS AnswersShowWrites AnswersAreOwn SharedIsInFlight
CHECK_DEADLOCK FALSE
