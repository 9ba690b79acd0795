\* Three requests of a key over two accounts or mailboxes, every mix of allocations,
\* resets and updates; or an administrator's and a portal user's mail, with two faults.
SPECIFICATION ApiSpec
CONSTANTS
  k1 = k1
  d1 = d1
  NoDomain = NoDomain
  NoRequest = NoRequest
  Requests = {r1, r2, r3}
  Keys = {k1}
  Pool = {1, 2}
  Pools <- AccountsOrMailboxes
  Ops = {"allocate", "reset", "update"}
  Scopes <- Scoped
  InUse <- Anything
  AdminSends = {s1}
  PortalSends = {s2}
  MaxFaults = 2
  MaxChanges = 1
SYMMETRY Symmetry
INVARIANTS NextCallDiffers SomeoneMoves PendingHasReason MailIsAccounted
PROPERTY SavedIsOccupied
CHECK_DEADLOCK FALSE
