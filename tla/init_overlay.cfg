\* A combined bundle of an older release, upgraded while the environment gives another password.
SPECIFICATION Spec
CONSTANTS
  Unset = Unset
  NoRun = NoRun
  Runs = {r1}
  EnvKeys = {}
  OldKey = k0
  Generated = {g1}
  RoleSecrets = {s1}
  EnvPasswords = {p1}
  OldPassword = p0
  MadePasswords = {q1}
  ChosenPassword = c
  From = {"bundle"}
  MaxFaults = 0
INVARIANT BootstrapCredentialIsMigrated
CHECK_DEADLOCK FALSE
