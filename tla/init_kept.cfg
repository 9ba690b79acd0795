\* Two runs at once and one after another, over nothing, an older installation or a restored
\* database; the environment gives and withdraws the old key, another one and another password.
SPECIFICATION FairSpec
CONSTANTS
  Unset = Unset
  NoRun = NoRun
  Runs = {r1, r2}
  EnvKeys = {k0, k1}
  OldKey = k0
  Generated = {g1, g2}
  RoleSecrets = {s1, s2}
  EnvPasswords = {p1}
  OldPassword = p0
  MadePasswords = {q1, q2}
  ChosenPassword = c
  From = {"nothing", "bundle", "split", "restored"}
  MaxFaults = 2
INVARIANTS ExportedKeyOpensAll UrlsOpenDatabase UnusedCredentialIsKept
PROPERTIES ExportedKeyIsStable RetriesComplete
CHECK_DEADLOCK FALSE
