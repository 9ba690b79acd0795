---------------------------- MODULE Initialization ----------------------------
(***************************************************************************)
(* `allmail init' (core/internal/initialize, secretstate, schema, migrate):*)
(* a one-shot process that may be killed between any two of its writes and *)
(* is run again, over the files and the database it leaves behind, while a *)
(* private API may be up with the secrets of an earlier run.               *)
(*                                                                         *)
(* ENCRYPTION_KEY stands for JWT_SECRET too, which is resolved in the same *)
(* way; one role password stands for those generated whatever the          *)
(* environment says; an administrator is a password and whether it must be *)
(* changed.                                                                *)
(***************************************************************************)
EXTENDS Naturals

CONSTANTS
  Runs,            \* initializer processes that may be up at once
  EnvKeys,         \* values the operator gives ENCRYPTION_KEY
  OldKey,          \* the key of an installation to be upgraded
  Generated,       \* keys the initializer generates
  RoleSecrets,     \* database role passwords it generates
  EnvPasswords,    \* values the operator gives ADMIN_PASSWORD
  OldPassword,     \* the bootstrap password of an installation to be upgraded
  MadePasswords,   \* administrator passwords the initializer generates
  ChosenPassword,  \* what an administrator changes the password to
  From,            \* what the first run may find
  Unset,           \* a value or a file that is not there
  NoRun,           \* the state lock is free
  MaxFaults        \* bound on killed processes and failed calls

ASSUME UnsetAssumption ==
  Unset \notin EnvKeys \cup Generated \cup RoleSecrets \cup EnvPasswords
              \cup MadePasswords \cup {OldKey, OldPassword, ChosenPassword}
ASSUME RunsAssumption == NoRun \notin Runs
ASSUME GeneratedAssumption ==
  /\ Generated \cap (EnvKeys \cup {OldKey}) = {}
  /\ ChosenPassword \notin EnvPasswords \cup MadePasswords \cup {OldPassword}
ASSUME BoundsAssumption ==
  /\ From \subseteq {"nothing", "bundle", "split", "restored"}
  /\ MaxFaults \in Nat

VARIABLES
  env,      \* the operator's environment
  master,   \* runtime-secrets.env, on the initializer's own volume
  legacy,   \* bootstrap-secrets.env, the combined file of older releases
  staged,   \* bootstrap-admin.env beside the master file
  pending,  \* bootstrap-admin.env on the volume the API sees
  exports,  \* the files the other services read
  db,       \* schema version, role password, keys of ciphertexts, administrator
  holder,   \* the run that holds the state lock
  init,     \* where each run is, and the key it resolved
  api,      \* the key a live API has loaded
  dropping, \* the API has changed the password and not yet removed `pending'
  faults,
  used,     \* history: the keys runs have resolved
  overlaid  \* history: a bundle's passwords an environment's was laid over

history == <<used, overlaid>>
files == <<master, legacy, staged, pending, exports>>
vars == <<env, files, db, holder, init, api, dropping, faults, history>>

Keys == EnvKeys \cup Generated \cup {OldKey}
Passwords == EnvPasswords \cup MadePasswords \cup {OldPassword, ChosenPassword}
Maybe(S) == S \cup {Unset}
Adopted == 3   \* schema history, runtime migrations, their ledger

NoAdmin == [pw |-> Unset, must |-> FALSE]
Bundle(key, secret) == [key |-> key, secret |-> secret]
Nowhere == [pc |-> "down", key |-> Unset]

\* What there is: nothing; the combined file of older releases; split files,
\* before the API had a volume of its own; or a database restored without them.
Secrets(from, pw) ==
  /\ legacy = IF from = "bundle" THEN [key |-> OldKey, pw |-> pw]
                                 ELSE [key |-> Unset, pw |-> Unset]
  /\ master = Bundle(IF from = "split" THEN OldKey ELSE Unset, Unset)
  /\ staged = IF from = "split" THEN pw ELSE Unset

\* The administrator is not there yet, or has the bootstrap password, or has
\* changed it; an API may be up.
Older(pw) ==
  /\ db \in [schema : {1}, role : {Unset}, ciphers : SUBSET {OldKey},
            admin : {NoAdmin, [pw |-> ChosenPassword, must |-> FALSE]}
                    \cup [pw : {pw} \ {Unset}, must : {TRUE}]]
  /\ api \in {Unset, OldKey}

Database(from, pw) ==
  CASE from = "nothing" ->
         /\ db = [schema |-> 0, role |-> Unset, ciphers |-> {}, admin |-> NoAdmin]
         /\ api = Unset
    [] from = "restored" -> Older(Unset) /\ db.ciphers = {OldKey} /\ api = Unset
    [] OTHER -> Older(pw)

Init ==
  /\ env \in [key : Maybe(EnvKeys), pw : Maybe(EnvPasswords)]
  /\ \E from \in From, pw \in {Unset, OldPassword} : Secrets(from, pw) /\ Database(from, pw)
  /\ pending = Unset
  /\ exports = Bundle(Unset, Unset)
  /\ holder = NoRun
  /\ init = [r \in Runs |-> Nowhere]
  /\ dropping = FALSE
  /\ faults = 0
  /\ used = {} /\ overlaid = {}

Fault == faults < MaxFaults /\ faults' = faults + 1
At(r, pc) == init[r].pc = pc
Goto(r, pc) == init' = [init EXCEPT ![r].pc = pc]

\* The run returns, and the lock with it; nothing it wrote is taken back.
Return(r) ==
  /\ init' = [init EXCEPT ![r] = Nowhere]
  /\ holder' = NoRun

-----------------------------------------------------------------------------
(* Secrets.                                                                *)

\* WithLock, or its time-out (nothing happens).
Lock(r) ==
  /\ At(r, "down") /\ holder = NoRun
  /\ holder' = r
  /\ Goto(r, "resolve")
  /\ UNCHANGED <<env, files, db, api, dropping, faults, history>>

\* A value that only an environment gave is used, and not persisted.
Persisted == IF master.key # Unset THEN master.key ELSE legacy.key

\* Mutant: the environment is not compared with what is persisted.
ConflictOfFiles ==
  Unset \notin {legacy.key, master.key} /\ legacy.key # master.key

Conflict ==
  \/ Unset \notin {legacy.key, master.key} /\ legacy.key # master.key
  \/ Unset \notin {env.key, Persisted} /\ env.key # Persisted

\* What ENCRYPTION_KEY may resolve to; nothing when it is required of the operator.
Resolvable ==
  CASE env.key # Unset -> {env.key}
    [] env.key = Unset /\ Persisted # Unset -> {Persisted}
    [] env.key = Unset /\ Persisted = Unset -> IF db.schema = 0 THEN Generated ELSE {}

\* Mutant: a role password drawn again on every run.
FreshRoleSecret == RoleSecrets

RoleSecret == IF master.secret # Unset THEN {master.secret} ELSE RoleSecrets

\* The new master file, for a resolved key.
Master(key, secret) ==
  Bundle(IF Persisted # Unset \/ env.key # Unset THEN Persisted ELSE key, secret)

Resolve(r) ==
  /\ At(r, "resolve")
  /\ \/ /\ Conflict \/ Resolvable = {}
        /\ Return(r)
        /\ UNCHANGED <<master, used>>
     \/ /\ ~Conflict
        /\ \E key \in Resolvable, secret \in RoleSecret :
             /\ master' = Master(key, secret)
             /\ init' = [init EXCEPT ![r] = [pc |-> "stage", key |-> key]]
             /\ used' = used \cup {key}
        /\ UNCHANGED holder
  /\ UNCHANGED <<env, legacy, staged, pending, exports, db, api, dropping, faults, overlaid>>

\* Resolve's second file: the credential of a legacy bundle, overlaid by the
\* environment's, overlaid by the file's own.
Staged ==
  IF legacy.pw = Unset \/ staged # Unset THEN staged
  ELSE IF env.pw # Unset THEN env.pw ELSE legacy.pw

Stage(r) ==
  /\ At(r, "stage")
  /\ staged' = Staged
  /\ overlaid' = overlaid \cup (IF staged = Unset /\ staged' # legacy.pw THEN {legacy.pw} ELSE {})
  /\ Goto(r, "move")
  /\ UNCHANGED <<env, master, legacy, pending, exports, db, holder, api, dropping, faults, used>>

\* Mutant: a target that is there is a conflict, the same credential too.
MoveOnce(r) ==
  /\ At(r, "move")
  /\ \/ /\ staged # Unset /\ pending # Unset
        /\ Return(r)
        /\ UNCHANGED pending
     \/ /\ staged = Unset \/ pending = Unset
        /\ pending' = IF staged = Unset THEN pending ELSE staged
        /\ Goto(r, "unstage")
        /\ UNCHANGED holder
  /\ UNCHANGED <<env, master, legacy, staged, exports, db, api, dropping, faults, history>>

\* migrateBootstrapAdminSecret: copy, then remove the source.
Move(r) ==
  /\ At(r, "move")
  /\ \/ /\ staged # Unset /\ pending \notin {Unset, staged}
        /\ Return(r)
        /\ UNCHANGED pending
     \/ /\ staged = Unset \/ pending = staged
        /\ Goto(r, "unstage")
        /\ UNCHANGED <<pending, holder>>
     \/ /\ staged # Unset /\ pending = Unset
        /\ pending' = staged
        /\ Goto(r, "unstage")
        /\ UNCHANGED holder
  /\ UNCHANGED <<env, master, legacy, staged, exports, db, api, dropping, faults, history>>

Unstage(r) ==
  /\ At(r, "unstage")
  /\ staged' = Unset
  /\ Goto(r, "schema")
  /\ UNCHANGED <<env, master, legacy, pending, exports, db, holder, api, dropping, faults, history>>

-----------------------------------------------------------------------------
(* The database.                                                           *)

SetDb(field, value) == db' = [db EXCEPT ![field] = value]

\* ApplyPrismaHistory, migrate.Run and AdoptRuntimeLedger, a transaction each,
\* which find what is done already.
Migrate(r) ==
  /\ At(r, "schema")
  /\ IF db.schema < Adopted
     THEN SetDb("schema", db.schema + 1) /\ UNCHANGED init
     ELSE Goto(r, "roles") /\ UNCHANGED db
  /\ UNCHANGED <<env, files, holder, api, dropping, faults, history>>

\* ProvisionRuntimeDatabaseRoles: the transaction, then the URL files.
Provision(r) ==
  /\ At(r, "roles")
  /\ SetDb("role", master.secret)
  /\ Goto(r, "urls")
  /\ UNCHANGED <<env, files, holder, api, dropping, faults, history>>

ExportUrls(r) ==
  /\ At(r, "urls")
  /\ exports' = [exports EXCEPT !.secret = master.secret]
  /\ Goto(r, "verify")
  /\ UNCHANGED <<env, master, legacy, staged, pending, db, holder, api, dropping, faults, history>>

\* Mutant: nothing is verified.
VerifyNothing(r, pc, next) ==
  /\ At(r, pc)
  /\ Goto(r, next)
  /\ UNCHANGED <<env, files, db, holder, api, dropping, faults, history>>

\* VerifyCiphertexts, before the import and after the bootstrap.
Verify(r, pc, next) ==
  /\ At(r, pc)
  /\ IF db.ciphers \subseteq {init[r].key}
     THEN Goto(r, next) /\ UNCHANGED holder
     ELSE Return(r)
  /\ UNCHANGED <<env, files, db, api, dropping, faults, history>>

\* ImportEnvironment encrypts what the environment holds, in one transaction.
Import(r) ==
  /\ At(r, "import")
  /\ \/ SetDb("ciphers", db.ciphers \cup {init[r].key})
     \/ UNCHANGED db
  /\ Goto(r, "bootstrap")
  /\ UNCHANGED <<env, files, holder, api, dropping, faults, history>>

\* Mutant: the file goes once there is an administrator.
ReconciledAway == Unset

\* What becomes of the credential file next to an administrator: kept while it
\* is a pending one's.
Reconciled == IF db.admin.must /\ pending = db.admin.pw THEN pending ELSE Unset

\* BootstrapAdministrator where there is an administrator; its lock on the rows
\* keeps a change of the password out.
Reconcile(r) ==
  /\ At(r, "bootstrap") /\ db.admin # NoAdmin
  /\ pending' = Reconciled
  /\ Goto(r, "reverify")
  /\ UNCHANGED <<env, master, legacy, staged, exports, db, holder, api, dropping, faults, history>>

\* resolveAdminCredential: the file's, the environment's, or a new one.
Credentials ==
  CASE pending # Unset -> {pending}
    [] pending = Unset /\ env.pw # Unset -> {env.pw}
    [] pending = Unset /\ env.pw = Unset -> MadePasswords

\* Where there is none, the file is written first.
WriteCredential(r) ==
  /\ At(r, "bootstrap") /\ db.admin = NoAdmin
  /\ pending' \in Credentials
  /\ Goto(r, "insert")
  /\ UNCHANGED <<env, master, legacy, staged, exports, db, holder, api, dropping, faults, history>>

InsertAdmin(r) ==
  /\ At(r, "insert")
  /\ SetDb("admin", [pw |-> pending, must |-> TRUE])
  /\ Goto(r, "reverify")
  /\ UNCHANGED <<env, files, holder, api, dropping, faults, history>>

-----------------------------------------------------------------------------
(* Finalize.                                                               *)

ExportKey(r) ==
  /\ At(r, "export")
  /\ exports' = [exports EXCEPT !.key = init[r].key]
  /\ Goto(r, "cleanup")
  /\ UNCHANGED <<env, master, legacy, staged, pending, db, holder, api, dropping, faults, history>>

RemoveLegacy(r) ==
  /\ At(r, "cleanup")
  /\ legacy' = [key |-> Unset, pw |-> Unset]
  /\ Return(r)
  /\ UNCHANGED <<env, master, staged, pending, exports, db, api, dropping, faults, history>>

\* A call fails or the process is killed, at any point.
Abort(r) ==
  /\ ~At(r, "down")
  /\ Fault
  /\ Return(r)
  /\ UNCHANGED <<env, files, db, api, dropping, history>>

-----------------------------------------------------------------------------
(* The operator and the API.                                               *)

ChangeEnvironment ==
  /\ env' \in [key : Maybe(EnvKeys), pw : Maybe(EnvPasswords)] \ {env}
  /\ UNCHANGED <<files, db, holder, init, api, dropping, faults, history>>

\* compose-up.sh runs the initializer beside whatever services are up.
ApiStarts ==
  /\ api = Unset /\ Unset \notin {exports.key, exports.secret}
  /\ api' = exports.key
  /\ UNCHANGED <<env, files, db, holder, init, dropping, faults, history>>

ApiStops ==
  /\ api # Unset
  /\ api' = Unset /\ dropping' = FALSE
  /\ UNCHANGED <<env, files, db, holder, init, faults, history>>

ApiEncrypts ==
  /\ api # Unset
  /\ SetDb("ciphers", db.ciphers \cup {api})
  /\ UNCHANGED <<env, files, holder, init, api, dropping, faults, history>>

\* adminChangePassword, and then removeBootstrapAdminSecret.
ChangePassword ==
  /\ api # Unset /\ db.admin.must
  /\ SetDb("admin", [pw |-> ChosenPassword, must |-> FALSE])
  /\ dropping' = TRUE
  /\ UNCHANGED <<env, files, holder, init, api, faults, history>>

DropCredential ==
  /\ dropping
  /\ dropping' = FALSE
  /\ pending' = Unset
  /\ UNCHANGED <<env, master, legacy, staged, exports, db, holder, init, api, faults, history>>

-----------------------------------------------------------------------------
Step(r) ==
  \/ Lock(r) \/ Resolve(r) \/ Stage(r) \/ Move(r) \/ Unstage(r)
  \/ Migrate(r) \/ Provision(r) \/ ExportUrls(r)
  \/ Verify(r, "verify", "import") \/ Import(r)
  \/ Reconcile(r) \/ WriteCredential(r) \/ InsertAdmin(r)
  \/ Verify(r, "reverify", "export") \/ ExportKey(r) \/ RemoveLegacy(r)

Api == ApiStarts \/ ApiStops \/ ApiEncrypts \/ ChangePassword \/ DropCredential

Next == (\E r \in Runs : Step(r) \/ Abort(r)) \/ Api \/ ChangeEnvironment

Spec == Init /\ [][Next]_vars

\* An operator who runs the initializer again.
FairSpec == Spec /\ \A r \in Runs : WF_vars(Step(r))

-----------------------------------------------------------------------------
\* The initializer keeps the key, or the operator has given every run the same one: a
\* key that only the environment gave is not persisted, and the next one replaces it.
KeyIsSettled == Persisted # Unset \/ \A key, other \in used : key = other

\* Whatever run died where, and whatever ENCRYPTION_KEY the operator gives beside the
\* persisted one, the key every service is given opens everything that was ever
\* encrypted: by the import of an unfinished run, by an API that is up during the next
\* run, or before an upgrade.
ExportedKeyOpensAll ==
  KeyIsSettled /\ exports.key # Unset => db.ciphers \subseteq {exports.key}

\* A URL file opens the database, though roles and files are written apart.
UrlsOpenDatabase == exports.secret \in {Unset, db.role}

\* An administrator nobody has logged in as yet can be logged in as: the password
\* is in a file, however the runs that made or moved it ended; all but one that an
\* environment's ADMIN_PASSWORD was laid over in a bundle.
UnusedCredentialIsKept ==
  db.admin.must => db.admin.pw \in {pending, staged, legacy.pw} \cup overlaid

\* "the initializer migrates an unconsumed bootstrap credential into its dedicated
\* volume, rejects conflicts" (docs/SECURITY-BOUNDARIES.md): no ADMIN_PASSWORD of the
\* environment costs the administrator the only copy of the password.
BootstrapCredentialIsMigrated ==
  db.admin.must => db.admin.pw \in {pending, staged, legacy.pw}

\* "Running `allmail init` again ... must not ... change persisted secret values"
\* (docs/advanced-runtime.md): what a service was given is changed by the operator
\* only, who gave both keys and had none persisted.
ExportedKeyIsStable ==
  [][exports.key # Unset /\ exports'.key # exports.key
       => Persisted = Unset /\ {exports.key, exports'.key} \subseteq EnvKeys]_vars

Completed ==
  /\ exports = Bundle(exports.key, db.role) /\ Unset \notin {exports.key, db.role}
  /\ db.schema = Adopted /\ db.admin # NoAdmin
  /\ legacy.key = Unset /\ staged = Unset

\* What a run refuses for, and only the operator can mend: keys or credentials that
\* contradict each other, none where there is a database, one that does not open it.
NeedsOperator ==
  \/ Conflict
  \/ \A key \in Resolvable : ~(db.ciphers \subseteq {key})
  \/ staged # Unset /\ pending \notin {Unset, staged}

\* A killed initializer blocks no later one: unless it is again and again the
\* operator's turn, runs lead to a complete installation.
RetriesComplete == <>[]~NeedsOperator => <>Completed
=============================================================================
