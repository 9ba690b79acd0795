-------------------------- MODULE Initialization_proofs --------------------------
(***************************************************************************)
(* What Initialization guarantees for every number of runs, faults and       *)
(* values: the key, the URLs and the credential the services are given are    *)
(* the ones the database needs, whichever run died where.                     *)
(***************************************************************************)
EXTENDS Initialization, TLAPS

\* Where a run that has resolved its secrets can be; has migrated the database.
Migrated == {"roles", "urls", "verify", "import", "bootstrap", "insert", "reverify",
             "export", "cleanup"}
Resolved == {"stage", "move", "unstage", "schema"} \cup Migrated

TypeOK ==
  /\ env \in [key : Maybe(EnvKeys), pw : Maybe(EnvPasswords)]
  /\ master \in [key : Maybe(Keys), secret : Maybe(RoleSecrets)]
  /\ legacy \in [key : Maybe(Keys), pw : Maybe(Passwords)]
  /\ staged \in Maybe(Passwords) /\ pending \in Maybe(Passwords)
  /\ exports \in [key : Maybe(Keys), secret : Maybe(RoleSecrets)]
  /\ db \in [schema : Nat, role : Maybe(RoleSecrets), ciphers : SUBSET Keys,
             admin : [pw : Maybe(Passwords), must : BOOLEAN]]
  /\ holder \in Runs \cup {NoRun}
  /\ init \in [Runs -> [pc : {"down", "resolve"} \cup Resolved, key : Maybe(Keys)]]
  /\ api \in Maybe(Keys)
  /\ dropping \in BOOLEAN
  /\ faults \in Nat
  /\ used \subseteq Keys /\ overlaid \subseteq Maybe(Passwords)

\* The state lock: a run that is somewhere holds it,
Alone == \A r \in Runs : init[r].pc # "down" => holder = r

\* and has a key once it has resolved its secrets.
HasKey == \A r \in Runs : init[r].pc \in Resolved => init[r].key # Unset

\* The one password the roles have, the URL files are written with and the master
\* file keeps.
SecretAgreed ==
  /\ \A r \in Runs : init[r].pc \in Resolved => master.secret # Unset
  /\ \A r \in Runs : At(r, "urls") => db.role = master.secret
  /\ db.role \in {Unset, master.secret}
  /\ exports.secret \in {Unset, db.role}

\* A key is the persisted one, or, where none is persisted, one that the operator has
\* given to a run.
Given(key) == IF Persisted # Unset THEN key = Persisted ELSE key \in EnvKeys \cap used

\* Every key somebody works with is the given one, and once it is exported or used no
\* other can be generated: there is a database.
KeyAgreed ==
  /\ \A r \in Runs : init[r].pc \in Resolved =>
       /\ Given(init[r].key)
       /\ legacy.key # Unset => master.key = legacy.key
  /\ \A r \in Runs : init[r].pc \in Migrated => db.schema # 0
  /\ exports.key # Unset => Given(exports.key) /\ db.schema # 0
  /\ api # Unset => Given(api) /\ db.schema # 0

\* Verified, and kept true by whoever encrypts meanwhile; a run that settles the key
\* by generating it finds no other at work.
KeyOpensAll ==
  KeyIsSettled =>
    /\ \A r \in Runs : init[r].pc \in {"export", "cleanup"} => db.ciphers \subseteq {init[r].key}
    /\ exports.key # Unset => db.ciphers \subseteq {exports.key}

\* Where the credential of a pending administrator can be while it is moved, checked
\* and at last the only copy, if the environment's was not laid over it.
CredentialKept ==
  /\ legacy.pw # Unset /\ staged # Unset => staged = legacy.pw \/ legacy.pw \in overlaid
  /\ db.admin.must => db.admin.pw # Unset /\ db.admin.pw \in {pending, staged, legacy.pw} \cup overlaid
  /\ dropping => db.admin # NoAdmin /\ ~db.admin.must
  /\ \A r \in Runs :
       /\ At(r, "move") /\ legacy.pw # Unset => staged # Unset
       /\ init[r].pc \in (Migrated \cup {"unstage", "schema"}) \ {"insert"} /\ db.admin.must
            => db.admin.pw \in {pending} \cup overlaid
       /\ At(r, "insert") => db.admin = NoAdmin /\ pending # Unset

-----------------------------------------------------------------------------
(* The type, and the lock.                                                  *)

LEMMA InitTypeOK == Init => TypeOK /\ Alone /\ HasKey
<1> SUFFICES ASSUME Init PROVE TypeOK /\ Alone /\ HasKey
  OBVIOUS
<1> USE DEF Keys, Passwords, Maybe, NoAdmin, Bundle, Nowhere
<1>1. /\ init \in [Runs -> [pc : {"down", "resolve"} \cup Resolved, key : Maybe(Keys)]]
      /\ \A r \in Runs : init[r].pc = "down"
      /\ "down" \notin Resolved
  BY DEF Init, Resolved, Migrated
<1>2. Alone /\ HasKey
  BY <1>1 DEF Alone, HasKey
<1>3. PICK from \in From, pw \in {Unset, OldPassword} : Secrets(from, pw) /\ Database(from, pw)
  BY DEF Init
<1>4. /\ master \in [key : Maybe(Keys), secret : Maybe(RoleSecrets)]
      /\ legacy \in [key : Maybe(Keys), pw : Maybe(Passwords)]
      /\ staged \in Maybe(Passwords)
  BY <1>3 DEF Secrets
<1>5. ASSUME NEW p \in {pw, Unset}, Older(p) PROVE TypeOK /\ Alone /\ HasKey
  <2>1. db \in [schema : Nat, role : Maybe(RoleSecrets), ciphers : SUBSET Keys,
                admin : [pw : Maybe(Passwords), must : BOOLEAN]]
    <3>1. /\ NoAdmin \in [pw : Maybe(Passwords), must : BOOLEAN]
          /\ [pw |-> ChosenPassword, must |-> FALSE] \in [pw : Maybe(Passwords), must : BOOLEAN]
      OBVIOUS
    <3>2. p \in Maybe(Passwords)
      BY <1>5
    <3>3. [pw : {p} \ {Unset}, must : {TRUE}] \subseteq [pw : Maybe(Passwords), must : BOOLEAN]
      BY <3>2
    <3>4. /\ db.admin \in [pw : Maybe(Passwords), must : BOOLEAN]
          /\ db = [schema |-> 1, role |-> Unset, ciphers |-> db.ciphers, admin |-> db.admin]
          /\ db.ciphers \subseteq {OldKey}
      BY <1>5, <3>1, <3>3 DEF Older
    <3> QED
      BY <3>4
  <2> QED
    BY <1>1, <1>4, <1>5, <1>2, <2>1 DEF Older, Init, TypeOK
<1>6. CASE /\ db = [schema |-> 0, role |-> Unset, ciphers |-> {}, admin |-> NoAdmin]
           /\ api = Unset
  BY <1>1, <1>4, <1>6, <1>2 DEF Init, TypeOK
<1> QED
  BY <1>3, <1>5, <1>6 DEF Database

LEMMA StepTypeOK == TypeOK /\ Alone /\ HasKey /\ [Next]_vars => TypeOK' /\ Alone' /\ HasKey'
<1> SUFFICES ASSUME TypeOK, Alone, HasKey, [Next]_vars PROVE TypeOK' /\ Alone' /\ HasKey'
  OBVIOUS
<1> USE RunsAssumption, BoundsAssumption
    DEF TypeOK, Alone, HasKey, Keys, Passwords, Maybe, NoAdmin, Bundle, Nowhere, Resolved, Migrated,
        At, Goto, Return, SetDb, Fault, files, history
<1>1. ASSUME NEW r \in Runs, Lock(r) PROVE TypeOK' /\ Alone' /\ HasKey'
  BY <1>1 DEF Lock
<1>2. ASSUME NEW r \in Runs, Resolve(r) PROVE TypeOK' /\ Alone' /\ HasKey'
  <2>1. CASE Return(r) /\ UNCHANGED <<master, used>>
    BY <1>2, <2>1 DEF Resolve
  <2>2. ASSUME NEW key \in Resolvable, NEW secret \in RoleSecret,
               master' = Master(key, secret), used' = used \cup {key},
               init' = [init EXCEPT ![r] = [pc |-> "stage", key |-> key]]
        PROVE  TypeOK' /\ Alone' /\ HasKey'
    <3>1. key \in Keys /\ key # Unset /\ secret \in RoleSecrets
      BY UnsetAssumption DEF Resolvable, RoleSecret, Persisted
    <3>2. master' \in [key : Maybe(Keys), secret : Maybe(RoleSecrets)]
      BY <2>2, <3>1 DEF Master, Persisted
    <3> QED
      BY <1>2, <2>2, <3>1, <3>2 DEF Resolve
  <2> QED
    BY <1>2, <2>1, <2>2 DEF Resolve
<1>3. ASSUME NEW r \in Runs, Stage(r) PROVE TypeOK' /\ Alone' /\ HasKey'
  <2>1. staged' \in Maybe(Passwords) /\ overlaid' \subseteq Maybe(Passwords)
    BY <1>3 DEF Stage, Staged
  <2>2. UNCHANGED <<env, master, legacy, pending, exports, db, holder, api, dropping, faults, used>>
    BY <1>3 DEF Stage
  <2>3. /\ init' \in [Runs -> [pc : {"down", "resolve"} \cup Resolved, key : Maybe(Keys)]]
        /\ init[r].pc = "stage"
        /\ init'[r].pc = "move" /\ init'[r].key = init[r].key
        /\ \A q \in Runs \ {r} : init'[q] = init[q]
    BY <1>3 DEF Stage
  <2> HIDE DEF Maybe, Keys, Passwords
  <2> QED
    BY <2>1, <2>2, <2>3
<1>4. ASSUME NEW r \in Runs, Move(r) PROVE TypeOK' /\ Alone' /\ HasKey'
  <2>1. /\ pending' \in Maybe(Passwords)
        /\ UNCHANGED <<env, master, legacy, staged, exports, db, api, dropping, faults, history>>
    BY <1>4 DEF Move
  <2>2. CASE Return(r)
    <3>0. \A q \in Runs \ {r} : init[q].pc = "down"
      BY <1>4 DEF Move
    <3>1. init' \in [Runs -> [pc : {"down", "resolve"} \cup Resolved, key : Maybe(Keys)]]
          /\ holder' = NoRun /\ \A q \in Runs : init'[q].pc = "down"
      BY <2>2, <3>0
    <3> HIDE DEF Maybe, Keys, Passwords
    <3> QED
      BY <2>1, <3>1
  <2>3. CASE Goto(r, "unstage") /\ UNCHANGED holder
    <3>1. init' \in [Runs -> [pc : {"down", "resolve"} \cup Resolved, key : Maybe(Keys)]]
          /\ init[r].pc = "move"
          /\ init'[r].pc = "unstage" /\ init'[r].key = init[r].key
          /\ \A q \in Runs \ {r} : init'[q] = init[q]
      BY <1>4, <2>3 DEF Move
    <3> HIDE DEF Maybe, Keys, Passwords
    <3> QED
      BY <2>1, <2>3, <3>1
  <2> QED
    BY <1>4, <2>2, <2>3 DEF Move
<1>5. ASSUME NEW r \in Runs, Unstage(r) PROVE TypeOK' /\ Alone' /\ HasKey'
  BY <1>5 DEF Unstage
<1>6. ASSUME NEW r \in Runs, Migrate(r) PROVE TypeOK' /\ Alone' /\ HasKey'
  BY <1>6 DEF Migrate
<1>7. ASSUME NEW r \in Runs, Provision(r) PROVE TypeOK' /\ Alone' /\ HasKey'
  BY <1>7 DEF Provision
<1>8. ASSUME NEW r \in Runs, ExportUrls(r) PROVE TypeOK' /\ Alone' /\ HasKey'
  BY <1>8 DEF ExportUrls
<1>9. ASSUME NEW r \in Runs, NEW pc \in {"verify", "reverify"},
             NEW next \in {"import", "export"}, Verify(r, pc, next)
      PROVE  TypeOK' /\ Alone' /\ HasKey'
  BY <1>9 DEF Verify
<1>10. ASSUME NEW r \in Runs, Import(r) PROVE TypeOK' /\ Alone' /\ HasKey'
  <2>1. db' \in [schema : Nat, role : Maybe(RoleSecrets), ciphers : SUBSET Keys,
                 admin : [pw : Maybe(Passwords), must : BOOLEAN]]
    <3>1. CASE UNCHANGED db
      BY <3>1
    <3>2. CASE SetDb("ciphers", db.ciphers \cup {init[r].key})
      <4>1. init[r].key \in Keys
        BY <1>10 DEF Import
      <4> QED
        BY <3>2, <4>1
    <3> QED
      BY <1>10, <3>1, <3>2 DEF Import
  <2> QED
    BY <1>10, <2>1 DEF Import
<1>11. ASSUME NEW r \in Runs, Reconcile(r) PROVE TypeOK' /\ Alone' /\ HasKey'
  BY <1>11 DEF Reconcile, Reconciled
<1>12. ASSUME NEW r \in Runs, WriteCredential(r) PROVE TypeOK' /\ Alone' /\ HasKey'
  BY <1>12 DEF WriteCredential, Credentials
<1>13. ASSUME NEW r \in Runs, InsertAdmin(r) PROVE TypeOK' /\ Alone' /\ HasKey'
  <2>1. [pw |-> pending, must |-> TRUE] \in [pw : Maybe(Passwords), must : BOOLEAN]
    OBVIOUS
  <2>2. db' \in [schema : Nat, role : Maybe(RoleSecrets), ciphers : SUBSET Keys,
                 admin : [pw : Maybe(Passwords), must : BOOLEAN]]
    BY <1>13, <2>1 DEF InsertAdmin
  <2>3. init' \in [Runs -> [pc : {"down", "resolve"} \cup Resolved, key : Maybe(Keys)]]
        /\ init[r].pc = "insert"
        /\ init'[r].pc = "reverify" /\ init'[r].key = init[r].key
        /\ \A q \in Runs \ {r} : init'[q] = init[q]
    BY <1>13 DEF InsertAdmin
  <2>4. UNCHANGED <<env, files, holder, api, dropping, faults, history>>
    BY <1>13 DEF InsertAdmin
  <2> HIDE DEF Maybe, Keys, Passwords
  <2> QED
    BY <2>2, <2>3, <2>4
<1>14. ASSUME NEW r \in Runs, ExportKey(r) PROVE TypeOK' /\ Alone' /\ HasKey'
  BY <1>14 DEF ExportKey
<1>15. ASSUME NEW r \in Runs, RemoveLegacy(r) PROVE TypeOK' /\ Alone' /\ HasKey'
  BY <1>15 DEF RemoveLegacy
<1>16. ASSUME NEW r \in Runs, Abort(r) PROVE TypeOK' /\ Alone' /\ HasKey'
  BY <1>16 DEF Abort
<1>17. CASE Api
  <2>1. CASE ApiStarts
    <3>1. /\ api' \in Maybe(Keys) /\ dropping' \in BOOLEAN /\ pending' \in Maybe(Passwords)
          /\ UNCHANGED <<env, master, legacy, staged, exports, db, holder, init, faults, history>>
      BY <2>1 DEF ApiStarts
    <3> HIDE DEF Maybe, Keys, Passwords
    <3> QED
      BY <3>1
  <2>2. CASE ApiStops
    <3>1. /\ api' \in Maybe(Keys) /\ dropping' \in BOOLEAN /\ pending' \in Maybe(Passwords)
          /\ UNCHANGED <<env, master, legacy, staged, exports, db, holder, init, faults, history>>
      BY <2>2 DEF ApiStops
    <3> HIDE DEF Maybe, Keys, Passwords
    <3> QED
      BY <3>1
  <2>3. CASE DropCredential
    <3>1. /\ api' \in Maybe(Keys) /\ dropping' \in BOOLEAN /\ pending' \in Maybe(Passwords)
          /\ UNCHANGED <<env, master, legacy, staged, exports, db, holder, init, faults, history>>
      BY <2>3 DEF DropCredential
    <3> HIDE DEF Maybe, Keys, Passwords
    <3> QED
      BY <3>1
  <2>4. CASE ApiEncrypts
    BY <2>4 DEF ApiEncrypts
  <2>5. CASE ChangePassword
    <3>1. [pw |-> ChosenPassword, must |-> FALSE] \in [pw : Maybe(Passwords), must : BOOLEAN]
      OBVIOUS
    <3>2. db' \in [schema : Nat, role : Maybe(RoleSecrets), ciphers : SUBSET Keys,
                   admin : [pw : Maybe(Passwords), must : BOOLEAN]]
      BY <2>5, <3>1 DEF ChangePassword
    <3>3. UNCHANGED <<env, files, holder, init, api, faults, history>> /\ dropping' = TRUE
      BY <2>5 DEF ChangePassword
    <3> HIDE DEF SetDb
    <3> QED
      BY <3>2, <3>3
  <2> QED
    BY <1>17, <2>1, <2>2, <2>3, <2>4, <2>5 DEF Api
<1>18. CASE ChangeEnvironment
  BY <1>18 DEF ChangeEnvironment
<1>19. CASE UNCHANGED vars
  BY <1>19 DEF vars
<1> QED
  BY <1>1, <1>2, <1>3, <1>4, <1>5, <1>6, <1>7, <1>8, <1>9, <1>10, <1>11, <1>12, <1>13,
     <1>14, <1>15, <1>16, <1>17, <1>18, <1>19 DEF Next, Step

Base == TypeOK /\ Alone /\ HasKey

LEMMA StepSecretAgreed ==
  ASSUME Base, SecretAgreed, [Next]_vars
  PROVE  SecretAgreed'
<1> USE RunsAssumption, UnsetAssumption DEF SecretAgreed, Base, TypeOK, Alone, HasKey, Resolved, Migrated, At, Goto, Return, SetDb, Fault, files, history, Nowhere, Bundle, Maybe
<1>1. ASSUME NEW r \in Runs, Lock(r) PROVE SecretAgreed'
  BY <1>1 DEF Lock
<1>2. ASSUME NEW r \in Runs, Resolve(r) PROVE SecretAgreed'
  BY <1>2 DEF Resolve, Resolvable, RoleSecret, Master
<1>3. ASSUME NEW r \in Runs, Stage(r) PROVE SecretAgreed'
  BY <1>3 DEF Stage
<1>4. ASSUME NEW r \in Runs, Move(r) PROVE SecretAgreed'
  BY <1>4 DEF Move
<1>5. ASSUME NEW r \in Runs, Unstage(r) PROVE SecretAgreed'
  BY <1>5 DEF Unstage
<1>6. ASSUME NEW r \in Runs, Migrate(r) PROVE SecretAgreed'
  BY <1>6 DEF Migrate
<1>7. ASSUME NEW r \in Runs, Provision(r) PROVE SecretAgreed'
  BY <1>7 DEF Provision
<1>8. ASSUME NEW r \in Runs, ExportUrls(r) PROVE SecretAgreed'
  BY <1>8 DEF ExportUrls
<1>9. ASSUME NEW r \in Runs, NEW pc \in {"verify", "reverify"},
             Verify(r, pc, IF pc = "verify" THEN "import" ELSE "export") PROVE SecretAgreed'
  BY <1>9 DEF Verify
<1>10. ASSUME NEW r \in Runs, Import(r) PROVE SecretAgreed'
  BY <1>10 DEF Import
<1>11. ASSUME NEW r \in Runs, Reconcile(r) PROVE SecretAgreed'
  BY <1>11 DEF Reconcile, Reconciled
<1>12. ASSUME NEW r \in Runs, WriteCredential(r) PROVE SecretAgreed'
  BY <1>12 DEF WriteCredential, Credentials
<1>13. ASSUME NEW r \in Runs, InsertAdmin(r) PROVE SecretAgreed'
  BY <1>13 DEF InsertAdmin
<1>14. ASSUME NEW r \in Runs, ExportKey(r) PROVE SecretAgreed'
  BY <1>14 DEF ExportKey
<1>15. ASSUME NEW r \in Runs, RemoveLegacy(r) PROVE SecretAgreed'
  BY <1>15 DEF RemoveLegacy
<1>16. ASSUME NEW r \in Runs, Abort(r) PROVE SecretAgreed'
  BY <1>16 DEF Abort
<1>17. CASE Api
  BY <1>17 DEF Api, ApiStarts, ApiStops, ApiEncrypts, ChangePassword, DropCredential
<1>18. CASE ChangeEnvironment
  BY <1>18 DEF ChangeEnvironment
<1>19. CASE UNCHANGED vars
  BY <1>19 DEF vars
<1> HIDE DEF SecretAgreed
<1> QED
  BY <1>1, <1>2, <1>3, <1>4, <1>5, <1>6, <1>7, <1>8, <1>9, <1>10, <1>11, <1>12, <1>13,
     <1>14, <1>15, <1>16, <1>17, <1>18, <1>19 DEF Next, Step

LEMMA StepKeyAgreed ==
  ASSUME Base, KeyAgreed, [Next]_vars
  PROVE  KeyAgreed'
<1> USE RunsAssumption, UnsetAssumption DEF KeyAgreed, Given, Persisted, Keys, Base, TypeOK, Alone, HasKey, Resolved, Migrated, At, Goto, Return, SetDb, Fault, files, history, Nowhere, Bundle, Maybe
<1>1. ASSUME NEW r \in Runs, Lock(r) PROVE KeyAgreed'
  BY <1>1 DEF Lock
<1>2. ASSUME NEW r \in Runs, Resolve(r) PROVE KeyAgreed'
  <2>1. CASE Return(r) /\ UNCHANGED <<master, used>>
    BY <1>2, <2>1 DEF Resolve
  <2>2. ASSUME NEW key \in Resolvable, NEW secret \in RoleSecret, ~Conflict,
               master' = Master(key, secret), used' = used \cup {key},
               init' = [init EXCEPT ![r] = [pc |-> "stage", key |-> key]]
        PROVE  KeyAgreed'
    <3>1. UNCHANGED <<legacy, exports, db, api>> /\ init[r].pc = "resolve"
      BY <1>2 DEF Resolve
    <3>2. /\ Given(key)'
          /\ legacy.key # Unset => master'.key = legacy.key
      BY <2>2, <3>1 DEF Resolvable, Conflict, Master
    <3>3. ASSUME NEW k, Given(k), db.schema # 0 PROVE Given(k)'
      <4>1. /\ master'.key = IF Persisted # Unset \/ env.key # Unset THEN Persisted ELSE key
            /\ legacy' = legacy
        BY <2>2, <3>1 DEF Master
      <4>2. CASE Persisted # Unset
        BY <3>3, <4>1, <4>2
      <4>3. CASE Persisted = Unset
        <5>1. env.key # Unset
          BY <2>2, <3>3, <4>3 DEF Resolvable
        <5>2. Persisted' = Unset
          BY <4>1, <4>3, <5>1
        <5>3. k \in EnvKeys \cap used'
          BY <2>2, <3>3, <4>3
        <5> QED
          BY <5>2, <5>3
      <4> QED
        BY <4>2, <4>3
    <3>4. \A q \in Runs \ {r} : init'[q].pc = "down"
      BY <2>2, <3>1
    <3>5. init'[r] = [pc |-> "stage", key |-> key]
      BY <2>2
    <3>6. \A q \in Runs : /\ init'[q].pc \notin Migrated
                          /\ init'[q].pc \in Resolved => init'[q].key = key
      BY <3>4, <3>5
    <3>7. /\ exports.key # Unset => Given(exports.key) /\ db.schema # 0
          /\ api # Unset => Given(api) /\ db.schema # 0
      OBVIOUS
    <3> HIDE DEF Base, TypeOK, Alone, HasKey, Persisted, Keys, Maybe, At
    <3>8. /\ exports'.key # Unset => Given(exports.key)' /\ db'.schema # 0
          /\ api' # Unset => Given(api)' /\ db'.schema # 0
      BY <3>1, <3>3, <3>7
    <3>9. legacy'.key # Unset => master'.key = legacy'.key
      BY <3>1, <3>2
    <3>10. ASSUME NEW q \in Runs, init'[q].pc \in Resolved PROVE Given(init[q].key)'
      <4>1. init'[q].key = key
        BY <3>6, <3>10
      <4> HIDE DEF KeyAgreed
      <4> QED
        BY Zenon, <3>2, <4>1
    <3> HIDE DEF Given
    <3> QED
      BY Zenon, <3>6, <3>8, <3>9, <3>10 DEF KeyAgreed
  <2> QED
    BY <1>2, <2>1, <2>2 DEF Resolve
<1>3. ASSUME NEW r \in Runs, Stage(r) PROVE KeyAgreed'
  BY <1>3 DEF Stage
<1>4. ASSUME NEW r \in Runs, Move(r) PROVE KeyAgreed'
  BY <1>4 DEF Move
<1>5. ASSUME NEW r \in Runs, Unstage(r) PROVE KeyAgreed'
  BY <1>5 DEF Unstage
<1>6. ASSUME NEW r \in Runs, Migrate(r) PROVE KeyAgreed'
  <2>1. db'.schema # 0 /\ (db.schema # 0 => db'.schema # 0)
    BY <1>6 DEF Migrate, Adopted
  <2>2. UNCHANGED <<master, legacy, exports, api, used>>
    BY <1>6 DEF Migrate
  <2>3. /\ init'[r].key = init[r].key /\ init[r].pc \in Resolved
        /\ \A q \in Runs \ {r} : init'[q] = init[q]
    BY <1>6 DEF Migrate
  <2> QED
    BY <2>1, <2>2, <2>3
<1>7. ASSUME NEW r \in Runs, Provision(r) PROVE KeyAgreed'
  BY <1>7 DEF Provision
<1>8. ASSUME NEW r \in Runs, ExportUrls(r) PROVE KeyAgreed'
  BY <1>8 DEF ExportUrls
<1>9. ASSUME NEW r \in Runs, NEW pc \in {"verify", "reverify"},
             Verify(r, pc, IF pc = "verify" THEN "import" ELSE "export") PROVE KeyAgreed'
  BY <1>9 DEF Verify
<1>10. ASSUME NEW r \in Runs, Import(r) PROVE KeyAgreed'
  BY <1>10 DEF Import
<1>11. ASSUME NEW r \in Runs, Reconcile(r) PROVE KeyAgreed'
  BY <1>11 DEF Reconcile, Reconciled
<1>12. ASSUME NEW r \in Runs, WriteCredential(r) PROVE KeyAgreed'
  BY <1>12 DEF WriteCredential, Credentials
<1>13. ASSUME NEW r \in Runs, InsertAdmin(r) PROVE KeyAgreed'
  BY <1>13 DEF InsertAdmin
<1>14. ASSUME NEW r \in Runs, ExportKey(r) PROVE KeyAgreed'
  BY <1>14 DEF ExportKey
<1>15. ASSUME NEW r \in Runs, RemoveLegacy(r) PROVE KeyAgreed'
  BY <1>15 DEF RemoveLegacy
<1>16. ASSUME NEW r \in Runs, Abort(r) PROVE KeyAgreed'
  BY <1>16 DEF Abort
<1>17. CASE Api
  BY <1>17 DEF Api, ApiStarts, ApiStops, ApiEncrypts, ChangePassword, DropCredential
<1>18. CASE ChangeEnvironment
  BY <1>18 DEF ChangeEnvironment
<1>19. CASE UNCHANGED vars
  BY <1>19 DEF vars
<1> HIDE DEF KeyAgreed
<1> QED
  BY <1>1, <1>2, <1>3, <1>4, <1>5, <1>6, <1>7, <1>8, <1>9, <1>10, <1>11, <1>12, <1>13,
     <1>14, <1>15, <1>16, <1>17, <1>18, <1>19 DEF Next, Step

LEMMA StepKeyOpensAll ==
  ASSUME Base, KeyAgreed, KeyOpensAll, [Next]_vars
  PROVE  KeyOpensAll'
<1> USE RunsAssumption, UnsetAssumption DEF KeyOpensAll, KeyIsSettled, KeyAgreed, Given, Persisted, Keys, Base, TypeOK, Alone, HasKey, Resolved, Migrated, At, Goto, Return, SetDb, Fault, files, history, Nowhere, Bundle, Maybe
<1>1. ASSUME NEW r \in Runs, Lock(r) PROVE KeyOpensAll'
  BY <1>1 DEF Lock
<1>2. ASSUME NEW r \in Runs, Resolve(r) PROVE KeyOpensAll'
  <2>1. CASE Return(r) /\ UNCHANGED <<master, used>>
    BY <1>2, <2>1 DEF Resolve
  <2>2. ASSUME NEW key \in Resolvable, NEW secret \in RoleSecret, ~Conflict,
               master' = Master(key, secret), used' = used \cup {key},
               init' = [init EXCEPT ![r] = [pc |-> "stage", key |-> key]]
        PROVE  KeyOpensAll'
    <3>1. UNCHANGED <<legacy, exports, db, api>> /\ init[r].pc = "resolve"
      BY <1>2 DEF Resolve
    <3>2. \A q \in Runs : init'[q].pc \in {"down", "stage"}
      BY <2>2, <3>1
    <3>3. master'.key = IF Persisted # Unset \/ env.key # Unset THEN Persisted ELSE key
      BY <2>2 DEF Master
    <3>4. CASE Persisted = Unset /\ env.key = Unset
      <4>1. db.schema = 0
        BY <2>2, <3>4 DEF Resolvable
      <4>2. exports'.key = Unset
        BY <3>1, <4>1
      <4> QED
        BY <3>2, <4>2
    <3>5. CASE Persisted # Unset \/ env.key # Unset
      <4>1. Persisted' = Persisted
        BY <3>1, <3>3, <3>5
      <4>2. KeyIsSettled' => KeyIsSettled
        <5> HIDE DEF Persisted
        <5> QED
          BY <2>2, <4>1
      <4>3. KeyIsSettled => (exports.key # Unset => db.ciphers \subseteq {exports.key})
        OBVIOUS
      <4> HIDE DEF KeyIsSettled, Base, KeyAgreed, Persisted
      <4> QED
        BY <3>1, <3>2, <4>2, <4>3
    <3> QED
      BY <3>4, <3>5
  <2> QED
    BY <1>2, <2>1, <2>2 DEF Resolve
<1>3. ASSUME NEW r \in Runs, Stage(r) PROVE KeyOpensAll'
  BY <1>3 DEF Stage
<1>4. ASSUME NEW r \in Runs, Move(r) PROVE KeyOpensAll'
  BY <1>4 DEF Move
<1>5. ASSUME NEW r \in Runs, Unstage(r) PROVE KeyOpensAll'
  BY <1>5 DEF Unstage
<1>6. ASSUME NEW r \in Runs, Migrate(r) PROVE KeyOpensAll'
  BY <1>6 DEF Migrate
<1>7. ASSUME NEW r \in Runs, Provision(r) PROVE KeyOpensAll'
  BY <1>7 DEF Provision
<1>8. ASSUME NEW r \in Runs, ExportUrls(r) PROVE KeyOpensAll'
  BY <1>8 DEF ExportUrls
<1>9. ASSUME NEW r \in Runs, NEW pc \in {"verify", "reverify"},
             Verify(r, pc, IF pc = "verify" THEN "import" ELSE "export") PROVE KeyOpensAll'
  <2>1. UNCHANGED <<exports, db>> /\ KeyIsSettled' = KeyIsSettled
    BY <1>9 DEF Verify
  <2>2. CASE Return(r)
    <3>1. \A q \in Runs : init'[q] = init[q] \/ init'[q].pc = "down"
      BY <2>2
    <3> HIDE DEF Base, TypeOK, Alone, HasKey, Resolved, Migrated, Persisted, Keys, Maybe, At, KeyIsSettled
    <3> QED
      BY <2>1, <3>1
  <2>3. CASE db.ciphers \subseteq {init[r].key} /\ Goto(r, IF pc = "verify" THEN "import" ELSE "export")
    <3>1. \A q \in Runs : init'[q] = init[q] \/ (q = r /\ init'[q].key = init[r].key)
      BY <2>3
    <3> HIDE DEF Base, TypeOK, Alone, HasKey, Resolved, Migrated, Persisted, Keys, Maybe, At, Goto,
             KeyIsSettled
    <3> QED
      BY <2>1, <2>3, <3>1
  <2> QED
    BY <1>9, <2>2, <2>3 DEF Verify
<1>10. ASSUME NEW r \in Runs, Import(r) PROVE KeyOpensAll'
  BY <1>10 DEF Import
<1>11. ASSUME NEW r \in Runs, Reconcile(r) PROVE KeyOpensAll'
  BY <1>11 DEF Reconcile, Reconciled
<1>12. ASSUME NEW r \in Runs, WriteCredential(r) PROVE KeyOpensAll'
  BY <1>12 DEF WriteCredential, Credentials
<1>13. ASSUME NEW r \in Runs, InsertAdmin(r) PROVE KeyOpensAll'
  BY <1>13 DEF InsertAdmin
<1>14. ASSUME NEW r \in Runs, ExportKey(r) PROVE KeyOpensAll'
  BY <1>14 DEF ExportKey
<1>15. ASSUME NEW r \in Runs, RemoveLegacy(r) PROVE KeyOpensAll'
  BY <1>15 DEF RemoveLegacy
<1>16. ASSUME NEW r \in Runs, Abort(r) PROVE KeyOpensAll'
  BY <1>16 DEF Abort
<1>17. CASE Api
  BY <1>17 DEF Api, ApiStarts, ApiStops, ApiEncrypts, ChangePassword, DropCredential
<1>18. CASE ChangeEnvironment
  BY <1>18 DEF ChangeEnvironment
<1>19. CASE UNCHANGED vars
  BY <1>19 DEF vars
<1> HIDE DEF KeyOpensAll
<1> QED
  BY <1>1, <1>2, <1>3, <1>4, <1>5, <1>6, <1>7, <1>8, <1>9, <1>10, <1>11, <1>12, <1>13,
     <1>14, <1>15, <1>16, <1>17, <1>18, <1>19 DEF Next, Step

LEMMA StepCredentialKept ==
  ASSUME Base, CredentialKept, [Next]_vars
  PROVE  CredentialKept'
<1> USE RunsAssumption, UnsetAssumption, GeneratedAssumption DEF CredentialKept, NoAdmin, Passwords, Base, TypeOK, Alone, HasKey, Resolved, Migrated, At, Goto, Return, SetDb, Fault, files, history, Nowhere, Bundle, Maybe
<1>1. ASSUME NEW r \in Runs, Lock(r) PROVE CredentialKept'
  BY <1>1 DEF Lock
<1>2. ASSUME NEW r \in Runs, Resolve(r) PROVE CredentialKept'
  BY <1>2 DEF Resolve, Resolvable, RoleSecret, Master
<1>3. ASSUME NEW r \in Runs, Stage(r) PROVE CredentialKept'
  <2>1. /\ staged' = Staged /\ UNCHANGED <<legacy, pending, db, dropping>>
        /\ overlaid \subseteq overlaid'
        /\ staged = Unset /\ staged' # legacy.pw => legacy.pw \in overlaid'
        /\ init[r].pc = "stage" /\ init'[r].pc = "move" /\ \A q \in Runs \ {r} : init'[q] = init[q]
    BY <1>3 DEF Stage
  <2>2. /\ legacy.pw # Unset => staged' # Unset
        /\ staged # Unset => staged' = staged
        /\ legacy.pw = Unset => staged' = staged
    BY <2>1 DEF Staged
  <2> HIDE DEF Base, TypeOK, Alone, HasKey, Maybe, Passwords
  <2> QED
    BY <2>1, <2>2
<1>4. ASSUME NEW r \in Runs, Move(r) PROVE CredentialKept'
  BY <1>4 DEF Move
<1>5. ASSUME NEW r \in Runs, Unstage(r) PROVE CredentialKept'
  BY <1>5 DEF Unstage
<1>6. ASSUME NEW r \in Runs, Migrate(r) PROVE CredentialKept'
  BY <1>6 DEF Migrate
<1>7. ASSUME NEW r \in Runs, Provision(r) PROVE CredentialKept'
  BY <1>7 DEF Provision
<1>8. ASSUME NEW r \in Runs, ExportUrls(r) PROVE CredentialKept'
  BY <1>8 DEF ExportUrls
<1>9. ASSUME NEW r \in Runs, NEW pc \in {"verify", "reverify"},
             Verify(r, pc, IF pc = "verify" THEN "import" ELSE "export") PROVE CredentialKept'
  BY <1>9 DEF Verify
<1>10. ASSUME NEW r \in Runs, Import(r) PROVE CredentialKept'
  <2>1. UNCHANGED <<legacy, staged, pending, dropping, overlaid>> /\ db'.admin = db.admin
    BY <1>10 DEF Import
  <2>2. /\ init[r].pc = "import" /\ init'[r].pc = "bootstrap"
        /\ \A q \in Runs \ {r} : init'[q] = init[q]
    BY <1>10 DEF Import
  <2> HIDE DEF Base, TypeOK, Alone, HasKey, Maybe, Passwords
  <2> QED
    BY <2>1, <2>2
<1>11. ASSUME NEW r \in Runs, Reconcile(r) PROVE CredentialKept'
  BY <1>11 DEF Reconcile, Reconciled
<1>12. ASSUME NEW r \in Runs, WriteCredential(r) PROVE CredentialKept'
  BY <1>12 DEF WriteCredential, Credentials
<1>13. ASSUME NEW r \in Runs, InsertAdmin(r) PROVE CredentialKept'
  BY <1>13 DEF InsertAdmin
<1>14. ASSUME NEW r \in Runs, ExportKey(r) PROVE CredentialKept'
  BY <1>14 DEF ExportKey
<1>15. ASSUME NEW r \in Runs, RemoveLegacy(r) PROVE CredentialKept'
  BY <1>15 DEF RemoveLegacy
<1>16. ASSUME NEW r \in Runs, Abort(r) PROVE CredentialKept'
  BY <1>16 DEF Abort
<1>17. CASE Api
  <2>1. CASE ApiStarts \/ ApiStops
    <3>1. /\ UNCHANGED <<legacy, staged, pending, db, init, overlaid>>
          /\ UNCHANGED dropping \/ dropping' = FALSE
      BY <2>1 DEF ApiStarts, ApiStops
    <3> QED
      BY <3>1
  <2>2. CASE ApiEncrypts
    BY <2>2 DEF ApiEncrypts
  <2>3. CASE ChangePassword
    BY <2>3 DEF ChangePassword
  <2>4. CASE DropCredential
    BY <2>4 DEF DropCredential
  <2> QED
    BY <1>17, <2>1, <2>2, <2>3, <2>4 DEF Api
<1>18. CASE ChangeEnvironment
  BY <1>18 DEF ChangeEnvironment
<1>19. CASE UNCHANGED vars
  BY <1>19 DEF vars
<1> HIDE DEF CredentialKept
<1> QED
  BY <1>1, <1>2, <1>3, <1>4, <1>5, <1>6, <1>7, <1>8, <1>9, <1>10, <1>11, <1>12, <1>13,
     <1>14, <1>15, <1>16, <1>17, <1>18, <1>19 DEF Next, Step


-----------------------------------------------------------------------------
LEMMA InitIInv == Init => SecretAgreed /\ KeyAgreed /\ KeyOpensAll /\ CredentialKept
<1> SUFFICES ASSUME Init PROVE SecretAgreed /\ KeyAgreed /\ KeyOpensAll /\ CredentialKept
  OBVIOUS
<1>1. \A r \in Runs : init[r].pc = "down"
  BY DEF Init, Nowhere
<1>2. PICK from \in From, pw \in {Unset, OldPassword} : Secrets(from, pw) /\ Database(from, pw)
  BY DEF Init
<1>3. exports.key = Unset /\ exports.secret = Unset /\ dropping = FALSE
  BY DEF Init, Bundle
<1>4. /\ db.role = Unset
      /\ api # Unset => from \in {"bundle", "split"} /\ api = OldKey /\ db.schema = 1
      /\ db.admin.must => db.admin.pw # Unset /\ from \in {"bundle", "split"} /\ db.admin.pw = pw
  <2>1. ASSUME NEW p, Older(p)
        PROVE  /\ db.role = Unset /\ db.schema = 1
               /\ api # Unset => api = OldKey
               /\ db.admin.must => db.admin.pw # Unset /\ db.admin.pw = p
    <3>1. db.role = Unset /\ db.schema = 1 /\ api \in {Unset, OldKey}
      BY <2>1 DEF Older
    <3>2. db.admin \in {[pw |-> Unset, must |-> FALSE], [pw |-> ChosenPassword, must |-> FALSE]}
             \/ db.admin \in [pw : {p} \ {Unset}, must : {TRUE}]
      BY <2>1 DEF Older, NoAdmin
    <3>3. db.admin.must => db.admin.pw # Unset /\ db.admin.pw = p
      <4>1. CASE db.admin \in {[pw |-> Unset, must |-> FALSE], [pw |-> ChosenPassword, must |-> FALSE]}
        <5>1. db.admin.must = FALSE
          BY <4>1
        <5> QED
          BY <5>1
      <4>2. CASE db.admin \in [pw : {p} \ {Unset}, must : {TRUE}]
        BY <4>2
      <4> QED
        BY <3>2, <4>1, <4>2
    <3> QED
      BY <3>1, <3>3
  <2>2. CASE from = "nothing"
    BY <1>2, <2>2 DEF Database, NoAdmin
  <2>3. CASE from = "restored"
    BY <1>2, <2>1, <2>3 DEF Database
  <2>4. CASE from \in {"bundle", "split"}
    BY <1>2, <2>1, <2>4 DEF Database
  <2> QED
    BY <2>2, <2>3, <2>4, BoundsAssumption
<1>5. SecretAgreed /\ KeyOpensAll
  BY <1>1, <1>3, <1>4 DEF SecretAgreed, KeyOpensAll, Resolved, Migrated, At
<1>6. KeyAgreed
  BY <1>1, <1>2, <1>3, <1>4 DEF KeyAgreed, Given, Persisted, Secrets, Bundle, Resolved, Migrated
<1>7. CredentialKept
  BY <1>1, <1>2, <1>3, <1>4 DEF CredentialKept, Secrets, At, Migrated
<1> QED
  BY <1>5, <1>6, <1>7

LEMMA BaseInvariance == Spec => [](Base /\ SecretAgreed /\ KeyAgreed)
<1>1. Init => Base /\ SecretAgreed /\ KeyAgreed
  BY InitTypeOK, InitIInv DEF Base
<1>2. Base /\ SecretAgreed /\ KeyAgreed /\ [Next]_vars
        => (Base /\ SecretAgreed /\ KeyAgreed)'
  BY StepTypeOK, StepSecretAgreed, StepKeyAgreed DEF Base
<1> QED
  BY <1>1, <1>2, PTL DEF Spec

LEMMA KeyInvariance == Spec => []KeyOpensAll
<1>1. Init => KeyOpensAll
  BY InitIInv
<1>2. Base /\ KeyAgreed /\ KeyOpensAll /\ [Next]_vars => KeyOpensAll'
  BY StepKeyOpensAll
<1> QED
  BY <1>1, <1>2, BaseInvariance, PTL DEF Spec

LEMMA CredentialInvariance == Spec => []CredentialKept
<1>1. Init => CredentialKept
  BY InitIInv
<1>2. Base /\ CredentialKept /\ [Next]_vars => CredentialKept'
  BY StepCredentialKept
<1> QED
  BY <1>1, <1>2, BaseInvariance, PTL DEF Spec

-----------------------------------------------------------------------------
(* What it guarantees.                                                      *)

\* Files, database and runs keep their type, and at most one run holds the state lock.
THEOREM TypeCorrect == Spec => []TypeOK
BY BaseInvariance, PTL DEF Base

\* The URL files open the database after every crash of every run: the roles are given
\* the password of the master file before the URLs are.
THEOREM UrlsOpen == Spec => []UrlsOpenDatabase
<1>1. SecretAgreed => UrlsOpenDatabase
  BY DEF SecretAgreed, UrlsOpenDatabase
<1> QED
  BY <1>1, BaseInvariance, PTL

\* Whatever run died where, the key the services are given opens every ciphertext, as
\* long as the initializer keeps the key or the operator has given all runs the same.
THEOREM KeyOpens == Spec => []ExportedKeyOpensAll
<1>1. KeyOpensAll => ExportedKeyOpensAll
  BY DEF KeyOpensAll, ExportedKeyOpensAll
<1> QED
  BY <1>1, KeyInvariance, PTL

\* A key that was exported is changed by no run, crash or upgrade but for another key
\* of the operator's, and then only where both were in the environment alone.
THEOREM KeyIsStable == Spec => ExportedKeyIsStable
<1>1. ASSUME Base, KeyAgreed, [Next]_vars
      PROVE  exports.key # Unset /\ exports'.key # exports.key
               => Persisted = Unset /\ {exports.key, exports'.key} \subseteq EnvKeys
  <2>1. ASSUME NEW r \in Runs, ExportKey(r), exports.key # Unset, exports'.key # exports.key
        PROVE  Persisted = Unset /\ {exports.key, exports'.key} \subseteq EnvKeys
    <3>1. exports'.key = init[r].key
      BY <1>1, <2>1 DEF ExportKey, Base, TypeOK
    <3>2. Given(init[r].key) /\ Given(exports.key)
      BY <1>1, <2>1 DEF KeyAgreed, ExportKey, At, Resolved, Migrated
    <3> QED
      BY <2>1, <3>1, <3>2 DEF Given
  <2>2. ASSUME NEW r \in Runs, ExportUrls(r) PROVE exports'.key = exports.key
    BY <1>1, <2>2 DEF ExportUrls, Base, TypeOK
  <2>3. (\A r \in Runs : ~ExportKey(r) /\ ~ExportUrls(r)) => UNCHANGED exports
    BY <1>1 DEF Next, Step, Lock, Resolve, Stage, Move, Unstage, Migrate, Provision, Verify,
         Import, Reconcile, WriteCredential, InsertAdmin, RemoveLegacy, Abort, Api, ApiStarts,
         ApiStops, ApiEncrypts, ChangePassword, DropCredential, ChangeEnvironment, vars, files
  <2> QED
    BY <2>1, <2>2, <2>3
<1>2. Base /\ KeyAgreed /\ [Next]_vars
        => [exports.key # Unset /\ exports'.key # exports.key
              => Persisted = Unset /\ {exports.key, exports'.key} \subseteq EnvKeys]_vars
  BY <1>1
<1> QED
  BY <1>2, BaseInvariance, PTL DEF Spec, ExportedKeyIsStable

\* The password of an administrator nobody has logged in as is in a file, however the
\* runs that made or moved it ended; all but a bundle's that another ADMIN_PASSWORD of
\* the environment was laid over.
THEOREM CredentialIsKept == Spec => []UnusedCredentialIsKept
<1>1. CredentialKept => UnusedCredentialIsKept
  BY DEF CredentialKept, UnusedCredentialIsKept
<1> QED
  BY <1>1, CredentialInvariance, PTL
=============================================================================
