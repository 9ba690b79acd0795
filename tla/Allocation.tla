------------------------------ MODULE Allocation ------------------------------
(***************************************************************************)
(* The pools an API key allocates mailboxes from                           *)
(* (core/internal/businessapi/api_key_store.go, domain_store.go): requests *)
(* that allocate a member, reset a key's allocations or save the members   *)
(* an administrator checked, each a READ COMMITTED transaction.            *)
(*                                                                         *)
(* PostgreSQL is modelled as far as the code leans on it: a statement sees *)
(* what was committed when it began; FOR UPDATE SKIP LOCKED passes over    *)
(* rows another transaction has locked and keeps the locks it took; an     *)
(* insert waits for an uncommitted insert or delete of the same unique key *)
(* and then locks the row its foreign key names; a transaction of a cycle  *)
(* of waiting ones is aborted.                                             *)
(***************************************************************************)
EXTENDS Naturals

CONSTANTS
  Requests,   \* requests, each of which is served once
  Keys,       \* API keys
  Pool,       \* ids of email accounts, or of API_POOL mailboxes
  Pools,      \* the domain of each mailbox, whose row is locked with it
  NoDomain,   \* an email account has none
  NoRequest,  \* nobody holds the row lock
  Ops,        \* what the requests do
  Scopes,     \* the members a key may use: an administrator may change it any time
  InUse       \* the allocations there may be at first

Domains == UNION {{domains[a] : a \in Pool} : domains \in Pools} \ {NoDomain}
Rows == Pool \cup Domains

ASSUME KeysAssumption == Keys # {}
ASSUME PoolAssumption == Pool \subseteq Nat \ {0} /\ Pool \cap Domains = {}
ASSUME OpsAssumption == Ops \subseteq {"allocate", "reset", "update"}
ASSUME InUseAssumption == InUse \subseteq SUBSET (Keys \X Pool)
ASSUME ScopesAssumption == Scopes \subseteq SUBSET Pool

VARIABLES
  usage,   \* committed rows of email_usage or domain_mailbox_usage
  active,  \* the members that are ACTIVE
  lock,    \* who has locked a row FOR UPDATE
  req,     \* the requests
  domainOf \* the domains of the pool

poolVars == <<usage, active, lock, req, domainOf>>

NoMember == 0
Blank == [pc |-> "idle", op |-> "none", key |-> CHOOSE k \in Keys : TRUE, got |-> NoMember,
          kept |-> TRUE, scope |-> {}, saved |-> {}, found |-> {}, left |-> {},
          added |-> {}, removed |-> {}, shared |-> {}, avoid |-> {}]

PoolInit ==
  /\ usage \in InUse
  /\ active \in SUBSET Pool
  /\ lock = [x \in Rows |-> NoRequest]
  /\ req = [r \in Requests |-> Blank]
  /\ domainOf \in Pools

At(r, pc) == req[r].pc = pc
Key(r) == req[r].key
Used(k) == {a \in Pool : <<k, a>> \in usage}
Pairs(k, S) == {<<k, a>> : a \in S}
Unlocked(r) == [x \in Rows |-> IF lock[x] = r THEN NoRequest ELSE lock[x]]
Over == {"answered", "refused", "failed"}

\* The request is over and its transaction rolled back.
End(r, how) ==
  /\ lock' = Unlocked(r)
  /\ req' = [req EXCEPT ![r] = [Blank EXCEPT !.pc = how]]

\* loadAPIKeyScope, the first read of each of them. The mailboxes of domains know no
\* update.
Begin(r) ==
  /\ At(r, "idle")
  /\ \E op \in Ops, k \in Keys, S \in Scopes, ids \in SUBSET Pool :
       /\ op = "update" \/ ids = {}
       /\ op = "update" => \A a \in Pool : domainOf[a] = NoDomain
       /\ req' = [req EXCEPT ![r] = [@ EXCEPT
                    !.op = op, !.key = k, !.pc = op, !.scope = S, !.saved = ids]]
  /\ UNCHANGED <<usage, active, lock>>

-----------------------------------------------------------------------------
(* Allocation.                                                             *)

\* Mutant: allocations of the key are not looked at.
CandidatesUsedToo(r) == active \cap req[r].scope

\* What the statement finds, by its snapshot: active, in scope, not used by the key.
Candidates(r) == (active \cap req[r].scope) \ Used(Key(r))

Select(r) ==
  /\ At(r, "allocate")
  /\ req' = [req EXCEPT ![r] = [@ EXCEPT
               !.pc = "scan", !.left = Candidates(r),
               !.avoid = {req[q].got : q \in {q \in Requests :
                            At(q, "answered") /\ req[q].op = "allocate"
                            /\ Key(q) = Key(r) /\ req[q].kept}}]]
  /\ UNCHANGED <<usage, active, lock>>

\* A row can be locked FOR UPDATE unless another transaction has it, or has
\* locked it for its foreign key.
Free(r, x) ==
  /\ lock[x] \in {r, NoRequest}
  /\ \A q \in Requests \ {r} : x \notin req[q].shared

\* Its rows in the order they are locked in: the member's, the domain's.
WithDomain(a) == {a, domainOf[a]} \ {NoDomain}

\* What of them can be locked; locks taken before one that fails are kept.
Locked(r, a) == IF Free(r, a) THEN {x \in WithDomain(a) : Free(r, x)} ELSE {}

\* The next candidate, by id; a row that was updated since the statement began
\* is looked at again, by its own columns only.
Scan(r) ==
  /\ At(r, "scan")
  /\ \E a \in req[r].left :
       /\ \A b \in req[r].left : a <= b
       /\ lock' = [x \in Rows |-> IF x \in Locked(r, a) THEN r ELSE lock[x]]
       /\ req' = [req EXCEPT ![r] =
            IF Locked(r, a) = WithDomain(a) /\ a \in active
            THEN [@ EXCEPT !.pc = "insert", !.got = a]
            ELSE [@ EXCEPT !.left = req[r].left \ {a}]]
  /\ UNCHANGED <<usage, active>>

\* Mutant: the transaction of a refused request stays open.
RefuseOpen(r) ==
  /\ At(r, "scan") /\ req[r].left = {}
  /\ req' = [req EXCEPT ![r].pc = "refused"]
  /\ UNCHANGED <<usage, active, lock>>

\* NO_UNUSED_EMAIL or NO_UNUSED_DOMAIN_MAILBOX.
Refuse(r) ==
  /\ At(r, "scan") /\ req[r].left = {}
  /\ End(r, "refused")
  /\ UNCHANGED <<usage, active>>

-----------------------------------------------------------------------------
(* ResetEmailAllocations, ResetDomainMailboxAllocations.                   *)

\* The requests whose reading of the key's allocations a commit has overtaken:
\* an allocation's, by the release of what it got; an update's, by any change.
Overtaken(k, released) ==
  {q \in Requests : /\ Key(q) = k
                    /\ \/ req[q].op = "allocate" /\ req[q].got \in released
                       \/ req[q].op = "update"}

Reset(r) ==
  /\ At(r, "reset")
  /\ LET gone == active \cap req[r].scope IN
       /\ usage' = usage \ Pairs(Key(r), gone)
       /\ req' = [q \in Requests |->
                    IF q = r THEN [Blank EXCEPT !.pc = "answered"]
                    ELSE [req[q] EXCEPT !.kept = @ /\ q \notin Overtaken(Key(r), gone)]]
  /\ UNCHANGED <<active, lock>>

-----------------------------------------------------------------------------
(* UpdateAssignedEmails.                                                   *)

\* Only members that are active and in scope may be saved.
CheckAllowed(r) ==
  /\ At(r, "update")
  /\ IF req[r].saved \subseteq active \cap req[r].scope
     THEN req' = [req EXCEPT ![r].pc = "existing"] /\ UNCHANGED lock
     ELSE End(r, "refused")
  /\ UNCHANGED <<usage, active>>

\* Mutant: allocations of members that are not active are overlooked.
ExistingActive(r) == Used(Key(r)) \cap req[r].scope \cap active

\* Those the key has now, whatever their status.
Existing(r) == Used(Key(r)) \cap req[r].scope

ReadExisting(r) ==
  /\ At(r, "existing")
  /\ req' = [req EXCEPT ![r] = [@ EXCEPT
               !.pc = "remove", !.found = Existing(r), !.left = req[r].saved \ Existing(r),
               !.kept = TRUE]]
  /\ UNCHANGED <<usage, active, lock>>

ToRemove(r) == req[r].found \ req[r].saved

Remove(r) ==
  /\ At(r, "remove")
  /\ \A q \in Requests \ {r} : Key(q) # Key(r) \/ ToRemove(r) \cap req[q].removed = {}
  /\ req' = [req EXCEPT ![r].pc = "next", ![r].removed = ToRemove(r) \cap Used(Key(r))]
  /\ UNCHANGED <<usage, active, lock>>

\* The rest is inserted in no particular order (the range over a map).
NextInsert(r) ==
  /\ At(r, "next")
  /\ \/ /\ req[r].left = {}
        /\ req' = [req EXCEPT ![r].pc = "commit"]
     \/ \E a \in req[r].left :
          req' = [req EXCEPT ![r] = [@ EXCEPT !.pc = "insert", !.got = a, !.left = req[r].left \ {a}]]
  /\ UNCHANGED <<usage, active, lock>>

-----------------------------------------------------------------------------
(* Of both.                                                                *)

AfterInsert(r) == IF req[r].op = "allocate" THEN "commit" ELSE "next"

\* INSERT ... ON CONFLICT DO NOTHING, once no other transaction has an
\* uncommitted insert or delete of the row.
Insert(r) ==
  /\ At(r, "insert")
  /\ \A q \in Requests \ {r} : Key(q) # Key(r) \/ req[r].got \notin req[q].added \cup req[q].removed
  /\ req' = [req EXCEPT ![r] =
       IF req[r].got \in Used(Key(r))
       THEN [@ EXCEPT !.pc = AfterInsert(r)]
       ELSE [@ EXCEPT !.pc = "share", !.added = req[r].added \cup {req[r].got}]]
  /\ UNCHANGED <<usage, active, lock>>

\* The foreign key of the row inserted.
Share(r) ==
  /\ At(r, "share")
  /\ lock[req[r].got] \in {r, NoRequest}
  /\ req' = [req EXCEPT ![r].pc = AfterInsert(r),
                        ![r].shared = @ \cup {req[r].got}]
  /\ UNCHANGED <<usage, active, lock>>

\* The answer may be lost on its way.
Commit(r) ==
  /\ At(r, "commit")
  /\ usage' = (usage \cup Pairs(Key(r), req[r].added)) \ Pairs(Key(r), req[r].removed)
  /\ lock' = Unlocked(r)
  /\ \E how \in {"answered", "failed"} :
       req' = [q \in Requests |->
         IF q = r THEN [Blank EXCEPT !.pc = how, !.op = req[r].op, !.key = Key(r),
                                     !.got = req[r].got, !.kept = req[r].kept]
         ELSE [req[q] EXCEPT !.kept = @ /\ q \notin Overtaken(Key(r), req[r].removed)]]
  /\ UNCHANGED active

\* A call fails, the request is cancelled or times out: rolled back.
Fail(r) ==
  /\ req[r].pc \notin Over \cup {"idle"}
  /\ End(r, "failed")
  /\ UNCHANGED <<usage, active>>

WaitsFor(r, q) ==
  /\ r # q
  /\ \/ At(r, "share") /\ lock[req[r].got] = q
     \/ At(r, "insert") /\ Key(r) = Key(q) /\ req[r].got \in req[q].added \cup req[q].removed
     \/ At(r, "remove") /\ Key(r) = Key(q) /\ ToRemove(r) \cap req[q].removed # {}

\* PostgreSQL's deadlock detection.
AbortDeadlocked(r) ==
  /\ \E S \in SUBSET Requests : r \in S /\ \A p \in S : \E q \in S : WaitsFor(p, q)
  /\ End(r, "failed")
  /\ UNCHANGED <<usage, active>>

-----------------------------------------------------------------------------
(* Administration.                                                         *)

\* A member, or its domain, is made active or not; its row must not be locked.
ChangeStatus ==
  /\ \E a \in Pool : /\ \A x \in WithDomain(a) : lock[x] = NoRequest
                     /\ active' = IF a \in active THEN active \ {a} ELSE active \cup {a}
  /\ UNCHANGED <<usage, lock, req>>

-----------------------------------------------------------------------------
Serve(r) ==
  \/ Begin(r) \/ Select(r) \/ Scan(r) \/ Refuse(r) \/ Reset(r)
  \/ CheckAllowed(r) \/ ReadExisting(r) \/ Remove(r) \/ NextInsert(r)
  \/ Insert(r) \/ Share(r) \/ Commit(r) \/ AbortDeadlocked(r)

PoolNext ==
  /\ (\E r \in Requests : Serve(r) \/ Fail(r)) \/ ChangeStatus
  /\ UNCHANGED domainOf

PoolSpec == PoolInit /\ [][PoolNext]_poolVars

-----------------------------------------------------------------------------
\* Whoever calls again after an answer gets another member, unless the key's
\* allocation was released since: by a reset, or by an administrator's update.
NextCallDiffers ==
  \A r \in Requests :
    req[r].op = "allocate" /\ At(r, "commit") => req[r].got \notin req[r].avoid

\* What an administrator saved is what the key occupies, members that went
\* inactive included, unless another write of its allocations came between.
SavedAsAsked(r) ==
  /\ req[r].op = "update" /\ req[r].kept
  /\ At(r, "commit") /\ req'[r].pc = "answered"
  => Used(Key(r))' \cap req[r].scope = req[r].saved

SavedIsOccupied == [][\A r \in Requests : SavedAsAsked(r)]_poolVars

\* A request that is under way takes a bounded number of steps, so whoever waits for
\* whom, every request ends: of those that are, one can go on.
Underway == {r \in Requests : req[r].pc \notin Over \cup {"idle"}}
SomeoneMoves == Underway # {} => \E r \in Underway : ENABLED Serve(r)
=============================================================================
