--------------------------- MODULE BusinessApi_proofs ---------------------------
(***************************************************************************)
(* What the concurrent requests of BusinessApi guarantee, for every number   *)
(* of them: mail sent by hand (OutboundSend) and allocation (Allocation).    *)
(***************************************************************************)
EXTENDS BusinessApi, TLAPS

-----------------------------------------------------------------------------
(* OutboundSend.                                                            *)

\* Before a request's row there is no mail and no answer; once it is there its user had
\* every right, and until it is settled it is PENDING, or deleted.
RowFollowsHandler ==
  \A s \in Sends :
    /\ pc[s] \in {"idle", "loaded"} => row[s] = "none" /\ told[s] = "nothing"
    /\ pc[s] \in {"sending", "heard"} => row[s] \in {"PENDING", "deleted"} /\ told[s] = "nothing"
    /\ row[s] # "none" /\ s \in PortalSends => s \in entitled
    /\ row[s] = "none" => s \notin mailed

\* An id comes from a provider that took the mail.
IdIsReal == \A s \in Sends : heard[s] = "id" => s \in mailed

SendIInv == TypeOK /\ RowFollowsHandler /\ IdIsReal /\ PendingHasReason /\ MailIsAccounted

LEMMA InitSends == Init => SendIInv
BY DEF Init, SendIInv, TypeOK, RowFollowsHandler, IdIsReal, PendingHasReason, InsertAbandoned,
       MailIsAccounted, Statuses, AtWork, Sends

\* Each case of a step moves one request, or is one of the three that touch all.
LEMMA StepSends == SendIInv /\ [Next]_vars => SendIInv'
<1> SUFFICES ASSUME SendIInv, [Next]_vars PROVE SendIInv'
  OBVIOUS
<1> USE DEF SendIInv, TypeOK, RowFollowsHandler, IdIsReal, PendingHasReason, InsertAbandoned,
            MailIsAccounted, Statuses, AtWork, Fault, NoFault, CutShort
<1>1. ASSUME NEW s \in Sends, Load(s) PROVE SendIInv'
  BY <1>1 DEF Load, Answer, world, history
<1>2. ASSUME NEW s \in Sends, CreatePending(s) PROVE SendIInv'
  BY <1>2 DEF CreatePending, Inserted, Insertable, Answer, world, history, Facts
<1>3. ASSUME NEW s \in Sends, Accept(s) PROVE SendIInv'
  BY <1>3 DEF Accept, world, history
<1>4. ASSUME NEW s \in Sends, HearProvider(s) PROVE SendIInv'
  BY <1>4 DEF HearProvider, world, history
<1>5. ASSUME NEW s \in Sends, Complete(s) PROVE SendIInv'
  BY <1>5 DEF Complete, Writable, Completed, Outcome, Answer, world
<1>6. ASSUME NEW s \in Sends, Leave(s) PROVE SendIInv'
  BY <1>6 DEF Leave, world, history
<1>7. ASSUME NEW s \in Sends, DeleteMessage(s) PROVE SendIInv'
  BY <1>7 DEF DeleteMessage, world, history
<1>8. CASE Crash
  BY <1>8 DEF Crash, world
<1>9. CASE DeleteDomain
  BY <1>9 DEF DeleteDomain, history
<1>10. CASE ChangeRights
  BY <1>10 DEF ChangeRights, history
<1>11. CASE UNCHANGED vars
  BY <1>11 DEF vars, world, history
<1> QED
  BY <1>1, <1>2, <1>3, <1>4, <1>5, <1>6, <1>7, <1>8, <1>9, <1>10, <1>11 DEF Next

LEMMA SendInvariance == Spec => []SendIInv
BY InitSends, StepSends, PTL DEF Spec

\* The state of the requests, the history and the provider keeps its type.
THEOREM SendTypeCorrect == Spec => []TypeOK
BY SendInvariance, PTL DEF SendIInv

\* deliverOutboundMessage strands no row but by a crash or a failed database call,
\* whether or not its caller waits; a caller that leaves earlier, during the insert, may
\* leave a PENDING row behind, of a mail that is never sent.
THEOREM NoStrandedRow == Spec => []PendingHasReason
BY SendInvariance, PTL DEF SendIInv

\* The history and the answers are true of the provider, and every mail of a portal user
\* left under rights the user had when its row was inserted.
THEOREM HistoryIsTrue == Spec => []MailIsAccounted
BY SendInvariance, PTL DEF SendIInv

-----------------------------------------------------------------------------
(* Allocation.                                                              *)

AnyKey == CHOOSE k \in Keys : TRUE
AtInsert == {"insert", "share", "commit"}
Places == {"idle", "allocate", "scan", "reset", "update", "existing", "remove", "next"}
             \cup AtInsert \cup Over

Request ==
  [pc : Places, op : {"none", "allocate", "reset", "update"}, key : Keys,
   got : Pool \cup {NoMember}, kept : BOOLEAN, scope : SUBSET Pool, saved : SUBSET Pool,
   found : SUBSET Pool, left : SUBSET Pool, added : SUBSET Pool, removed : SUBSET Pool,
   shared : SUBSET Rows, avoid : SUBSET (Pool \cup {NoMember})]

PoolTypeOK ==
  /\ usage \subseteq Keys \X Pool
  /\ active \subseteq Pool
  /\ lock \in [Rows -> Requests \cup {NoRequest}]
  /\ req \in [Requests -> Request]

\* Where each kind of request can be, and that it has written nothing before it inserts
\* or removes.
PlacesFit(q) ==
  /\ req[q].pc \in {"allocate", "scan"} => req[q].op = "allocate"
  /\ req[q].pc \in {"update", "existing", "remove", "next"} => req[q].op = "update"
  /\ req[q].pc \in AtInsert => req[q].op \in {"allocate", "update"}
  /\ req[q].pc \in {"insert", "share"} => req[q].got \in Pool
  /\ req[q].pc \in Places \ (AtInsert \cup {"next"}) => req[q].added = {} /\ req[q].removed = {}

\* An allocation takes nothing away and passes over what was given to the same key
\* before; what it gives is in the table unless it was released since.
AllocationSound(q) ==
  req[q].op = "allocate" =>
    /\ req[q].removed = {}
    /\ At(q, "scan") => req[q].left \cap req[q].avoid = {}
    /\ req[q].pc \in AtInsert => req[q].got \notin req[q].avoid
    /\ req[q].pc \in {"share", "commit"} /\ req[q].kept
         => req[q].got \in Used(Key(q)) \cup req[q].added
    /\ At(q, "answered") /\ req[q].kept => req[q].got \in Used(Key(q))

\* An update that nobody overtakes: what it read is what the key has, and what it has
\* inserted, is inserting and has left makes up what was missing.
UpdateSound(q) ==
  req[q].op = "update" /\ req[q].pc \in {"existing", "remove", "next"} \cup AtInsert =>
    /\ req[q].saved \subseteq req[q].scope
    /\ At(q, "remove") => req[q].left = req[q].saved \ req[q].found
    /\ ~At(q, "existing") /\ req[q].kept => Used(Key(q)) \cap req[q].scope = req[q].found
    /\ req[q].pc \in {"next"} \cup AtInsert =>
         /\ req[q].left \subseteq req[q].saved \ req[q].found
         /\ At(q, "insert") => req[q].got \in req[q].saved \ req[q].found
         /\ At(q, "commit") => req[q].left = {}
         /\ req[q].kept =>
              /\ req[q].removed = req[q].found \ req[q].saved
              /\ req[q].added \subseteq req[q].saved \ req[q].found
              /\ req[q].saved \ req[q].found
                   \subseteq req[q].added \cup req[q].left
                               \cup (IF At(q, "insert") THEN {req[q].got} ELSE {})

Sound(q) == PlacesFit(q) /\ AllocationSound(q) /\ UpdateSound(q)
PoolIInv == PoolTypeOK /\ \A q \in Requests : Sound(q)

-----------------------------------------------------------------------------
LEMMA BlankIsRequest ==
  /\ Blank \in Request
  /\ Blank.pc = "idle" /\ Blank.op = "none" /\ Blank.key = AnyKey /\ Blank.got = NoMember
  /\ Blank.added = {} /\ Blank.removed = {} /\ Blank.kept = TRUE
BY KeysAssumption DEF Blank, Request, Places, NoMember, AnyKey

LEMMA UnlockedIsLock ==
  ASSUME PoolTypeOK, NEW r \in Requests
  PROVE  Unlocked(r) \in [Rows -> Requests \cup {NoRequest}]
BY DEF PoolTypeOK, Unlocked

\* What ends a request without a commit.
LEMMA EndKeeps ==
  ASSUME PoolTypeOK, NEW r \in Requests, NEW how \in Over, End(r, how)
  PROVE  /\ lock' \in [Rows -> Requests \cup {NoRequest}]
         /\ req' \in [Requests -> Request]
         /\ \A q \in Requests \ {r} : req'[q] = req[q]
         /\ req'[r].pc = how /\ req'[r].op = "none"
         /\ req'[r].added = {} /\ req'[r].removed = {}
<1>1. [Blank EXCEPT !.pc = how] \in Request
  BY BlankIsRequest DEF Request, Places
<1>2. /\ [Blank EXCEPT !.pc = how].pc = how /\ [Blank EXCEPT !.pc = how].op = "none"
      /\ [Blank EXCEPT !.pc = how].added = {} /\ [Blank EXCEPT !.pc = how].removed = {}
  BY BlankIsRequest DEF Request
<1>3. req' = [req EXCEPT ![r] = [Blank EXCEPT !.pc = how]]
  BY DEF End
<1>4. lock' \in [Rows -> Requests \cup {NoRequest}]
  BY UnlockedIsLock DEF End
<1> QED
  BY <1>1, <1>2, <1>3, <1>4 DEF PoolTypeOK

LEMMA InitPool == PoolInit => PoolIInv
<1> SUFFICES ASSUME PoolInit PROVE PoolIInv
  OBVIOUS
<1>1. req = [r \in Requests |-> Blank]
  BY DEF PoolInit
<1>2. PoolTypeOK
  BY <1>1, BlankIsRequest, InUseAssumption DEF PoolInit, PoolTypeOK
<1>3. ASSUME NEW q \in Requests PROVE Sound(q)
  <2>1. /\ req[q].pc = "idle" /\ req[q].op = "none"
        /\ req[q].added = {} /\ req[q].removed = {}
    BY <1>1, BlankIsRequest
  <2> QED
    BY <2>1 DEF Sound, PlacesFit, AllocationSound, UpdateSound, AtInsert, At
<1> QED
  BY <1>2, <1>3 DEF PoolIInv

\* A step that changes one request and no usage has to keep that request's part only.
LEMMA OneMoves ==
  ASSUME PoolIInv, NEW r \in Requests, PoolTypeOK', usage' = usage,
         \A q \in Requests \ {r} : req'[q] = req[q], Sound(r)'
  PROVE  PoolIInv'
<1>1. ASSUME NEW q \in Requests \ {r} PROVE Sound(q)'
  <2>1. req'[q] = req[q] /\ Sound(q)
    BY <1>1 DEF PoolIInv
  <2>2. Used(Key(q))' = Used(Key(q))
    BY <2>1 DEF Used, Key
  <2>3. PlacesFit(q)'
    BY <2>1 DEF Sound, PlacesFit
  <2>4. AllocationSound(q)'
    BY <2>1, <2>2 DEF Sound, AllocationSound, At
  <2>5. UpdateSound(q)'
    BY <2>1, <2>2 DEF Sound, UpdateSound, At
  <2> QED
    BY <2>3, <2>4, <2>5 DEF Sound
<1> QED
  BY <1>1 DEF PoolIInv

LEMMA EndInv ==
  ASSUME PoolIInv, NEW r \in Requests, NEW how \in Over, End(r, how),
         UNCHANGED <<usage, active>>
  PROVE  PoolIInv'
<1>1. PoolTypeOK' /\ \A q \in Requests \ {r} : req'[q] = req[q]
  BY EndKeeps DEF PoolIInv, PoolTypeOK
<1>2. Sound(r)'
  <2>1. /\ req'[r].pc = how /\ req'[r].op = "none"
        /\ req'[r].added = {} /\ req'[r].removed = {}
    BY EndKeeps DEF PoolIInv
  <2> QED
    BY <2>1 DEF Sound, PlacesFit, AllocationSound, UpdateSound, AtInsert, Over, At
<1> QED
  BY <1>1, <1>2, OneMoves

LEMMA BeginInv == ASSUME PoolIInv, NEW r \in Requests, Begin(r) PROVE PoolIInv'
<1>1. PICK op \in Ops, k \in Keys, S \in Scopes, ids \in SUBSET Pool :
        req' = [req EXCEPT ![r] = [@ EXCEPT
                  !.op = op, !.key = k, !.pc = op, !.scope = S, !.saved = ids]]
  BY DEF Begin
<1>2. op \in {"allocate", "reset", "update"} /\ S \subseteq Pool
  BY OpsAssumption, ScopesAssumption
<1>3. req[r] \in Request /\ At(r, "idle")
  BY DEF PoolIInv, PoolTypeOK, Begin
<1>4. /\ req'[r] \in Request
      /\ req'[r].pc = op /\ req'[r].op = op
      /\ req'[r].added = req[r].added /\ req'[r].removed = req[r].removed
  BY <1>1, <1>2, <1>3 DEF PoolIInv, PoolTypeOK, Request, Places
<1>5. PoolTypeOK' /\ \A q \in Requests \ {r} : req'[q] = req[q]
  BY <1>1, <1>4 DEF PoolIInv, PoolTypeOK, Begin
<1>6. Sound(r)'
  <2>1. req[r].added = {} /\ req[r].removed = {}
    BY <1>3 DEF PoolIInv, Sound, PlacesFit, At, Places, AtInsert
  <2> QED
    BY <1>2, <1>4, <2>1 DEF Sound, PlacesFit, AllocationSound, UpdateSound, AtInsert, At
<1> QED
  BY <1>5, <1>6, OneMoves DEF Begin

LEMMA SelectInv == ASSUME PoolIInv, NEW r \in Requests, Select(r) PROVE PoolIInv'
<1> DEFINE given == {req[q].got : q \in {q \in Requests :
                        At(q, "answered") /\ req[q].op = "allocate"
                        /\ Key(q) = Key(r) /\ req[q].kept}}
<1>1. req' = [req EXCEPT ![r] = [@ EXCEPT
                !.pc = "scan", !.left = Candidates(r), !.avoid = given]]
  BY DEF Select
<1>2. req[r] \in Request /\ At(r, "allocate")
  BY DEF PoolIInv, PoolTypeOK, Select
<1>3. Candidates(r) \subseteq Pool /\ Candidates(r) \cap Used(Key(r)) = {}
  BY DEF Candidates, PoolIInv, PoolTypeOK
<1>4. given \subseteq Used(Key(r))
  BY DEF PoolIInv, Sound, AllocationSound
<1>5. given \subseteq Pool
  BY <1>4 DEF Used
<1> HIDE DEF given
<1>6. /\ req'[r] \in Request
      /\ req'[r].pc = "scan" /\ req'[r].op = req[r].op
      /\ req'[r].added = req[r].added /\ req'[r].removed = req[r].removed
      /\ req'[r].left = Candidates(r) /\ req'[r].avoid = given
  BY <1>1, <1>2, <1>3, <1>5 DEF PoolIInv, PoolTypeOK, Request, Places
<1>7. PoolTypeOK' /\ \A q \in Requests \ {r} : req'[q] = req[q]
  BY <1>1, <1>6 DEF PoolIInv, PoolTypeOK, Select
<1>8. Sound(r)'
  <2>1. req[r].op = "allocate" /\ req[r].added = {} /\ req[r].removed = {}
    BY <1>2 DEF PoolIInv, Sound, PlacesFit, At, Places, AtInsert
  <2> QED
    BY <1>3, <1>4, <1>6, <2>1
    DEF Sound, PlacesFit, AllocationSound, UpdateSound, AtInsert, At
<1> QED
  BY <1>7, <1>8, OneMoves DEF Select

LEMMA ScanInv == ASSUME PoolIInv, NEW r \in Requests, Scan(r) PROVE PoolIInv'
<1>1. PICK a \in req[r].left :
        /\ lock' = [x \in Rows |-> IF x \in Locked(r, a) THEN r ELSE lock[x]]
        /\ req' = [req EXCEPT ![r] =
                     IF Locked(r, a) = WithDomain(a) /\ a \in active
                     THEN [@ EXCEPT !.pc = "insert", !.got = a]
                     ELSE [@ EXCEPT !.left = req[r].left \ {a}]]
  BY DEF Scan
<1>2. req[r] \in Request /\ req[r].pc = "scan" /\ Sound(r)
  BY DEF PoolIInv, PoolTypeOK, Scan, At
<1>3. /\ a \in Pool /\ req[r].left \cap req[r].avoid = {}
      /\ req[r].op = "allocate" /\ req[r].added = {} /\ req[r].removed = {}
  BY <1>2 DEF Request, Sound, PlacesFit, AllocationSound, At, Places, AtInsert
<1>4. lock' \in [Rows -> Requests \cup {NoRequest}]
  BY <1>1 DEF PoolIInv, PoolTypeOK
<1>5. CASE req' = [req EXCEPT ![r] = [@ EXCEPT !.pc = "insert", !.got = a]]
  <2>1. /\ req'[r] \in Request
        /\ req'[r].pc = "insert" /\ req'[r].op = "allocate" /\ req'[r].got = a
        /\ req'[r].removed = {} /\ req'[r].avoid = req[r].avoid
    BY <1>2, <1>3, <1>5 DEF PoolIInv, PoolTypeOK, Request, Places, AtInsert
  <2>2. PoolTypeOK' /\ \A q \in Requests \ {r} : req'[q] = req[q]
    BY <1>4, <1>5, <2>1 DEF PoolIInv, PoolTypeOK, Scan
  <2>3. Sound(r)'
    BY <1>3, <2>1 DEF Sound, PlacesFit, AllocationSound, UpdateSound, AtInsert, At
  <2> QED
    BY <2>2, <2>3, OneMoves DEF Scan
<1>6. CASE req' = [req EXCEPT ![r] = [@ EXCEPT !.left = req[r].left \ {a}]]
  <2>0. req[r].left \ {a} \in SUBSET Pool
    BY <1>2 DEF Request
  <2>1. /\ req'[r] \in Request
        /\ req'[r].pc = "scan" /\ req'[r].op = "allocate" /\ req'[r].left = req[r].left \ {a}
        /\ req'[r].added = {} /\ req'[r].removed = {} /\ req'[r].avoid = req[r].avoid
    <3>1. req'[r] = [req[r] EXCEPT !.left = req[r].left \ {a}]
      BY <1>6 DEF PoolIInv, PoolTypeOK
    <3> QED
      BY <1>2, <1>3, <2>0, <3>1 DEF Request
  <2>2. PoolTypeOK' /\ \A q \in Requests \ {r} : req'[q] = req[q]
    BY <1>4, <1>6, <2>1 DEF PoolIInv, PoolTypeOK, Scan
  <2>3. Sound(r)'
    BY <1>3, <2>1 DEF Sound, PlacesFit, AllocationSound, UpdateSound, AtInsert, At
  <2> QED
    BY <2>2, <2>3, OneMoves DEF Scan
<1>7. CASE Locked(r, a) = WithDomain(a) /\ a \in active
  BY <1>1, <1>5, <1>7
<1>8. CASE ~(Locked(r, a) = WithDomain(a) /\ a \in active)
  <2>1. req' = [req EXCEPT ![r] = [@ EXCEPT !.left = req[r].left \ {a}]]
    BY <1>1, <1>8
  <2> QED
    BY <1>6, <2>1
<1> QED
  BY <1>7, <1>8

\* What a reset or a commit that releases some members does to the others.
LEMMA OthersKeepSound ==
  ASSUME PoolIInv, NEW k, NEW released, NEW q \in Requests,
         req'[q] = [req[q] EXCEPT !.kept = @ /\ q \notin Overtaken(k, released)],
         \A l : l # k => Used(l)' = Used(l),
         Used(k) \ released \subseteq Used(k)'
  PROVE  Sound(q)' /\ req'[q] \in Request
<1> DEFINE overtaken == q \in Overtaken(k, released)
<1>1. req[q] \in Request /\ Sound(q)
  BY DEF PoolIInv, PoolTypeOK
<1>2. req'[q] = [req[q] EXCEPT !.kept = @ /\ ~overtaken]
  OBVIOUS
<1> HIDE DEF overtaken
<1>3. /\ req'[q] \in Request
      /\ req'[q].kept => req[q].kept /\ ~overtaken
      /\ req'[q].pc = req[q].pc /\ req'[q].op = req[q].op /\ req'[q].key = req[q].key
      /\ req'[q].got = req[q].got /\ req'[q].scope = req[q].scope
      /\ req'[q].saved = req[q].saved /\ req'[q].found = req[q].found
      /\ req'[q].left = req[q].left /\ req'[q].added = req[q].added
      /\ req'[q].removed = req[q].removed /\ req'[q].avoid = req[q].avoid
  <2> DEFINE x == req[q]
             y == req'[q]
             p == ~overtaken
  <2>1. p \in BOOLEAN /\ x \in Request
    BY <1>1
  <2>2. y = [x EXCEPT !.kept = @ /\ p]
    BY <1>2
  <2> HIDE DEF x, y, p
  <2>3. (x.kept /\ p) \in BOOLEAN
    OBVIOUS
  <2>4. y \in Request
    BY <2>1, <2>2, <2>3 DEF Request
  <2>5. y.kept = (x.kept /\ p)
    BY <2>1, <2>2 DEF Request
  <2>6. /\ y.pc = x.pc /\ y.op = x.op /\ y.key = x.key /\ y.got = x.got
        /\ y.scope = x.scope /\ y.saved = x.saved /\ y.found = x.found
        /\ y.left = x.left /\ y.added = x.added /\ y.removed = x.removed
        /\ y.avoid = x.avoid
    BY <2>1, <2>2 DEF Request
  <2> QED
    BY <2>4, <2>5, <2>6 DEF x, y, p
<1>4. PlacesFit(q)'
  BY <1>1, <1>3 DEF Sound, PlacesFit
<1>5. ~overtaken /\ req[q].op = "update" => Used(Key(q))' = Used(Key(q))
  BY DEF overtaken, Overtaken, Key
<1>6. ~overtaken /\ req[q].op = "allocate" /\ req[q].got \in Used(Key(q))
        => req[q].got \in Used(Key(q))'
  BY DEF overtaken, Overtaken, Key
<1>7. AllocationSound(q)'
  BY <1>1, <1>3, <1>6 DEF Sound, AllocationSound, At, Key
<1>8. UpdateSound(q)'
  BY <1>1, <1>3, <1>5 DEF Sound, UpdateSound, At, Key
<1> QED
  BY <1>3, <1>4, <1>7, <1>8 DEF Sound

\* What a commit makes of the members that a key uses.
LEMMA UsedAfter ==
  ASSUME NEW k, NEW S, NEW T, usage' = (usage \cup Pairs(k, S)) \ Pairs(k, T)
  PROVE  /\ \A l : l # k => Used(l)' = Used(l)
         /\ Used(k)' = (Used(k) \cup (S \cap Pool)) \ T
<1>1. ASSUME NEW l, NEW a PROVE <<l, a>> \in usage' <=>
        \/ <<l, a>> \in usage /\ ~(l = k /\ a \in T)
        \/ l = k /\ a \in S \ T
  BY DEF Pairs
<1>2. ASSUME NEW l, l # k PROVE Used(l)' = Used(l)
  BY <1>1, <1>2 DEF Used
<1>3. Used(k)' = (Used(k) \cup (S \cap Pool)) \ T
  BY <1>1 DEF Used
<1> QED
  BY <1>2, <1>3

LEMMA ResetInv == ASSUME PoolIInv, NEW r \in Requests, Reset(r) PROVE PoolIInv'
<1>0. PICK k, gone : k = Key(r) /\ gone = active \cap req[r].scope
  OBVIOUS
<1>1. usage' = usage \ Pairs(k, gone) /\ UNCHANGED <<active, lock>>
  BY <1>0 DEF Reset
<1>2. req' = [q \in Requests |->
                IF q = r THEN [Blank EXCEPT !.pc = "answered"]
                ELSE [req[q] EXCEPT !.kept = @ /\ q \notin Overtaken(k, gone)]]
  BY <1>0 DEF Reset
<1>3. usage' = (usage \cup Pairs(k, {})) \ Pairs(k, gone)
  BY <1>1 DEF Pairs
<1>4. /\ \A l : l # k => Used(l)' = Used(l)
      /\ Used(k) \ gone \subseteq Used(k)'
  BY <1>3, UsedAfter
<1>5. ASSUME NEW q \in Requests \ {r} PROVE Sound(q)' /\ req'[q] \in Request
  <2>1. req'[q] = [req[q] EXCEPT !.kept = @ /\ q \notin Overtaken(k, gone)]
    BY <1>2, <1>5
  <2> QED
    BY <1>4, <2>1, OthersKeepSound
<1>6. /\ req'[r] \in Request
      /\ req'[r].pc = "answered" /\ req'[r].op = "none"
      /\ req'[r].added = {} /\ req'[r].removed = {}
  BY <1>2, BlankIsRequest DEF Request, Places, Over
<1>7. Sound(r)'
  BY <1>6 DEF Sound, PlacesFit, AllocationSound, UpdateSound, AtInsert, At
<1>8. usage' \subseteq Keys \X Pool
  BY <1>1 DEF PoolIInv, PoolTypeOK
<1>9. req' \in [Requests -> Request]
  BY <1>2, <1>5, <1>6
<1> QED
  BY <1>1, <1>5, <1>7, <1>8, <1>9 DEF PoolIInv, PoolTypeOK

LEMMA CheckAllowedInv == ASSUME PoolIInv, NEW r \in Requests, CheckAllowed(r) PROVE PoolIInv'
<1>1. CASE End(r, "refused")
  BY <1>1, EndInv DEF CheckAllowed, Over
<1>2. CASE /\ req[r].saved \subseteq active \cap req[r].scope
           /\ req' = [req EXCEPT ![r].pc = "existing"] /\ UNCHANGED lock
  <2>1. req[r] \in Request /\ req[r].pc = "update" /\ PlacesFit(r)
    BY DEF PoolIInv, PoolTypeOK, CheckAllowed, At, Sound
  <2>2. req[r].op = "update" /\ req[r].added = {} /\ req[r].removed = {}
    BY <2>1 DEF PlacesFit, Places, AtInsert
  <2>3. /\ req'[r] \in Request
        /\ req'[r].pc = "existing" /\ req'[r].op = "update"
        /\ req'[r].added = {} /\ req'[r].removed = {}
        /\ req'[r].saved \subseteq req'[r].scope
    BY <1>2, <2>1, <2>2 DEF PoolIInv, PoolTypeOK, Request, Places
  <2>4. PoolTypeOK' /\ \A q \in Requests \ {r} : req'[q] = req[q]
    BY <1>2, <2>3 DEF PoolIInv, PoolTypeOK, CheckAllowed
  <2>5. Sound(r)'
    BY <2>3 DEF Sound, PlacesFit, AllocationSound, UpdateSound, AtInsert, At
  <2> QED
    BY <2>4, <2>5, OneMoves DEF CheckAllowed
<1> QED
  BY <1>1, <1>2 DEF CheckAllowed

LEMMA ReadExistingInv == ASSUME PoolIInv, NEW r \in Requests, ReadExisting(r) PROVE PoolIInv'
<1> DEFINE missing == req[r].saved \ Existing(r)
<1>1. req' = [req EXCEPT ![r] = [@ EXCEPT
                !.pc = "remove", !.found = Existing(r), !.left = missing, !.kept = TRUE]]
  BY DEF ReadExisting
<1>2. req[r] \in Request /\ req[r].pc = "existing" /\ Sound(r)
  BY DEF PoolIInv, PoolTypeOK, ReadExisting, At
<1>3. /\ req[r].op = "update" /\ req[r].added = {} /\ req[r].removed = {}
      /\ req[r].saved \subseteq req[r].scope
  BY <1>2 DEF Sound, PlacesFit, UpdateSound, Places, AtInsert
<1>4. /\ missing \subseteq Pool /\ Existing(r) \subseteq Pool
      /\ missing = req[r].saved \ Existing(r)
      /\ Existing(r) = Used(Key(r)) \cap req[r].scope
  BY <1>2 DEF Request, Existing, Used
<1> HIDE DEF missing
<1>5. /\ req'[r] \in Request
      /\ req'[r].pc = "remove" /\ req'[r].op = "update"
      /\ req'[r].added = {} /\ req'[r].removed = {}
      /\ req'[r].key = req[r].key /\ req'[r].saved = req[r].saved /\ req'[r].scope = req[r].scope
      /\ req'[r].found = Existing(r) /\ req'[r].left = missing
  BY <1>1, <1>2, <1>3, <1>4 DEF PoolIInv, PoolTypeOK, Request, Places
<1>6. PoolTypeOK' /\ \A q \in Requests \ {r} : req'[q] = req[q]
  BY <1>1, <1>5 DEF PoolIInv, PoolTypeOK, ReadExisting
<1>7. Used(Key(r))' = Used(Key(r))
  BY <1>5 DEF Used, Key, ReadExisting
<1>8. Sound(r)'
  BY <1>3, <1>4, <1>5, <1>7 DEF Sound, PlacesFit, AllocationSound, UpdateSound, AtInsert, At
<1> QED
  BY <1>6, <1>8, OneMoves DEF ReadExisting

LEMMA RemoveInv == ASSUME PoolIInv, NEW r \in Requests, Remove(r) PROVE PoolIInv'
<1> DEFINE taken == ToRemove(r) \cap Used(Key(r))
<1>1. req' = [req EXCEPT ![r].pc = "next", ![r].removed = taken]
  BY DEF Remove
<1>2. req[r] \in Request /\ req[r].pc = "remove" /\ Sound(r)
  BY DEF PoolIInv, PoolTypeOK, Remove, At
<1>3. /\ req[r].op = "update" /\ req[r].added = {}
      /\ req[r].saved \subseteq req[r].scope
      /\ req[r].left = req[r].saved \ req[r].found
      /\ req[r].kept => Used(Key(r)) \cap req[r].scope = req[r].found
  BY <1>2 DEF Sound, PlacesFit, UpdateSound, Places, AtInsert, At
<1>4. taken \subseteq Pool /\ (req[r].kept => taken = req[r].found \ req[r].saved)
  BY <1>2, <1>3 DEF ToRemove, Used
<1> HIDE DEF taken
<1>5. /\ req'[r] \in Request
      /\ req'[r].pc = "next" /\ req'[r].op = "update" /\ req'[r].kept = req[r].kept
      /\ req'[r].added = {} /\ req'[r].removed = taken
      /\ req'[r].key = req[r].key /\ req'[r].saved = req[r].saved /\ req'[r].scope = req[r].scope
      /\ req'[r].found = req[r].found /\ req'[r].left = req[r].left
  BY <1>1, <1>2, <1>3, <1>4 DEF PoolIInv, PoolTypeOK, Request, Places
<1>6. PoolTypeOK' /\ \A q \in Requests \ {r} : req'[q] = req[q]
  BY <1>1, <1>5 DEF PoolIInv, PoolTypeOK, Remove
<1>7. Used(Key(r))' = Used(Key(r))
  <2>1. UNCHANGED usage
    BY DEF Remove
  <2> QED
    BY <1>5, <2>1 DEF Used, Key
<1>8. Sound(r)'
  BY <1>3, <1>4, <1>5, <1>7 DEF Sound, PlacesFit, AllocationSound, UpdateSound, AtInsert, At
<1> QED
  BY <1>6, <1>8, OneMoves DEF Remove

\* What UpdateSound says of an update that inserts.
LEMMA Inserting ==
  ASSUME NEW r \in Requests, Sound(r), req[r].pc \in {"next"} \cup AtInsert,
         req[r].op = "update"
  PROVE  /\ req[r].saved \subseteq req[r].scope
         /\ req[r].left \subseteq req[r].saved \ req[r].found
         /\ req[r].pc = "insert" => req[r].got \in req[r].saved \ req[r].found
         /\ req[r].pc = "commit" => req[r].left = {}
         /\ req[r].kept =>
              /\ Used(Key(r)) \cap req[r].scope = req[r].found
              /\ req[r].removed = req[r].found \ req[r].saved
              /\ req[r].added \subseteq req[r].saved \ req[r].found
              /\ req[r].saved \ req[r].found
                   \subseteq req[r].added \cup req[r].left
                               \cup (IF req[r].pc = "insert" THEN {req[r].got} ELSE {})
BY DEF Sound, UpdateSound, At, AtInsert

LEMMA NextInsertInv == ASSUME PoolIInv, NEW r \in Requests, NextInsert(r) PROVE PoolIInv'
<1>1. req[r] \in Request /\ req[r].pc = "next" /\ Sound(r) /\ req[r].op = "update"
  BY DEF PoolIInv, PoolTypeOK, NextInsert, At, Sound, PlacesFit
<1>2. UNCHANGED <<usage, active, lock>>
  BY DEF NextInsert
<1>3. CASE req[r].left = {} /\ req' = [req EXCEPT ![r].pc = "commit"]
  <2>1. /\ req'[r] \in Request
        /\ req'[r].pc = "commit" /\ req'[r].op = "update" /\ req'[r].kept = req[r].kept
        /\ req'[r].added = req[r].added /\ req'[r].removed = req[r].removed
        /\ req'[r].key = req[r].key /\ req'[r].saved = req[r].saved
        /\ req'[r].scope = req[r].scope
        /\ req'[r].found = req[r].found /\ req'[r].left = {}
    BY <1>1, <1>3 DEF PoolIInv, PoolTypeOK, Request, Places, AtInsert
  <2>2. PoolTypeOK' /\ \A q \in Requests \ {r} : req'[q] = req[q]
    BY <1>2, <1>3, <2>1 DEF PoolIInv, PoolTypeOK
  <2>3. Used(Key(r))' = Used(Key(r))
    BY <1>2, <2>1 DEF Used, Key
  <2>4. Sound(r)'
    BY <1>1, <1>3, <2>1, <2>3, Inserting
    DEF Sound, PlacesFit, AllocationSound, UpdateSound, AtInsert, At
  <2> QED
    BY <1>2, <2>2, <2>4, OneMoves
<1>4. ASSUME NEW a \in req[r].left,
             req' = [req EXCEPT ![r] = [@ EXCEPT !.pc = "insert", !.got = a,
                                                 !.left = req[r].left \ {a}]]
      PROVE  PoolIInv'
  <2>1. a \in Pool /\ req[r].left \ {a} \in SUBSET Pool
    BY <1>1 DEF Request
  <2>2. /\ req'[r] \in Request
        /\ req'[r].pc = "insert" /\ req'[r].op = "update" /\ req'[r].kept = req[r].kept
        /\ req'[r].added = req[r].added /\ req'[r].removed = req[r].removed
        /\ req'[r].key = req[r].key /\ req'[r].saved = req[r].saved
        /\ req'[r].scope = req[r].scope
        /\ req'[r].found = req[r].found /\ req'[r].left = req[r].left \ {a}
        /\ req'[r].got = a
    BY <1>1, <1>4, <2>1 DEF PoolIInv, PoolTypeOK, Request, Places, AtInsert
  <2>3. PoolTypeOK' /\ \A q \in Requests \ {r} : req'[q] = req[q]
    BY <1>2, <1>4, <2>2 DEF PoolIInv, PoolTypeOK
  <2>4. Used(Key(r))' = Used(Key(r))
    BY <1>2, <2>2 DEF Used, Key
  <2>5. Sound(r)'
    <3>1. PlacesFit(r)'
      BY <2>1, <2>2 DEF PlacesFit, AtInsert
    <3>2. AllocationSound(r)'
      BY <2>2 DEF AllocationSound
    <3>3. UpdateSound(r)'
      BY <1>1, <2>2, <2>4, Inserting DEF UpdateSound, AtInsert, At
    <3> QED
      BY <3>1, <3>2, <3>3 DEF Sound
  <2> QED
    BY <1>2, <2>3, <2>5, OneMoves
<1> QED
  BY <1>3, <1>4 DEF NextInsert

LEMMA InsertInv == ASSUME PoolIInv, NEW r \in Requests, Insert(r) PROVE PoolIInv'
<1>1. /\ req[r] \in Request /\ req[r].pc = "insert" /\ Sound(r)
      /\ req[r].op \in {"allocate", "update"} /\ req[r].got \in Pool
  BY DEF PoolIInv, PoolTypeOK, Insert, At, Sound, PlacesFit, AtInsert
<1>2. UNCHANGED <<usage, active, lock>>
  BY DEF Insert
<1>3. AfterInsert(r) = IF req[r].op = "allocate" THEN "commit" ELSE "next"
  BY DEF AfterInsert
<1>4. CASE req[r].got \in Used(Key(r))
  <2>1. req' = [req EXCEPT ![r] = [@ EXCEPT !.pc = AfterInsert(r)]]
    BY <1>4 DEF Insert
  <2>2. /\ req'[r] \in Request
        /\ req'[r].pc = AfterInsert(r) /\ req'[r].op = req[r].op /\ req'[r].kept = req[r].kept
        /\ req'[r].added = req[r].added /\ req'[r].removed = req[r].removed
        /\ req'[r].key = req[r].key /\ req'[r].saved = req[r].saved
        /\ req'[r].scope = req[r].scope /\ req'[r].avoid = req[r].avoid
        /\ req'[r].found = req[r].found /\ req'[r].left = req[r].left
        /\ req'[r].got = req[r].got
    BY <1>1, <1>3, <2>1 DEF PoolIInv, PoolTypeOK, Request, Places, AtInsert
  <2>3. PoolTypeOK' /\ \A q \in Requests \ {r} : req'[q] = req[q]
    BY <1>2, <2>1, <2>2 DEF PoolIInv, PoolTypeOK
  <2>4. Used(Key(r))' = Used(Key(r))
    BY <1>2, <2>2 DEF Used, Key
  <2>5. CASE req[r].op = "allocate"
    <3>1. req'[r].pc = "commit" /\ req'[r].op = "allocate"
      BY <1>3, <2>2, <2>5
    <3>2. req[r].removed = {} /\ req[r].got \notin req[r].avoid
      BY <1>1, <2>5 DEF Sound, AllocationSound, AtInsert
    <3>3. PlacesFit(r)'
      BY <1>1, <2>2, <3>1 DEF PlacesFit, AtInsert
    <3>4. AllocationSound(r)'
      BY <1>4, <2>2, <2>4, <3>1, <3>2 DEF AllocationSound, At
    <3>5. UpdateSound(r)'
      BY <3>1 DEF UpdateSound
    <3> QED
      BY <1>2, <2>3, <3>3, <3>4, <3>5, OneMoves DEF Sound
  <2>6. CASE req[r].op = "update"
    <3>1. req'[r].pc = "next" /\ req'[r].op = "update"
      BY <1>3, <2>2, <2>6
    <3>2. ~req[r].kept
      BY <1>1, <1>4, <2>6, Inserting DEF AtInsert
    <3>3. PlacesFit(r)'
      BY <2>2, <3>1 DEF PlacesFit, AtInsert
    <3>4. AllocationSound(r)'
      BY <3>1 DEF AllocationSound
    <3>5. UpdateSound(r)'
      BY <1>1, <2>2, <2>6, <3>1, <3>2, Inserting DEF UpdateSound, AtInsert, At
    <3> QED
      BY <1>2, <2>3, <3>3, <3>4, <3>5, OneMoves DEF Sound
  <2> QED
    BY <1>1, <2>5, <2>6
<1>5. CASE req[r].got \notin Used(Key(r))
  <2>1. req' = [req EXCEPT ![r] = [@ EXCEPT !.pc = "share",
                                            !.added = req[r].added \cup {req[r].got}]]
    BY <1>5 DEF Insert
  <2>2. req[r].added \cup {req[r].got} \in SUBSET Pool
    BY <1>1 DEF Request
  <2>3. /\ req'[r] \in Request
        /\ req'[r].pc = "share" /\ req'[r].op = req[r].op /\ req'[r].kept = req[r].kept
        /\ req'[r].added = req[r].added \cup {req[r].got} /\ req'[r].removed = req[r].removed
        /\ req'[r].key = req[r].key /\ req'[r].saved = req[r].saved
        /\ req'[r].scope = req[r].scope /\ req'[r].avoid = req[r].avoid
        /\ req'[r].found = req[r].found /\ req'[r].left = req[r].left
        /\ req'[r].got = req[r].got
    BY <1>1, <2>1, <2>2 DEF PoolIInv, PoolTypeOK, Request, Places, AtInsert
  <2>4. PoolTypeOK' /\ \A q \in Requests \ {r} : req'[q] = req[q]
    BY <1>2, <2>1, <2>3 DEF PoolIInv, PoolTypeOK
  <2>5. Used(Key(r))' = Used(Key(r))
    BY <1>2, <2>3 DEF Used, Key
  <2>6. PlacesFit(r)'
    BY <1>1, <2>3 DEF PlacesFit, AtInsert
  <2>7. AllocationSound(r)'
    BY <1>1, <2>3, <2>5 DEF Sound, AllocationSound, At, AtInsert
  <2>8. UpdateSound(r)'
    <3>1. CASE req[r].op = "update"
      BY <1>1, <2>3, <2>5, <3>1, Inserting DEF UpdateSound, AtInsert, At
    <3>2. CASE req[r].op # "update"
      BY <2>3, <3>2 DEF UpdateSound
    <3> QED
      BY <3>1, <3>2
  <2> QED
    BY <1>2, <2>4, <2>6, <2>7, <2>8, OneMoves DEF Sound
<1> QED
  BY <1>4, <1>5

LEMMA ShareInv == ASSUME PoolIInv, NEW r \in Requests, Share(r) PROVE PoolIInv'
<1> DEFINE rows == req[r].shared \cup {req[r].got}
<1>1. /\ req[r] \in Request /\ req[r].pc = "share" /\ Sound(r)
      /\ req[r].op \in {"allocate", "update"} /\ req[r].got \in Pool
  BY DEF PoolIInv, PoolTypeOK, Share, At, Sound, PlacesFit, AtInsert
<1>2. UNCHANGED <<usage, active, lock>>
  BY DEF Share
<1>3. AfterInsert(r) = IF req[r].op = "allocate" THEN "commit" ELSE "next"
  BY DEF AfterInsert
<1>4. req' = [req EXCEPT ![r].pc = AfterInsert(r), ![r].shared = rows]
  BY DEF Share
<1>5. rows \in SUBSET Rows
  BY <1>1 DEF Request, Rows
<1> HIDE DEF rows
<1>6. /\ req'[r] \in Request
      /\ req'[r].pc = AfterInsert(r) /\ req'[r].op = req[r].op /\ req'[r].kept = req[r].kept
      /\ req'[r].added = req[r].added /\ req'[r].removed = req[r].removed
      /\ req'[r].key = req[r].key /\ req'[r].saved = req[r].saved
      /\ req'[r].scope = req[r].scope /\ req'[r].avoid = req[r].avoid
      /\ req'[r].found = req[r].found /\ req'[r].left = req[r].left
      /\ req'[r].got = req[r].got
  BY <1>1, <1>3, <1>4, <1>5 DEF PoolIInv, PoolTypeOK, Request, Places, AtInsert
<1>7. PoolTypeOK' /\ \A q \in Requests \ {r} : req'[q] = req[q]
  BY <1>2, <1>4, <1>6 DEF PoolIInv, PoolTypeOK
<1>8. Used(Key(r))' = Used(Key(r))
  BY <1>2, <1>6 DEF Used, Key
<1>9. Sound(r)'
  <2>1. CASE req[r].op = "allocate"
    <3>1. req'[r].pc = "commit" /\ req'[r].op = "allocate"
      BY <1>3, <1>6, <2>1
    <3>2. PlacesFit(r)'
      BY <1>1, <1>6, <3>1 DEF PlacesFit, AtInsert
    <3>3. AllocationSound(r)'
      BY <1>1, <1>6, <1>8, <2>1, <3>1 DEF Sound, AllocationSound, At, AtInsert
    <3>4. UpdateSound(r)'
      BY <3>1 DEF UpdateSound
    <3> QED
      BY <3>2, <3>3, <3>4 DEF Sound
  <2>2. CASE req[r].op = "update"
    <3>1. req'[r].pc = "next" /\ req'[r].op = "update"
      BY <1>3, <1>6, <2>2
    <3>2. PlacesFit(r)'
      BY <1>6, <3>1 DEF PlacesFit, AtInsert
    <3>3. AllocationSound(r)'
      BY <3>1 DEF AllocationSound
    <3>4. UpdateSound(r)'
      BY <1>1, <1>6, <1>8, <2>2, <3>1, Inserting DEF UpdateSound, AtInsert, At
    <3> QED
      BY <3>2, <3>3, <3>4 DEF Sound
  <2> QED
    BY <1>1, <2>1, <2>2
<1> QED
  BY <1>2, <1>7, <1>9, OneMoves

\* The commit of an allocation puts what it got into the table; that of an update makes
\* the key's members in scope the saved ones, if nobody overtook it.
LEMMA CommitWrites ==
  ASSUME PoolIInv, NEW r \in Requests, Commit(r), NEW k, k = Key(r)
  PROVE  /\ \A l : l # k => Used(l)' = Used(l)
         /\ Used(k) \ req[r].removed \subseteq Used(k)'
         /\ req[r].op = "allocate" /\ req[r].kept => req[r].got \in Used(k)'
         /\ req[r].op = "update" /\ req[r].kept => Used(k)' \cap req[r].scope = req[r].saved
<1>1. /\ req[r] \in Request /\ req[r].pc = "commit" /\ Sound(r)
      /\ req[r].op \in {"allocate", "update"}
  BY DEF PoolIInv, PoolTypeOK, Commit, At, Sound, PlacesFit, AtInsert
<1>2. PICK S, T : S = req[r].added /\ T = req[r].removed
  OBVIOUS
<1>3. S \subseteq Pool /\ T \subseteq Pool
  BY <1>1, <1>2 DEF Request
<1>4. usage' = (usage \cup Pairs(k, S)) \ Pairs(k, T)
  BY <1>2 DEF Commit
<1>5. /\ \A l : l # k => Used(l)' = Used(l)
      /\ Used(k)' = (Used(k) \cup S) \ T
  <2>1. S \cap Pool = S
    BY <1>3
  <2> QED
    BY <1>4, <2>1, UsedAfter
<1>6. req[r].op = "allocate" /\ req[r].kept => req[r].got \in Used(k)'
  BY <1>1, <1>2, <1>5 DEF Sound, AllocationSound, At
<1>7. ASSUME req[r].op = "update", req[r].kept
      PROVE  Used(k)' \cap req[r].scope = req[r].saved
  <2>1. /\ req[r].saved \subseteq req[r].scope
        /\ Used(k) \cap req[r].scope = req[r].found
        /\ T = req[r].found \ req[r].saved
        /\ S = req[r].saved \ req[r].found
    BY <1>1, <1>2, <1>7, Inserting DEF AtInsert
  <2> QED
    BY <1>5, <2>1
<1> QED
  BY <1>2, <1>5, <1>6, <1>7

LEMMA CommitInv == ASSUME PoolIInv, NEW r \in Requests, Commit(r) PROVE PoolIInv'
<1>0. PICK k, released : k = Key(r) /\ released = req[r].removed
  OBVIOUS
<1>1. /\ req[r] \in Request /\ req[r].pc = "commit" /\ Sound(r)
      /\ req[r].op \in {"allocate", "update"}
  BY DEF PoolIInv, PoolTypeOK, Commit, At, Sound, PlacesFit, AtInsert
<1>2. PICK how \in {"answered", "failed"} :
        req' = [q \in Requests |->
          IF q = r THEN [Blank EXCEPT !.pc = how, !.op = req[r].op, !.key = k,
                                      !.got = req[r].got, !.kept = req[r].kept]
          ELSE [req[q] EXCEPT !.kept = @ /\ q \notin Overtaken(k, released)]]
  BY <1>0 DEF Commit
<1>3. ASSUME NEW q \in Requests \ {r} PROVE Sound(q)' /\ req'[q] \in Request
  <2>1. req'[q] = [req[q] EXCEPT !.kept = @ /\ q \notin Overtaken(k, released)]
    BY <1>2, <1>3
  <2> QED
    BY <1>0, <2>1, CommitWrites, OthersKeepSound
<1>4. /\ req'[r] \in Request
      /\ req'[r].pc = how /\ req'[r].op = req[r].op /\ req'[r].key = k
      /\ req'[r].got = req[r].got /\ req'[r].kept = req[r].kept
      /\ req'[r].added = {} /\ req'[r].removed = {}
  <2>1. req'[r] = [Blank EXCEPT !.pc = how, !.op = req[r].op, !.key = k,
                                !.got = req[r].got, !.kept = req[r].kept]
    BY <1>2
  <2>2. /\ req[r].op \in {"none", "allocate", "reset", "update"} /\ k \in Keys
        /\ req[r].got \in Pool \cup {NoMember} /\ req[r].kept \in BOOLEAN
    BY <1>0, <1>1 DEF Request, Key
  <2>3. how \in Places
    BY DEF Places, Over
  <2>4. req'[r] \in Request
    <3>1. /\ [Blank EXCEPT !.pc = how] \in Request
          /\ [Blank EXCEPT !.pc = how, !.op = req[r].op] \in Request
      BY <2>2, <2>3, BlankIsRequest DEF Request
    <3>2. [Blank EXCEPT !.pc = how, !.op = req[r].op, !.key = k] \in Request
      BY <2>2, <3>1 DEF Request
    <3> QED
      BY <2>1, <2>2, <3>2 DEF Request
  <2>5. /\ req'[r].pc = how /\ req'[r].op = req[r].op /\ req'[r].key = k
        /\ req'[r].got = req[r].got
        /\ req'[r].added = {} /\ req'[r].removed = {}
    BY <2>1, BlankIsRequest DEF Request
  <2>6. req'[r].kept = req[r].kept
    BY <2>1, BlankIsRequest DEF Request
  <2> QED
    BY <2>4, <2>5, <2>6
<1>5. Sound(r)'
  <2>1. PlacesFit(r)'
    BY <1>4 DEF PlacesFit, AtInsert
  <2>2. AllocationSound(r)'
    <3>1. Used(Key(r))' = Used(k)'
      BY <1>4 DEF Used, Key
    <3> QED
      BY <1>0, <1>4, <3>1, CommitWrites DEF AllocationSound, AtInsert, At
  <2>3. UpdateSound(r)'
    BY <1>4 DEF UpdateSound, AtInsert
  <2> QED
    BY <2>1, <2>2, <2>3 DEF Sound
<1>6. usage' \subseteq Keys \X Pool
  <2>1. usage' = (usage \cup Pairs(k, req[r].added)) \ Pairs(k, released)
    BY <1>0 DEF Commit
  <2>2. k \in Keys /\ req[r].added \subseteq Pool
    BY <1>0, <1>1 DEF Request, Key
  <2> QED
    BY <2>1, <2>2 DEF Pairs, PoolIInv, PoolTypeOK
<1>7. /\ req' \in [Requests -> Request] /\ UNCHANGED active
      /\ lock' \in [Rows -> Requests \cup {NoRequest}]
  BY <1>2, <1>3, <1>4, UnlockedIsLock DEF Commit, PoolIInv
<1> QED
  BY <1>3, <1>5, <1>6, <1>7 DEF PoolIInv, PoolTypeOK

LEMMA StepPool == PoolIInv /\ [PoolNext]_poolVars => PoolIInv'
<1> SUFFICES ASSUME PoolIInv, [PoolNext]_poolVars PROVE PoolIInv'
  OBVIOUS
<1>1. ASSUME NEW r \in Requests, Serve(r) PROVE PoolIInv'
  <2>1. CASE Refuse(r)
    BY <2>1, EndInv DEF Refuse, Over
  <2>2. CASE AbortDeadlocked(r)
    BY <2>2, EndInv DEF AbortDeadlocked, Over
  <2> QED
    BY <1>1, <2>1, <2>2, BeginInv, SelectInv, ScanInv, ResetInv, CheckAllowedInv,
       ReadExistingInv, RemoveInv, NextInsertInv, InsertInv, ShareInv, CommitInv DEF Serve
<1>2. ASSUME NEW r \in Requests, Fail(r) PROVE PoolIInv'
  BY <1>2, EndInv DEF Fail, Over
<1>3. CASE ChangeStatus
  <2>1. active' \subseteq Pool /\ UNCHANGED <<usage, lock, req>>
    BY <1>3 DEF ChangeStatus, PoolIInv, PoolTypeOK
  <2>2. PoolTypeOK'
    BY <2>1 DEF PoolIInv, PoolTypeOK
  <2> QED
    BY <2>1, <2>2
    DEF PoolIInv, Sound, PlacesFit, AllocationSound, UpdateSound, At, Key, Used
<1>4. CASE UNCHANGED poolVars
  BY <1>4
  DEF poolVars, PoolIInv, PoolTypeOK, Sound, PlacesFit, AllocationSound, UpdateSound, At, Key,
      Used
<1> QED
  BY <1>1, <1>2, <1>3, <1>4 DEF PoolNext

LEMMA PoolInvariance == PoolSpec => []PoolIInv
BY InitPool, StepPool, PTL DEF PoolSpec

\* Pool and requests keep their type.
THEOREM PoolTypeCorrect == PoolSpec => []PoolTypeOK
BY PoolInvariance, PTL DEF PoolIInv

\* An allocation whose statement begins after another of the key was answered gets
\* another member, whatever other requests do meanwhile: what was given is in the table
\* until it is released. Of two allocations that overlap it says nothing: they may be
\* answered with one member.
THEOREM LaterCallsDiffer == PoolSpec => []NextCallDiffers
<1>1. PoolIInv => NextCallDiffers
  BY DEF PoolIInv, Sound, AllocationSound, NextCallDiffers, At, AtInsert
<1> QED
  BY <1>1, PoolInvariance, PTL

\* A request is moved by its own steps only.
LEMMA OthersStay ==
  ASSUME PoolIInv, NEW r \in Requests, NEW q \in Requests \ {r}, Serve(q) \/ Fail(q)
  PROVE  req'[r].pc = req[r].pc
<1> USE DEF PoolIInv, PoolTypeOK
<1>1. req[r] \in Request /\ req \in [Requests -> Request]
  OBVIOUS
<1>3. CASE Reset(q)
  <2> DEFINE gone == active \cap req[q].scope
  <2>1. req' = [p \in Requests |->
           IF p = q THEN [Blank EXCEPT !.pc = "answered"]
           ELSE [req[p] EXCEPT !.kept = @ /\ p \notin Overtaken(Key(q), gone)]]
    BY <1>3 DEF Reset
  <2> HIDE DEF gone
  <2>2. req'[r] = [req[r] EXCEPT !.kept = @ /\ r \notin Overtaken(Key(q), gone)]
    BY <2>1
  <2> QED
    BY <1>1, <2>2 DEF Request
<1>4. CASE Commit(q)
  <2>1. PICK how : req' = [p \in Requests |->
           IF p = q THEN [Blank EXCEPT !.pc = how, !.op = req[q].op, !.key = Key(q),
                                       !.got = req[q].got, !.kept = req[q].kept]
           ELSE [req[p] EXCEPT !.kept = @ /\ p \notin Overtaken(Key(q), req[q].removed)]]
    BY <1>4 DEF Commit
  <2>2. req'[r] = [req[r] EXCEPT !.kept = @ /\ r \notin Overtaken(Key(q), req[q].removed)]
    BY <2>1
  <2> QED
    BY <1>1, <2>2 DEF Request
<1>5. CASE Begin(q) \/ Select(q) \/ Scan(q) \/ Refuse(q)
  BY <1>1, <1>5 DEF Begin, Select, Scan, Refuse, End
<1>6. CASE CheckAllowed(q) \/ ReadExisting(q) \/ Remove(q) \/ NextInsert(q)
  BY <1>1, <1>6 DEF CheckAllowed, ReadExisting, Remove, NextInsert, End
<1>7. CASE Insert(q) \/ Share(q) \/ AbortDeadlocked(q) \/ Fail(q)
  BY <1>1, <1>7 DEF Insert, Share, AbortDeadlocked, Fail, End
<1> QED
  BY <1>3, <1>4, <1>5, <1>6, <1>7 DEF Serve

\* The commit of an update leaves the key with what was saved, unless another commit
\* changed its allocations after they were read.
THEOREM SavedIsWritten == PoolSpec => SavedIsOccupied
<1>1. ASSUME PoolIInv, [PoolNext]_poolVars, NEW r \in Requests PROVE SavedAsAsked(r)
  <2> SUFFICES ASSUME req[r].op = "update", req[r].kept, req[r].pc = "commit",
                      req'[r].pc = "answered"
               PROVE  Used(Key(r))' \cap req[r].scope = req[r].saved
    BY DEF SavedAsAsked, At
  <2>1. Commit(r)
    <3>1. \E q \in Requests : Serve(q) \/ Fail(q)
      BY <1>1 DEF PoolNext, ChangeStatus, poolVars
    <3>2. Serve(r) \/ Fail(r)
      BY <1>1, <3>1, OthersStay
    <3>3. ASSUME NEW how \in Over \ {"answered"}, End(r, how) PROVE FALSE
      BY <1>1, <3>3, EndKeeps DEF PoolIInv
    <3>4. ~Fail(r) /\ ~AbortDeadlocked(r)
      BY <3>3 DEF Fail, AbortDeadlocked, Over
    <3> QED
      BY <3>2, <3>4
      DEF Serve, Begin, Select, Scan, Refuse, Reset, CheckAllowed, ReadExisting, Remove,
          NextInsert, Insert, Share, At
  <2>2. PICK k : k = Key(r)
    OBVIOUS
  <2>3. PICK how : req' = [q \in Requests |->
           IF q = r THEN [Blank EXCEPT !.pc = how, !.op = req[r].op, !.key = Key(r),
                                       !.got = req[r].got, !.kept = req[r].kept]
           ELSE [req[q] EXCEPT !.kept = @ /\ q \notin Overtaken(Key(r), req[r].removed)]]
    BY <2>1 DEF Commit
  <2>4. req'[r].key = k
    <3>1. req'[r] = [Blank EXCEPT !.pc = how, !.op = req[r].op, !.key = k,
                                  !.got = req[r].got, !.kept = req[r].kept]
      BY <2>2, <2>3
    <3> QED
      BY <3>1, BlankIsRequest DEF Request
  <2>5. Used(Key(r))' = Used(k)'
    BY <2>4 DEF Used, Key
  <2> QED
    BY <1>1, <2>1, <2>2, <2>5, CommitWrites
<1>2. PoolIInv /\ [PoolNext]_poolVars => [\A r \in Requests : SavedAsAsked(r)]_poolVars
  BY <1>1
<1> QED
  BY <1>2, PoolInvariance, PTL DEF PoolSpec, SavedIsOccupied

-----------------------------------------------------------------------------
\* A behaviour of the business API is one of its two parts' and leaves the other alone,
\* so that what is proved of each is true of it.
THEOREM PartsRun == ApiSpec => Spec /\ PoolSpec
<1>1. ApiInit => Init /\ PoolInit
  BY DEF ApiInit
<1>2. [ApiNext]_apiVars => [Next]_vars /\ [PoolNext]_poolVars
  BY DEF ApiNext, apiVars
<1> QED
  BY <1>1, <1>2, PTL DEF ApiSpec, Spec, PoolSpec
=============================================================================
