------------------------- MODULE RequestRuntime_proofs -------------------------
(* Theorems about RequestRuntime, for any endpoints, identities and numbers of   *)
(* requests.                                                                   *)
EXTENDS RequestRuntime, TLAPS

USE NoneAssumption

-----------------------------------------------------------------------------
(* The inductive invariant. What the cache and the table of shared requests    *)
(* hold is right because it came, or comes, from a flight of the current epoch: *)
(* such a flight was asked by the identity that is in the store, and once the   *)
(* API has answered it, it shows every write whose answer began an epoch.       *)

\* A flight of this epoch was asked by the identity of the store.
LiveIsOwn ==
  \A f \in Flights : flight[f].alive /\ flight[f].state # "idle" => flight[f].who = user

\* One that was served shows the writes that drop anything.
LiveShowsWrites ==
  \A f \in Flights : flight[f].alive /\ flight[f].state = "served" =>
    {a \in Answered : write[a].op.invalidatePrefixes # {}} \subseteq flight[f].saw

\* What is cached.
CacheIsOwn == \A r \in Reads : cache[r] # NoEntry => cache[r].who = user
CacheShowsWrites ==
  \A r \in Reads : cache[r] # NoEntry =>
    {a \in Answered : Dropped(r, write[a].op)} \subseteq cache[r].saw

IInv ==
  /\ TypeOK /\ SharedIsInFlight
  /\ LiveIsOwn /\ LiveShowsWrites /\ CacheIsOwn /\ CacheShowsWrites

(* A write that drops an entry names a prefix. *)
LEMMA DroppingNamesPrefix ==
  ASSUME NEW r, NEW w, Dropped(r, w)
  PROVE  w.invalidatePrefixes # {}
BY DEF Dropped

(* The invariant holds at first. *)
LEMMA InitInv == Init => IInv
<1>. SUFFICES ASSUME Init PROVE IInv
  OBVIOUS
<1>1. (CHOOSE r \in Reads : TRUE) \in Reads /\ (CHOOSE w \in Writes : TRUE) \in Writes
  BY ApiAssumption
<1>2. TypeOK
  <2>1. user \in Identities /\ cache \in [Reads -> Entry \cup {NoEntry}]
    BY DEF Init, Identities
  <2>2. pending \in [Reads -> Flights \cup {NoFlight}]
    BY DEF Init
  <2>3. flight \in [Flights -> Flight]
    <3>1. \A r \in Reads : [state |-> "idle", read |-> r, alive |-> FALSE, saw |-> {}, who |-> NoUser]
                            \in Flight
      BY DEF Flight, Identities
    <3>. QED BY <1>1, <3>1 DEF Init
  <2>4. write \in [Attempts -> Attempt]
    BY <1>1 DEF Init, Attempt
  <2>. QED BY <2>1, <2>2, <2>3, <2>4 DEF TypeOK
<1>3. SharedIsInFlight /\ LiveIsOwn /\ LiveShowsWrites /\ CacheIsOwn /\ CacheShowsWrites
  BY DEF Init, SharedIsInFlight, LiveIsOwn, LiveShowsWrites, CacheIsOwn, CacheShowsWrites
<1>. QED BY <1>2, <1>3 DEF IInv

(* A reset empties the cache and the table and ends the epoch of every flight, *)
(* whoever is in the store then.                                              *)
LEMMA ResetInv ==
  ASSUME IInv, NEW fs \in [Flights -> Flight], Reset(fs), user' \in Identities, UNCHANGED write
  PROVE  IInv'
<1>. USE DEF IInv
<1>1. flight' \in [Flights -> Flight] /\ \A f \in Flights : flight'[f].alive = FALSE
  BY DEF Reset, NextEpoch, Flight
<1>2. (\A r \in Reads : cache'[r] = NoEntry) /\ (\A r \in Reads : pending'[r] = NoFlight)
  BY DEF Reset
<1>3. TypeOK'
  BY <1>1 DEF TypeOK, Reset
<1>4. SharedIsInFlight' /\ LiveIsOwn' /\ LiveShowsWrites' /\ CacheIsOwn' /\ CacheShowsWrites'
  BY <1>1, <1>2 DEF SharedIsInFlight, LiveIsOwn, LiveShowsWrites, CacheIsOwn, CacheShowsWrites
<1>. QED BY <1>3, <1>4

(* A GET that leaves: its slot was idle, so nobody shared it. *)
LEMMA AskInv ==
  ASSUME IInv, NEW f \in Flights, NEW r \in Reads, Ask(f, r)
  PROVE  IInv'
<1>. USE DEF IInv
<1>1. flight' = [flight EXCEPT ![f] = [state |-> "sent", read |-> r, alive |-> TRUE,
                                       saw |-> {}, who |-> user]]
  BY DEF Ask
<1>2. TypeOK'
  BY <1>1 DEF TypeOK, Ask, Flight
<1>3. SharedIsInFlight'
  <2>. SUFFICES ASSUME NEW q \in Reads, pending'[q] # NoFlight
                PROVE  /\ flight'[pending'[q]].state # "idle"
                       /\ flight'[pending'[q]].read = q
                       /\ flight'[pending'[q]].alive
    BY DEF SharedIsInFlight
  <2>1. CASE pending'[q] = f
    <3>1. pending[q] # f
      BY DEF Ask, SharedIsInFlight, TypeOK
    <3>2. q = r
      BY <2>1, <3>1 DEF Ask, TypeOK
    <3>. QED BY <1>1, <2>1, <3>2 DEF TypeOK
  <2>2. CASE pending'[q] # f
    <3>1. pending'[q] = pending[q]
      BY <2>2 DEF Ask, TypeOK
    <3>. QED BY <1>1, <2>2, <3>1 DEF SharedIsInFlight, TypeOK
  <2>. QED BY <2>1, <2>2
<1>4. LiveIsOwn' /\ LiveShowsWrites'
  BY <1>1 DEF Ask, LiveIsOwn, LiveShowsWrites, Answered, TypeOK
<1>5. CacheIsOwn' /\ CacheShowsWrites'
  BY DEF Ask, CacheIsOwn, CacheShowsWrites, Answered, Dropped
<1>. QED BY <1>2, <1>3, <1>4, <1>5

(* The API serves a GET with all that was committed, what was answered included. *)
LEMMA ServeInv ==
  ASSUME IInv, NEW f \in Flights, Serve(f)
  PROVE  IInv'
<1>. USE DEF IInv
<1>1. flight' = [flight EXCEPT ![f] = [@ EXCEPT !.state = "served", !.saw = Committed]]
  BY DEF Serve, TypeOK, Flight
<1>2. Answered \subseteq Committed /\ Committed \subseteq Attempts
  BY DEF Answered, Committed
<1>3. TypeOK'
  BY <1>1, <1>2 DEF TypeOK, Serve, Flight
<1>4. SharedIsInFlight'
  BY <1>1 DEF Serve, SharedIsInFlight, TypeOK, Flight
<1>5. LiveIsOwn'
  BY <1>1 DEF Serve, LiveIsOwn, TypeOK, Flight
<1>6. LiveShowsWrites'
  BY <1>1, <1>2 DEF Serve, LiveShowsWrites, Answered, TypeOK, Flight
<1>7. CacheIsOwn' /\ CacheShowsWrites'
  BY DEF Serve, CacheIsOwn, CacheShowsWrites, Answered, Dropped
<1>. QED BY <1>3, <1>4, <1>5, <1>6, <1>7

(* A flight that ends leaves the table, in which nobody has taken its slot. *)
LEMMA LandInv ==
  ASSUME IInv, NEW f \in Flights, flight' = Landed(f), pending' = Settled(f),
         UNCHANGED <<user, write>>
  PROVE  /\ flight' \in [Flights -> Flight] /\ pending' \in [Reads -> Flights \cup {NoFlight}]
         /\ SharedIsInFlight' /\ LiveIsOwn' /\ LiveShowsWrites'
<1>. USE DEF IInv
<1>1. flight' = [flight EXCEPT ![f] = [@ EXCEPT !.state = "idle"]]
  BY DEF Landed, TypeOK, Flight
<1>2. flight' \in [Flights -> Flight] /\ pending' \in [Reads -> Flights \cup {NoFlight}]
  BY <1>1 DEF TypeOK, Flight, Settled
<1>3. SharedIsInFlight'
  BY <1>1 DEF SharedIsInFlight, Settled, TypeOK, Flight
<1>4. LiveIsOwn' /\ LiveShowsWrites'
  BY <1>1 DEF LiveIsOwn, LiveShowsWrites, Answered, TypeOK, Flight
<1>. QED BY <1>2, <1>3, <1>4

(* An answer fills the cache when its flight is of this epoch. *)
LEMMA AnswerInv ==
  ASSUME IInv, NEW f \in Flights, Answer(f)
  PROVE  IInv'
<1>. USE DEF IInv
<1>. DEFINE entry == [saw |-> flight[f].saw, who |-> flight[f].who]
            read == flight[f].read
<1>1. /\ flight' \in [Flights -> Flight] /\ pending' \in [Reads -> Flights \cup {NoFlight}]
      /\ SharedIsInFlight' /\ LiveIsOwn' /\ LiveShowsWrites'
  BY LandInv DEF Answer
<1>2. read \in Reads /\ entry \in Entry
  BY DEF TypeOK, Flight, Entry
<1>3. CASE cache' = cache
  <2>1. TypeOK'
    BY <1>1, <1>3 DEF TypeOK, Answer
  <2>2. CacheIsOwn' /\ CacheShowsWrites'
    BY <1>3 DEF Answer, CacheIsOwn, CacheShowsWrites, Answered, Dropped
  <2>. QED BY <1>1, <2>1, <2>2
<1>4. CASE cache' = [cache EXCEPT ![read] = entry] /\ flight[f].alive
  <2>1. TypeOK'
    BY <1>1, <1>2, <1>4 DEF TypeOK, Answer
  <2>2. entry.who = user
    BY <1>4 DEF Answer, LiveIsOwn
  <2>3. CacheIsOwn'
    BY <1>2, <1>4, <2>2 DEF Answer, CacheIsOwn, TypeOK
  <2>4. {a \in Answered : Dropped(read, write[a].op)} \subseteq entry.saw
    <3>1. {a \in Answered : write[a].op.invalidatePrefixes # {}} \subseteq entry.saw
      BY <1>4 DEF Answer, LiveShowsWrites
    <3>. QED BY <3>1, DroppingNamesPrefix
  <2>5. CacheShowsWrites'
    <3>. SUFFICES ASSUME NEW r \in Reads, cache'[r] # NoEntry
                  PROVE  {a \in Answered : Dropped(r, write[a].op)} \subseteq cache'[r].saw
      BY DEF Answer, CacheShowsWrites, Answered, Dropped
    <3>1. CASE r = read
      BY <1>2, <1>4, <2>4, <3>1 DEF TypeOK
    <3>2. CASE r # read
      BY <1>4, <3>2 DEF CacheShowsWrites, TypeOK
    <3>. QED BY <3>1, <3>2
  <2>. QED BY <1>1, <2>1, <2>3, <2>5
<1>. QED BY <1>3, <1>4 DEF Answer

(* A GET that fails changes nothing else. *)
LEMMA FailInv ==
  ASSUME IInv, NEW f \in Flights, Fail(f)
  PROVE  IInv'
<1>. USE DEF IInv
<1>1. /\ flight' \in [Flights -> Flight] /\ pending' \in [Reads -> Flights \cup {NoFlight}]
      /\ SharedIsInFlight' /\ LiveIsOwn' /\ LiveShowsWrites'
  BY LandInv DEF Fail
<1>2. TypeOK'
  BY <1>1 DEF TypeOK, Fail
<1>3. CacheIsOwn' /\ CacheShowsWrites'
  BY DEF Fail, CacheIsOwn, CacheShowsWrites, Answered, Dropped
<1>. QED BY <1>1, <1>2, <1>3

(* A refusal empties the store, and resets everything if somebody was in it. *)
LEMMA RefuseInv ==
  ASSUME IInv, NEW f \in Flights, Refuse(f)
  PROVE  IInv'
<1>. USE DEF IInv
<1>1. CASE user # NoUser
  <2>1. Landed(f) \in [Flights -> Flight]
    BY DEF Landed, TypeOK, Flight
  <2>2. user' \in Identities
    BY DEF Refuse, Identities
  <2>. QED BY <1>1, <2>1, <2>2, ResetInv DEF Refuse
<1>2. CASE user = NoUser
  <2>1. /\ flight' \in [Flights -> Flight] /\ pending' \in [Reads -> Flights \cup {NoFlight}]
        /\ SharedIsInFlight' /\ LiveIsOwn' /\ LiveShowsWrites'
    BY <1>2, LandInv DEF Refuse
  <2>2. TypeOK'
    BY <1>2, <2>1 DEF TypeOK, Refuse, Identities
  <2>3. CacheIsOwn' /\ CacheShowsWrites'
    BY <1>2 DEF Refuse, CacheIsOwn, CacheShowsWrites, Answered, Dropped
  <2>. QED BY <2>1, <2>2, <2>3
<1>. QED BY <1>1, <1>2

(* An entry's time is over. *)
LEMMA ExpireInv ==
  ASSUME IInv, NEW r \in Reads, Expire(r)
  PROVE  IInv'
<1>. USE DEF IInv
<1>1. TypeOK'
  BY DEF TypeOK, Expire
<1>2. SharedIsInFlight' /\ LiveIsOwn' /\ LiveShowsWrites'
  BY DEF Expire, SharedIsInFlight, LiveIsOwn, LiveShowsWrites, Answered
<1>3. CacheIsOwn' /\ CacheShowsWrites'
  BY DEF Expire, CacheIsOwn, CacheShowsWrites, Answered, Dropped, TypeOK
<1>. QED BY <1>1, <1>2, <1>3

(* A write that is under way, or whose answer is lost, drops nothing and is *)
(* not among the answered.                                                 *)
LEMMA UnansweredInv ==
  ASSUME IInv, UNCHANGED <<user, cache, pending, flight>>, write' \in [Attempts -> Attempt],
         Answered' = Answered, \A a \in Answered : write'[a].op = write[a].op
  PROVE  IInv'
<1>. USE DEF IInv
<1>1. TypeOK' /\ SharedIsInFlight' /\ LiveIsOwn' /\ CacheIsOwn'
  BY DEF TypeOK, SharedIsInFlight, LiveIsOwn, CacheIsOwn
<1>2. LiveShowsWrites' /\ CacheShowsWrites'
  BY DEF LiveShowsWrites, CacheShowsWrites, Dropped
<1>. QED BY <1>1, <1>2

LEMMA SendInv ==
  ASSUME IInv, NEW a \in Attempts, NEW w \in Writes, Send(a, w)
  PROVE  IInv'
<1>1. write' \in [Attempts -> Attempt]
  BY DEF IInv, TypeOK, Send, Attempt
<1>2. Answered' = Answered /\ \A b \in Answered : write'[b].op = write[b].op
  BY DEF IInv, TypeOK, Send, Answered
<1>. QED BY <1>1, <1>2, UnansweredInv DEF Send

LEMMA CommitOrLoseInv ==
  ASSUME IInv, NEW a \in Attempts, Commit(a) \/ Lose(a)
  PROVE  IInv'
<1>1. /\ write[a].state \in {"sent", "committed"}
      /\ \E s \in {"committed", "lost"} : write' = [write EXCEPT ![a] = [@ EXCEPT !.state = s]]
  BY DEF IInv, TypeOK, Commit, Lose
<1>2. write' \in [Attempts -> Attempt]
  BY <1>1 DEF IInv, TypeOK, Attempt
<1>3. Answered' = Answered /\ \A b \in Answered : write'[b].op = write[b].op
  BY <1>1 DEF IInv, TypeOK, Attempt, Answered
<1>. QED BY <1>2, <1>3, UnansweredInv DEF Commit, Lose

(* A write that is answered: what it drops is gone, and if it drops anything   *)
(* a new epoch begins.                                                        *)
LEMMA ConfirmInv ==
  ASSUME IInv, NEW a \in Attempts, Confirm(a)
  PROVE  IInv'
<1>. USE DEF IInv
<1>. DEFINE w == write[a].op
<1>1. write' = [write EXCEPT ![a] = [@ EXCEPT !.state = "answered"]]
  BY DEF Confirm, TypeOK
<1>2. /\ write' \in [Attempts -> Attempt]
      /\ Answered' \subseteq Answered \cup {a}
      /\ \A b \in Attempts : write'[b].op = write[b].op
  BY <1>1 DEF TypeOK, Attempt, Answered
<1>3. cache' = [r \in Reads |-> IF Dropped(r, w) THEN NoEntry ELSE cache[r]]
  BY DEF Confirm, Invalidate
<1>4. CacheIsOwn' /\ CacheShowsWrites'
  <2>. SUFFICES ASSUME NEW r \in Reads, cache'[r] # NoEntry
                PROVE  /\ cache'[r].who = user'
                       /\ {b \in Answered' : Dropped(r, write'[b].op)} \subseteq cache'[r].saw
    BY DEF CacheIsOwn, CacheShowsWrites
  <2>1. ~Dropped(r, w) /\ cache'[r] = cache[r]
    BY <1>3
  <2>2. cache'[r].who = user'
    BY <2>1 DEF CacheIsOwn, Confirm
  <2>3. {b \in Answered' : Dropped(r, write'[b].op)} \subseteq {b \in Answered : Dropped(r, write[b].op)}
    BY <1>2, <2>1 DEF Answered
  <2>. QED BY <2>1, <2>2, <2>3 DEF CacheShowsWrites
<1>5. CASE w.invalidatePrefixes = {}
  <2>1. UNCHANGED <<user, flight, pending>>
    BY <1>5 DEF Confirm, Invalidate
  <2>2. TypeOK'
    BY <1>2, <1>3, <2>1 DEF TypeOK
  <2>3. SharedIsInFlight' /\ LiveIsOwn'
    BY <2>1 DEF SharedIsInFlight, LiveIsOwn
  <2>4. {b \in Answered' : write'[b].op.invalidatePrefixes # {}}
          \subseteq {b \in Answered : write[b].op.invalidatePrefixes # {}}
    BY <1>2, <1>5 DEF Answered
  <2>5. LiveShowsWrites'
    BY <2>1, <2>4 DEF LiveShowsWrites
  <2>. QED BY <1>4, <2>2, <2>3, <2>5
<1>6. CASE w.invalidatePrefixes # {}
  <2>1. flight' = NextEpoch(flight) /\ pending' = [r \in Reads |-> NoFlight] /\ user' = user
    BY <1>6 DEF Confirm, Invalidate
  <2>2. flight' \in [Flights -> Flight] /\ \A f \in Flights : flight'[f].alive = FALSE
    BY <2>1 DEF NextEpoch, TypeOK, Flight
  <2>3. TypeOK'
    BY <1>2, <1>3, <2>1, <2>2 DEF TypeOK
  <2>4. SharedIsInFlight' /\ LiveIsOwn' /\ LiveShowsWrites'
    BY <2>1, <2>2 DEF SharedIsInFlight, LiveIsOwn, LiveShowsWrites
  <2>. QED BY <1>4, <2>3, <2>4
<1>. QED BY <1>5, <1>6

(* Every step keeps the invariant. *)
LEMMA NextInv == IInv /\ [Next]_vars => IInv'
<1>. SUFFICES ASSUME IInv, [Next]_vars PROVE IInv'
  OBVIOUS
<1>1. ASSUME NEW f \in Flights, \/ \E r \in Reads : Ask(f, r)
                                \/ Serve(f) \/ Answer(f) \/ Fail(f) \/ Refuse(f)
      PROVE  IInv'
  BY <1>1, AskInv, ServeInv, AnswerInv, FailInv, RefuseInv
<1>2. ASSUME NEW r \in Reads, Expire(r) PROVE IInv'
  BY <1>2, ExpireInv
<1>3. ASSUME NEW a \in Attempts, \/ \E w \in Writes : Send(a, w)
                                 \/ Commit(a) \/ Confirm(a) \/ Lose(a)
      PROVE  IInv'
  BY <1>3, SendInv, CommitOrLoseInv, ConfirmInv
<1>4. ASSUME NEW u \in Users, SetAuth(u) PROVE IInv'
  <2>1. user' \in Identities /\ flight \in [Flights -> Flight]
    BY <1>4 DEF SetAuth, Identities, IInv, TypeOK
  <2>. QED BY <1>4, <2>1, ResetInv DEF SetAuth
<1>5. ASSUME ClearAuth PROVE IInv'
  <2>1. user' \in Identities /\ flight \in [Flights -> Flight]
    BY <1>5 DEF ClearAuth, Identities, IInv, TypeOK
  <2>. QED BY <1>5, <2>1, ResetInv DEF ClearAuth
<1>6. ASSUME UNCHANGED vars PROVE IInv'
  BY <1>6 DEF vars, IInv, TypeOK, SharedIsInFlight, LiveIsOwn, LiveShowsWrites, CacheIsOwn,
              CacheShowsWrites, Answered, Dropped
<1>. QED BY <1>1, <1>2, <1>3, <1>4, <1>5, <1>6 DEF Next

LEMMA Invariance == Spec => []IInv
BY InitInv, NextInv, PTL DEF Spec

-----------------------------------------------------------------------------
\* The runtime's state stays of its type.
THEOREM TypeCorrect == Spec => []TypeOK
BY Invariance, PTL DEF IInv

\* A caller that shares a GET waits for one that will be settled and asks what it
\* asks (the table of requestGet and its finally).
THEOREM SharedIsAlive == Spec => []SharedIsInFlight
BY Invariance, PTL DEF IInv

\* Nothing of another identity is cached or shared, whatever answers are late
\* (resetApiRuntimeState).
THEOREM NoForeignAnswer == Spec => []AnswersAreOwn
<1>1. IInv => AnswersAreOwn
  BY DEF IInv, TypeOK, AnswersAreOwn, SharedIsInFlight, LiveIsOwn, CacheIsOwn
<1>. QED BY <1>1, Invariance, PTL

\* Nothing that is cached or shared is older than a write the console was told of
\* and that drops it (invalidateGetCache).
THEOREM NoStaleAnswer == Spec => []AnswersShowWrites
<1>1. IInv => AnswersShowWrites
  BY DEF IInv, TypeOK, AnswersShowWrites, SharedIsInFlight, LiveShowsWrites, CacheShowsWrites
<1>. QED BY <1>1, Invariance, PTL
=============================================================================
