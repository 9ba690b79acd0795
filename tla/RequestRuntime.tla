---------------------------- MODULE RequestRuntime ----------------------------
(***************************************************************************)
(* The request runtime of the web console (web/src/api/core.ts): a cache of  *)
(* answers, the table of GETs in flight that later callers share, the epoch  *)
(* that keeps an old answer out of the cache, and the resets of all three    *)
(* when the identity in a store changes or a write was answered.            *)
(*                                                                         *)
(* A read or a write is an endpoint of ConsoleApi with its parameters fixed. *)
(* A flight is one axios GET, an attempt one axios write; the server serves  *)
(* a flight with whatever was committed by then. The epoch is compared with  *)
(* the captured one only: a flight is alive while they are equal. An entry   *)
(* of the cache whose time is over is as good as none.                      *)
(***************************************************************************)
EXTENDS ConsoleApi, Sequences, FiniteSets

CONSTANTS
  Reads,     \* endpoints of GETs
  Writes,    \* endpoints of writes
  Flights,   \* GETs that can be in flight at once
  Attempts,  \* writes of a behaviour
  Users,     \* identities
  NoUser,    \* nobody is signed in
  NoFlight,  \* no GET to share
  NoEntry    \* nothing cached

ASSUME NoneAssumption == NoUser \notin Users /\ NoFlight \notin Flights
ASSUME EntryAssumption == NoEntry \notin [saw : SUBSET Attempts, who : Users \cup {NoUser}]
ASSUME ReadsAssumption ==
  \A r \in Reads : r.cacheMs \in Nat /\ r.dedupe \in BOOLEAN
ASSUME ApiAssumption == Reads # {} /\ Writes # {} /\ Users # {}

VARIABLES
  user,     \* the identity object of the store
  cache,    \* getResponseCache
  pending,  \* pendingGetRequests of the current epoch
  flight,   \* the GETs in flight
  write     \* the writes

vars == <<user, cache, pending, flight, write>>

Identities == Users \cup {NoUser}
Entry == [saw : SUBSET Attempts, who : Identities]
Flight == [state : {"idle", "sent", "served"}, read : Reads, alive : BOOLEAN,
           saw : SUBSET Attempts, who : Identities]
Attempt == [op : Writes, state : {"none", "sent", "committed", "answered", "lost"}]

TypeOK ==
  /\ user \in Identities
  /\ cache \in [Reads -> Entry \cup {NoEntry}]
  /\ pending \in [Reads -> Flights \cup {NoFlight}]
  /\ flight \in [Flights -> Flight]
  /\ write \in [Attempts -> Attempt]

Init ==
  /\ user = NoUser
  /\ cache = [r \in Reads |-> NoEntry]
  /\ pending = [r \in Reads |-> NoFlight]
  /\ flight \in [Flights -> {[state |-> "idle", read |-> CHOOSE r \in Reads : TRUE,
                              alive |-> FALSE, saw |-> {}, who |-> NoUser]}]
  /\ write \in [Attempts -> {[op |-> CHOOSE w \in Writes : TRUE, state |-> "none"]}]

Committed == {a \in Attempts : write[a].state \in {"committed", "answered", "lost"}}

StartsWith(path, prefix) ==
  Len(prefix) <= Len(path) /\ SubSeq(path, 1, Len(prefix)) = prefix

Dropped(r, w) == \E p \in w.invalidatePrefixes : StartsWith(r.path, p)

-----------------------------------------------------------------------------
(* The two resets.                                                         *)

\* Mutant: the flights of the identity before may still fill the cache.
SameEpoch(fs) == fs

\* A new epoch: what is in flight may no longer fill the cache.
NextEpoch(fs) == [f \in Flights |-> [fs[f] EXCEPT !.alive = FALSE]]

\* resetApiRuntimeState.
Reset(fs) ==
  /\ flight' = NextEpoch(fs)
  /\ cache' = [r \in Reads |-> NoEntry]
  /\ pending' = [r \in Reads |-> NoFlight]

\* Mutant: callers still join the GETs that were asked before the write.
InvalidateKeepingPending(w) ==
  /\ flight' = IF w.invalidatePrefixes = {} THEN flight ELSE NextEpoch(flight)
  /\ cache' = [r \in Reads |-> IF Dropped(r, w) THEN NoEntry ELSE cache[r]]
  /\ UNCHANGED pending

\* invalidateGetCache.
Invalidate(w) ==
  /\ cache' = [r \in Reads |-> IF Dropped(r, w) THEN NoEntry ELSE cache[r]]
  /\ IF w.invalidatePrefixes = {}
     THEN UNCHANGED <<flight, pending>>
     ELSE /\ flight' = NextEpoch(flight)
          /\ pending' = [r \in Reads |-> NoFlight]

-----------------------------------------------------------------------------
(* GETs.                                                                   *)

\* requestGet when neither the cache nor a flight of this epoch answers: the
\* callers those do answer change nothing.
Ask(f, r) ==
  /\ flight[f].state = "idle"
  /\ cache[r] = NoEntry \/ r.cacheMs = 0
  /\ r.dedupe => pending[r] = NoFlight
  /\ flight' = [flight EXCEPT ![f] = [state |-> "sent", read |-> r, alive |-> TRUE,
                                      saw |-> {}, who |-> user]]
  /\ pending' = IF r.dedupe THEN [pending EXCEPT ![r] = f] ELSE pending
  /\ UNCHANGED <<user, cache, write>>

Serve(f) ==
  /\ flight[f].state = "sent"
  /\ flight' = [flight EXCEPT ![f].state = "served", ![f].saw = Committed]
  /\ UNCHANGED <<user, cache, pending, write>>

\* Mutant: a settled promise stays in the table.
SettledKept(f) == pending

\* finally: the flight leaves the table unless another one took its place.
Settled(f) == [r \in Reads |-> IF pending[r] = f THEN NoFlight ELSE pending[r]]

Landed(f) == [flight EXCEPT ![f].state = "idle"]

\* then, finally.
Answer(f) ==
  /\ flight[f].state = "served"
  /\ cache' = IF flight[f].read.cacheMs > 0 /\ flight[f].alive
              THEN [cache EXCEPT ![flight[f].read] =
                      [saw |-> flight[f].saw, who |-> flight[f].who]]
              ELSE cache
  /\ pending' = Settled(f)
  /\ flight' = Landed(f)
  /\ UNCHANGED <<user, write>>

\* The network, a timeout or an answer of the server that changes no store.
Fail(f) ==
  /\ flight[f].state \in {"sent", "served"}
  /\ pending' = Settled(f)
  /\ flight' = Landed(f)
  /\ UNCHANGED <<user, cache, write>>

\* A 401 of the response interceptor clears the store, whoever is in it now.
Refuse(f) ==
  /\ flight[f].state \in {"sent", "served"}
  /\ user' = NoUser
  /\ IF user # NoUser
     THEN Reset(Landed(f))
     ELSE pending' = Settled(f) /\ flight' = Landed(f) /\ UNCHANGED cache
  /\ UNCHANGED write

Expire(r) ==
  /\ cache[r] # NoEntry
  /\ cache' = [cache EXCEPT ![r] = NoEntry]
  /\ UNCHANGED <<user, pending, flight, write>>

-----------------------------------------------------------------------------
(* Writes: requestPost, requestPut, requestPatch, requestDelete.           *)

Send(a, w) ==
  /\ write[a].state = "none"
  /\ write' = [write EXCEPT ![a] = [op |-> w, state |-> "sent"]]
  /\ UNCHANGED <<user, cache, pending, flight>>

Commit(a) ==
  /\ write[a].state = "sent"
  /\ write' = [write EXCEPT ![a].state = "committed"]
  /\ UNCHANGED <<user, cache, pending, flight>>

Confirm(a) ==
  /\ write[a].state = "committed"
  /\ write' = [write EXCEPT ![a].state = "answered"]
  /\ Invalidate(write[a].op)
  /\ UNCHANGED user

\* The answer is lost: nothing is dropped.
Lose(a) ==
  /\ write[a].state = "committed"
  /\ write' = [write EXCEPT ![a].state = "lost"]
  /\ UNCHANGED <<user, cache, pending, flight>>

-----------------------------------------------------------------------------
(* The store: the subscribers reset the runtime when the object changed.   *)

SetAuth(u) ==
  /\ user' = u
  /\ Reset(flight)
  /\ UNCHANGED write

ClearAuth ==
  /\ user # NoUser
  /\ user' = NoUser
  /\ Reset(flight)
  /\ UNCHANGED write

Next ==
  \/ \E f \in Flights : \/ \E r \in Reads : Ask(f, r)
                        \/ Serve(f) \/ Answer(f) \/ Fail(f) \/ Refuse(f)
  \/ \E r \in Reads : Expire(r)
  \/ \E a \in Attempts : \/ \E w \in Writes : Send(a, w)
                         \/ Commit(a) \/ Confirm(a) \/ Lose(a)
  \/ \E u \in Users : SetAuth(u)
  \/ ClearAuth

Spec == Init /\ [][Next]_vars

-----------------------------------------------------------------------------
(* Properties.                                                             *)

Answered == {a \in Attempts : write[a].state = "answered"}

\* Whatever the next caller of a GET is given without a request of its own shows
\* the writes the console was told of, however answers overtake each other: an
\* entry of the cache those that drop it, a flight of another caller all that
\* drop anything. An answer from before a write neither enters the cache nor is
\* shared after it (requestGet, invalidateGetCache).
AnswersShowWrites ==
  \A r \in Reads :
    /\ cache[r] # NoEntry =>
         {a \in Answered : Dropped(r, write[a].op)} \subseteq cache[r].saw
    /\ pending[r] # NoFlight /\ flight[pending[r]].state = "served" =>
         {a \in Answered : write[a].op.invalidatePrefixes # {}} \subseteq flight[pending[r]].saw

\* What is cached, or shared in flight, was asked by the identity in the store,
\* across sign-outs, sign-ins and late answers and refusals of sessions before
\* (resetApiRuntimeState).
AnswersAreOwn ==
  \A r \in Reads :
    /\ cache[r] # NoEntry => cache[r].who = user
    /\ pending[r] # NoFlight => flight[pending[r]].who = user

\* A caller that shares a GET waits for one that is still going to be settled,
\* asks what the caller asks and may fill the cache: no settled promise stays
\* in the table, where it would answer for ever (finally of requestGet).
SharedIsInFlight ==
  \A r \in Reads : pending[r] # NoFlight =>
    /\ flight[pending[r]].state # "idle"
    /\ flight[pending[r]].read = r
    /\ flight[pending[r]].alive
=============================================================================
