----------------------------- MODULE Console_proofs -----------------------------
(***************************************************************************)
(* What the pages of the console guarantee for every number of requests that  *)
(* wait, every row and every account.                                        *)
(***************************************************************************)
EXTENDS Console, SequencesExt, SequenceTheorems, TLAPS

-----------------------------------------------------------------------------
(* The requests that wait, as a set.                                        *)

\* A finite sequence.
Queue(s) == s \in Seq(ToSet(s))

LEMMA IsQueue ==
  ASSUME NEW S, NEW s \in Seq(S)
  PROVE  /\ Queue(s)
         /\ Len(s) \in Nat
         /\ DOMAIN s = 1..Len(s)
         /\ ToSet(s) \subseteq S
<1>1. Len(s) \in Nat /\ s \in [1..Len(s) -> S] /\ DOMAIN s = 1..Len(s)
  BY LenProperties
<1>2. s \in [1..Len(s) -> ToSet(s)]
  BY <1>1 DEF ToSet
<1>3. s \in Seq(ToSet(s))
  BY <1>1, <1>2, SeqDef
<1> QED
  BY <1>1, <1>3 DEF Queue, ToSet

LEMMA Joined ==
  ASSUME NEW s, NEW t, Queue(s), Queue(t)
  PROVE  Queue(s \o t) /\ ToSet(s \o t) = ToSet(s) \cup ToSet(t)
<1> DEFINE S == ToSet(s) \cup ToSet(t)
<1>1. s \in Seq(S) /\ t \in Seq(S)
  BY SeqMonotonic DEF Queue
<1>2. /\ s \o t \in Seq(S)
      /\ Len(s \o t) = Len(s) + Len(t)
      /\ \A i \in 1 .. Len(s) + Len(t) : (s \o t)[i] = IF i <= Len(s) THEN s[i] ELSE t[i - Len(s)]
  BY <1>1, ConcatProperties
<1>3. /\ Queue(s \o t) /\ DOMAIN (s \o t) = 1..Len(s \o t) /\ ToSet(s \o t) \subseteq S
      /\ Len(s) \in Nat /\ DOMAIN s = 1..Len(s)
      /\ Len(t) \in Nat /\ DOMAIN t = 1..Len(t)
  BY <1>1, <1>2, IsQueue
<1>4. ASSUME NEW i \in DOMAIN s PROVE s[i] \in ToSet(s \o t)
  BY <1>2, <1>3 DEF ToSet
<1>5. ASSUME NEW i \in DOMAIN t PROVE t[i] \in ToSet(s \o t)
  <2>1. i + Len(s) \in DOMAIN (s \o t) /\ (s \o t)[i + Len(s)] = t[i]
    BY <1>2, <1>3
  <2> QED
    BY <2>1 DEF ToSet
<1> QED
  BY <1>3, <1>4, <1>5 DEF ToSet

LEMMA Empty == Queue(<<>>) /\ ToSet(<<>>) = {}
<1>1. <<>> \in Seq(ToSet(<<>>)) /\ Len(<<>>) = 0
  BY EmptySeq
<1>2. DOMAIN <<>> = 1..0
  BY <1>1, LenProperties
<1> QED
  BY <1>1, <1>2 DEF Queue, ToSet

LEMMA Single == ASSUME NEW e PROVE Queue(<<e>>) /\ ToSet(<<e>>) = {e}
<1>1. <<e>> \in Seq({e}) /\ Len(<<e>>) = 1 /\ <<e>>[1] = e
  OBVIOUS
<1>2. Queue(<<e>>) /\ DOMAIN <<e>> = 1..1
  BY <1>1, IsQueue
<1>3. ToSet(<<e>>) = {<<e>>[i] : i \in 1..1}
  BY <1>2 DEF ToSet
<1> QED
  BY <1>1, <1>2, <1>3

LEMMA Appended ==
  ASSUME NEW s, NEW e, Queue(s)
  PROVE  Queue(Append(s, e)) /\ ToSet(Append(s, e)) = ToSet(s) \cup {e}
<1>1. Append(s, e) = s \o <<e>>
  BY SMT DEF Queue
<1> QED
  BY <1>1, Single, Joined

\* One has landed: the others wait on.
LEMMA Dropped ==
  ASSUME NEW s, NEW i \in DOMAIN s, Queue(s)
  PROVE  /\ Queue(RemoveAt(s, i))
         /\ s[i] \in ToSet(s)
         /\ ToSet(RemoveAt(s, i)) \subseteq ToSet(s)
         /\ ToSet(s) \subseteq ToSet(RemoveAt(s, i)) \cup {s[i]}
<1> DEFINE S == ToSet(s)
           a == SubSeq(s, 1, i - 1)
           b == SubSeq(s, i + 1, Len(s))
<1>1. Len(s) \in Nat /\ DOMAIN s = 1..Len(s) /\ i \in 1..Len(s)
  BY IsQueue DEF Queue
<1>2. \A j \in 1..Len(s) : s[j] \in S
  BY <1>1 DEF ToSet
<1>3. /\ a \in Seq(S) /\ Len(a) = i - 1
      /\ \A j \in 1..(i - 1) : a[j] = s[j]
  BY <1>1, <1>2, SubSeqProperties
<1>4. /\ b \in Seq(S) /\ Len(b) = Len(s) - i
      /\ \A j \in 1..(Len(s) - i) : b[j] = s[i + j]
  BY <1>1, <1>2, SubSeqProperties
<1>5. Queue(a) /\ Queue(b) /\ DOMAIN a = 1..(i - 1) /\ DOMAIN b = 1..(Len(s) - i)
      /\ ToSet(a) \subseteq S /\ ToSet(b) \subseteq S
  BY <1>3, <1>4, IsQueue
<1>6. Queue(a \o b) /\ ToSet(a \o b) = ToSet(a) \cup ToSet(b)
  BY <1>5, Joined
<1>7. ASSUME NEW j \in 1..Len(s), j # i PROVE s[j] \in ToSet(a) \cup ToSet(b)
  <2>1. CASE j < i
    <3>1. j \in DOMAIN a /\ a[j] = s[j]
      BY <1>1, <1>3, <1>5, <2>1
    <3> QED
      BY <3>1 DEF ToSet
  <2>2. CASE j > i
    <3> DEFINE k == j - i
    <3>1. k \in 1..(Len(s) - i) /\ i + k = j
      BY <1>1, <2>2
    <3> HIDE DEF k
    <3>2. k \in DOMAIN b /\ b[k] = s[j]
      BY <1>4, <1>5, <3>1
    <3> QED
      BY <3>2 DEF ToSet
  <2> QED
    BY <1>1, <1>7, <2>1, <2>2
<1> QED
  BY <1>1, <1>2, <1>5, <1>6, <1>7 DEF RemoveAt, ToSet

\* Each of them changed.
LEMMA Mapped ==
  ASSUME NEW s, NEW t, Queue(s), DOMAIN t = DOMAIN s, t = [i \in DOMAIN s |-> t[i]]
  PROVE  Queue(t) /\ ToSet(t) = {t[i] : i \in DOMAIN s}
<1>1. Len(s) \in Nat /\ DOMAIN s = 1..Len(s)
  BY IsQueue DEF Queue
<1>2. t \in [1..Len(s) -> ToSet(t)]
  BY <1>1 DEF ToSet
<1> QED
  BY <1>1, <1>2, SeqDef DEF Queue, ToSet

-----------------------------------------------------------------------------
(* ConsoleSession: no late answer brings an identity back.                  *)

\* A bootstrap whose page is there is what is shown, and the cookie it went with has
\* not been dropped: whoever signs out leaves for the sign-in page.
Bootstraps(c) ==
  c.op = "session" /\ c.here =>
    /\ Session!Shown(route, store) = Session!Bootstrap[c.side]
    /\ c.cookie # None => jar[c.side] # None

WellFormed(c) == "here" \in DOMAIN c /\ c.side \in Session!Sides

SessionIInv ==
  /\ account \in [Session!Sides -> Session!AccountRow]
  /\ DOMAIN jar = Session!Sides /\ DOMAIN store = Session!Sides
  /\ Queue(calls)
  /\ \A c \in ToSet(calls) : WellFormed(c) /\ Bootstraps(c)
  /\ Session!StoreHasCookie

LEMMA AskedCall ==
  ASSUME NEW c, "op" \in DOMAIN c, "side" \in DOMAIN c, "cookie" \notin DOMAIN c,
         "here" \notin DOMAIN c, c.side \in Session!Sides
  PROVE  /\ Session!Ask(c).op = c.op
         /\ Session!Ask(c).side = c.side
         /\ Session!Ask(c).cookie = jar'[c.side]
         /\ Session!Ask(c).here = TRUE
         /\ "here" \in DOMAIN Session!Ask(c)
BY DEF Session!Ask, Session!Merged

LEMMA MountCalls ==
  ASSUME NEW shown, NEW st
  PROVE  /\ Queue(Session!OnMount(shown, st))
         /\ \A c \in ToSet(Session!OnMount(shown, st)) :
              /\ WellFormed(c)
              /\ c.op = "session" => shown = Session!Bootstrap[c.side] /\ c.cookie = jar'[c.side]
<1> DEFINE a == Session!Ask([op |-> "session", side |-> "admin"])
           b == Session!Ask([op |-> "session", side |-> "portal"])
           c == Session!Ask([op |-> "status", side |-> "admin"])
<1>1. /\ WellFormed(a) /\ a.side = "admin" /\ a.cookie = jar'["admin"]
      /\ WellFormed(b) /\ b.side = "portal" /\ b.cookie = jar'["portal"]
      /\ WellFormed(c) /\ c.op = "status"
  BY AskedCall DEF WellFormed, Session!Sides
<1>2. \/ Session!OnMount(shown, st) = <<a>> /\ shown = Session!Bootstrap["admin"]
      \/ Session!OnMount(shown, st) = <<b>> /\ shown = Session!Bootstrap["portal"]
      \/ Session!OnMount(shown, st) = <<c>>
      \/ Session!OnMount(shown, st) = <<>>
  BY DEF Session!OnMount
<1> HIDE DEF a, b, c
<1> QED
  BY <1>1, <1>2, Single, Empty

LEMMA LeftCalls ==
  ASSUME NEW cs, Queue(cs), \A c \in ToSet(cs) : WellFormed(c)
  PROVE  /\ Queue(Session!Left(cs))
         /\ \A c \in ToSet(Session!Left(cs)) : WellFormed(c) /\ ~c.here
<1> DEFINE t == Session!Left(cs)
<1>1. DOMAIN t = DOMAIN cs /\ t = [i \in DOMAIN cs |-> t[i]]
  BY DEF Session!Left
<1>2. \A i \in DOMAIN cs : t[i] = [cs[i] EXCEPT !.here = FALSE]
  BY DEF Session!Left
<1>3. \A i \in DOMAIN cs : WellFormed(t[i]) /\ ~t[i].here
  <2> TAKE i \in DOMAIN cs
  <2> DEFINE c == cs[i]
             d == [c EXCEPT !.here = FALSE]
  <2>1. WellFormed(c)
    BY DEF ToSet
  <2>2. t[i] = d
    BY <1>2
  <2> HIDE DEF c
  <2>3. WellFormed(d) /\ ~d.here
    BY <2>1 DEF WellFormed
  <2> QED
    BY <2>2, <2>3
<1> HIDE DEF t
<1>4. Queue(t) /\ ToSet(t) = {t[i] : i \in DOMAIN cs}
  BY <1>1, Mapped
<1> QED
  BY <1>3, <1>4 DEF t

\* What a step shows, and whether it was shown before.
Shows(r, st) == Session!Shown(Session!Redirected(r, st), st)
Stays(r, st) == Shows(r, st) = Session!Shown(route, store)

\* Whatever a step does with the calls that go on, they are as they should be if those
\* of a page that stays keep a cookie.
LEMMA BecomeCalls ==
  ASSUME NEW st, NEW r, NEW newUi, NEW cs, Session!Become(st, r, newUi, cs),
         Queue(cs), DOMAIN jar' = Session!Sides,
         \A c \in ToSet(cs) :
           /\ WellFormed(c)
           /\ c.op = "session" /\ c.here =>
                /\ Session!Shown(route, store) = Session!Bootstrap[c.side]
                /\ Stays(r, st) /\ c.cookie # None => jar'[c.side] # None
  PROVE  /\ store' = st
         /\ Queue(calls')
         /\ \A c \in ToSet(calls') : WellFormed(c) /\ Bootstraps(c)'
<1> DEFINE shown == Shows(r, st)
           mount == Session!OnMount(shown, st)
<1>1. /\ store' = st
      /\ Session!Shown(route, store)' = shown
      /\ \/ Stays(r, st) /\ calls' = cs \o <<>>
         \/ Stays(r, st) /\ calls' = cs \o mount
         \/ ~Stays(r, st) /\ calls' = Session!Left(cs) \o mount
  BY DEF Session!Become, Shows, Stays, Session!Shown
<1>2. /\ Queue(mount)
      /\ \A c \in ToSet(mount) :
           /\ WellFormed(c)
           /\ c.op = "session" => shown = Session!Bootstrap[c.side] /\ c.cookie = jar'[c.side]
  BY MountCalls
<1>3. /\ Queue(Session!Left(cs))
      /\ \A c \in ToSet(Session!Left(cs)) : WellFormed(c) /\ ~c.here
  BY LeftCalls
<1>4. Queue(<<>>) /\ ToSet(<<>>) = {}
  BY Empty
<1> HIDE DEF shown, mount
<1>5. \A c \in ToSet(mount) : WellFormed(c) /\ Bootstraps(c)'
  BY <1>1, <1>2 DEF Bootstraps, Session!Bootstrap
<1>6. CASE Stays(r, st)
  <2>1. Queue(calls') /\ ToSet(calls') \subseteq ToSet(cs) \cup ToSet(mount)
    <3>1. CASE calls' = cs \o <<>>
      <4>1. Queue(cs \o <<>>) /\ ToSet(cs \o <<>>) = ToSet(cs) \cup ToSet(<<>>)
        BY <1>4, Joined
      <4> QED
        BY <1>4, <3>1, <4>1
    <3>2. CASE calls' = cs \o mount
      <4>1. Queue(cs \o mount) /\ ToSet(cs \o mount) = ToSet(cs) \cup ToSet(mount)
        BY <1>2, Joined
      <4> QED
        BY <3>2, <4>1
    <3> QED
      BY <1>1, <1>6, <3>1, <3>2
  <2>2. \A c \in ToSet(cs) : WellFormed(c) /\ Bootstraps(c)'
    BY <1>1, <1>6 DEF Bootstraps, Stays, shown
  <2> QED
    BY <1>1, <1>5, <2>1, <2>2
<1>7. CASE ~Stays(r, st)
  <2>1. Queue(calls') /\ ToSet(calls') = ToSet(Session!Left(cs)) \cup ToSet(mount)
    BY <1>1, <1>2, <1>3, <1>7, Joined
  <2> QED
    BY <1>1, <1>3, <1>5, <2>1 DEF Bootstraps
<1> QED
  BY <1>6, <1>7

\* A step that drops no cookie, asks for no session but by what it shows, and puts an
\* identity only where a cookie is.
LEMMA BecomeInv ==
  ASSUME SessionIInv, NEW st, NEW r, NEW newUi, NEW cs, Session!Become(st, r, newUi, cs),
         Queue(cs),
         \A c \in ToSet(cs) : c \in ToSet(calls) \/ (WellFormed(c) /\ c.op # "session"),
         account' \in [Session!Sides -> Session!AccountRow],
         DOMAIN jar' = Session!Sides,
         \A s \in Session!Sides : jar[s] # None => jar'[s] # None,
         DOMAIN st = Session!Sides,
         \A s \in Session!Sides : st[s] # None => jar'[s] # None
  PROVE  SessionIInv'
<1>1. \A c \in ToSet(cs) :
        /\ WellFormed(c)
        /\ c.op = "session" /\ c.here =>
             /\ Session!Shown(route, store) = Session!Bootstrap[c.side]
             /\ Stays(r, st) /\ c.cookie # None => jar'[c.side] # None
  BY DEF SessionIInv, Bootstraps, WellFormed
<1>2. /\ store' = st
      /\ Queue(calls')
      /\ \A c \in ToSet(calls') : WellFormed(c) /\ Bootstraps(c)'
  BY <1>1, BecomeCalls
<1> QED
  BY <1>2 DEF SessionIInv, Session!StoreHasCookie

\* The user's steps.
LEMMA ActsInv ==
  ASSUME SessionIInv, NEW newUi, NEW new, Session!Acts(newUi, new),
         /\ DOMAIN new \cap {"cookie", "here"} = {} /\ {"op", "side"} \subseteq DOMAIN new
         /\ new.op # "session" /\ new.side \in Session!Sides
  PROVE  SessionIInv'
<1> DEFINE asked == Session!Ask(new)
<1>1. WellFormed(asked) /\ asked.op # "session"
  BY AskedCall DEF WellFormed
<1>2. PICK cs \in {calls \o <<asked>>, calls \o <<>>} : Session!Become(store, route, newUi, cs)
  BY DEF Session!Acts
<1> HIDE DEF asked
<1>3. Queue(cs) /\ \A c \in ToSet(cs) : c \in ToSet(calls) \/ c = asked
  <2>1. /\ Queue(<<asked>>) /\ ToSet(<<asked>>) = {asked}
        /\ Queue(<<>>) /\ ToSet(<<>>) = {}
    BY Single, Empty
  <2>2. Queue(calls)
    BY DEF SessionIInv
  <2>3. /\ Queue(calls \o <<asked>>) /\ ToSet(calls \o <<asked>>) = ToSet(calls) \cup {asked}
        /\ Queue(calls \o <<>>) /\ ToSet(calls \o <<>>) = ToSet(calls)
    BY <2>1, <2>2, Joined
  <2> QED
    BY <1>2, <2>3
<1>4. UNCHANGED <<account, jar>>
  BY DEF Session!Acts
<1> QED
  BY <1>1, <1>2, <1>3, <1>4, BecomeInv DEF SessionIInv, Session!StoreHasCookie

LEMMA RestCalls ==
  ASSUME SessionIInv, NEW i \in DOMAIN calls
  PROVE  /\ Queue(Session!Rest(i))
         /\ ToSet(Session!Rest(i)) \subseteq ToSet(calls)
         /\ calls[i] \in ToSet(calls)
         /\ WellFormed(calls[i]) /\ Bootstraps(calls[i])
<1>1. Session!Rest(i) = RemoveAt(calls, i)
  BY DEF Session!Rest, RemoveAt
<1> QED
  BY <1>1, Dropped DEF SessionIInv

LEMMA AccountKept ==
  ASSUME SessionIInv, NEW c
  PROVE  \A s \in Session!Sides :
           /\ account[s].version \in Nat
           /\ c.op \in Session!SettingsWrites =>
                [account EXCEPT !.admin = Session!Written(c)] \in [Session!Sides -> Session!AccountRow]
<1>1. \A s \in Session!Sides : account[s] \in Session!AccountRow
  BY DEF SessionIInv
<1>2. Session!Written(c) \in Session!AccountRow
  <2> DEFINE a == account.admin
             b == Session!Renewed("admin", a)
  <2>1. a \in Session!AccountRow
    BY <1>1 DEF Session!Sides
  <2>2. \/ Session!Written(c) = [b EXCEPT !.must = FALSE]
        \/ Session!Written(c) = [a EXCEPT !.waits = TRUE]
        \/ Session!Written(c) = [b EXCEPT !.twoFactor = TRUE, !.waits = FALSE]
        \/ Session!Written(c) = [b EXCEPT !.twoFactor = FALSE, !.waits = FALSE]
        \/ Session!Written(c) = a
    BY Zenon DEF Session!Written
  <2> HIDE DEF a
  <2>3. b \in Session!AccountRow
    BY <2>1 DEF Session!Renewed, Session!AccountRow
  <2> HIDE DEF b
  <2> QED
    BY <2>1, <2>2, <2>3 DEF Session!AccountRow
<1> QED
  BY <1>1, <1>2 DEF SessionIInv, Session!AccountRow, Session!Sides

\* The interceptor forgets, and puts nobody in.
LEMMA UnauthorizedForgets ==
  ASSUME SessionIInv, NEW c
  PROVE  /\ DOMAIN Session!Unauthorized(c) = Session!Sides
         /\ \A s \in Session!Sides : Session!Unauthorized(c)[s] # None => jar[s] # None
BY DEF SessionIInv, Session!Unauthorized, Session!StoreHasCookie, Session!Sides

LEMMA ReloadInv == ASSUME SessionIInv, NEW r, Session!Reload(r) PROVE SessionIInv'
<1> DEFINE shown == Session!Shown(route, store)'
<1>1. calls' = Session!OnMount(shown, store') /\ UNCHANGED <<account, jar>>
  BY DEF Session!Reload, Session!Shown
<1>2. /\ Queue(calls')
      /\ \A c \in ToSet(calls') :
           /\ WellFormed(c)
           /\ c.op = "session" => shown = Session!Bootstrap[c.side] /\ c.cookie = jar'[c.side]
  BY <1>1, MountCalls
<1>3. \A c \in ToSet(calls') : WellFormed(c) /\ Bootstraps(c)'
  BY <1>2 DEF Bootstraps, Session!Bootstrap
<1>4. store' = [s \in Session!Sides |-> None]
  BY DEF Session!Reload
<1> QED
  BY <1>1, <1>2, <1>3, <1>4 DEF SessionIInv, Session!StoreHasCookie

LEMMA LogoutInv ==
  ASSUME SessionIInv, NEW i \in DOMAIN calls, NEW ok, Session!LogoutLand(i, ok)
  PROVE  SessionIInv'
<1> DEFINE c == calls[i]
           st == [store EXCEPT ![c.side] = None]
           r == Session!LoginOf(c.side)
           cs == Session!Rest(i)
<1>1. /\ Session!Become(st, r, ui, cs)
      /\ jar' = [jar EXCEPT ![c.side] = None] \/ jar' = jar
      /\ account' = account
  BY DEF Session!LogoutLand
<1>2. c.side \in Session!Sides /\ Queue(cs) /\ ToSet(cs) \subseteq ToSet(calls)
  BY RestCalls DEF WellFormed
<1>3. r \in Session!LoginPages /\ Shows(r, st) = r
  BY <1>2 DEF Session!LoginOf, Session!LoginPages, Shows, Session!Shown, Session!Redirected
<1>4. \A d \in ToSet(cs) :
        /\ WellFormed(d)
        /\ d.op = "session" /\ d.here =>
             /\ Session!Shown(route, store) = Session!Bootstrap[d.side]
             /\ ~Stays(r, st)
  BY <1>2, <1>3
     DEF SessionIInv, WellFormed, Bootstraps, Stays, Session!Bootstrap, Session!LoginPages, Session!Sides
<1>5. DOMAIN jar' = Session!Sides /\ DOMAIN st = Session!Sides
  BY <1>1 DEF SessionIInv
<1>6. \A s \in Session!Sides : st[s] # None => jar'[s] # None
  BY <1>1, <1>2 DEF SessionIInv, Session!StoreHasCookie
<1> HIDE DEF st, r, cs
<1>7. /\ store' = st
      /\ Queue(calls')
      /\ \A d \in ToSet(calls') : WellFormed(d) /\ Bootstraps(d)'
  BY <1>1, <1>2, <1>4, <1>5, BecomeCalls
<1> QED
  BY <1>1, <1>5, <1>6, <1>7 DEF SessionIInv, Session!StoreHasCookie

LEMMA LoginInv ==
  ASSUME SessionIInv, NEW i \in DOMAIN calls, Session!LoginLand(i)
  PROVE  SessionIInv'
<1> DEFINE c == calls[i]
           known == IF c.from = "/login" THEN [s \in Session!Sides |-> None] ELSE store
           who == Session!Identity(c.side, account[c.side])
           st == [known EXCEPT ![c.side] = who]
           r == IF who.must THEN Session!SettingsOf(c.side) ELSE Session!HomeOf(c.side)
           newUi == [ui EXCEPT !.pending = None, !.busy = {}]
           cs == Session!Rest(i)
<1>1. /\ Session!Become(st, r, newUi, cs)
      /\ jar' = [jar EXCEPT ![c.side] = account[c.side].version]
      /\ account' = account
  BY DEF Session!LoginLand
<1>2. c.side \in Session!Sides /\ Queue(cs) /\ ToSet(cs) \subseteq ToSet(calls)
  BY RestCalls DEF WellFormed
<1>3. account[c.side].version # None
  BY <1>2, AccountKept, NoneAssumption
<1>4. /\ DOMAIN jar' = Session!Sides
      /\ \A s \in Session!Sides : jar[s] # None => jar'[s] # None
  BY <1>1, <1>3 DEF SessionIInv
<1>5. DOMAIN known = Session!Sides /\ \A s \in Session!Sides : known[s] # None => jar[s] # None
  BY DEF SessionIInv, Session!StoreHasCookie
<1>6. /\ DOMAIN st = Session!Sides
      /\ \A s \in Session!Sides : st[s] # None => jar'[s] # None
  <2> HIDE DEF known, who
  <2> QED
    BY <1>1, <1>2, <1>3, <1>5 DEF SessionIInv
<1> HIDE DEF st, r, newUi, cs
<1> QED
  BY <1>1, <1>2, <1>4, <1>6, BecomeInv DEF SessionIInv

LEMMA SessionLandInv ==
  ASSUME SessionIInv, NEW i \in DOMAIN calls, Session!SessionLand(i)
  PROVE  SessionIInv'
<1> DEFINE c == calls[i]
           who == Session!Identity(c.side, account[c.side])
           st == IF c.here THEN [store EXCEPT ![c.side] = who] ELSE store
           cs == Session!Rest(i)
<1>1. /\ Session!Become(st, route, ui, cs)
      /\ UNCHANGED <<account, jar>>
      /\ c.op = "session" /\ c.cookie # None
  BY DEF Session!SessionLand, Session!Is, Session!Valid
<1>2. c.side \in Session!Sides /\ Queue(cs) /\ ToSet(cs) \subseteq ToSet(calls)
  BY RestCalls DEF WellFormed
<1>3. c.here => jar[c.side] # None
  BY <1>1, RestCalls DEF Bootstraps
<1>4. /\ DOMAIN st = Session!Sides
      /\ \A s \in Session!Sides : st[s] # None => jar[s] # None
  <2> HIDE DEF who
  <2> QED
    BY <1>2, <1>3 DEF SessionIInv, Session!StoreHasCookie
<1> HIDE DEF st, cs
<1> QED
  BY <1>1, <1>2, <1>4, BecomeInv DEF SessionIInv

\* An answer that puts nobody in.
LEMMA ForgettingInv ==
  ASSUME SessionIInv, NEW st, NEW r, NEW newUi, NEW cs, Session!Become(st, r, newUi, cs),
         UNCHANGED <<account, jar>>, Queue(cs),
         \A c \in ToSet(cs) : c \in ToSet(calls) \/ (WellFormed(c) /\ c.op # "session"),
         DOMAIN st = Session!Sides,
         \A s \in Session!Sides : st[s] # None => jar[s] # None
  PROVE  SessionIInv'
BY BecomeInv DEF SessionIInv

LEMMA SessionFailedInv ==
  ASSUME SessionIInv, NEW i \in DOMAIN calls, Session!SessionFailed(i)
  PROVE  SessionIInv'
<1> DEFINE c == calls[i]
           cs == Session!Rest(i)
           r == IF c.here THEN Session!LoginOf(c.side) ELSE route
<1>1. PICK st \in {Session!Unauthorized(c), store} :
        Session!Become(IF c.here THEN [st EXCEPT ![c.side] = None] ELSE st, r, ui, cs)
  BY DEF Session!SessionFailed
<1>2. UNCHANGED <<account, jar>>
  BY DEF Session!SessionFailed
<1>3. Queue(cs) /\ ToSet(cs) \subseteq ToSet(calls)
  BY RestCalls
<1>4. DOMAIN st = Session!Sides /\ \A s \in Session!Sides : st[s] # None => jar[s] # None
  BY <1>1, UnauthorizedForgets DEF SessionIInv, Session!StoreHasCookie
<1> DEFINE new == IF c.here THEN [st EXCEPT ![c.side] = None] ELSE st
<1>5. DOMAIN new = Session!Sides /\ \A s \in Session!Sides : new[s] # None => jar[s] # None
  BY <1>4
<1>6. Session!Become(new, r, ui, cs)
  BY <1>1
<1> HIDE DEF new, cs, r
<1> QED
  BY <1>2, <1>3, <1>5, <1>6, ForgettingInv

LEMMA LoginFailedInv ==
  ASSUME SessionIInv, NEW i \in DOMAIN calls, NEW reply, Session!LoginFailed(i, reply)
  PROVE  SessionIInv'
<1> DEFINE c == calls[i]
           asked == Session!Ask(Session!Login("portal", "/login", c.who, None))
           again == [asked EXCEPT !.here = c.here]
<1>1. WellFormed(asked) /\ asked.op = "login"
  BY AskedCall DEF WellFormed, Session!Login, Session!Sides
<1>2. WellFormed(again) /\ again.op = "login"
  <2> HIDE DEF asked
  <2> QED
    BY <1>1 DEF WellFormed
<1> HIDE DEF again
<1>3. PICK cs \in {Append(Session!Rest(i), again), Session!Rest(i)} :
        \E newUi : Session!Become(store, route, newUi, cs)
  BY DEF Session!LoginFailed, again
<1>4. UNCHANGED <<account, jar>>
  BY DEF Session!LoginFailed
<1>5. Queue(cs) /\ \A d \in ToSet(cs) : d \in ToSet(calls) \/ d = again
  <2>1. Queue(Session!Rest(i)) /\ ToSet(Session!Rest(i)) \subseteq ToSet(calls)
    BY RestCalls
  <2>2. /\ Queue(Append(Session!Rest(i), again))
        /\ ToSet(Append(Session!Rest(i), again)) = ToSet(Session!Rest(i)) \cup {again}
    BY <2>1, Appended
  <2>3. CASE cs = Session!Rest(i)
    BY <2>1, <2>3
  <2>4. CASE cs = Append(Session!Rest(i), again)
    BY <2>1, <2>2, <2>4
  <2> QED
    BY <1>3, <2>3, <2>4
<1> QED
  BY <1>2, <1>3, <1>4, <1>5, ForgettingInv DEF SessionIInv, Session!StoreHasCookie

LEMMA PageLandInv ==
  ASSUME SessionIInv, NEW i \in DOMAIN calls, Session!PageLand(i)
  PROVE  SessionIInv'
<1> DEFINE c == calls[i]
           cs == Session!Rest(i)
           told == [store EXCEPT !.portal.must = TRUE]
<1> HIDE DEF told, cs
<1>1. PICK st \in {Session!Unauthorized(c), store, told} :
        /\ Session!Become(st, route, ui, cs)
        /\ st = store \/ st = Session!Unauthorized(c) \/ store.portal # None
  <2>1. CASE ~Session!Valid(c)
    BY <2>1 DEF Session!PageLand, cs
  <2>2. CASE /\ Session!Valid(c)
             /\ c.side = "portal" /\ account.portal.must /\ store.portal # None
    BY Zenon, <2>2 DEF Session!PageLand, told, cs
  <2>3. CASE /\ Session!Valid(c)
             /\ ~(c.side = "portal" /\ account.portal.must /\ store.portal # None)
    BY <2>3 DEF Session!PageLand, cs
  <2> QED
    BY <2>1, <2>2, <2>3
<1>2. UNCHANGED <<account, jar>>
  BY DEF Session!PageLand
<1>3. Queue(cs) /\ ToSet(cs) \subseteq ToSet(calls)
  BY RestCalls DEF cs
<1>4. store.portal # None =>
        DOMAIN told = Session!Sides /\ \A s \in Session!Sides : told[s] # None => jar[s] # None
  BY DEF told, SessionIInv, Session!StoreHasCookie, Session!Sides
<1>5. DOMAIN st = Session!Sides /\ \A s \in Session!Sides : st[s] # None => jar[s] # None
  BY <1>1, <1>4, UnauthorizedForgets DEF SessionIInv, Session!StoreHasCookie
<1> HIDE DEF cs
<1> QED
  BY <1>1, <1>2, <1>3, <1>5, ForgettingInv

LEMMA SettingsWriteInv ==
  ASSUME SessionIInv, NEW i \in DOMAIN calls, Session!SettingsWriteLand(i)
  PROVE  SessionIInv'
<1> DEFINE c == calls[i]
           asked == Session!Ask([op |-> "statusAgain", side |-> "admin"])
           again == [asked EXCEPT !.here = c.here]
           who == [c.admin EXCEPT !.must = FALSE]
           version == account'.admin.version
<1>1. WellFormed(asked) /\ asked.op = "statusAgain"
  BY AskedCall DEF WellFormed, Session!Sides
<1>2. WellFormed(again) /\ again.op = "statusAgain"
  <2> HIDE DEF asked
  <2> QED
    BY <1>1 DEF WellFormed
<1>3. /\ c.op \in Session!SettingsWrites
      /\ account' = [account EXCEPT !.admin = Session!Written(c)]
  BY DEF Session!SettingsWriteLand
<1>4. account' \in [Session!Sides -> Session!AccountRow]
  BY <1>3, AccountKept DEF Session!Sides
<1>5. version # None
  BY <1>4, NoneAssumption DEF Session!Sides, Session!AccountRow
<1>6. c.op = "password" => jar' = [jar EXCEPT !.admin = version]
  <2>1. c.op = "password" => account'.admin.version = account.admin.version + 1
    <3> SUFFICES ASSUME c.op = "password" PROVE account'.admin.version = account.admin.version + 1
      OBVIOUS
    <3> DEFINE a == account.admin
    <3>1. a \in Session!AccountRow /\ "admin" \in DOMAIN account
      BY DEF SessionIInv, Session!Sides
    <3>2. Session!Written(c) = [Session!Renewed("admin", a) EXCEPT !.must = FALSE]
      BY Zenon DEF Session!Written
    <3>3. account'.admin = Session!Written(c)
      BY <1>3, <3>1
    <3> HIDE DEF a
    <3>4. Session!Written(c).version = a.version + 1
      BY <3>1, <3>2 DEF Session!Renewed, Session!AccountRow
    <3> QED
      BY <3>3, <3>4 DEF a
  <2>2. account.admin.version \in Nat
    BY AccountKept DEF Session!Sides
  <2>3. c.op = "password" => account' # account
    BY <2>1, <2>2
  <2> QED
    BY <2>3 DEF Session!SettingsWriteLand
<1>7. jar' = jar \/ jar' = [jar EXCEPT !.admin = version]
  BY DEF Session!SettingsWriteLand
<1> DEFINE st == IF c.op = "password" THEN [store EXCEPT !.admin = who] ELSE store
<1> HIDE DEF again, version, who
<1>8. PICK cs \in {Append(Session!Rest(i), again), Session!Rest(i)} :
        \E newUi : Session!Become(st, route, newUi, cs)
  <2>1. CASE c.op \in {"enable", "disable"}
    BY <2>1 DEF Session!SettingsWriteLand, again, who
  <2>2. CASE c.op \notin {"enable", "disable"}
    BY <2>2 DEF Session!SettingsWriteLand, again, who
  <2> QED
    BY <2>1, <2>2
<1>9. Queue(cs) /\ \A d \in ToSet(cs) : d \in ToSet(calls) \/ d = again
  <2>1. Queue(Session!Rest(i)) /\ ToSet(Session!Rest(i)) \subseteq ToSet(calls)
    BY RestCalls
  <2>2. /\ Queue(Append(Session!Rest(i), again))
        /\ ToSet(Append(Session!Rest(i), again)) = ToSet(Session!Rest(i)) \cup {again}
    BY <2>1, Appended
  <2>3. CASE cs = Session!Rest(i)
    BY <2>1, <2>3
  <2>4. CASE cs = Append(Session!Rest(i), again)
    BY <2>1, <2>2, <2>4
  <2> QED
    BY <1>8, <2>3, <2>4
<1>10. /\ DOMAIN jar' = Session!Sides
       /\ \A s \in Session!Sides : jar[s] # None => jar'[s] # None
  BY <1>5, <1>7 DEF SessionIInv
<1>11. /\ DOMAIN st = Session!Sides
       /\ \A s \in Session!Sides : st[s] # None => jar'[s] # None
  BY <1>5, <1>6, <1>10 DEF SessionIInv, Session!StoreHasCookie, Session!Sides
<1> HIDE DEF st
<1> QED
  BY <1>2, <1>4, <1>8, <1>9, <1>10, <1>11, BecomeInv

LEMMA SettingsWriteFailedInv ==
  ASSUME SessionIInv, NEW i \in DOMAIN calls, NEW lost, Session!SettingsWriteFailed(i, lost)
  PROVE  SessionIInv'
<1> DEFINE c == calls[i]
           cs == Session!Rest(i)
<1>1. PICK st \in {Session!Unauthorized(c), store} : \E newUi : Session!Become(st, route, newUi, cs)
  <2>1. CASE Session!Valid(c)
    BY <2>1 DEF Session!SettingsWriteFailed
  <2>2. CASE ~Session!Valid(c)
    BY <2>2 DEF Session!SettingsWriteFailed
  <2> QED
    BY <2>1, <2>2
<1>2. Queue(cs) /\ ToSet(cs) \subseteq ToSet(calls)
  BY RestCalls
<1>3. DOMAIN st = Session!Sides /\ \A s \in Session!Sides : st[s] # None => jar[s] # None
  BY <1>1, UnauthorizedForgets DEF SessionIInv, Session!StoreHasCookie
<1>4. jar' = jar /\ account' \in [Session!Sides -> Session!AccountRow]
  <2>1. /\ c.op \in Session!SettingsWrites
        /\ account' = [account EXCEPT !.admin = Session!Written(c)] \/ account' = account
        /\ jar' = jar
    BY DEF Session!SettingsWriteFailed
  <2>2. "admin" \in Session!Sides
    BY DEF Session!Sides
  <2> QED
    BY <2>1, <2>2, AccountKept DEF SessionIInv
<1> HIDE DEF cs
<1> QED
  BY <1>1, <1>2, <1>3, <1>4, BecomeInv DEF SessionIInv

LEMMA StatusLandInv ==
  ASSUME SessionIInv, NEW i \in DOMAIN calls, NEW ok, Session!StatusLand(i, ok)
  PROVE  SessionIInv'
<1> DEFINE c == calls[i]
           cs == Session!Rest(i)
           told == [store EXCEPT !.admin.twoFactor = account.admin.twoFactor]
           asked == ok /\ Session!Valid(c) /\ (c.here \/ Session!Is(i, "statusAgain"))
<1> HIDE DEF told, cs
<1>1. PICK st \in {Session!Unauthorized(c), store, told} :
        /\ \E newUi : Session!Become(st, route, newUi, cs)
        /\ st = store \/ st = Session!Unauthorized(c) \/ store.admin # None
  <2>1. CASE ~Session!Valid(c)
    BY <2>1 DEF Session!StatusLand, cs
  <2>2. CASE Session!Valid(c) /\ asked /\ store.admin # None
    BY Zenon, <2>2 DEF Session!StatusLand, told, cs
  <2>3. CASE Session!Valid(c) /\ ~(asked /\ store.admin # None)
    BY <2>3 DEF Session!StatusLand, cs
  <2> QED
    BY <2>1, <2>2, <2>3
<1>2. UNCHANGED <<account, jar>>
  BY DEF Session!StatusLand
<1>3. Queue(cs) /\ ToSet(cs) \subseteq ToSet(calls)
  BY RestCalls DEF cs
<1>4. store.admin # None =>
        DOMAIN told = Session!Sides /\ \A s \in Session!Sides : told[s] # None => jar[s] # None
  BY DEF told, SessionIInv, Session!StoreHasCookie, Session!Sides
<1>5. DOMAIN st = Session!Sides /\ \A s \in Session!Sides : st[s] # None => jar[s] # None
  BY <1>1, <1>4, UnauthorizedForgets DEF SessionIInv, Session!StoreHasCookie
<1> QED
  BY <1>1, <1>2, <1>3, <1>5, ForgettingInv

LEMMA SubmitInv ==
  ASSUME SessionIInv,
         \/ \E who : Session!SubmitLogin(who)
         \/ \E right : Session!SubmitCode(right)
  PROVE  SessionIInv'
<1> DEFINE asked(who, code) == Session!Login(Session!SideOf(route), route, who, code)
<1>1. PICK who, code, newUi : Session!Acts(newUi, asked(who, code))
  BY DEF Session!SubmitLogin, Session!SubmitCode
<1>2. /\ DOMAIN asked(who, code) = {"op", "side", "from", "who", "code"}
      /\ asked(who, code).op = "login" /\ asked(who, code).side \in Session!Sides
  BY DEF Session!Login, Session!SideOf, Session!Sides
<1> HIDE DEF asked
<1> QED
  BY <1>1, <1>2, ActsInv

LEMMA ShellInv ==
  ASSUME SessionIInv,
         \/ \E side \in Session!Sides : Session!Logout(side) \/ Session!PageAsks(side)
         \/ Session!ChangePassword
         \/ \E op \in {"setup", "enable", "disable"} : Session!SetupOrEnable(op)
  PROVE  SessionIInv'
<1>1. ASSUME NEW side \in Session!Sides, Session!Logout(side) PROVE SessionIInv'
  BY <1>1, ActsInv DEF Session!Logout
<1>2. ASSUME NEW side \in Session!Sides, Session!PageAsks(side) PROVE SessionIInv'
  BY <1>2, ActsInv DEF Session!PageAsks
<1>3. CASE Session!ChangePassword
  BY <1>3, ActsInv DEF Session!ChangePassword, Session!Sides
<1>4. ASSUME NEW op \in {"setup", "enable", "disable"}, Session!SetupOrEnable(op)
      PROVE  SessionIInv'
  BY <1>4, ActsInv DEF Session!SetupOrEnable, Session!Sides
<1> QED
  BY <1>1, <1>2, <1>3, <1>4

LEMMA ElsewhereInv ==
  ASSUME SessionIInv, NEW side \in Session!Sides, NEW must \in BOOLEAN, Session!Elsewhere(side, must)
  PROVE  SessionIInv'
<1> DEFINE a == account[side]
           b == [Session!Renewed(side, a) EXCEPT !.must = must]
<1>1. a \in Session!AccountRow
  BY DEF SessionIInv
<1>2. account' = [account EXCEPT ![side] = b] /\ UNCHANGED <<jar, store, route, calls>>
  BY DEF Session!Elsewhere
<1> HIDE DEF a
<1>3. b \in Session!AccountRow
  <2>1. Session!Renewed(side, a) \in Session!AccountRow
    BY <1>1 DEF Session!Renewed, Session!AccountRow
  <2> QED
    BY <2>1 DEF Session!AccountRow
<1> HIDE DEF b
<1>4. account' \in [Session!Sides -> Session!AccountRow]
  BY <1>2, <1>3 DEF SessionIInv
<1> QED
  BY <1>2, <1>4 DEF SessionIInv, Session!StoreHasCookie, Bootstraps, Session!Shown

LEMMA SessionStep == SessionIInv /\ Session!SessionNext => SessionIInv'
<1> SUFFICES ASSUME SessionIInv, Session!SessionNext PROVE SessionIInv'
  OBVIOUS
<1>1. CASE Session!CancelCode
  BY <1>1 DEF Session!CancelCode, SessionIInv, Session!StoreHasCookie, Bootstraps, Session!Shown
<1>2. ASSUME NEW r, Session!Go(r) PROVE SessionIInv'
  BY <1>2, ForgettingInv DEF Session!Go, SessionIInv, Session!StoreHasCookie
<1>3. ASSUME NEW i \in DOMAIN calls, Session!Handled(i) PROVE SessionIInv'
  BY <1>3, SessionLandInv, SessionFailedInv, LoginInv, LoginFailedInv, LogoutInv, PageLandInv,
     SettingsWriteInv, SettingsWriteFailedInv, StatusLandInv DEF Session!Handled
<1> QED
  BY <1>1, <1>2, <1>3, SubmitInv, ShellInv, ElsewhereInv, ReloadInv DEF Session!SessionNext

LEMMA SessionStart == Session!SessionInit => SessionIInv
<1> SUFFICES ASSUME Session!SessionInit PROVE SessionIInv
  OBVIOUS
<1> DEFINE asked == [op |-> "session", side |-> Session!SideOf(route),
                     cookie |-> jar[Session!SideOf(route)], here |-> TRUE]
<1>1. /\ account \in [Session!Sides -> Session!AccountRow]
      /\ jar = [s \in Session!Sides |-> None]
      /\ store = [s \in Session!Sides |-> None]
  BY AccountsAssumption DEF Session!SessionInit
<1>2. \/ calls = <<>>
      \/ calls = <<asked>> /\ route \notin Session!LoginPages
  BY DEF Session!SessionInit
<1>3. Session!SideOf(route) \in Session!Sides
  BY DEF Session!SideOf, Session!Sides
<1>4. route \notin Session!LoginPages =>
        Session!Shown(route, store) = Session!Bootstrap[Session!SideOf(route)]
  BY <1>1, <1>3 DEF Session!Shown
<1>5. WellFormed(asked) /\ (route \notin Session!LoginPages => Bootstraps(asked))
  BY <1>1, <1>3, <1>4 DEF WellFormed, Bootstraps
<1> HIDE DEF asked
<1>6. Queue(calls) /\ \A c \in ToSet(calls) : WellFormed(c) /\ Bootstraps(c)
  BY <1>2, <1>5, Single, Empty
<1> QED
  BY <1>1, <1>6 DEF SessionIInv, Session!StoreHasCookie

LEMMA SessionInvariance == Spec => [](page = "session" => SessionIInv)
<1>1. Init => (page = "session" => SessionIInv)
  BY SessionStart DEF Init
<1>2. (page = "session" => SessionIInv) /\ [Next]_vars => (page = "session" => SessionIInv)'
  <2> SUFFICES ASSUME page = "session", SessionIInv, [Next]_vars, page' = "session" PROVE SessionIInv'
    BY DEF Next, vars, pageVars
  <2>1. CASE Session!SessionNext
    BY <2>1, SessionStep
  <2>2. CASE UNCHANGED vars
    BY <2>2 DEF vars, pageVars, SessionIInv, Session!StoreHasCookie, Bootstraps, Session!Shown
  <2> QED
    BY <2>1, <2>2 DEF Next, Acts
<1> QED
  BY <1>1, <1>2, PTL DEF Spec

\* No late answer brings an identity back: what a store of the console holds came with a
\* cookie that is still there, whatever waited when its owner signed out, reloaded or
\* went elsewhere (authStore.ts, mailboxAuthStore.ts).
THEOREM NobodyComesBack == Spec => []StoreHasCookie
<1>1. (page = "session" => SessionIInv) => StoreHasCookie
  BY DEF SessionIInv, StoreHasCookie
<1> QED
  BY <1>1, SessionInvariance, PTL

-----------------------------------------------------------------------------
(* MailDialog: the mail on top is the one clicked last.                     *)

\* What a call becomes when its answer comes too late.
Late(c) == [c EXCEPT !.late = TRUE]
LateOf(c, op) == IF c.op = op THEN Late(c) ELSE c

LEMMA SupersededCalls ==
  ASSUME NEW s, NEW op, Queue(s)
  PROVE  /\ Queue(Mails!Superseded(s, op))
         /\ ToSet(Mails!Superseded(s, op)) = {LateOf(c, op) : c \in ToSet(s)}
<1> DEFINE t == Mails!Superseded(s, op)
<1>1. t = [i \in DOMAIN s |-> LateOf(s[i], op)]
  BY Zenon DEF Mails!Superseded, LateOf, Late
<1> HIDE DEF t
<1>2. /\ DOMAIN t = DOMAIN s /\ t = [i \in DOMAIN s |-> t[i]]
      /\ \A i \in DOMAIN s : t[i] = LateOf(s[i], op)
  BY <1>1
<1>3. Queue(t) /\ ToSet(t) = {t[i] : i \in DOMAIN s}
  BY <1>2, Mapped
<1>4. ToSet(t) = {LateOf(c, op) : c \in ToSet(s)}
  BY <1>2, <1>3 DEF ToSet
<1> QED
  BY <1>3, <1>4 DEF t

LEMMA NumberedCalls ==
  ASSUME NEW s, NEW new, Queue(s)
  PROVE  /\ Queue(Numbered(s, new))
         /\ ToSet(Numbered(s, new))
              = {LateOf(c, new.op) : c \in ToSet(s)} \cup {Merged(new, [late |-> FALSE])}
<1> DEFINE t == Mails!Superseded(s, new.op)
           last == Merged(new, [late |-> FALSE])
<1>1. Numbered(s, new) = Append(t, last)
  BY Zenon DEF Numbered, Mails!Superseded
<1>2. Queue(t) /\ ToSet(t) = {LateOf(c, new.op) : c \in ToSet(s)}
  BY SupersededCalls
<1> HIDE DEF t, last
<1>3. Queue(Append(t, last)) /\ ToSet(Append(t, last)) = ToSet(t) \cup {last}
  BY <1>2, Appended
<1> QED
  BY <1>1, <1>2, <1>3 DEF last

LEMMA NumberedCall ==
  ASSUME NEW new, "op" \in DOMAIN new, "late" \notin DOMAIN new
  PROVE  LET c == Merged(new, [late |-> FALSE])
         IN /\ DOMAIN c = DOMAIN new \cup {"late"}
            /\ c.late = FALSE
            /\ \A f \in DOMAIN new : c[f] = new[f]
BY DEF Merged

\* Calls that are numbered say whether they are late.
Tagged(c, numbered) == "op" \in DOMAIN c /\ (c.op \in numbered => "late" \in DOMAIN c)

LEMMA LateCall ==
  ASSUME NEW numbered, NEW op \in numbered, NEW c, Tagged(c, numbered)
  PROVE  /\ Tagged(LateOf(c, op), numbered)
         /\ LateOf(c, op).op = c.op
         /\ c.op = op => LateOf(c, op).late
         /\ c.op # op => LateOf(c, op) = c
BY DEF Tagged, LateOf, Late

MailCalls == {"mails", "detail"}

\* An answer in time is about the mail that was clicked.
MailInTime(c) == c.op = "detail" => c.late \/ c.mail = ui.opened

MailsIInv ==
  /\ {"detail", "opened"} \subseteq DOMAIN ui
  /\ Queue(calls)
  /\ \A c \in ToSet(calls) : Tagged(c, MailCalls) /\ MailInTime(c)
  /\ ui.detail = ui.opened

\* A step that leaves the mail on top alone.
LEMMA MailKept ==
  ASSUME MailsIInv, DOMAIN ui' = DOMAIN ui, ui'.detail = ui.detail, ui'.opened = ui.opened,
         Queue(calls'),
         \A c \in ToSet(calls') :
           \/ c \in ToSet(calls)
           \/ \E d \in ToSet(calls), op \in MailCalls : c = LateOf(d, op)
           \/ Tagged(c, MailCalls) /\ c.op # "detail"
  PROVE  MailsIInv'
<1>1. ASSUME NEW d \in ToSet(calls), NEW op \in MailCalls
      PROVE  Tagged(LateOf(d, op), MailCalls) /\ MailInTime(LateOf(d, op))
  <2>1. Tagged(d, MailCalls) /\ MailInTime(d)
    BY DEF MailsIInv
  <2>2. /\ Tagged(LateOf(d, op), MailCalls)
        /\ LateOf(d, op).op = d.op
        /\ d.op = op => LateOf(d, op).late
        /\ d.op # op => LateOf(d, op) = d
    BY <2>1, LateCall
  <2> QED
    BY <2>1, <2>2 DEF MailInTime
<1>2. \A c \in ToSet(calls') : Tagged(c, MailCalls) /\ MailInTime(c)'
  BY <1>1 DEF MailsIInv, MailInTime
<1> QED
  BY <1>2 DEF MailsIInv

\* A step that shows another mail, or none.
LEMMA MailChanged ==
  ASSUME MailsIInv, DOMAIN ui' = DOMAIN ui, ui'.detail = ui'.opened,
         Queue(calls'),
         \A c \in ToSet(calls') :
           /\ Tagged(c, MailCalls)
           /\ c.op = "detail" => c.late \/ c.mail = ui'.opened
  PROVE  MailsIInv'
BY DEF MailsIInv, MailInTime

LEMMA LoadingKeeps ==
  ASSUME MailsIInv, NEW state, NEW w, NEW a, NEW f, Mails!Loading(state, w, a, f),
         DOMAIN state = DOMAIN ui, state.detail = ui.detail, state.opened = ui.opened,
         Queue(w), ToSet(w) \subseteq ToSet(calls)
  PROVE  MailsIInv'
<1> DEFINE new == [op |-> "mails", of |-> <<a, f>>]
           last == Merged(new, [late |-> FALSE])
<1>1. calls' = Numbered(w, new)
  BY Zenon DEF Mails!Loading, Mails!Numbered, Numbered, Mails!Merged, Merged
<1>2. DOMAIN ui' = DOMAIN ui /\ ui'.detail = ui.detail /\ ui'.opened = ui.opened
  BY DEF Mails!Loading, MailsIInv
<1>3. /\ Queue(calls')
      /\ ToSet(calls') = {LateOf(c, new.op) : c \in ToSet(w)} \cup {last}
  BY <1>1, NumberedCalls
<1>4. Tagged(last, MailCalls) /\ last.op # "detail"
  BY NumberedCall DEF Tagged
<1>5. new.op \in MailCalls
  BY DEF MailCalls
<1> HIDE DEF last, new
<1> QED
  BY <1>2, <1>3, <1>4, <1>5, MailKept

LEMMA LandedCalls ==
  ASSUME Queue(calls), NEW i \in DOMAIN calls, NEW new, Queue(new), Landed(i, new)
  PROVE  /\ Queue(calls')
         /\ calls[i] \in ToSet(calls)
         /\ ToSet(calls') \subseteq ToSet(calls) \cup ToSet(new)
         /\ ToSet(calls) \cup ToSet(new) \subseteq ToSet(calls') \cup {calls[i]}
<1>1. calls' = RemoveAt(calls, i) \o new
  BY DEF Landed, Rest, RemoveAt
<1> QED
  BY <1>1, Dropped, Joined

LEMMA MailsLanded ==
  ASSUME MailsIInv, NEW i \in DOMAIN calls, Mails!Landed(i, <<>>)
  PROVE  /\ Queue(calls') /\ ToSet(calls') \subseteq ToSet(calls)
         /\ Tagged(calls[i], MailCalls) /\ MailInTime(calls[i])
<1>1. Landed(i, <<>>)
  BY DEF Mails!Landed, Mails!Rest, Landed, Rest
<1> QED
  BY <1>1, LandedCalls, Empty DEF MailsIInv

LEMMA MailLandInv ==
  ASSUME MailsIInv, NEW i \in DOMAIN calls, NEW ok, calls[i].op = "detail", Mails!MailLand(i, ok)
  PROVE  MailsIInv'
<1> DEFINE c == calls[i]
<1>1. /\ Queue(calls') /\ ToSet(calls') \subseteq ToSet(calls)
      /\ MailInTime(c)
  BY MailsLanded DEF Mails!MailLand
<1>2. CASE c.late
  BY <1>1, <1>2, MailKept DEF Mails!MailLand
<1>3. CASE ~c.late
  <2>1. /\ ui' = [ui EXCEPT !.detail = IF ok THEN c.mail ELSE @, !.busy = Mails!Off("detail")]
        /\ c.mail = ui.opened
    BY <1>1, <1>3 DEF Mails!MailLand, MailInTime
  <2>2. DOMAIN ui' = DOMAIN ui /\ ui'.detail = ui.opened /\ ui'.opened = ui.opened
    BY <2>1 DEF MailsIInv
  <2> QED
    BY <1>1, <2>2, MailKept DEF MailsIInv
<1> QED
  BY <1>2, <1>3

LEMMA OpenMailInv == ASSUME MailsIInv, NEW id, Mails!OpenMail(id) PROVE MailsIInv'
<1> DEFINE mail == <<ui.account, ui.folder, id>>
           new == [op |-> "detail", mail |-> mail]
           last == Merged(new, [late |-> FALSE])
<1>1. calls' = Numbered(calls, new)
  BY Zenon DEF Mails!OpenMail, Mails!Numbered, Numbered, Mails!Merged, Merged
<1>2. ui' = [ui EXCEPT !.detail = mail, !.opened = mail, !.busy = Mails!On("detail")]
  BY DEF Mails!OpenMail
<1> HIDE DEF mail
<1>3. DOMAIN ui' = DOMAIN ui /\ ui'.detail = mail /\ ui'.opened = mail
  BY <1>2 DEF MailsIInv
<1>4. /\ Queue(calls')
      /\ ToSet(calls') = {LateOf(c, "detail") : c \in ToSet(calls)} \cup {last}
  BY <1>1, NumberedCalls DEF MailsIInv
<1>5. Tagged(last, MailCalls) /\ last.mail = mail
  BY NumberedCall DEF Tagged
<1>6. ASSUME NEW d \in ToSet(calls)
      PROVE  /\ Tagged(LateOf(d, "detail"), MailCalls)
             /\ LateOf(d, "detail").op = "detail" => LateOf(d, "detail").late
  BY LateCall DEF MailsIInv, MailCalls
<1> HIDE DEF last
<1>7. \A c \in ToSet(calls') :
        Tagged(c, MailCalls) /\ (c.op = "detail" => c.late \/ c.mail = mail)
  BY <1>4, <1>5, <1>6
<1> QED
  BY <1>3, <1>4, <1>7, MailChanged

\* Nothing is on top, and nothing that waits will be.
LEMMA ClosedInv ==
  ASSUME MailsIInv, DOMAIN ui' = DOMAIN ui, ui'.detail = ui'.opened, NEW w,
         Queue(w), calls' = Mails!Superseded(w, "detail"),
         \A c \in ToSet(w) : Tagged(c, MailCalls)
  PROVE  MailsIInv'
<1>1. /\ Queue(calls')
      /\ ToSet(calls') = {LateOf(c, "detail") : c \in ToSet(w)}
  BY SupersededCalls
<1>2. ASSUME NEW d \in ToSet(w)
      PROVE  /\ Tagged(LateOf(d, "detail"), MailCalls)
             /\ LateOf(d, "detail").op = "detail" => LateOf(d, "detail").late
  BY LateCall DEF MailCalls
<1> QED
  BY <1>1, <1>2, MailChanged

LEMMA CloseInv == ASSUME MailsIInv, Mails!CloseMail \/ Mails!CloseMails PROVE MailsIInv'
<1>1. CASE Mails!CloseMail
  <2>1. DOMAIN ui' = DOMAIN ui /\ ui'.detail = ui'.opened
    BY <1>1 DEF Mails!CloseMail, Mails!WithoutMail, MailsIInv
  <2> QED
    BY <1>1, <2>1, ClosedInv DEF Mails!CloseMail, MailsIInv
<1>2. CASE Mails!CloseMails
  <2> DEFINE w == Mails!Superseded(calls, "mails")
  <2>1. DOMAIN ui' = DOMAIN ui /\ ui'.detail = ui'.opened
    BY <1>2 DEF Mails!CloseMails, Mails!WithoutMail, MailsIInv
  <2>2. Queue(w) /\ ToSet(w) = {LateOf(c, "mails") : c \in ToSet(calls)}
    BY SupersededCalls DEF MailsIInv
  <2>3. \A c \in ToSet(w) : Tagged(c, MailCalls)
    BY <2>2, LateCall DEF MailsIInv, MailCalls
  <2>4. calls' = Mails!Superseded(w, "detail")
    BY <1>2 DEF Mails!CloseMails
  <2> HIDE DEF w
  <2> QED
    BY <2>1, <2>2, <2>3, <2>4, ClosedInv
<1> QED
  BY <1>1, <1>2

LEMMA AskedInv ==
  ASSUME MailsIInv, NEW new, Mails!Asked(<<new>>),
         DOMAIN ui' = DOMAIN ui, ui'.detail = ui.detail, ui'.opened = ui.opened,
         Tagged(new, MailCalls), new.op # "detail"
  PROVE  MailsIInv'
<1>1. calls' = calls \o <<new>>
  BY DEF Mails!Asked
<1>2. Queue(calls') /\ ToSet(calls') = ToSet(calls) \cup {new}
  BY <1>1, Single, Joined DEF MailsIInv
<1> QED
  BY <1>2, MailKept

LEMMA ToolbarInv ==
  ASSUME MailsIInv,
         \/ Mails!MailsToolbar \/ Mails!SendMail
         \/ \E id \in Rows, folder \in {"INBOX", "SENT"} : Mails!ViewMails(id, folder)
  PROVE  MailsIInv'
<1> USE DEF MailsIInv
<1>1. ASSUME NEW id, NEW folder, Mails!ViewMails(id, folder) PROVE MailsIInv'
  <2> DEFINE state == [ui EXCEPT !.open = TRUE, !.account = id, !.folder = folder]
  <2>1. DOMAIN state = DOMAIN ui /\ state.detail = ui.detail /\ state.opened = ui.opened
    OBVIOUS
  <2>2. Mails!Loading(state, calls, id, folder)
    BY <1>1 DEF Mails!ViewMails
  <2> HIDE DEF state
  <2> QED
    BY <2>1, <2>2, LoadingKeeps
<1>2. ASSUME NEW folder, Mails!ChangeFolder(folder) PROVE MailsIInv'
  BY <1>2, LoadingKeeps DEF Mails!ChangeFolder
<1>3. CASE Mails!RefreshMails
  BY <1>3, LoadingKeeps DEF Mails!RefreshMails
<1>4. ASSUME NEW op \in {"delete", "clear"}, NEW spinner, Mails!Change(op, spinner) PROVE MailsIInv'
  <2> DEFINE new == [op |-> op, of |-> <<ui.account, ui.folder>>, listed |-> ui.mails]
  <2>1. Mails!Asked(<<new>>) /\ Tagged(new, MailCalls) /\ new.op # "detail"
    BY <1>4 DEF Mails!Change, Tagged, MailCalls
  <2>2. DOMAIN ui' = DOMAIN ui /\ ui'.detail = ui.detail /\ ui'.opened = ui.opened
    BY <1>4 DEF Mails!Change
  <2> HIDE DEF new
  <2> QED
    BY <2>1, <2>2, AskedInv
<1>5. CASE Mails!SendMail
  <2> DEFINE new == [op |-> "send", id |-> ui.account]
  <2>1. Mails!Asked(<<new>>) /\ Tagged(new, MailCalls) /\ new.op # "detail"
    BY <1>5 DEF Mails!SendMail, Tagged, MailCalls
  <2>2. DOMAIN ui' = DOMAIN ui /\ ui'.detail = ui.detail /\ ui'.opened = ui.opened
    BY <1>5 DEF Mails!SendMail
  <2> HIDE DEF new
  <2> QED
    BY <2>1, <2>2, AskedInv
<1> QED
  BY <1>1, <1>2, <1>3, <1>4, <1>5 DEF Mails!MailsToolbar, Mails!DeleteMails, Mails!ClearMails

LEMMA AnswersInv ==
  ASSUME MailsIInv, NEW i \in DOMAIN calls, NEW ok,
         Mails!MailsLand(i, ok) \/ Mails!ChangeLand(i, ok) \/ Mails!SendMailLand(i, ok)
  PROVE  MailsIInv'
<1>1. CASE Mails!MailsLand(i, ok)
  <2>1. DOMAIN ui' = DOMAIN ui /\ ui'.detail = ui.detail /\ ui'.opened = ui.opened
    BY <1>1 DEF Mails!MailsLand, MailsIInv
  <2> QED
    BY <1>1, <2>1, MailsLanded, MailKept DEF Mails!MailsLand
<1>2. CASE Mails!ChangeLand(i, ok)
  <2>1. DOMAIN ui' = DOMAIN ui /\ ui'.detail = ui.detail /\ ui'.opened = ui.opened
    BY <1>2 DEF Mails!ChangeLand, MailsIInv
  <2> QED
    BY <1>2, <2>1, MailsLanded, MailKept DEF Mails!ChangeLand
<1>3. CASE Mails!SendMailLand(i, ok)
  <2> DEFINE sent == [ui EXCEPT !.busy = Mails!Off("send")]
             state == [sent EXCEPT !.compose = FALSE, !.folder = "SENT"]
             w == Mails!Rest(i)
  <2>1. /\ DOMAIN sent = DOMAIN ui /\ sent.detail = ui.detail /\ sent.opened = ui.opened
        /\ DOMAIN state = DOMAIN ui /\ state.detail = ui.detail /\ state.opened = ui.opened
    BY DEF MailsIInv
  <2>2. \/ Mails!Loading(state, w, calls[i].id, "SENT")
        \/ ui' = sent /\ Mails!Landed(i, <<>>)
    BY <1>3 DEF Mails!SendMailLand
  <2>3. w = RemoveAt(calls, i)
    BY DEF Mails!Rest, RemoveAt
  <2> HIDE DEF sent, state, w
  <2>4. Queue(w) /\ ToSet(w) \subseteq ToSet(calls)
    BY <2>3, Dropped DEF MailsIInv
  <2>5. CASE Mails!Loading(state, w, calls[i].id, "SENT")
    BY <2>1, <2>4, <2>5, LoadingKeeps
  <2>6. CASE ui' = sent /\ Mails!Landed(i, <<>>)
    BY <2>1, <2>6, MailsLanded, MailKept
  <2> QED
    BY <2>2, <2>5, <2>6
<1> QED
  BY <1>1, <1>2, <1>3

LEMMA MailsStep == MailsIInv /\ Mails!MailDialogNext => MailsIInv'
<1> SUFFICES ASSUME MailsIInv, Mails!MailDialogNext PROVE MailsIInv'
  OBVIOUS
<1>1. ASSUME NEW open, Mails!OpenCompose(open) PROVE MailsIInv'
  BY <1>1 DEF Mails!OpenCompose, MailsIInv, MailInTime
<1>2. ASSUME NEW some, Mails!TickMails(some) PROVE MailsIInv'
  BY <1>2 DEF Mails!TickMails, MailsIInv, MailInTime
<1>3. ASSUME NEW op, NEW i \in Mails!Waiting(op) PROVE i \in DOMAIN calls /\ calls[i].op = op
  BY DEF Mails!Waiting
<1>4. ASSUME NEW i \in Mails!Waiting("detail"), NEW ok, Mails!MailLand(i, ok) PROVE MailsIInv'
  BY <1>3, <1>4, MailLandInv
<1>5. ASSUME NEW op, NEW i \in Mails!Waiting(op), NEW ok,
             Mails!MailsLand(i, ok) \/ Mails!ChangeLand(i, ok) \/ Mails!SendMailLand(i, ok)
      PROVE  MailsIInv'
  BY <1>3, <1>5, AnswersInv
<1>6. ASSUME NEW i \in UNION {Mails!Waiting(op) : op \in {"delete", "clear"}}, NEW ok,
             Mails!ChangeLand(i, ok)
      PROVE  MailsIInv'
  BY <1>5, <1>6
<1> QED
  BY <1>1, <1>2, <1>4, <1>5, <1>6, ToolbarInv, OpenMailInv, CloseInv DEF Mails!MailDialogNext

LEMMA MailsInvariance == Spec => [](page = "mails" => MailsIInv)
<1>1. Init => (page = "mails" => MailsIInv)
  <2> SUFFICES ASSUME Init, page = "mails" PROVE MailsIInv
    OBVIOUS
  <2>1. Mails!MailsMount
    BY DEF Init, Mounted
  <2> QED
    BY <2>1, Empty DEF Mails!MailsMount, MailsIInv
<1>2. (page = "mails" => MailsIInv) /\ [Next]_vars => (page = "mails" => MailsIInv)'
  <2> SUFFICES ASSUME page = "mails", MailsIInv, [Next]_vars PROVE MailsIInv'
    BY DEF Next, vars, pageVars
  <2>1. CASE Mails!MailDialogNext
    BY <2>1, MailsStep
  <2>2. CASE UNCHANGED vars
    BY <2>2 DEF vars, pageVars, MailsIInv, MailInTime
  <2> QED
    BY <2>1, <2>2 DEF Next, Acts
<1> QED
  BY <1>1, <1>2, PTL DEF Spec

\* The mail on top is the one that was clicked last, whatever answers were overtaken by
\* a click, a close or a change of the folder (handleViewEmailDetail).
THEOREM ClickedMailIsShown == Spec => []MailOfClick
<1>1. (page = "mails" => MailsIInv) => MailOfClick
  BY DEF MailsIInv, MailOfClick, Mails!MailOfClick
<1> QED
  BY <1>1, MailsInvariance, PTL

-----------------------------------------------------------------------------
(* EmailsPage: the table shows the answer to its latest question.           *)

EmailCalls == {"emails"}

\* A question that is not late is the latest,
EmailInTime(c) == c.op = "emails" => c.late \/ c.ask = ui.asked

\* and it waits, or it was answered, or its answer was an error.
EmailAwaited == \E c \in ToSet(calls) : c.op = "emails" /\ ~c.late

EmailFields == {"asked", "shown", "failed"}

EmailsIInv ==
  /\ EmailFields \subseteq DOMAIN ui
  /\ Queue(calls)
  /\ \A c \in ToSet(calls) : Tagged(c, EmailCalls) /\ EmailInTime(c)
  /\ EmailAwaited \/ ui.failed \/ ui.shown = ui.asked

\* What of a state the invariant is about.
SameTable(state) == DOMAIN state = DOMAIN ui /\ \A f \in EmailFields : state[f] = ui[f]

\* A step that neither asks nor answers.
LEMMA TableKept ==
  ASSUME EmailsIInv, SameTable(ui'), Queue(calls'),
         ToSet(calls) \subseteq ToSet(calls') \cup {c \in ToSet(calls) : c.op # "emails" \/ c.late},
         \A c \in ToSet(calls') : c \in ToSet(calls) \/ (Tagged(c, EmailCalls) /\ c.op # "emails")
  PROVE  EmailsIInv'
<1>1. /\ ui'.asked = ui.asked /\ ui'.shown = ui.shown /\ (ui'.failed <=> ui.failed)
      /\ EmailFields \subseteq DOMAIN ui'
  BY DEF SameTable, EmailFields, EmailsIInv
<1>2. EmailAwaited => EmailAwaited'
  BY DEF EmailAwaited
<1>3. \A c \in ToSet(calls') : Tagged(c, EmailCalls) /\ EmailInTime(c)'
  BY <1>1 DEF EmailsIInv, EmailInTime
<1> QED
  BY <1>1, <1>2, <1>3 DEF EmailsIInv

\* fetchData, whatever was asked before.
LEMMA TableAsked ==
  ASSUME EmailsIInv, NEW w, NEW ask, NEW after, NEW new,
         EmailFields \subseteq DOMAIN ui', ui'.asked = ask,
         Queue(w), \A c \in ToSet(w) : Tagged(c, EmailCalls),
         \/ calls' = Emails!FetchEmails(w, ask, after)
         \/ /\ calls' = Append(Emails!FetchEmails(w, ask, after), new)
            /\ Tagged(new, EmailCalls) /\ new.op # "emails"
  PROVE  EmailsIInv'
<1> DEFINE call == [op |-> "emails", ask |-> ask, after |-> after]
           last == Merged(call, [late |-> FALSE])
           s == Emails!FetchEmails(w, ask, after)
<1>1. s = Numbered(w, call)
  BY Zenon DEF Emails!FetchEmails, Emails!Numbered, Numbered, Emails!Merged, Merged
<1>2. /\ Queue(s)
      /\ ToSet(s) = {LateOf(c, "emails") : c \in ToSet(w)} \cup {last}
  BY <1>1, NumberedCalls
<1>3. Tagged(last, EmailCalls) /\ last.op = "emails" /\ last.ask = ask /\ ~last.late
  <2>1. DOMAIN call = {"op", "ask", "after"} /\ call.op = "emails" /\ call.ask = ask
    OBVIOUS
  <2> HIDE DEF call
  <2>2. /\ DOMAIN last = DOMAIN call \cup {"late"} /\ last.late = FALSE
        /\ last.op = call.op /\ last.ask = call.ask
    BY <2>1, NumberedCall
  <2> HIDE DEF last
  <2> QED
    BY <2>1, <2>2 DEF Tagged
<1>4. ASSUME NEW d \in ToSet(w)
      PROVE  /\ Tagged(LateOf(d, "emails"), EmailCalls)
             /\ LateOf(d, "emails").op = "emails" => LateOf(d, "emails").late
  BY LateCall DEF EmailCalls
<1> HIDE DEF last, s
<1>5. /\ Queue(calls') /\ ToSet(s) \subseteq ToSet(calls')
      /\ \A c \in ToSet(calls') : c \in ToSet(s) \/ (Tagged(c, EmailCalls) /\ c.op # "emails")
  <2>1. Queue(Append(s, new)) /\ ToSet(Append(s, new)) = ToSet(s) \cup {new}
    BY <1>2, Appended
  <2>2. CASE calls' = s
    BY <1>2, <2>2
  <2>3. CASE calls' = Append(s, new) /\ Tagged(new, EmailCalls) /\ new.op # "emails"
    BY <2>1, <2>3
  <2> QED
    BY <2>2, <2>3 DEF s
<1>6. \A c \in ToSet(calls') : Tagged(c, EmailCalls) /\ EmailInTime(c)'
  BY <1>2, <1>3, <1>4, <1>5 DEF EmailInTime
<1>7. EmailAwaited'
  BY <1>2, <1>3, <1>5 DEF EmailAwaited
<1> QED
  BY <1>5, <1>6, <1>7 DEF EmailsIInv

LEMMA EmailsLanded ==
  ASSUME EmailsIInv, NEW i \in DOMAIN calls, NEW new, Queue(new), Emails!Landed(i, new)
  PROVE  /\ Queue(calls')
         /\ calls[i] \in ToSet(calls)
         /\ ToSet(calls') \subseteq ToSet(calls) \cup ToSet(new)
         /\ ToSet(calls) \cup ToSet(new) \subseteq ToSet(calls') \cup {calls[i]}
         /\ Tagged(calls[i], EmailCalls) /\ EmailInTime(calls[i])
<1>1. Landed(i, new)
  BY DEF Emails!Landed, Emails!Rest, Landed, Rest
<1> QED
  BY <1>1, LandedCalls DEF EmailsIInv

LEMMA FinishedSame ==
  ASSUME EmailsIInv, NEW after PROVE SameTable(Emails!Finished(ui, after))
BY DEF SameTable, Emails!Finished, EmailFields, EmailsIInv

\* An answer in time.
LEMMA TableAnswered ==
  ASSUME EmailsIInv, NEW i \in DOMAIN calls, calls[i].op = "emails", ~calls[i].late,
         Emails!Landed(i, <<>>), DOMAIN ui' = DOMAIN ui, ui'.asked = ui.asked,
         ui'.failed \/ ui'.shown = calls[i].ask
  PROVE  EmailsIInv'
<1>1. /\ Queue(calls') /\ ToSet(calls') \subseteq ToSet(calls)
      /\ EmailInTime(calls[i])
  BY EmailsLanded, Empty
<1>2. ui'.failed \/ ui'.shown = ui'.asked
  BY <1>1 DEF EmailInTime
<1>3. \A c \in ToSet(calls') : Tagged(c, EmailCalls) /\ EmailInTime(c)'
  BY <1>1 DEF EmailsIInv, EmailInTime
<1> QED
  BY <1>1, <1>2, <1>3 DEF EmailsIInv

LEMMA EmailsAnswerInv ==
  ASSUME EmailsIInv, NEW i \in DOMAIN calls, calls[i].op = "emails",
         Emails!EmailsFail(i) \/ \E rows : Emails!EmailsLand(i, rows)
  PROVE  EmailsIInv'
<1> DEFINE c == calls[i]
           ended == Emails!Finished(ui, c.after)
<1>1. SameTable(ended)
  BY FinishedSame
<1>2. Emails!Landed(i, <<>>)
  BY DEF Emails!EmailsFail, Emails!EmailsLand
<1>3. /\ Queue(calls') /\ c \in ToSet(calls) /\ ToSet(calls') \subseteq ToSet(calls)
      /\ ToSet(calls) \subseteq ToSet(calls') \cup {c}
  BY <1>2, EmailsLanded, Empty
<1>4. CASE c.late
  <2>1. ui' = ended
    BY <1>4 DEF Emails!EmailsFail, Emails!EmailsLand
  <2> HIDE DEF ended
  <2> QED
    BY <1>1, <1>3, <1>4, <2>1, TableKept
<1>5. CASE ~c.late
  <2> HIDE DEF ended
  <2>1. CASE Emails!EmailsFail(i)
    <3>1. ui' = [ended EXCEPT !.failed = TRUE, !.busy = @ \ {"emails"}]
      BY <1>5, <2>1 DEF Emails!EmailsFail, ended
    <3>2. DOMAIN ui' = DOMAIN ui /\ ui'.asked = ui.asked /\ ui'.failed
      BY <1>1, <3>1 DEF SameTable, EmailFields, EmailsIInv
    <3> QED
      BY <1>2, <1>5, <3>2, TableAnswered
  <2>2. ASSUME NEW rows, Emails!EmailsLand(i, rows) PROVE EmailsIInv'
    <3>1. ui' = [ended EXCEPT !.rows = rows, !.shown = c.ask, !.failed = FALSE, !.busy = @ \ {"emails"}]
      BY <1>5, <2>2 DEF Emails!EmailsLand, ended
    <3>2. DOMAIN ui' = DOMAIN ui /\ ui'.asked = ui.asked /\ ui'.shown = c.ask
      BY <1>1, <3>1 DEF SameTable, EmailFields, EmailsIInv
    <3> QED
      BY <1>2, <1>5, <3>2, TableAnswered
  <2> QED
    BY <2>1, <2>2
<1> QED
  BY <1>4, <1>5

LEMMA OtherAnswerInv ==
  ASSUME EmailsIInv, NEW i \in DOMAIN calls, calls[i].op # "emails", NEW new, Queue(new),
         Emails!Landed(i, new), SameTable(ui'),
         \A c \in ToSet(new) : Tagged(c, EmailCalls) /\ c.op # "emails"
  PROVE  EmailsIInv'
BY EmailsLanded, TableKept

LEMMA NothingAsked == ASSUME EmailsIInv, SameTable(ui'), UNCHANGED calls PROVE EmailsIInv'
BY TableKept DEF EmailsIInv

LEMMA AskingInv ==
  ASSUME EmailsIInv, NEW new, SameTable(new), Emails!Asking(new)
  PROVE  EmailsIInv'
<1> DEFINE ask == [n |-> new.n, filter |-> new.filter]
<1>1. CASE ui' = new /\ UNCHANGED calls
  BY <1>1, NothingAsked
<1>2. CASE /\ ui' = [new EXCEPT !.asked = ask, !.busy = @ \cup {"emails"}]
           /\ calls' = Emails!FetchEmails(calls, ask, None)
  <2> HIDE DEF ask
  <2>1. EmailFields \subseteq DOMAIN ui' /\ ui'.asked = ask
    BY <1>2 DEF SameTable, EmailFields, EmailsIInv
  <2> QED
    BY <1>2, <2>1, TableAsked DEF EmailsIInv
<1> QED
  BY <1>1, <1>2 DEF Emails!Asking

LEMMA FilterInv ==
  ASSUME EmailsIInv, Emails!EmailFilters \/ Emails!Debounced
  PROVE  EmailsIInv'
<1> USE DEF SameTable, EmailFields, EmailsIInv
<1>1. ASSUME NEW filter, Emails!FilterEmails(filter) PROVE EmailsIInv'
  <2> DEFINE new == [ui EXCEPT !.filter = filter, !.n = 1, !.typed = IF @ = ui.filter THEN filter ELSE @]
  <2>1. SameTable(new)
    OBVIOUS
  <2>2. Emails!Asking(new)
    BY <1>1 DEF Emails!FilterEmails
  <2> HIDE DEF new
  <2> QED
    BY <2>1, <2>2, AskingInv
<1>2. ASSUME NEW n, Emails!TurnEmails(n) PROVE EmailsIInv'
  <2> DEFINE new == [ui EXCEPT !.n = n]
  <2>1. SameTable(new)
    OBVIOUS
  <2>2. Emails!Asking(new)
    BY <1>2 DEF Emails!TurnEmails
  <2> HIDE DEF new
  <2> QED
    BY <2>1, <2>2, AskingInv
<1>3. CASE Emails!Debounced
  <2> DEFINE new == [ui EXCEPT !.filter = ui.typed]
  <2>1. SameTable(new)
    OBVIOUS
  <2>2. Emails!Asking(new)
    BY <1>3 DEF Emails!Debounced
  <2> HIDE DEF new
  <2> QED
    BY <2>1, <2>2, AskingInv
<1>4. ASSUME NEW keyword, Emails!TypeKeyword(keyword) PROVE EmailsIInv'
  <2>1. SameTable(ui') /\ UNCHANGED calls
    BY <1>4 DEF Emails!TypeKeyword
  <2> QED
    BY <2>1, NothingAsked
<1> QED
  BY <1>1, <1>2, <1>3, <1>4 DEF Emails!EmailFilters

\* Steps that ask for nothing.
LEMMA IdleInv ==
  ASSUME EmailsIInv,
         \/ \E dialog : Emails!OpenDialog(dialog)
         \/ Emails!CloseDialog
         \/ \E group : Emails!ChooseTarget(group)
         \/ \E id : Emails!TickEmail(id)
  PROVE  EmailsIInv'
<1>1. SameTable(ui') /\ UNCHANGED calls
  BY DEF Emails!OpenDialog, Emails!CloseDialog, Emails!ChooseTarget, Emails!TickEmail,
         SameTable, EmailFields, EmailsIInv
<1> QED
  BY <1>1, NothingAsked

LEMMA ToolAsked ==
  ASSUME EmailsIInv, NEW new, Emails!Asked(<<new>>), SameTable(ui'),
         Tagged(new, EmailCalls), new.op # "emails"
  PROVE  EmailsIInv'
<1>1. calls' = calls \o <<new>>
  BY DEF Emails!Asked
<1>2. Queue(calls') /\ ToSet(calls') = ToSet(calls) \cup {new}
  BY <1>1, Single, Joined DEF EmailsIInv
<1> QED
  BY <1>2, TableKept

LEMMA ToolInv ==
  ASSUME EmailsIInv, NEW op, NEW change, NEW spinner, op # "emails", Emails!Tool(op, change, spinner)
  PROVE  EmailsIInv'
<1> DEFINE new == Merged([op |-> op, ask |-> Emails!Question], change)
<1>1. Emails!Asked(<<new>>)
  BY DEF Emails!Tool, Emails!Merged, Merged
<1>2. Tagged(new, EmailCalls) /\ new.op # "emails"
  BY DEF Merged, Tagged, EmailCalls
<1>3. SameTable(ui')
  BY DEF Emails!Tool, SameTable, EmailFields, EmailsIInv
<1> HIDE DEF new
<1> QED
  BY <1>1, <1>2, <1>3, ToolAsked

LEMMA CheckInv == ASSUME EmailsIInv, NEW id, Emails!CheckEmail(id) PROVE EmailsIInv'
<1> DEFINE new == [op |-> "check", id |-> id, ask |-> Emails!Question]
<1>1. Emails!Asked(<<new>>)
  BY DEF Emails!CheckEmail
<1>2. Tagged(new, EmailCalls) /\ new.op # "emails"
  BY DEF Tagged, EmailCalls
<1>3. SameTable(ui')
  BY DEF Emails!CheckEmail, SameTable, EmailFields, EmailsIInv
<1> HIDE DEF new
<1> QED
  BY <1>1, <1>2, <1>3, ToolAsked

LEMMA GroupsCall == Tagged(Emails!Groups, EmailCalls) /\ Emails!Groups.op # "emails"
BY DEF Emails!Groups, Tagged, EmailCalls

LEMMA RemoveGroupInv ==
  ASSUME EmailsIInv, NEW groups, Emails!RemoveGroup(groups) PROVE EmailsIInv'
<1>1. CASE groups # 0
  <2>1. Emails!Tool("removeGroup", [left |-> groups - 1], {})
    BY <1>1 DEF Emails!RemoveGroup
  <2> QED
    BY <2>1, ToolInv
<1>2. CASE groups = 0
  <2>1. /\ ui' = [ui EXCEPT !.ticked = {}, !.asked = Emails!Question, !.busy = Emails!On("emails")]
        /\ calls' = Append(Emails!FetchEmails(calls, Emails!Question, None), Emails!Groups)
    BY <1>2 DEF Emails!RemoveGroup
  <2>2. EmailFields \subseteq DOMAIN ui' /\ ui'.asked = Emails!Question
    BY <2>1 DEF EmailFields, EmailsIInv
  <2> QED
    BY <2>1, <2>2, GroupsCall, TableAsked DEF EmailsIInv
<1> QED
  BY <1>1, <1>2

\* The tools that ask for one thing and wait.
LEMMA OneCallInv ==
  ASSUME EmailsIInv,
         \/ Emails!BatchFetch \/ Emails!BatchClear \/ Emails!BatchDeleteEmails
         \/ Emails!AssignGroup \/ Emails!SaveGroup \/ Emails!Export
         \/ \E id : Emails!DeleteEmail(id) \/ Emails!DeleteGroup(id)
  PROVE  EmailsIInv'
<1>1. \E op, change, spinner : op # "emails" /\ Emails!Tool(op, change, spinner)
  BY Zenon DEF Emails!BatchFetch, Emails!BatchClear, Emails!BatchDeleteEmails, Emails!AssignGroup,
               Emails!SaveGroup, Emails!Export, Emails!DeleteEmail, Emails!DeleteGroup
<1> QED
  BY <1>1, ToolInv

\* A tool that did its work asks for the table as it was at the click.
LEMMA ToolDoneInv ==
  ASSUME EmailsIInv, NEW i \in DOMAIN calls, NEW new, EmailFields \subseteq DOMAIN new,
         NEW after, NEW withGroups, Emails!ToolDone(i, new, after, withGroups)
  PROVE  EmailsIInv'
<1> DEFINE ask == calls[i].ask
           w == Emails!Rest(i)
           s == Emails!FetchEmails(w, ask, after)
<1>1. ui' = [new EXCEPT !.asked = ask, !.busy = @ \cup {"emails"}]
  BY DEF Emails!ToolDone
<1>2. calls' = s \/ calls' = Append(s, Emails!Groups)
  BY Zenon DEF Emails!ToolDone
<1>3. w = RemoveAt(calls, i)
  BY DEF Emails!Rest, RemoveAt
<1> HIDE DEF ask, w
<1>4. EmailFields \subseteq DOMAIN ui' /\ ui'.asked = ask
  BY <1>1 DEF EmailFields
<1>5. Queue(w) /\ \A c \in ToSet(w) : Tagged(c, EmailCalls)
  BY <1>3, Dropped DEF EmailsIInv
<1> QED
  BY <1>2, <1>4, <1>5, GroupsCall, TableAsked

LEMMA ToolLandInv ==
  ASSUME EmailsIInv, NEW i \in DOMAIN calls, calls[i].op # "emails", Emails!ToolLand(i)
  PROVE  EmailsIInv'
<1> DEFINE c == calls[i]
           closed == [Emails!Closed(Emails!Unticked, "assign") EXCEPT !.target = None]
<1>1. /\ EmailFields \subseteq DOMAIN ui
      /\ EmailFields \subseteq DOMAIN Emails!Unticked
      /\ EmailFields \subseteq DOMAIN Emails!Closed(ui, "clear")
      /\ EmailFields \subseteq DOMAIN closed
  BY DEF Emails!Unticked, Emails!Closed, EmailsIInv
<1> HIDE DEF closed
<1>2. ASSUME NEW new, NEW after, NEW withGroups, EmailFields \subseteq DOMAIN new,
             Emails!ToolDone(i, new, after, withGroups)
      PROVE  EmailsIInv'
  BY <1>2, ToolDoneInv
<1>3. CASE c.op = "removeGroup" /\ UNCHANGED ui /\ Emails!Landed(i, <<[c EXCEPT !.left = @ - 1]>>)
  <2> DEFINE next == [c EXCEPT !.left = @ - 1]
  <2>1. Tagged(c, EmailCalls)
    BY Dropped DEF EmailsIInv
  <2>2. Tagged(next, EmailCalls) /\ next.op # "emails"
    BY <1>3, <2>1 DEF Tagged, EmailCalls
  <2>3. Queue(<<next>>) /\ ToSet(<<next>>) = {next}
    BY Single
  <2>4. Emails!Landed(i, <<next>>)
    BY <1>3
  <2>5. SameTable(ui')
    BY <1>3 DEF SameTable
  <2> HIDE DEF next
  <2> QED
    BY <2>2, <2>3, <2>4, <2>5, OtherAnswerInv
<1>4. CASE ui' = Emails!Closed(ui, "group") /\ Emails!Landed(i, <<Emails!Groups>>)
  <2>1. SameTable(ui')
    BY <1>4 DEF Emails!Closed, SameTable, EmailFields, EmailsIInv
  <2> QED
    BY <1>4, <2>1, Single, GroupsCall, OtherAnswerInv
<1>5. CASE UNCHANGED ui /\ Emails!Landed(i, <<>>)
  BY <1>5, Empty, OtherAnswerInv DEF SameTable
<1> QED
  BY Zenon, <1>1, <1>2, <1>3, <1>4, <1>5 DEF Emails!ToolLand, closed

LEMMA QuietAnswerInv ==
  ASSUME EmailsIInv, NEW i \in DOMAIN calls, calls[i].op # "emails",
         Emails!ToolFail(i) \/ \E groups : Emails!GroupsLand(i, groups)
  PROVE  EmailsIInv'
<1>1. Emails!Landed(i, <<>>)
  BY DEF Emails!ToolFail, Emails!GroupsLand
<1>2. SameTable(ui')
  <2>1. CASE Emails!ToolFail(i)
    BY <2>1, FinishedSame DEF Emails!ToolFail
  <2>2. ASSUME NEW groups, Emails!GroupsLand(i, groups) PROVE SameTable(ui')
    BY <2>2 DEF Emails!GroupsLand, SameTable, EmailFields, EmailsIInv
  <2> QED
    BY <2>1, <2>2
<1> QED
  BY <1>1, <1>2, Empty, OtherAnswerInv

LEMMA EmailsStep == EmailsIInv /\ Emails!EmailsNext => EmailsIInv'
<1> SUFFICES ASSUME EmailsIInv, Emails!EmailsNext PROVE EmailsIInv'
  OBVIOUS
<1>1. CASE Emails!EmailsToolbar
  BY <1>1, OneCallInv, IdleInv DEF Emails!EmailsToolbar
<1>2. CASE Emails!EmailsTab
  <2>1. CASE Emails!TickedEmails
    BY <2>1, OneCallInv, IdleInv, RemoveGroupInv DEF Emails!TickedEmails
  <2>2. ASSUME NEW id, Emails!EmailRow(id) PROVE EmailsIInv'
    BY <2>2, OneCallInv, IdleInv, CheckInv DEF Emails!EmailRow
  <2> QED
    BY <1>2, <2>1, <2>2, FilterInv DEF Emails!EmailsTab
<1>3. CASE Emails!GroupsTab
  BY <1>3, OneCallInv, IdleInv DEF Emails!GroupsTab, Emails!EditGroup
<1>4. CASE Emails!EmailDialogs
  BY <1>4, OneCallInv DEF Emails!EmailDialogs
<1>5. ASSUME NEW op, NEW i \in Emails!Waiting(op) PROVE i \in DOMAIN calls /\ calls[i].op = op
  BY DEF Emails!Waiting
<1>6. ASSUME NEW i \in Emails!Waiting("emails"),
             Emails!EmailsFail(i) \/ \E rows : Emails!EmailsLand(i, rows)
      PROVE  EmailsIInv'
  BY <1>5, <1>6, EmailsAnswerInv
<1>7. ASSUME NEW i \in Emails!Waiting("groups"), NEW groups, Emails!GroupsLand(i, groups)
      PROVE  EmailsIInv'
  BY <1>5, <1>7, QuietAnswerInv
<1>8. ASSUME NEW i \in UNION {Emails!Waiting(op) : op \in Emails!Tools},
             Emails!ToolLand(i) \/ Emails!ToolFail(i)
      PROVE  EmailsIInv'
  <2>1. i \in DOMAIN calls /\ calls[i].op # "emails"
    BY <1>5 DEF Emails!Tools
  <2> QED
    BY <1>8, <2>1, ToolLandInv, QuietAnswerInv
<1> QED
  BY <1>1, <1>2, <1>3, <1>4, <1>6, <1>7, <1>8, FilterInv, IdleInv DEF Emails!EmailsNext

\* A page begins with its first question.
LEMMA EmailsStart == Emails!EmailsMount => EmailsIInv
<1> SUFFICES ASSUME Emails!EmailsMount PROVE EmailsIInv
  OBVIOUS
<1> DEFINE a == [op |-> "groups"]
           b == [op |-> "emails", ask |-> ui.asked, after |-> None, late |-> FALSE]
<1>1. EmailFields \subseteq DOMAIN ui /\ calls = <<a, b>>
  BY DEF Emails!EmailsMount, EmailFields
<1>2. /\ Tagged(a, EmailCalls) /\ EmailInTime(a)
      /\ Tagged(b, EmailCalls) /\ EmailInTime(b) /\ b.op = "emails" /\ ~b.late
  BY DEF Tagged, EmailCalls, EmailInTime
<1> HIDE DEF a, b
<1>3. calls \in Seq({a, b}) /\ Len(calls) = 2 /\ calls[2] = b
  BY <1>1
<1>4. Queue(calls) /\ ToSet(calls) \subseteq {a, b} /\ DOMAIN calls = 1..2
  BY <1>3, IsQueue
<1>5. b \in ToSet(calls)
  BY <1>3, <1>4 DEF ToSet
<1> QED
  BY <1>1, <1>2, <1>4, <1>5 DEF EmailsIInv, EmailAwaited

LEMMA EmailsInvariance == Spec => [](page = "emails" => EmailsIInv)
<1>1. Init => (page = "emails" => EmailsIInv)
  BY EmailsStart DEF Init, Mounted
<1>2. (page = "emails" => EmailsIInv) /\ [Next]_vars => (page = "emails" => EmailsIInv)'
  <2> SUFFICES ASSUME page = "emails", EmailsIInv, [Next]_vars PROVE EmailsIInv'
    BY DEF Next, vars, pageVars
  <2>1. CASE Emails!EmailsNext
    BY <2>1, EmailsStep
  <2>2. CASE UNCHANGED vars
    BY <2>2 DEF vars, pageVars, EmailsIInv, EmailInTime, EmailAwaited
  <2> QED
    BY <2>1, <2>2 DEF Next, Acts
<1> QED
  BY <1>1, <1>2, PTL DEF Spec

\* The table shows the answer to the question asked last once no question waits,
\* whatever landed late and whatever tool asked in between (the numbers of fetchData).
THEOREM LatestAnswerIsShown == Spec => []LatestShown
<1>1. (page = "emails" => EmailsIInv) => LatestShown
  <2> SUFFICES ASSUME page = "emails", EmailsIInv, Waiting("emails") = {}, ~ui.failed
               PROVE  ui.shown = ui.asked
    BY DEF LatestShown
  <2>1. ~EmailAwaited
    BY DEF EmailAwaited, Waiting, ToSet
  <2> QED
    BY <2>1 DEF EmailsIInv
<1> QED
  BY <1>1, EmailsInvariance, PTL

-----------------------------------------------------------------------------
(* ImportWorkflow: no import asks for a mailbox twice.                      *)

Distinct(rows) == \A row, other \in rows : row.raw.email = other.raw.email => row = other

\* An import's rows were chosen at its click.
ImportsOnce(c) == c.op = "import" => Distinct(c.rows)

ImportIInv ==
  /\ Queue(calls)
  /\ \A c \in ToSet(calls) : ImportsOnce(c)

\* Of two lines that pass, whatever stands on the others, the later would be a duplicate.
LEMMA ReadyDistinct == Distinct(Imports!ReadyRows)
<1> DEFINE content == ui.content
           rows == Imports!PreviewRows
<1>1. CASE ~ui.separated
  <2>1. rows = <<>>
    BY <1>1 DEF Imports!PreviewRows, Imports!Preview
  <2>2. Imports!ReadyRows = {}
    BY <2>1, Empty DEF Imports!ReadyRows, Imports!ToSet, ToSet
  <2> QED
    BY <2>2 DEF Distinct
<1>2. CASE ui.separated
  <2>1. ASSUME NEW row \in Imports!ReadyRows
        PROVE  \E n \in 1..Len(content) :
                 /\ row.line = n /\ row.raw = content[n]
                 /\ row = rows[n]
                 /\ ~Imports!Duplicate(content, n)
                 /\ Imports!SeverityOf(content[n]) # "error"
    <3>1. PICK n \in 1..Len(content) : row = rows[n]
      BY <1>2 DEF Imports!ReadyRows, Imports!ToSet, Imports!PreviewRows, Imports!Preview
    <3>2. rows[n] = [line |-> n, raw |-> content[n],
                     severity |-> IF Imports!Duplicate(content, n) THEN "error"
                                  ELSE Imports!SeverityOf(content[n])]
      BY <1>2, <3>1 DEF Imports!PreviewRows, Imports!Preview
    <3>3. row.severity # "error"
      BY DEF Imports!ReadyRows, Imports!Importable
    <3> QED
      BY <3>1, <3>2, <3>3
  <2>2. ASSUME NEW row \in Imports!ReadyRows, NEW other \in Imports!ReadyRows,
               row.raw.email = other.raw.email
        PROVE  row = other
    <3>1. PICK n \in 1..Len(content) :
            row.raw = content[n] /\ row = rows[n] /\ ~Imports!Duplicate(content, n)
            /\ Imports!SeverityOf(content[n]) # "error"
      BY <2>1
    <3>2. PICK m \in 1..Len(content) :
            other.raw = content[m] /\ other = rows[m] /\ ~Imports!Duplicate(content, m)
            /\ Imports!SeverityOf(content[m]) # "error"
      BY <2>1
    <3>3. n \notin 1..(m - 1) /\ m \notin 1..(n - 1)
      BY <2>2, <3>1, <3>2 DEF Imports!Duplicate
    <3>4. n = m
      BY <3>3
    <3> QED
      BY <3>1, <3>2, <3>4
  <2> QED
    BY <2>2 DEF Distinct
<1> QED
  BY <1>1, <1>2

\* A step that imports nothing.
LEMMA NoImport ==
  ASSUME ImportIInv, Queue(calls'),
         \A c \in ToSet(calls') : c \in ToSet(calls) \/ c.op # "import"
  PROVE  ImportIInv'
BY DEF ImportIInv, ImportsOnce

LEMMA ImportAsked ==
  ASSUME ImportIInv, NEW new, Imports!Asked(<<new>>), ImportsOnce(new)
  PROVE  ImportIInv'
<1>1. calls' = calls \o <<new>>
  BY DEF Imports!Asked
<1>2. Queue(calls') /\ ToSet(calls') = ToSet(calls) \cup {new}
  BY <1>1, Single, Joined DEF ImportIInv
<1> QED
  BY <1>2 DEF ImportIInv, ImportsOnce

LEMMA ImportAnswered ==
  ASSUME ImportIInv, NEW i \in DOMAIN calls, NEW new, Queue(new), Imports!Landed(i, new),
         \A c \in ToSet(new) : c.op # "import"
  PROVE  ImportIInv'
<1>1. Landed(i, new)
  BY DEF Imports!Landed, Imports!Rest, Landed, Rest
<1>2. Queue(calls') /\ ToSet(calls') \subseteq ToSet(calls) \cup ToSet(new)
  BY <1>1, LandedCalls DEF ImportIInv
<1> QED
  BY <1>2, NoImport

LEMMA ImportStep == ImportIInv /\ Imports!ImportNext => ImportIInv'
<1> SUFFICES ASSUME ImportIInv, Imports!ImportNext PROVE ImportIInv'
  OBVIOUS
<1>1. CASE UNCHANGED calls
  BY <1>1, NoImport DEF ImportIInv
<1>2. CASE Imports!UploadFile
  <2> DEFINE new == [op |-> "file"]
  <2>1. Imports!Asked(<<new>>) /\ ImportsOnce(new)
    BY <1>2 DEF Imports!UploadFile, ImportsOnce
  <2> QED
    BY <2>1, ImportAsked
<1>3. CASE Imports!Import
  <2> DEFINE new == [op |-> "import", rows |-> Imports!ReadyRows, preview |-> Imports!PreviewRows]
  <2>1. Imports!Asked(<<new>>)
    BY <1>3 DEF Imports!Import
  <2>2. new.rows = Imports!ReadyRows
    OBVIOUS
  <2>3. ImportsOnce(new)
    BY <2>2, ReadyDistinct DEF ImportsOnce
  <2> HIDE DEF new
  <2> QED
    BY <2>1, <2>3, ImportAsked
<1>4. ASSUME NEW i \in DOMAIN calls, Imports!Landed(i, <<>>) PROVE ImportIInv'
  BY <1>4, Empty, ImportAnswered
<1>5. ASSUME NEW i \in DOMAIN calls, NEW rejected, Imports!ImportLand(i, rejected) PROVE ImportIInv'
  <2> DEFINE reload == [op |-> "reload"]
  <2>1. Imports!Landed(i, <<reload>>)
    BY <1>5 DEF Imports!ImportLand
  <2>2. reload.op # "import"
    OBVIOUS
  <2> HIDE DEF reload
  <2> QED
    BY <2>1, <2>2, Single, ImportAnswered
<1>6. ASSUME NEW op, NEW i \in Imports!Waiting(op) PROVE i \in DOMAIN calls
  BY DEF Imports!Waiting
<1> QED
  BY <1>1, <1>2, <1>3, <1>4, <1>5, <1>6
     DEF Imports!ImportNext, Imports!InputStep, Imports!OpenImport, Imports!CloseImport,
         Imports!TypeLines, Imports!TypeSeparator, Imports!GeneratePreview, Imports!Back,
         Imports!FileLand, Imports!FileFail, Imports!ImportFail, Imports!ImportReloaded,
         Imports!EditFailedRows

LEMMA ImportInvariance == Spec => [](page = "import" => ImportIInv)
<1>1. Init => (page = "import" => ImportIInv)
  <2> SUFFICES ASSUME Init, page = "import" PROVE ImportIInv
    OBVIOUS
  <2>1. calls = <<>>
    BY DEF Init, Mounted, Imports!ImportMount
  <2> QED
    BY <2>1, Empty DEF ImportIInv
<1>2. (page = "import" => ImportIInv) /\ [Next]_vars => (page = "import" => ImportIInv)'
  <2> SUFFICES ASSUME page = "import", ImportIInv, [Next]_vars PROVE ImportIInv'
    BY DEF Next, vars, pageVars
  <2>1. CASE Imports!ImportNext
    BY <2>1, ImportStep
  <2>2. CASE UNCHANGED vars
    BY <2>2, NoImport DEF vars, pageVars, ImportIInv
  <2> QED
    BY <2>1, <2>2 DEF Next, Acts
<1> QED
  BY <1>1, <1>2, PTL DEF Spec

\* No import names a mailbox twice, whatever lines were typed, read or edited
\* (buildImportPreview): the server would overwrite the first by the second.
THEOREM MailboxIsImportedOnce == Spec => []MailboxOnce
<1>1. (page = "import" => ImportIInv) => MailboxOnce
  <2> SUFFICES ASSUME page = "import", ImportIInv, NEW i \in Imports!Waiting("import")
               PROVE  Distinct(calls[i].rows)
    BY DEF MailboxOnce, Imports!MailboxOnce, Distinct
  <2>1. calls[i] \in ToSet(calls) /\ calls[i].op = "import"
    BY DEF Imports!Waiting, ToSet
  <2> QED
    BY <2>1 DEF ImportIInv, ImportsOnce
<1> QED
  BY <1>1, ImportInvariance, PTL

-----------------------------------------------------------------------------
(* Nothing spins for ever: every spinner is owed by a call that waits.      *)

\* The fields that hold the row whose button turns, and those a page has.
SlotNames == {"requeueing", "deleting", "deletingConfig", "toggling", "deletingAlias"}
SlotsOf(p) ==
  CASE p = "jobs" -> {"requeueing"}
    [] p \in {"messages", "logs"} -> {"deleting"}
    [] p = "sending" -> {"deleting", "deletingConfig"}
    [] p = "domains" -> {"deleting", "toggling", "deletingAlias"}
    [] OTHER -> {}

\* What turns on a page. The list of an inbox without a mailbox does not count.
Spinning(p, state) ==
  (state.busy \ IF p = "inbox" /\ state.selected = None THEN {"list"} ELSE {})
    \cup {slot \in SlotsOf(p) : state[slot] # None}

\* What a call of a page has still to end, itself or by what its continuation asks.
JobsEnds(c) ==
  CASE c.op = "jobs" -> {"jobs"} \cup (IF c.then = None THEN {} ELSE {"requeueing"})
    [] c.op = "job" -> {"job"}
    [] c.op = "jobAgain" -> {"job", "requeueing"}
    [] c.op = "requeue" -> {"requeueing"}
    [] OTHER -> {}

RowsThen(p, then) ==
  CASE then = "row" -> {"deleting"}
    [] then = "batch" -> {"batch"}
    [] then = "config" /\ p = "sending" -> {"deletingConfig"}
    [] then = "send" /\ p = "sending" -> {"send"}
    [] OTHER -> {}
RowsEnds(p, c) ==
  CASE c.op = "rows" -> {"rows"} \cup RowsThen(p, c.then)
    [] c.op = "deleteRows" -> RowsThen("logs", c.then)
    [] c.op = "deleteConfig" -> {"deletingConfig"}
    [] c.op = "send" -> {"send"}
    [] OTHER -> {}

AdminsEnds(c) == IF c.op = "admins" THEN {"admins"} ELSE {}

UsersEnds(c) ==
  CASE c.op = "users" -> {"users", c.then}
    [] c.op \in {"member", "saveUser"} -> {c.op}
    [] OTHER -> {}

DomainsThen(then) ==
  ({then} \ SlotsOf("domains"))
    \cup (CASE then = "delete" -> {"deleting"}
            [] then = "toggle" -> {"toggling"}
            [] then = "deleteAlias" -> {"deletingAlias"}
            [] OTHER -> {})
DomainsEnds(c) ==
  CASE c.op \in Domains!ConfigWrites -> DomainsThen(Domains!Spinner(c.op))
    [] c.op \in Domains!AliasEnds -> DomainsThen(c.op)
    [] c.op \in {"domains", "config"} -> {c.op} \cup DomainsThen(c.then)
    [] OTHER -> DomainsThen(c.then)

MailboxesEnds(c) == {c.then} \cup (IF c.op = "mailboxes" THEN {"mailboxes"} ELSE {})

KeysEnds(c) ==
  CASE c.op = "keys" -> IF c.late THEN {} ELSE {"keys"}
    [] c.op = "key" -> {"detail"}
    [] c.op = "stats" -> {"pool"}
    [] c.op = "assigned" -> {"scope"}
    [] c.op \in {"assign", "statsLast"} -> {"saveScope"}
    [] OTHER -> {}

EmailsEnds(c) ==
  CASE c.op = "emails" -> ({c.after} \ Rows) \cup (IF c.late THEN {} ELSE {"emails"})
    [] c.op \in {"batchFetch", "batchClear"} -> {c.op}
    [] OTHER -> {}

AccountEnds(c) ==
  LET then == IF c.then THEN {Account!Spinner("start", c.provider)} ELSE {} IN
  CASE c.op = "account" -> {"detail"}
    [] c.op = "unlock" -> {"reveal"}
    [] c.op = "reveal" -> {c.after}
    [] c.op \in {"parse", "save"} -> {Account!Spinner(c.op, c.provider)} \cup then
    [] c.op = "statuses" -> {Account!Spinner("save", c.provider)} \cup then
    [] c.op = "start" -> {Account!Spinner("start", c.provider)}
    [] OTHER -> {}

MailsEnds(c) ==
  CASE c.op \in MailCalls -> IF c.late THEN {} ELSE {c.op}
    [] c.op \in {"delete", "send"} -> {c.op}
    [] OTHER -> {}

ImportEnds(c) == IF c.op \in {"import", "reload"} THEN {"import"} ELSE {}

InboxEnds(c) ==
  CASE c.op \in {"inbox", "sent"} -> {"list"}
    [] c.op = "mail" -> {"detail"}
    [] c.op = "sendMail" -> {"send"}
    [] OTHER -> {}

SettingsEnds(c) ==
  CASE c.op = "session" -> IF c.then = None THEN {} ELSE {c.then}
    [] c.op \in {"boxes", "jobs"} -> {c.then}
    [] c.op = "status" -> {"status", c.then}
    [] c.op \in {"password", "forward"} -> {c.op}
    [] c.op \in Portal!TwoFactorOps -> {"twoFactor"}
    [] OTHER -> {}

OverviewEnds(c) == IF c.op = "load" THEN {"load"} ELSE {}

\* Of the tab only what the page that is shown asked for.
SessionEnds(c) ==
  IF ~c.here THEN {}
  ELSE CASE c.op \in {"session", "status", "password"} -> {c.op}
         [] c.op \in {"statusAgain", "setup", "enable", "disable"} -> {"twoFactor"}
         [] c.op = "login" -> IF c.code = None THEN {"login"} ELSE {"otp"}
         [] OTHER -> {}

Ends(p, c) ==
  CASE p = "jobs" -> JobsEnds(c)
    [] p \in {"messages", "logs", "sending"} -> RowsEnds(p, c)
    [] p = "admins" -> AdminsEnds(c)
    [] p = "users" -> UsersEnds(c)
    [] p = "domains" -> DomainsEnds(c)
    [] p = "mailboxes" -> MailboxesEnds(c)
    [] p = "keys" -> KeysEnds(c)
    [] p = "emails" -> EmailsEnds(c)
    [] p = "account" -> AccountEnds(c)
    [] p = "mails" -> MailsEnds(c)
    [] p = "import" -> ImportEnds(c)
    [] p = "inbox" -> InboxEnds(c)
    [] p = "settings" -> SettingsEnds(c)
    [] p = "overview" -> OverviewEnds(c)
    [] p = "session" -> SessionEnds(c)

Owed(p, s) == UNION {Ends(p, c) : c \in ToSet(s)}

\* A page has its spinners and its slots.
Shaped(p, state) ==
  /\ {"busy"} \cup SlotsOf(p) \subseteq DOMAIN state
  /\ DOMAIN state \cap SlotNames \subseteq SlotsOf(p)
  /\ state.busy \cap SlotsOf(p) = {}

Kept(p) ==
  /\ Queue(calls)
  /\ Shaped(p, ui)
  /\ Spinning(p, ui) \subseteq Owed(p, calls)

-----------------------------------------------------------------------------
(* What calls owe together.                                                 *)

LEMMA OwedJoined ==
  ASSUME NEW p, NEW s, NEW t, Queue(s), Queue(t)
  PROVE  Queue(s \o t) /\ Owed(p, s \o t) = Owed(p, s) \cup Owed(p, t)
BY Joined DEF Owed

LEMMA OwedEmpty == ASSUME NEW p PROVE Queue(<<>>) /\ Owed(p, <<>>) = {}
BY Empty DEF Owed

LEMMA OwedSingle == ASSUME NEW p, NEW c PROVE Queue(<<c>>) /\ Owed(p, <<c>>) = Ends(p, c)
<1>1. Queue(<<c>>) /\ ToSet(<<c>>) = {c}
  BY Single
<1>2. UNION {Ends(p, d) : d \in {c}} = Ends(p, c)
  OBVIOUS
<1> QED
  BY <1>1, <1>2, Zenon DEF Owed

LEMMA PairCalls == ASSUME NEW a, NEW b PROVE Queue(<<a, b>>) /\ ToSet(<<a, b>>) = {a, b}
BY DEF Queue, ToSet

LEMMA OwedAppended ==
  ASSUME NEW p, NEW s, NEW c, Queue(s)
  PROVE  Queue(Append(s, c)) /\ Owed(p, Append(s, c)) = Owed(p, s) \cup Ends(p, c)
BY Appended DEF Owed

\* The others go on owing when one has landed.
LEMMA OwedDropped ==
  ASSUME NEW p, Queue(calls), NEW i \in DOMAIN calls
  PROVE  Queue(Rest(i)) /\ Owed(p, calls) \subseteq Owed(p, Rest(i)) \cup Ends(p, calls[i])
BY Dropped DEF Owed, Rest, RemoveAt

LEMMA OwedNumbered ==
  ASSUME NEW p, NEW s, NEW new, NEW T, Queue(s),
         \A c \in ToSet(s) : c.op = new.op => Ends(p, c) \subseteq Ends(p, Late(c)) \cup T
  PROVE  /\ Queue(Numbered(s, new))
         /\ Owed(p, s) \subseteq Owed(p, Numbered(s, new)) \cup T
         /\ Ends(p, Merged(new, [late |-> FALSE])) \subseteq Owed(p, Numbered(s, new))
<1> DEFINE t == Numbered(s, new)
           last == Merged(new, [late |-> FALSE])
<1>1. Queue(t) /\ ToSet(t) = {LateOf(c, new.op) : c \in ToSet(s)} \cup {last}
  BY NumberedCalls
<1> HIDE DEF t, last
<1>2. ASSUME NEW c \in ToSet(s) PROVE Ends(p, c) \subseteq Owed(p, t) \cup T
  <2>1. LateOf(c, new.op) \in ToSet(t)
    BY <1>1
  <2>2. Ends(p, c) \subseteq Ends(p, LateOf(c, new.op)) \cup T
    BY DEF LateOf
  <2> QED
    BY <2>1, <2>2 DEF Owed
<1>3. Owed(p, s) \subseteq Owed(p, t) \cup T
  BY <1>2 DEF Owed
<1>4. Ends(p, last) \subseteq Owed(p, t)
  BY <1>1 DEF Owed
<1> QED
  BY <1>1, <1>3, <1>4 DEF t, last

\* A step of a page that asks for one thing, lands an answer, or does neither.
LEMMA AskedKept ==
  ASSUME NEW p, Kept(p), NEW new, Asked(<<new>>), Shaped(p, ui'),
         Spinning(p, ui') \subseteq Spinning(p, ui) \cup Ends(p, new)
  PROVE  Kept(p)'
<1>1. calls' = calls \o <<new>>
  BY DEF Asked
<1>2. Queue(<<new>>) /\ Owed(p, <<new>>) = Ends(p, new)
  BY OwedSingle
<1>3. Queue(calls)
  BY DEF Kept
<1>4. Queue(calls \o <<new>>) /\ Owed(p, calls \o <<new>>) = Owed(p, calls) \cup Owed(p, <<new>>)
  BY <1>2, <1>3, OwedJoined
<1>5. Queue(calls') /\ Owed(p, calls') = Owed(p, calls) \cup Ends(p, new)
  BY <1>1, <1>2, <1>4
<1> QED
  BY <1>5 DEF Kept

LEMMA LandedKept ==
  ASSUME NEW p, Kept(p), NEW i \in DOMAIN calls, NEW new, Queue(new), Landed(i, new), Shaped(p, ui'),
         Spinning(p, ui') \subseteq (Spinning(p, ui) \ Ends(p, calls[i])) \cup Owed(p, new)
  PROVE  Kept(p)'
<1>1. calls' = Rest(i) \o new
  BY DEF Landed
<1>2. Queue(Rest(i)) /\ Owed(p, calls) \subseteq Owed(p, Rest(i)) \cup Ends(p, calls[i])
  BY OwedDropped DEF Kept
<1>3. Queue(calls') /\ Owed(p, calls') = Owed(p, Rest(i)) \cup Owed(p, new)
  BY <1>1, <1>2, OwedJoined
<1> QED
  BY <1>2, <1>3 DEF Kept

LEMMA EndedKept ==
  ASSUME NEW p, Kept(p), NEW i \in DOMAIN calls, Landed(i, <<>>), Shaped(p, ui'),
         Spinning(p, ui') \subseteq Spinning(p, ui) \ Ends(p, calls[i])
  PROVE  Kept(p)'
BY OwedEmpty, LandedKept

LEMMA WentOnKept ==
  ASSUME NEW p, Kept(p), NEW i \in DOMAIN calls, NEW new, Landed(i, <<new>>), Shaped(p, ui'),
         Spinning(p, ui') \subseteq (Spinning(p, ui) \ Ends(p, calls[i])) \cup Ends(p, new)
  PROVE  Kept(p)'
<1>1. Queue(<<new>>) /\ Owed(p, <<new>>) = Ends(p, new)
  BY OwedSingle
<1> QED
  BY <1>1, LandedKept

LEMMA StillKept ==
  ASSUME NEW p, Kept(p), UNCHANGED calls, Shaped(p, ui'), Spinning(p, ui') \subseteq Spinning(p, ui)
  PROVE  Kept(p)'
BY DEF Kept

\* The pages that have spinners only.
Plain == {"admins", "users", "mailboxes", "keys", "emails", "account", "mails", "import", "settings",
          "overview", "session"}

LEMMA PlainSpins ==
  ASSUME NEW p \in Plain, NEW state, DOMAIN state = DOMAIN ui, Kept(p)
  PROVE  Shaped(p, state) /\ Spinning(p, state) = state.busy /\ Spinning(p, ui) = ui.busy
<1>1. SlotsOf(p) = {} /\ p # "inbox"
  BY DEF SlotsOf, Plain
<1> QED
  BY <1>1 DEF Shaped, Spinning, Kept

LEMMA PlainStill ==
  ASSUME NEW p \in Plain, Kept(p), UNCHANGED calls, DOMAIN ui' = DOMAIN ui, ui'.busy \subseteq ui.busy
  PROVE  Kept(p)'
BY PlainSpins, StillKept

LEMMA PlainAsked ==
  ASSUME NEW p \in Plain, Kept(p), NEW new, Asked(<<new>>), DOMAIN ui' = DOMAIN ui,
         ui'.busy \subseteq ui.busy \cup Ends(p, new)
  PROVE  Kept(p)'
BY PlainSpins, AskedKept

LEMMA PlainEnded ==
  ASSUME NEW p \in Plain, Kept(p), NEW i \in DOMAIN calls, Landed(i, <<>>), DOMAIN ui' = DOMAIN ui,
         ui'.busy \subseteq ui.busy \ Ends(p, calls[i])
  PROVE  Kept(p)'
BY PlainSpins, EndedKept

LEMMA PlainWentOn ==
  ASSUME NEW p \in Plain, Kept(p), NEW i \in DOMAIN calls, NEW new, Landed(i, <<new>>),
         DOMAIN ui' = DOMAIN ui,
         ui'.busy \subseteq (ui.busy \ Ends(p, calls[i])) \cup Ends(p, new)
  PROVE  Kept(p)'
BY PlainSpins, WentOnKept

LEMMA ListCalls ==
  ASSUME NEW i, NEW new
  PROVE  /\ Lists!Asked(new) => Asked(new)
         /\ Lists!Landed(i, new) => Landed(i, new)
BY DEF Lists!Asked, Lists!Landed, Lists!Rest, Asked, Landed, Rest

-----------------------------------------------------------------------------
(* Administrators, portal users, the overview and the import.               *)

LEMMA AdminsKept == Kept("admins") /\ Lists!AdminsNext => Kept("admins")'
<1> SUFFICES ASSUME Kept("admins"), Lists!AdminsNext PROVE Kept("admins")'
  OBVIOUS
<1> USE DEF Ends, AdminsEnds
<1>1. "admins" \in Plain /\ "busy" \in DOMAIN ui
  BY DEF Plain, Kept, Shaped
<1>2. CASE UNCHANGED calls /\ DOMAIN ui' = DOMAIN ui /\ ui'.busy = ui.busy
  BY <1>1, <1>2, PlainStill
<1>3. ASSUME NEW new, Lists!Asked(<<new>>), UNCHANGED ui PROVE Kept("admins")'
  BY <1>1, <1>3, PlainAsked, ListCalls
<1>4. CASE Lists!AdminsTurn
  BY <1>1, <1>4, PlainAsked, ListCalls DEF Lists!AdminsTurn, Lists!AdminsList, Lists!On
<1>5. ASSUME NEW i \in DOMAIN calls, NEW ok, calls[i].op # "admins", Lists!AdminWriteLand(i, ok)
      PROVE  Kept("admins")'
  <2>1. CASE ok
    <3>1. /\ Landed(i, <<Lists!AdminsList>>) /\ DOMAIN ui' = DOMAIN ui
          /\ ui'.busy = ui.busy \cup {"admins"}
      BY <1>1, <1>5, <2>1, ListCalls DEF Lists!AdminWriteLand, Lists!On
    <3> QED
      BY <1>1, <1>5, <3>1, PlainWentOn DEF Lists!AdminsList
  <2>2. CASE ~ok
    BY <1>1, <1>5, <2>2, PlainEnded, ListCalls DEF Lists!AdminWriteLand
  <2> QED
    BY <2>1, <2>2
<1>6. ASSUME NEW i \in DOMAIN calls, NEW rows, calls[i].op = "admins", Lists!AdminsLand(i, rows)
      PROVE  Kept("admins")'
  BY <1>1, <1>6, PlainEnded, ListCalls DEF Lists!AdminsLand, Lists!Off
<1> QED
  BY <1>1, <1>2, <1>3, <1>4, <1>5, <1>6
     DEF Lists!AdminsNext, Lists!AdminsRow, Lists!AdminsDialog, Lists!EditAdmin, Lists!DeleteAdmin,
         Lists!CloseAdmin, Lists!SaveAdmin, Lists!Waiting

LEMMA UsersKept == Kept("users") /\ Lists!UsersNext => Kept("users")'
<1> SUFFICES ASSUME Kept("users"), Lists!UsersNext PROVE Kept("users")'
  OBVIOUS
<1> USE DEF Ends, UsersEnds
<1>1. "users" \in Plain /\ "busy" \in DOMAIN ui
  BY DEF Plain, Kept, Shaped
<1>2. CASE UNCHANGED calls /\ DOMAIN ui' = DOMAIN ui /\ ui'.busy \subseteq ui.busy
  BY <1>1, <1>2, PlainStill
<1>3. ASSUME NEW new, Lists!Asked(<<new>>), UNCHANGED ui PROVE Kept("users")'
  BY <1>1, <1>3, PlainAsked, ListCalls
<1>4. ASSUME NEW id, Lists!EditUser(id) PROVE Kept("users")'
  <2>1. CASE id = None
    BY <1>1, <1>2, <1>4, <2>1 DEF Lists!EditUser, Lists!Off
  <2>2. CASE id # None
    BY <1>1, <1>4, <2>2, PlainAsked, ListCalls DEF Lists!EditUser, Lists!On
  <2> QED
    BY <2>1, <2>2
<1>5. ASSUME NEW i \in DOMAIN calls, NEW ok, calls[i].op = "member", Lists!MemberLand(i, ok)
      PROVE  Kept("users")'
  BY <1>1, <1>5, PlainEnded, ListCalls DEF Lists!MemberLand, Lists!Off
<1>6. CASE Lists!SaveUser
  BY <1>1, <1>6, PlainAsked, ListCalls DEF Lists!SaveUser, Lists!On
<1>7. ASSUME NEW i \in DOMAIN calls, NEW ok, calls[i].op = "saveUser", Lists!SaveUserLand(i, ok)
      PROVE  Kept("users")'
  <2>1. CASE ok
    <3>1. /\ Landed(i, <<Lists!UsersList("saveUser")>>) /\ DOMAIN ui' = DOMAIN ui
          /\ ui'.busy = ui.busy \cup {"users"}
      BY <1>1, <1>7, <2>1, ListCalls DEF Lists!SaveUserLand, Lists!On
    <3> QED
      BY <1>1, <1>7, <3>1, PlainWentOn DEF Lists!UsersList
  <2>2. CASE ~ok
    BY <1>1, <1>7, <2>2, PlainEnded, ListCalls DEF Lists!SaveUserLand, Lists!Off
  <2> QED
    BY <2>1, <2>2
<1>8. ASSUME NEW i \in DOMAIN calls, NEW ok, calls[i].op = "deleteUser", Lists!DeleteUserLand(i, ok)
      PROVE  Kept("users")'
  <2>1. CASE ok
    <3>1. /\ Landed(i, <<Lists!UsersList(None)>>) /\ DOMAIN ui' = DOMAIN ui
          /\ ui'.busy = ui.busy \cup {"users"}
      BY <1>1, <1>8, <2>1, ListCalls DEF Lists!DeleteUserLand, Lists!On
    <3> QED
      BY <1>1, <1>8, <3>1, PlainWentOn DEF Lists!UsersList
  <2>2. CASE ~ok
    BY <1>1, <1>8, <2>2, PlainEnded, ListCalls DEF Lists!DeleteUserLand
  <2> QED
    BY <2>1, <2>2
<1>9. ASSUME NEW i \in DOMAIN calls, NEW rows, calls[i].op = "users", Lists!UsersLand(i, rows)
      PROVE  Kept("users")'
  BY <1>1, <1>9, PlainEnded, ListCalls DEF Lists!UsersLand
<1> QED
  BY <1>1, <1>2, <1>3, <1>4, <1>5, <1>6, <1>7, <1>8, <1>9
     DEF Lists!UsersNext, Lists!UsersRow, Lists!UsersDialog, Lists!DeleteUser, Lists!CloseUser, Lists!Waiting

LEMMA PortalCalls ==
  ASSUME NEW i, NEW new
  PROVE  /\ Portal!Asked(new) => Asked(new)
         /\ Portal!Landed(i, new) => Landed(i, new)
BY DEF Portal!Asked, Portal!Landed, Portal!Rest, Asked, Landed, Rest

LEMMA OverviewKept == Kept("overview") /\ Portal!OverviewNext => Kept("overview")'
<1> SUFFICES ASSUME Kept("overview"), Portal!OverviewNext PROVE Kept("overview")'
  OBVIOUS
<1>1. "overview" \in Plain /\ "busy" \in DOMAIN ui
  BY DEF Plain, Kept, Shaped
<1>2. PICK i \in DOMAIN calls : calls[i].op = "load" /\ \E got : Portal!OverviewLand(i, got)
  BY DEF Portal!OverviewNext, Portal!Waiting
<1> QED
  BY <1>1, <1>2, PlainEnded, PortalCalls DEF Portal!OverviewLand, Portal!Off, Ends, OverviewEnds

LEMMA ImportCalls ==
  ASSUME NEW i, NEW new
  PROVE  /\ Imports!Asked(new) => Asked(new)
         /\ Imports!Landed(i, new) => Landed(i, new)
BY DEF Imports!Asked, Imports!Landed, Imports!Rest, Asked, Landed, Rest

LEMMA ImportKept == Kept("import") /\ Imports!ImportNext => Kept("import")'
<1> SUFFICES ASSUME Kept("import"), Imports!ImportNext PROVE Kept("import")'
  OBVIOUS
<1> USE DEF Ends, ImportEnds
<1>1. "import" \in Plain /\ "busy" \in DOMAIN ui
  BY DEF Plain, Kept, Shaped
<1>2. CASE UNCHANGED calls /\ DOMAIN ui' = DOMAIN ui /\ ui'.busy \subseteq ui.busy
  BY <1>1, <1>2, PlainStill
<1>3. CASE Imports!UploadFile
  BY <1>1, <1>3, PlainAsked, ImportCalls DEF Imports!UploadFile
<1>4. CASE Imports!Import
  <2> DEFINE new == [op |-> "import", rows |-> Imports!ReadyRows, preview |-> Imports!PreviewRows]
  <2>1. Asked(<<new>>) /\ DOMAIN ui' = DOMAIN ui /\ ui'.busy = {"import"}
    BY <1>1, <1>4, ImportCalls DEF Imports!Import
  <2>2. Ends("import", new) = {"import"}
    OBVIOUS
  <2> HIDE DEF new
  <2> QED
    BY <1>1, <2>1, <2>2, PlainAsked
<1>5. ASSUME NEW i \in DOMAIN calls, Imports!Landed(i, <<>>), DOMAIN ui' = DOMAIN ui,
             ui'.busy = {} \/ (calls[i].op = "file" /\ ui'.busy = ui.busy)
      PROVE  Kept("import")'
  BY <1>1, <1>5, PlainEnded, ImportCalls
<1>6. ASSUME NEW i \in DOMAIN calls, NEW rejected, calls[i].op = "import", Imports!ImportLand(i, rejected)
      PROVE  Kept("import")'
  <2>1. Landed(i, <<[op |-> "reload"]>>) /\ DOMAIN ui' = DOMAIN ui /\ ui'.busy = ui.busy
    BY <1>1, <1>6, ImportCalls DEF Imports!ImportLand
  <2> QED
    BY <1>1, <1>6, <2>1, PlainWentOn
<1> QED
  BY <1>1, <1>2, <1>3, <1>4, <1>5, <1>6
     DEF Imports!ImportNext, Imports!InputStep, Imports!OpenImport, Imports!CloseImport, Imports!Reset,
         Imports!TypeLines, Imports!TypeSeparator, Imports!GeneratePreview, Imports!Back,
         Imports!FileLand, Imports!FileFail, Imports!ImportFail, Imports!ImportReloaded,
         Imports!EditFailedRows, Imports!Waiting

-----------------------------------------------------------------------------
(* The mailboxes of the own domains.                                        *)

LEMMA MailboxesCalls ==
  ASSUME NEW i, NEW new
  PROVE  /\ Mailboxes!Asked(new) => Asked(new)
         /\ Mailboxes!Landed(i, new) => Landed(i, new)
         /\ Mailboxes!Rest(i) = Rest(i)
BY DEF Mailboxes!Asked, Mailboxes!Landed, Mailboxes!Rest, Asked, Landed, Rest

\* Whatever the effects do, the table that loads again is asked for.
LEMMA SettledKept ==
  ASSUME Kept("mailboxes"), NEW new, NEW waiting, Mailboxes!Settled(new, waiting),
         Queue(waiting), DOMAIN new = DOMAIN ui, new.busy \subseteq Owed("mailboxes", waiting)
  PROVE  Kept("mailboxes")'
<1> DEFINE last(f) == Mailboxes!Mailboxes(f, None)
<1>1. "mailboxes" \in Plain /\ "busy" \in DOMAIN ui
  BY DEF Plain, Kept, Shaped
<1>2. /\ DOMAIN ui' = DOMAIN ui
      /\ \/ ui'.busy = new.busy /\ calls' = waiting
         \/ /\ ui'.busy = new.busy \cup {"mailboxes"}
            /\ \E f : calls' = Append(waiting, last(f))
  <2> DEFINE shown == [new EXCEPT !.filter = new.link, !.link = None, !.editing = None,
                                  !.open = @ \cup {"mailbox"}]
             busy(state) == [state EXCEPT !.busy = @ \cup {"mailboxes"}]
  <2>1. \/ ui' \in {new, shown} /\ calls' = waiting
        \/ ui' \in {busy(new), busy(shown)} /\ \E f : calls' = Append(waiting, last(f))
    BY DEF Mailboxes!Settled
  <2>2. DOMAIN shown = DOMAIN ui /\ shown.busy = new.busy
    BY <1>1
  <2> HIDE DEF shown
  <2>3. /\ DOMAIN busy(new) = DOMAIN ui /\ busy(new).busy = new.busy \cup {"mailboxes"}
        /\ DOMAIN busy(shown) = DOMAIN ui /\ busy(shown).busy = new.busy \cup {"mailboxes"}
    BY <1>1, <2>2
  <2> HIDE DEF busy, last
  <2> QED
    BY <2>1, <2>2, <2>3
<1>3. \A f : "mailboxes" \in Ends("mailboxes", last(f))
  BY DEF Ends, MailboxesEnds, Mailboxes!Mailboxes
<1> HIDE DEF last
<1>4. Queue(calls') /\ ui'.busy \subseteq Owed("mailboxes", calls')
  <2>1. CASE ui'.busy = new.busy /\ calls' = waiting
    BY <2>1
  <2>2. ASSUME ui'.busy = new.busy \cup {"mailboxes"}, NEW f, calls' = Append(waiting, last(f))
        PROVE  Queue(calls') /\ ui'.busy \subseteq Owed("mailboxes", calls')
    <3>1. /\ Queue(Append(waiting, last(f)))
          /\ Owed("mailboxes", Append(waiting, last(f)))
               = Owed("mailboxes", waiting) \cup Ends("mailboxes", last(f))
      BY OwedAppended
    <3> QED
      BY <1>3, <2>2, <3>1
  <2> QED
    BY <1>2, <2>1, <2>2
<1>5. Shaped("mailboxes", ui') /\ Spinning("mailboxes", ui') = ui'.busy
  BY <1>1, <1>2, PlainSpins
<1> QED
  BY <1>4, <1>5 DEF Kept

LEMMA MailboxWriteKept ==
  ASSUME Kept("mailboxes"), NEW spinner, NEW change, Mailboxes!MailboxWrite(spinner, change),
         "then" \notin DOMAIN change
  PROVE  Kept("mailboxes")'
<1> DEFINE new == Mailboxes!Merged(change, [then |-> spinner, filter |-> ui.filter])
<1>1. "mailboxes" \in Plain /\ "busy" \in DOMAIN ui
  BY DEF Plain, Kept, Shaped
<1>2. new.then = spinner
  BY DEF Mailboxes!Merged
<1>3. Asked(<<new>>) /\ DOMAIN ui' = DOMAIN ui /\ ui'.busy \subseteq ui.busy \cup {spinner}
  BY <1>1, MailboxesCalls DEF Mailboxes!MailboxWrite
<1> HIDE DEF new
<1> QED
  BY <1>1, <1>2, <1>3, PlainAsked DEF Ends, MailboxesEnds

LEMMA MailboxesKept == Kept("mailboxes") /\ Mailboxes!MailboxesNext => Kept("mailboxes")'
<1> SUFFICES ASSUME Kept("mailboxes"), Mailboxes!MailboxesNext PROVE Kept("mailboxes")'
  OBVIOUS
<1>1. "mailboxes" \in Plain /\ "busy" \in DOMAIN ui
  BY DEF Plain, Kept, Shaped
<1>2. Queue(calls) /\ ui.busy \subseteq Owed("mailboxes", calls)
  BY <1>1, PlainSpins DEF Kept
<1>3. ASSUME NEW id, Mailboxes!Tick(id) PROVE Kept("mailboxes")'
  BY <1>1, <1>3, PlainStill DEF Mailboxes!Tick
<1>4. ASSUME NEW new, DOMAIN new = DOMAIN ui, new.busy = ui.busy, Mailboxes!Settled(new, calls)
      PROVE  Kept("mailboxes")'
  BY <1>2, <1>4, SettledKept
<1>5. ASSUME NEW filter, Mailboxes!FilterMailboxes(filter) PROVE Kept("mailboxes")'
  BY <1>1, <1>4, <1>5 DEF Mailboxes!FilterMailboxes
<1>6. ASSUME NEW id, Mailboxes!EditMailbox(id) PROVE Kept("mailboxes")'
  BY <1>1, <1>4, <1>6 DEF Mailboxes!EditMailbox
<1>7. ASSUME NEW dialog, Mailboxes!OpenBatch(dialog) \/ Mailboxes!CloseMailboxes(dialog)
      PROVE  Kept("mailboxes")'
  BY <1>1, <1>4, <1>7 DEF Mailboxes!OpenBatch, Mailboxes!CloseMailboxes
<1>8. ASSUME NEW id,
             \/ Mailboxes!SaveMailbox \/ Mailboxes!BatchCreate \/ Mailboxes!DeleteTicked
             \/ Mailboxes!BatchDelete \/ Mailboxes!BatchAssign \/ Mailboxes!DeleteMailbox(id)
      PROVE  Kept("mailboxes")'
  BY <1>8, MailboxWriteKept
     DEF Mailboxes!SaveMailbox, Mailboxes!BatchCreate, Mailboxes!DeleteTicked, Mailboxes!BatchDelete,
         Mailboxes!BatchAssign, Mailboxes!DeleteMailbox
<1>9. ASSUME NEW i \in DOMAIN calls
      PROVE  /\ Queue(Rest(i)) /\ Mailboxes!Rest(i) = Rest(i)
             /\ ui.busy \subseteq Owed("mailboxes", Rest(i)) \cup Ends("mailboxes", calls[i])
  BY <1>2, OwedDropped, MailboxesCalls
<1>10. ASSUME NEW i \in DOMAIN calls, calls[i].op = "mailboxes", NEW rows, NEW known, NEW users,
              Mailboxes!MailboxesLand(i, rows, known, users)
       PROVE  Kept("mailboxes")'
  <2> DEFINE new == [ui EXCEPT !.rows = rows, !.known = known, !.users = users,
                               !.busy = @ \ {"mailboxes", calls[i].then}]
  <2>1. DOMAIN new = DOMAIN ui /\ new.busy = ui.busy \ {"mailboxes", calls[i].then}
    BY <1>1
  <2>2. Mailboxes!Settled(new, Rest(i))
    BY <1>9, <1>10 DEF Mailboxes!MailboxesLand
  <2>3. Ends("mailboxes", calls[i]) = {"mailboxes", calls[i].then}
    BY <1>10 DEF Ends, MailboxesEnds
  <2> HIDE DEF new
  <2> QED
    BY <1>9, <2>1, <2>2, <2>3, SettledKept
<1>11. ASSUME NEW i \in DOMAIN calls, calls[i].op # "mailboxes", NEW ok, Mailboxes!MailboxWriteLand(i, ok)
       PROVE  Kept("mailboxes")'
  <2> DEFINE c == calls[i]
             next == Mailboxes!Mailboxes(c.filter, c.then)
  <2>1. /\ Ends("mailboxes", c) = {c.then}
        /\ Ends("mailboxes", next) = {"mailboxes", c.then}
    BY <1>11 DEF Ends, MailboxesEnds, Mailboxes!Mailboxes
  <2>2. CASE ok
    <3> DEFINE new == [ui EXCEPT !.open = @ \ {c.op},
                                 !.ticked = IF c.op \in Mailboxes!ClearsTicks THEN {} ELSE @,
                                 !.busy = Mailboxes!On("mailboxes")]
    <3>1. DOMAIN new = DOMAIN ui /\ new.busy = ui.busy \cup {"mailboxes"}
      BY <1>1 DEF Mailboxes!On
    <3>2. Mailboxes!Settled(new, Append(Rest(i), next))
      BY <1>9, <1>11, <2>2 DEF Mailboxes!MailboxWriteLand
    <3> HIDE DEF new, next, c
    <3>3. /\ Queue(Append(Rest(i), next))
          /\ Owed("mailboxes", Append(Rest(i), next)) = Owed("mailboxes", Rest(i)) \cup {"mailboxes", c.then}
      BY <1>9, <2>1, OwedAppended
    <3>4. ui.busy \subseteq Owed("mailboxes", Rest(i)) \cup {c.then}
      BY <1>9, <2>1 DEF c
    <3> QED
      BY <3>1, <3>2, <3>3, <3>4, SettledKept
  <2>3. CASE ~ok
    <3>1. Landed(i, <<>>) /\ DOMAIN ui' = DOMAIN ui /\ ui'.busy = ui.busy \ {c.then}
      BY <1>1, <1>11, <2>3, MailboxesCalls DEF Mailboxes!MailboxWriteLand, Mailboxes!Off
    <3> QED
      BY <1>1, <2>1, <3>1, PlainEnded
  <2> QED
    BY <2>2, <2>3
<1> QED
  BY <1>3, <1>5, <1>6, <1>7, <1>8, <1>10, <1>11
     DEF Mailboxes!MailboxesNext, Mailboxes!MailboxesToolbar, Mailboxes!TickedBar, Mailboxes!MailboxRow,
         Mailboxes!MailboxDialogs, Mailboxes!Waiting, Mailboxes!MailboxWrites, Mailboxes!ClearsTicks

-----------------------------------------------------------------------------
(* The API keys.                                                            *)

\* A question with a number: those it makes late owe what it owes.
LEMMA PlainNumbered ==
  ASSUME NEW p \in Plain, Kept(p), NEW s, NEW new, Queue(s), calls' = Numbered(s, new),
         DOMAIN ui' = DOMAIN ui,
         \A c \in ToSet(s) :
           c.op = new.op => Ends(p, c) \subseteq Ends(p, Late(c)) \cup Ends(p, Merged(new, [late |-> FALSE])),
         ui'.busy \subseteq Owed(p, s) \cup Ends(p, Merged(new, [late |-> FALSE]))
  PROVE  Kept(p)'
<1> DEFINE T == Ends(p, Merged(new, [late |-> FALSE]))
<1>1. \A c \in ToSet(s) : c.op = new.op => Ends(p, c) \subseteq Ends(p, Late(c)) \cup T
  OBVIOUS
<1>2. ui'.busy \subseteq Owed(p, s) \cup T
  OBVIOUS
<1>3. Queue(calls') /\ Owed(p, s) \subseteq Owed(p, calls') \cup T /\ T \subseteq Owed(p, calls')
  <2> HIDE DEF T
  <2>1. /\ Queue(Numbered(s, new))
        /\ Owed(p, s) \subseteq Owed(p, Numbered(s, new)) \cup T
        /\ Ends(p, Merged(new, [late |-> FALSE])) \subseteq Owed(p, Numbered(s, new))
    BY <1>1, OwedNumbered
  <2> QED
    BY <2>1 DEF T
<1> HIDE DEF T
<1>4. Shaped(p, ui') /\ Spinning(p, ui') = ui'.busy
  BY PlainSpins
<1> QED
  BY <1>2, <1>3, <1>4 DEF Kept

\* What the calls owe before and after one of them landed.
LEMMA PlainRest ==
  ASSUME NEW p \in Plain, Kept(p)
  PROVE  /\ Queue(calls) /\ "busy" \in DOMAIN ui /\ ui.busy \subseteq Owed(p, calls)
         /\ \A i \in DOMAIN calls :
              Queue(Rest(i)) /\ ui.busy \subseteq Owed(p, Rest(i)) \cup Ends(p, calls[i])
BY PlainSpins, OwedDropped DEF Kept, Shaped

LEMMA KeysCalls ==
  ASSUME NEW i, NEW new
  PROVE  /\ Keys!Asked(new) => Asked(new)
         /\ Keys!Landed(i, new) => Landed(i, new)
         /\ Keys!Rest(i) = Rest(i)
         /\ \A s : Keys!Numbered(s, new) = Numbered(s, new)
<1>1. \A s : Keys!Numbered(s, new) = Numbered(s, new)
  BY Zenon DEF Keys!Numbered, Numbered, Keys!Merged, Merged
<1> QED
  BY <1>1 DEF Keys!Asked, Keys!Landed, Keys!Rest, Asked, Landed, Rest

LEMMA KeysAsked ==
  ASSUME Kept("keys"), NEW s, NEW n, Queue(s), calls' = Numbered(s, Keys!KeysList(n)),
         DOMAIN ui' = DOMAIN ui, ui'.busy \subseteq Owed("keys", s) \cup {"keys"}
  PROVE  Kept("keys")'
<1> DEFINE new == Keys!KeysList(n)
           last == Merged(new, [late |-> FALSE])
<1>1. "keys" \in Plain
  BY DEF Plain
<1>2. new.op = "keys" /\ "op" \in DOMAIN new /\ "late" \notin DOMAIN new
  BY DEF Keys!KeysList
<1>3. last.op = "keys" /\ last.late = FALSE
  BY <1>2, NumberedCall
<1> HIDE DEF last
<1>4. Ends("keys", last) = {"keys"}
  BY <1>3 DEF Ends, KeysEnds
<1>5. \A c : c.op = "keys" => Ends("keys", c) \subseteq {"keys"}
  BY DEF Ends, KeysEnds
<1> HIDE DEF new
<1> QED
  BY <1>1, <1>2, <1>4, <1>5, PlainNumbered DEF last, new

LEMMA KeysKept == Kept("keys") /\ Keys!KeysNext => Kept("keys")'
<1> SUFFICES ASSUME Kept("keys"), Keys!KeysNext PROVE Kept("keys")'
  OBVIOUS
<1> USE DEF Ends, KeysEnds
<1>1. "keys" \in Plain /\ "busy" \in DOMAIN ui
  BY DEF Plain, Kept, Shaped
<1>2. /\ Queue(calls) /\ ui.busy \subseteq Owed("keys", calls)
      /\ \A i \in DOMAIN calls :
           Queue(Rest(i)) /\ ui.busy \subseteq Owed("keys", Rest(i)) \cup Ends("keys", calls[i])
  BY <1>1, PlainRest
<1>3. CASE UNCHANGED calls /\ DOMAIN ui' = DOMAIN ui /\ ui'.busy \subseteq ui.busy
  BY <1>1, <1>3, PlainStill
<1>4. ASSUME NEW new, Keys!Asked(<<new>>), UNCHANGED ui PROVE Kept("keys")'
  BY <1>1, <1>4, PlainAsked, KeysCalls
<1>5. ASSUME NEW n, NEW new, DOMAIN new = DOMAIN ui, new.busy = ui.busy, Keys!FetchKeys(n, new)
      PROVE  Kept("keys")'
  <2>1. /\ calls' = Numbered(calls, Keys!KeysList(n))
        /\ DOMAIN ui' = DOMAIN ui /\ ui'.busy = ui.busy \cup {"keys"}
    BY <1>1, <1>5, KeysCalls DEF Keys!FetchKeys
  <2> QED
    BY <1>2, <2>1, KeysAsked
<1>6. ASSUME NEW n, Keys!KeysTurn(n) PROVE Kept("keys")'
  BY <1>1, <1>5, <1>6 DEF Keys!KeysTurn
<1>7. ASSUME NEW i \in DOMAIN calls, calls[i].op \in {"saveKey", "deleteKey"}, NEW new,
             DOMAIN new = DOMAIN ui, new.busy = ui.busy, Keys!KeysAgain(i, new)
      PROVE  Kept("keys")'
  <2>1. /\ calls' = Numbered(Rest(i), Keys!KeysList(calls[i].n))
        /\ DOMAIN ui' = DOMAIN ui /\ ui'.busy = ui.busy \cup {"keys"}
    BY <1>1, <1>7, KeysCalls DEF Keys!KeysAgain
  <2>2. Ends("keys", calls[i]) = {}
    BY <1>7
  <2> QED
    BY <1>2, <2>1, <2>2, KeysAsked
<1>8. ASSUME NEW i \in DOMAIN calls, calls[i].op = "saveKey", Keys!SaveKeyLand(i) PROVE Kept("keys")'
  BY <1>1, <1>7, <1>8 DEF Keys!SaveKeyLand
<1>9. ASSUME NEW i \in DOMAIN calls, calls[i].op = "deleteKey", Keys!DeleteKeyLand(i) PROVE Kept("keys")'
  BY <1>1, <1>7, <1>9 DEF Keys!DeleteKeyLand
<1>10. ASSUME NEW i \in DOMAIN calls, Keys!Landed(i, <<>>), DOMAIN ui' = DOMAIN ui,
              ui'.busy \subseteq ui.busy \ Ends("keys", calls[i])
       PROVE  Kept("keys")'
  BY <1>1, <1>10, PlainEnded, KeysCalls
<1>11. ASSUME NEW i \in DOMAIN calls, calls[i].op = "keys", NEW rows, Keys!KeysLand(i, rows)
       PROVE  Kept("keys")'
  BY <1>1, <1>10, <1>11 DEF Keys!KeysLand, Keys!Off
<1>12. ASSUME NEW i \in DOMAIN calls, calls[i].op = "options", NEW dropped, Keys!OptionsLand(i, dropped)
       PROVE  Kept("keys")'
  BY <1>1, <1>10, <1>12 DEF Keys!OptionsLand
<1>13. ASSUME NEW id, Keys!EditKey(id) PROVE Kept("keys")'
  BY <1>1, <1>13, PlainAsked, KeysCalls DEF Keys!EditKey, Keys!On
<1>14. ASSUME NEW i \in DOMAIN calls, calls[i].op = "key", NEW ok, NEW dropped, Keys!KeyLand(i, ok, dropped)
       PROVE  Kept("keys")'
  BY <1>1, <1>10, <1>14 DEF Keys!KeyLand, Keys!Off
<1>15. ASSUME NEW i \in DOMAIN calls, calls[i].op \in {"saveKey", "deleteKey"}, Keys!KeyWriteFailed(i)
       PROVE  Kept("keys")'
  BY <1>1, <1>10, <1>15 DEF Keys!KeyWriteFailed
<1>16. ASSUME NEW id, Keys!ViewPool(id) \/ Keys!PoolGroup(id) PROVE Kept("keys")'
  BY <1>1, <1>16, PlainAsked, KeysCalls DEF Keys!ViewPool, Keys!PoolGroup, Keys!Stats, Keys!On
<1>17. ASSUME NEW id, Keys!ManageScope(id) \/ Keys!ScopeGroup(id) PROVE Kept("keys")'
  BY <1>1, <1>17, PlainAsked, KeysCalls DEF Keys!ManageScope, Keys!ScopeGroup, Keys!Stats, Keys!On
<1>18. CASE Keys!SaveScope
  <2> DEFINE new == Keys!Merged(Keys!Stats("assign", ui.current, ui.scopeGroup), [list |-> ui.list])
  <2>1. Asked(<<new>>) /\ DOMAIN ui' = DOMAIN ui /\ ui'.busy = ui.busy \cup {"saveScope"}
    BY <1>1, <1>18, KeysCalls DEF Keys!SaveScope, Keys!On
  <2>2. new.op = "assign"
    BY DEF Keys!Merged, Keys!Stats
  <2> HIDE DEF new
  <2> QED
    BY <1>1, <2>1, <2>2, PlainAsked
<1>19. ASSUME NEW i \in DOMAIN calls, calls[i].op = "resetPool", NEW ok, Keys!ResetPoolLand(i, ok)
       PROVE  Kept("keys")'
  <2>1. CASE ok
    <3> DEFINE new == [calls[i] EXCEPT !.op = "statsAgain"]
    <3>1. Landed(i, <<new>>) /\ UNCHANGED ui
      BY <1>19, <2>1, KeysCalls DEF Keys!ResetPoolLand
    <3>2. Ends("keys", calls[i]) = {}
      BY <1>19
    <3> HIDE DEF new
    <3> QED
      BY <1>1, <3>1, <3>2, PlainWentOn
  <2>2. CASE ~ok
    BY <1>1, <1>10, <1>19, <2>2 DEF Keys!ResetPoolLand
  <2> QED
    BY <2>1, <2>2
<1>20. ASSUME NEW i \in DOMAIN calls, calls[i].op \in {"stats", "statsAgain", "statsLast"}, NEW ok,
              Keys!StatsLand(i, ok)
       PROVE  Kept("keys")'
  <2>1. DOMAIN ui' = DOMAIN ui /\ ui'.busy = ui.busy \ Ends("keys", calls[i])
    BY <1>1, <1>20 DEF Keys!StatsLand
  <2> QED
    BY <1>10, <1>20, <2>1 DEF Keys!StatsLand
<1>21. ASSUME NEW i \in DOMAIN calls, calls[i].op = "assigned", NEW ok, Keys!AssignedLand(i, ok)
       PROVE  Kept("keys")'
  BY <1>1, <1>10, <1>21 DEF Keys!AssignedLand, Keys!Off
<1>22. ASSUME NEW i \in DOMAIN calls, calls[i].op = "assign", NEW ok, Keys!SaveScopeLand(i, ok)
       PROVE  Kept("keys")'
  <2>1. CASE ok
    <3> DEFINE new == Keys!Stats("statsLast", calls[i].key, None)
    <3>1. Landed(i, <<new>>) /\ DOMAIN ui' = DOMAIN ui /\ ui'.busy = ui.busy
      BY <1>1, <1>22, <2>1, KeysCalls DEF Keys!SaveScopeLand
    <3>2. new.op = "statsLast"
      BY DEF Keys!Stats
    <3> HIDE DEF new
    <3> QED
      BY <1>1, <1>22, <3>1, <3>2, PlainWentOn
  <2>2. CASE ~ok
    BY <1>1, <1>10, <1>22, <2>2 DEF Keys!SaveScopeLand, Keys!Off
  <2> QED
    BY <2>1, <2>2
<1>23. CASE Keys!KeysToolbar
  BY <1>1, <1>3, <1>5, <1>23 DEF Keys!KeysToolbar, Keys!CreateKey, Keys!Off
<1>24. CASE Keys!CloseKey \/ Keys!HideNewKey \/ Keys!ClosePool \/ Keys!CloseScope
  BY <1>1, <1>3, <1>24 DEF Keys!CloseKey, Keys!HideNewKey, Keys!ClosePool, Keys!CloseScope
<1>25. CASE Keys!SaveKey \/ Keys!PoolDialog \/ Keys!ScopeDialog \/ \E id \in ui.rows : Keys!KeysRow(id)
  BY <1>4, <1>13, <1>16, <1>17, <1>18, <1>25
     DEF Keys!SaveKey, Keys!PoolDialog, Keys!ScopeDialog, Keys!KeysRow, Keys!DeleteKey, Keys!ResetPool
<1>26. ASSUME NEW op, NEW i \in Keys!Waiting(op) PROVE i \in DOMAIN calls /\ calls[i].op = op
  BY DEF Keys!Waiting
<1> QED
  BY <1>6, <1>8, <1>9, <1>11, <1>12, <1>14, <1>15, <1>19, <1>20, <1>21, <1>22, <1>23, <1>24, <1>25,
     <1>26 DEF Keys!KeysNext

-----------------------------------------------------------------------------
(* The mails of a mailbox.                                                  *)

LEMMA MailsCalls ==
  ASSUME NEW i, NEW new
  PROVE  /\ Mails!Asked(new) => Asked(new)
         /\ Mails!Landed(i, new) => Landed(i, new)
         /\ Mails!Rest(i) = Rest(i)
         /\ \A s : Mails!Numbered(s, new) = Numbered(s, new)
<1>1. \A s : Mails!Numbered(s, new) = Numbered(s, new)
  BY Zenon DEF Mails!Numbered, Numbered, Mails!Merged, Merged
<1> QED
  BY <1>1 DEF Mails!Asked, Mails!Landed, Mails!Rest, Asked, Landed, Rest

LEMMA OwedSuperseded ==
  ASSUME NEW s, NEW op \in MailCalls, Queue(s)
  PROVE  /\ Queue(Mails!Superseded(s, op))
         /\ Owed("mails", s) \subseteq Owed("mails", Mails!Superseded(s, op)) \cup {op}
<1> DEFINE t == Mails!Superseded(s, op)
<1>1. Queue(t) /\ ToSet(t) = {LateOf(c, op) : c \in ToSet(s)}
  BY SupersededCalls
<1> HIDE DEF t
<1>2. ASSUME NEW c \in ToSet(s) PROVE Ends("mails", c) \subseteq Owed("mails", t) \cup {op}
  <2>1. LateOf(c, op) \in ToSet(t)
    BY <1>1
  <2>2. Ends("mails", c) \subseteq Ends("mails", LateOf(c, op)) \cup {op}
    BY DEF LateOf, Ends, MailsEnds
  <2> QED
    BY <2>1, <2>2 DEF Owed
<1>3. Owed("mails", s) \subseteq Owed("mails", t) \cup {op}
  BY <1>2 DEF Owed
<1> QED
  BY <1>1, <1>3 DEF t

LEMMA MailsAsked ==
  ASSUME Kept("mails"), NEW s, NEW new, Queue(s), calls' = Numbered(s, new),
         new.op \in MailCalls, "op" \in DOMAIN new, "late" \notin DOMAIN new,
         DOMAIN ui' = DOMAIN ui, ui'.busy \subseteq Owed("mails", s) \cup {new.op}
  PROVE  Kept("mails")'
<1> DEFINE last == Merged(new, [late |-> FALSE])
<1>1. "mails" \in Plain
  BY DEF Plain
<1>2. last.op = new.op /\ last.late = FALSE
  BY NumberedCall
<1> HIDE DEF last
<1>3. Ends("mails", last) = {new.op}
  BY <1>2 DEF Ends, MailsEnds
<1>4. \A c : c.op = new.op => Ends("mails", c) \subseteq {new.op}
  BY DEF Ends, MailsEnds
<1> QED
  BY <1>1, <1>3, <1>4, PlainNumbered DEF last

LEMMA LoadingKept ==
  ASSUME Kept("mails"), NEW state, NEW s, NEW of, NEW folder,
         Mails!Loading(state, s, of, folder),
         Queue(s), DOMAIN state = DOMAIN ui, state.busy \subseteq Owed("mails", s)
  PROVE  Kept("mails")'
<1> DEFINE new == [op |-> "mails", of |-> <<of, folder>>]
<1>1. "busy" \in DOMAIN ui
  BY DEF Kept, Shaped
<1>2. calls' = Numbered(s, new) /\ DOMAIN ui' = DOMAIN ui /\ ui'.busy = state.busy \cup {"mails"}
  BY <1>1, MailsCalls DEF Mails!Loading
<1>3. new.op = "mails" /\ "op" \in DOMAIN new /\ "late" \notin DOMAIN new
  OBVIOUS
<1> HIDE DEF new
<1> QED
  BY <1>2, <1>3, MailsAsked DEF MailCalls

LEMMA MailDialogKept == Kept("mails") /\ Mails!MailDialogNext => Kept("mails")'
<1> SUFFICES ASSUME Kept("mails"), Mails!MailDialogNext PROVE Kept("mails")'
  OBVIOUS
<1> USE DEF Ends, MailsEnds
<1>1. "mails" \in Plain /\ "busy" \in DOMAIN ui
  BY DEF Plain, Kept, Shaped
<1>2. /\ Queue(calls) /\ ui.busy \subseteq Owed("mails", calls)
      /\ \A i \in DOMAIN calls :
           Queue(Rest(i)) /\ ui.busy \subseteq Owed("mails", Rest(i)) \cup Ends("mails", calls[i])
  BY <1>1, PlainRest
<1>3. CASE UNCHANGED calls /\ DOMAIN ui' = DOMAIN ui /\ ui'.busy \subseteq ui.busy
  BY <1>1, <1>3, PlainStill
<1>4. ASSUME NEW state, NEW of, NEW folder, DOMAIN state = DOMAIN ui, state.busy = ui.busy,
             Mails!Loading(state, calls, of, folder)
      PROVE  Kept("mails")'
  BY <1>2, <1>4, LoadingKept
<1>5. ASSUME NEW id, NEW folder,
             Mails!ViewMails(id, folder) \/ Mails!ChangeFolder(folder) \/ Mails!RefreshMails
      PROVE  Kept("mails")'
  BY <1>1, <1>4, <1>5 DEF Mails!ViewMails, Mails!ChangeFolder, Mails!RefreshMails
<1>6. ASSUME NEW i \in DOMAIN calls, Mails!Landed(i, <<>>), DOMAIN ui' = DOMAIN ui,
             ui'.busy \subseteq ui.busy \ Ends("mails", calls[i])
      PROVE  Kept("mails")'
  BY <1>1, <1>6, PlainEnded, MailsCalls
<1>7. ASSUME NEW i \in DOMAIN calls, NEW ok,
             \/ calls[i].op = "mails" /\ Mails!MailsLand(i, ok)
             \/ calls[i].op = "detail" /\ Mails!MailLand(i, ok)
      PROVE  Kept("mails")'
  BY <1>1, <1>6, <1>7 DEF Mails!MailsLand, Mails!MailLand, Mails!Off, MailCalls
<1>8. ASSUME NEW i \in DOMAIN calls, calls[i].op \in {"delete", "clear"}, NEW ok, Mails!ChangeLand(i, ok)
      PROVE  Kept("mails")'
  <2>1. DOMAIN ui' = DOMAIN ui /\ ui'.busy = ui.busy \ {calls[i].op}
    BY <1>1, <1>8 DEF Mails!ChangeLand, Mails!Off
  <2> QED
    BY <1>6, <1>8, <2>1 DEF Mails!ChangeLand, MailCalls
<1>9. ASSUME NEW op, NEW spinner, spinner \subseteq {op} \cap {"delete"}, Mails!Change(op, spinner)
      PROVE  Kept("mails")'
  <2> DEFINE new == [op |-> op, of |-> <<ui.account, ui.folder>>, listed |-> ui.mails]
  <2>1. Asked(<<new>>) /\ DOMAIN ui' = DOMAIN ui /\ ui'.busy = ui.busy \cup spinner
    BY <1>1, <1>9, MailsCalls DEF Mails!Change
  <2>2. new.op = op
    OBVIOUS
  <2> HIDE DEF new
  <2>3. spinner \subseteq Ends("mails", new)
    BY <1>9, <2>2 DEF MailCalls
  <2> QED
    BY <1>1, <2>1, <2>3, PlainAsked
<1>10. CASE Mails!SendMail
  BY <1>1, <1>10, PlainAsked, MailsCalls DEF Mails!SendMail, Mails!On, MailCalls
<1>11. ASSUME NEW i \in DOMAIN calls, calls[i].op = "send", NEW ok, Mails!SendMailLand(i, ok)
       PROVE  Kept("mails")'
  <2> DEFINE sent == [ui EXCEPT !.busy = Mails!Off("send")]
             state == [sent EXCEPT !.compose = FALSE, !.folder = "SENT"]
  <2>1. DOMAIN sent = DOMAIN ui /\ sent.busy = ui.busy \ {"send"}
    BY <1>1 DEF Mails!Off
  <2>2. Ends("mails", calls[i]) = {"send"}
    BY <1>11 DEF MailCalls
  <2>3. CASE ok
    <3>1. Mails!Loading(state, Rest(i), calls[i].id, "SENT")
      BY <1>11, <2>3, MailsCalls DEF Mails!SendMailLand
    <3> HIDE DEF sent
    <3>2. DOMAIN state = DOMAIN ui /\ state.busy = ui.busy \ {"send"}
      BY <1>1, <2>1
    <3> HIDE DEF state
    <3> QED
      BY <1>2, <2>2, <3>1, <3>2, LoadingKept
  <2>4. CASE ~ok
    BY <1>6, <1>11, <2>1, <2>2, <2>4 DEF Mails!SendMailLand
  <2> QED
    BY <2>3, <2>4
<1>12. ASSUME NEW id, Mails!OpenMail(id) PROVE Kept("mails")'
  <2> DEFINE new == [op |-> "detail", mail |-> <<ui.account, ui.folder, id>>]
  <2>1. calls' = Numbered(calls, new) /\ DOMAIN ui' = DOMAIN ui /\ ui'.busy = ui.busy \cup {"detail"}
    BY <1>1, <1>12, MailsCalls DEF Mails!OpenMail, Mails!On
  <2>2. new.op = "detail" /\ "op" \in DOMAIN new /\ "late" \notin DOMAIN new
    OBVIOUS
  <2> HIDE DEF new
  <2> QED
    BY <1>2, <2>1, <2>2, MailsAsked DEF MailCalls
<1>13. CASE Mails!CloseMail
  <2>1. DOMAIN ui' = DOMAIN ui /\ ui'.busy = ui.busy \ {"detail"}
    BY <1>1, <1>13 DEF Mails!CloseMail, Mails!WithoutMail
  <2>2. calls' = Mails!Superseded(calls, "detail")
    BY <1>13 DEF Mails!CloseMail
  <2>3. Queue(calls') /\ ui'.busy \subseteq Owed("mails", calls')
    BY <1>2, <2>1, <2>2, OwedSuperseded DEF MailCalls
  <2> QED
    BY <1>1, <2>1, <2>3, PlainSpins DEF Kept
<1>14. CASE Mails!CloseMails
  <2> DEFINE first == Mails!Superseded(calls, "mails")
             state == [ui EXCEPT !.open = FALSE, !.mails = None, !.ticked = FALSE, !.wanted = None,
                                 !.busy = Mails!Off("mails")]
  <2>1. DOMAIN state = DOMAIN ui /\ state.busy = ui.busy \ {"mails"}
    BY <1>1 DEF Mails!Off
  <2>2. ui' = Mails!WithoutMail(state) /\ calls' = Mails!Superseded(first, "detail")
    BY <1>14 DEF Mails!CloseMails
  <2> HIDE DEF state
  <2>3. DOMAIN ui' = DOMAIN ui /\ ui'.busy = ui.busy \ {"mails", "detail"}
    BY <1>1, <2>1, <2>2 DEF Mails!WithoutMail
  <2>4. Queue(first) /\ Owed("mails", calls) \subseteq Owed("mails", first) \cup {"mails"}
    BY <1>2, OwedSuperseded DEF MailCalls
  <2> HIDE DEF first
  <2>5. Queue(calls') /\ Owed("mails", first) \subseteq Owed("mails", calls') \cup {"detail"}
    BY <2>2, <2>4, OwedSuperseded DEF MailCalls
  <2>6. ui'.busy \subseteq Owed("mails", calls')
    BY <1>2, <2>3, <2>4, <2>5
  <2> QED
    BY <1>1, <2>3, <2>5, <2>6, PlainSpins DEF Kept
<1>15. CASE Mails!MailsToolbar
  BY <1>5, <1>9, <1>15 DEF Mails!MailsToolbar, Mails!DeleteMails, Mails!ClearMails
<1>16. ASSUME NEW op, NEW i \in Mails!Waiting(op) PROVE i \in DOMAIN calls /\ calls[i].op = op
  BY DEF Mails!Waiting
<1> QED
  BY <1>1, <1>3, <1>5, <1>7, <1>8, <1>10, <1>11, <1>12, <1>13, <1>14, <1>15, <1>16
     DEF Mails!MailDialogNext, Mails!OpenCompose, Mails!TickMails

-----------------------------------------------------------------------------
(* The settings of the portal.                                              *)

LEMMA SettingsBecomeKept ==
  ASSUME Kept("settings"), NEW new, NEW asked, Portal!SettingsBecome(new, asked),
         Queue(asked), DOMAIN new = DOMAIN ui, new.busy \subseteq Owed("settings", asked)
  PROVE  Kept("settings")'
<1> DEFINE locked == new.must /\ ~ui.must
           next == IF locked THEN [new EXCEPT !.selected = None] ELSE new
           changed == ~next.must /\ (ui.must \/ next.selected # ui.selected)
           status == Portal!CanManageTwoFactor(next) /\ ~Portal!CanManageTwoFactor(ui)
           a == IF changed THEN <<Portal!BoxesHaving(next.selected)>> ELSE <<>>
           b == IF changed /\ next.selected # None THEN <<Portal!JobsFor(next.selected, None)>> ELSE <<>>
           c == IF status THEN <<Portal!TwoFactorStatus(None)>> ELSE <<>>
<1>1. "settings" \in Plain /\ "busy" \in DOMAIN ui
  BY DEF Plain, Kept, Shaped
<1>2. DOMAIN next = DOMAIN ui /\ next.busy = new.busy
  OBVIOUS
<1>3. calls' = asked \o a \o b \o c
  BY Zenon DEF Portal!SettingsBecome
<1>4. /\ ui' = [next EXCEPT !.jobs = IF locked \/ (changed /\ next.selected = None) THEN None ELSE @,
                            !.busy = IF status THEN @ \cup {"status"} ELSE @]
  BY Zenon DEF Portal!SettingsBecome
<1> HIDE DEF next, locked, changed, status, a, b, c
<1>5. DOMAIN ui' = DOMAIN ui /\ ui'.busy = IF status THEN new.busy \cup {"status"} ELSE new.busy
  BY <1>1, <1>2, <1>4
<1>6. Queue(a) /\ Queue(b) /\ Queue(c)
  BY Empty, Single DEF a, b, c
<1>7. status => "status" \in Owed("settings", c)
  <2>1. "status" \in Ends("settings", Portal!TwoFactorStatus(None))
    BY DEF Ends, SettingsEnds, Portal!TwoFactorOps, Portal!TwoFactorStatus
  <2>2. Owed("settings", <<Portal!TwoFactorStatus(None)>>) = Ends("settings", Portal!TwoFactorStatus(None))
    BY OwedSingle
  <2> QED
    BY <2>1, <2>2 DEF c
<1>8. /\ Queue(asked \o a)
      /\ Owed("settings", asked \o a) = Owed("settings", asked) \cup Owed("settings", a)
  BY <1>6, OwedJoined
<1>9. /\ Queue(asked \o a \o b)
      /\ Owed("settings", asked \o a \o b) = Owed("settings", asked \o a) \cup Owed("settings", b)
  BY <1>6, <1>8, OwedJoined
<1>10. /\ Queue(asked \o a \o b \o c)
       /\ Owed("settings", asked \o a \o b \o c)
            = Owed("settings", asked \o a \o b) \cup Owed("settings", c)
  BY <1>6, <1>9, OwedJoined
<1>11. Queue(calls') /\ ui'.busy \subseteq Owed("settings", calls')
  BY <1>3, <1>5, <1>7, <1>8, <1>9, <1>10
<1> QED
  BY <1>1, <1>5, <1>11, PlainSpins DEF Kept

LEMMA SettingsKept == Kept("settings") /\ Portal!SettingsNext => Kept("settings")'
<1> SUFFICES ASSUME Kept("settings"), Portal!SettingsNext PROVE Kept("settings")'
  OBVIOUS
<1> USE DEF Ends, SettingsEnds, Portal!TwoFactorOps
<1>1. "settings" \in Plain /\ "busy" \in DOMAIN ui
  BY DEF Plain, Kept, Shaped
<1>2. /\ Queue(calls) /\ ui.busy \subseteq Owed("settings", calls)
      /\ \A i \in DOMAIN calls :
           Queue(Rest(i)) /\ ui.busy \subseteq Owed("settings", Rest(i)) \cup Ends("settings", calls[i])
  BY <1>1, PlainRest
<1>3. \A i : Portal!Rest(i) = Rest(i)
  BY DEF Portal!Rest, Rest
<1>4. ASSUME NEW i \in DOMAIN calls, calls[i].op = "session", NEW known, NEW must,
             Portal!SettingsSessionLand(i, known, must)
      PROVE  Kept("settings")'
  <2> DEFINE c == calls[i]
             new == [ui EXCEPT !.session = @ \/ known, !.must = IF known THEN must ELSE @]
             next == [Portal!Boxes(None, c.then) EXCEPT !.had = c.had]
             asked == IF c.then = None THEN <<>> ELSE <<next>>
  <2>1. Portal!SettingsBecome(new, Rest(i) \o asked)
    BY <1>3, <1>4 DEF Portal!SettingsSessionLand
  <2>2. DOMAIN new = DOMAIN ui /\ new.busy = ui.busy
    BY <1>1
  <2>3. next.op = "boxes" /\ next.then = c.then
    BY DEF Portal!Boxes
  <2>4. Ends("settings", c) = IF c.then = None THEN {} ELSE {c.then}
    BY <1>4
  <2> HIDE DEF new, next
  <2>5. Ends("settings", next) = {c.then}
    BY <2>3
  <2>6. Queue(asked) /\ Owed("settings", asked) = Ends("settings", c)
    BY <2>4, <2>5, OwedSingle, OwedEmpty
  <2> HIDE DEF asked
  <2>7. /\ Queue(Rest(i) \o asked)
        /\ Owed("settings", Rest(i) \o asked) = Owed("settings", Rest(i)) \cup Owed("settings", asked)
    BY <1>2, <2>6, OwedJoined
  <2> QED
    BY <1>2, <2>1, <2>2, <2>6, <2>7, SettingsBecomeKept
<1>5. ASSUME NEW i \in DOMAIN calls, calls[i].op = "boxes"
      PROVE  /\ Ends("settings", calls[i]) = {calls[i].then}
             /\ LET jobs == Portal!JobsFor(calls[i].preferred, calls[i].then)
                IN Ends("settings", jobs) = {calls[i].then}
  BY <1>5 DEF Portal!JobsFor
<1>6. ASSUME NEW i \in DOMAIN calls, calls[i].op = "boxes", NEW boxes, Portal!SettingsBoxesLand(i, boxes)
      PROVE  Kept("settings")'
  <2> DEFINE c == calls[i]
             job == Portal!JobsFor(c.preferred, c.then)
             asked == IF c.then = "forward" THEN <<job>> ELSE <<>>
             new(box) == [ui EXCEPT !.boxes = boxes, !.selected = box,
                                    !.busy = IF c.then = "forward" THEN @ ELSE Portal!Ends(c.then)]
  <2>1. PICK box : Portal!SettingsBecome(new(box), Rest(i) \o asked)
    BY <1>3, <1>6 DEF Portal!SettingsBoxesLand
  <2>2. /\ DOMAIN new(box) = DOMAIN ui
        /\ new(box).busy = IF c.then = "forward" THEN ui.busy ELSE ui.busy \ {c.then}
    BY <1>1 DEF Portal!Ends
  <2>3. Ends("settings", c) = {c.then} /\ Ends("settings", job) = {c.then}
    BY <1>5, <1>6
  <2> HIDE DEF new, job
  <2>4. /\ Queue(asked)
        /\ Owed("settings", asked) = IF c.then = "forward" THEN {c.then} ELSE {}
    BY <2>3, OwedSingle, OwedEmpty
  <2> HIDE DEF asked
  <2>5. /\ Queue(Rest(i) \o asked)
        /\ Owed("settings", Rest(i) \o asked) = Owed("settings", Rest(i)) \cup Owed("settings", asked)
    BY <1>2, <2>4, OwedJoined
  <2>6. ui.busy \subseteq Owed("settings", Rest(i)) \cup {c.then}
    BY <1>2, <2>3 DEF c
  <2>7. new(box).busy \subseteq Owed("settings", Rest(i) \o asked)
    BY <2>2, <2>4, <2>5, <2>6
  <2> QED
    BY <2>1, <2>2, <2>5, <2>7, SettingsBecomeKept
<1>7. ASSUME NEW i \in DOMAIN calls, calls[i].op = "boxes", Portal!SettingsBoxesFailed(i)
      PROVE  Kept("settings")'
  <2>1. CASE calls[i].then = "forward"
    <3>1. /\ Landed(i, <<Portal!JobsFor(calls[i].preferred, calls[i].then)>>)
          /\ DOMAIN ui' = DOMAIN ui /\ ui'.busy = ui.busy
      BY <1>1, <1>7, <2>1, PortalCalls DEF Portal!SettingsBoxesFailed
    <3> QED
      BY <1>1, <1>5, <1>7, <3>1, PlainWentOn
  <2>2. CASE calls[i].then # "forward"
    <3>1. Landed(i, <<>>) /\ DOMAIN ui' = DOMAIN ui /\ ui'.busy = ui.busy \ {calls[i].then}
      BY <1>1, <1>7, <2>2, PortalCalls DEF Portal!SettingsBoxesFailed, Portal!Ends
    <3> QED
      BY <1>1, <1>5, <1>7, <3>1, PlainEnded
  <2> QED
    BY <2>1, <2>2
<1>8. ASSUME NEW i \in DOMAIN calls, Portal!Landed(i, <<>>), DOMAIN ui' = DOMAIN ui,
             ui'.busy \subseteq ui.busy \ Ends("settings", calls[i])
      PROVE  Kept("settings")'
  BY <1>1, <1>8, PlainEnded, PortalCalls
<1>9. ASSUME NEW i \in DOMAIN calls, calls[i].op = "jobs", NEW ok, Portal!SettingsJobsLand(i, ok)
      PROVE  Kept("settings")'
  BY <1>1, <1>8, <1>9 DEF Portal!SettingsJobsLand, Portal!Ends
<1>10. CASE Portal!ForwardingCard
  <2>1. CASE Portal!SaveForwarding
    BY <1>1, <2>1, PlainAsked, PortalCalls DEF Portal!SaveForwarding, Portal!On
  <2>2. ASSUME NEW box, Portal!ChooseBox(box) PROVE Kept("settings")'
    <3> DEFINE new == [ui EXCEPT !.selected = box]
    <3>1. Portal!SettingsBecome(new, calls)
      BY <2>2 DEF Portal!ChooseBox
    <3>2. DOMAIN new = DOMAIN ui /\ new.busy = ui.busy
      BY <1>1
    <3> HIDE DEF new
    <3> QED
      BY <1>2, <3>1, <3>2, SettingsBecomeKept
  <2> QED
    BY <1>10, <2>1, <2>2 DEF Portal!ForwardingCard
<1>11. CASE Portal!ChangePassword
  BY <1>1, <1>11, PlainAsked, PortalCalls DEF Portal!ChangePassword, Portal!On
<1>12. ASSUME NEW i \in DOMAIN calls, calls[i].op = "password", NEW ok, Portal!PasswordLand(i, ok)
       PROVE  Kept("settings")'
  <2>1. CASE ok
    <3> DEFINE new == Portal!Merged(Portal!Session("password"), [had |-> calls[i].had])
    <3>1. Landed(i, <<new>>) /\ UNCHANGED ui
      BY <1>12, <2>1, PortalCalls DEF Portal!PasswordLand
    <3>2. new.op = "session" /\ new.then = "password"
      BY DEF Portal!Merged, Portal!Session
    <3> HIDE DEF new
    <3>3. Ends("settings", new) = {"password"}
      BY <3>2, NullAssumption
    <3> QED
      BY <1>1, <1>12, <3>1, <3>3, PlainWentOn
  <2>2. CASE ~ok
    BY <1>1, <1>8, <1>12, <2>2 DEF Portal!PasswordLand, Portal!Off
  <2> QED
    BY <2>1, <2>2
<1>13. ASSUME NEW i \in DOMAIN calls, calls[i].op = "forward", NEW ok, Portal!ForwardLand(i, ok)
       PROVE  Kept("settings")'
  <2>1. CASE ok
    <3> DEFINE new == [Portal!Boxes(calls[i].box, "forward") EXCEPT !.had = calls[i].box]
    <3>1. Landed(i, <<new>>) /\ UNCHANGED ui
      BY <1>13, <2>1, PortalCalls DEF Portal!ForwardLand
    <3>2. new.op = "boxes" /\ new.then = "forward"
      BY DEF Portal!Boxes
    <3> HIDE DEF new
    <3>3. Ends("settings", new) = {"forward"}
      BY <3>2
    <3> QED
      BY <1>1, <1>13, <3>1, <3>3, PlainWentOn
  <2>2. CASE ~ok
    BY <1>1, <1>8, <1>13, <2>2 DEF Portal!ForwardLand, Portal!Off
  <2> QED
    BY <2>1, <2>2
<1>14. ASSUME NEW i \in DOMAIN calls, calls[i].op = "status", NEW ok, NEW enabled, NEW waits,
              Portal!StatusLand(i, ok, enabled, waits)
       PROVE  Kept("settings")'
  BY <1>1, <1>8, <1>14 DEF Portal!StatusLand
<1>15. ASSUME NEW op \in Portal!TwoFactorOps, Portal!TwoFactorCard(op) PROVE Kept("settings")'
  BY <1>1, <1>15, PlainAsked, PortalCalls DEF Portal!TwoFactorCard, Portal!TwoFactorOps, Portal!On
<1>16. ASSUME NEW i \in DOMAIN calls, calls[i].op \in Portal!TwoFactorOps, NEW ok, Portal!TwoFactorLand(i, ok)
       PROVE  Kept("settings")'
  <2>1. Ends("settings", calls[i]) = {"twoFactor"}
    BY <1>16 DEF Portal!TwoFactorOps
  <2>2. CASE ok /\ calls[i].op # "setup"
    <3> DEFINE new == Portal!TwoFactorStatus("twoFactor")
    <3>1. Landed(i, <<new>>) /\ DOMAIN ui' = DOMAIN ui /\ ui'.busy = ui.busy \cup {"status"}
      BY <1>1, <1>16, <2>2, PortalCalls DEF Portal!TwoFactorLand, Portal!On
    <3>2. Ends("settings", new) = {"status", "twoFactor"}
      BY DEF Portal!TwoFactorStatus
    <3> HIDE DEF new
    <3> QED
      BY <1>1, <2>1, <3>1, <3>2, PlainWentOn
  <2>3. CASE ~(ok /\ calls[i].op # "setup")
    <3>1. Portal!Landed(i, <<>>) /\ DOMAIN ui' = DOMAIN ui /\ ui'.busy = ui.busy \ {"twoFactor"}
      BY <1>1, <1>16, <2>3 DEF Portal!TwoFactorLand, Portal!Off
    <3> QED
      BY <1>8, <2>1, <3>1
  <2> QED
    BY <2>2, <2>3
<1>17. ASSUME NEW op, NEW i \in Portal!Waiting(op) PROVE i \in DOMAIN calls /\ calls[i].op = op
  BY DEF Portal!Waiting
<1> QED
  BY <1>4, <1>6, <1>7, <1>9, <1>10, <1>11, <1>12, <1>13, <1>14, <1>15, <1>16, <1>17
     DEF Portal!SettingsNext

-----------------------------------------------------------------------------
(* The tab: what waits is owed to the page that is shown.                   *)

LEMMA PlainShaped ==
  ASSUME NEW p \in Plain, NEW state, "busy" \in DOMAIN state, DOMAIN state \cap SlotNames = {}
  PROVE  Shaped(p, state) /\ Spinning(p, state) = state.busy
<1>1. SlotsOf(p) = {} /\ p # "inbox"
  BY DEF SlotsOf, Plain
<1> QED
  BY <1>1 DEF Shaped, Spinning

\* A page that is shown has asked for what it waits for.
LEMMA FreshOwed ==
  ASSUME NEW shown, NEW st
  PROVE  /\ Queue(Session!OnMount(shown, st))
         /\ Session!Fresh(shown, st).busy \subseteq Owed("session", Session!OnMount(shown, st))
         /\ Shaped("session", Session!Fresh(shown, st))
         /\ Spinning("session", Session!Fresh(shown, st)) = Session!Fresh(shown, st).busy
<1> DEFINE a == Session!Ask([op |-> "session", side |-> "admin"])
           b == Session!Ask([op |-> "session", side |-> "portal"])
           c == Session!Ask([op |-> "status", side |-> "admin"])
           f == Session!Fresh(shown, st)
<1>1. /\ a.op = "session" /\ a.here = TRUE
      /\ b.op = "session" /\ b.here = TRUE
      /\ c.op = "status" /\ c.here = TRUE
  BY AskedCall DEF Session!Sides
<1>2. \/ Session!OnMount(shown, st) = <<a>> /\ f.busy = {"session"}
      \/ Session!OnMount(shown, st) = <<b>> /\ f.busy = {"session"}
      \/ Session!OnMount(shown, st) = <<c>> /\ f.busy = {"status"}
      \/ Session!OnMount(shown, st) = <<>> /\ f.busy = {}
  BY DEF Session!OnMount, Session!Fresh, Session!Bootstrap, Session!Sides
<1>3. "busy" \in DOMAIN f /\ DOMAIN f \cap SlotNames = {}
  BY DEF Session!Fresh, SlotNames
<1> HIDE DEF a, b, c, f
<1>4. /\ Ends("session", a) = {"session"} /\ Ends("session", b) = {"session"}
      /\ Ends("session", c) = {"status"}
  BY <1>1 DEF Ends, SessionEnds
<1>5. Queue(Session!OnMount(shown, st)) /\ f.busy \subseteq Owed("session", Session!OnMount(shown, st))
  BY <1>2, <1>4, OwedSingle, OwedEmpty
<1>6. Shaped("session", f) /\ Spinning("session", f) = f.busy
  BY <1>3, PlainShaped DEF Plain
<1> QED
  BY <1>5, <1>6 DEF f

SessionKept == Kept("session") /\ route \in Session!Routes

LEMMA RouteFacts ==
  /\ {"/login", "/mail/login", "/dashboard", "/settings", "/mail/inbox", "/mail/settings"}
       \subseteq Session!Routes
  /\ \A side \in Session!Sides : Session!Bootstrap[side] \notin Session!Routes
<1>1. Session!AdminPages = UNION {Session!Navigation[g] : g \in {"overview", "mailResources", "mailFlow",
                                                                "automation", "system"}}
  BY DEF Session!AdminPages, Session!Navigation
<1>2. Session!AdminPages = {"/dashboard", "/emails", "/domains", "/domain-mailboxes", "/mailbox-users",
                            "/domain-messages", "/forwarding-jobs", "/sending-configs", "/api-keys",
                            "/api-docs", "/operation-logs", "/admins", "/settings"}
  BY <1>1 DEF Session!Navigation
<1> QED
  BY <1>2 DEF Session!Routes, Session!LoginPages, Session!PortalPages, Session!Sides, Session!Bootstrap

LEMMA RedirectedRoute ==
  ASSUME NEW r \in Session!Routes, NEW st PROVE Session!Redirected(r, st) \in Session!Routes
BY RouteFacts DEF Session!Redirected, Session!SettingsOf

LEMMA BecomeKept ==
  ASSUME SessionKept, NEW st, NEW r \in Session!Routes, NEW newUi, NEW cs, Session!Become(st, r, newUi, cs),
         Queue(cs), DOMAIN newUi = DOMAIN ui,
         Stays(r, st) => newUi.busy \subseteq Owed("session", cs)
  PROVE  SessionKept'
<1> DEFINE shown == Shows(r, st)
           mount == Session!OnMount(shown, st)
<1>1. /\ route' = Session!Redirected(r, st)
      /\ \/ Stays(r, st) /\ ui' = newUi /\ calls' = cs \o <<>>
         \/ Stays(r, st) /\ ui' = newUi /\ calls' = cs \o mount
         \/ ~Stays(r, st) /\ ui' = Session!Fresh(shown, st) /\ calls' = Session!Left(cs) \o mount
  BY DEF Session!Become, Shows, Stays, Session!Shown
<1>2. route' \in Session!Routes
  BY <1>1, RedirectedRoute
<1>3. /\ Queue(mount)
      /\ Session!Fresh(shown, st).busy \subseteq Owed("session", mount)
      /\ Shaped("session", Session!Fresh(shown, st))
      /\ Spinning("session", Session!Fresh(shown, st)) = Session!Fresh(shown, st).busy
  BY FreshOwed
<1> HIDE DEF shown, mount
<1>4. Queue(<<>>)
  BY OwedEmpty
<1>5. Shaped("session", newUi) /\ Spinning("session", newUi) = newUi.busy
  BY PlainSpins DEF Plain, SessionKept
<1>6. ASSUME NEW t, Queue(t), Stays(r, st), ui' = newUi, calls' = cs \o t PROVE Kept("session")'
  <2>1. Queue(cs \o t) /\ Owed("session", cs \o t) = Owed("session", cs) \cup Owed("session", t)
    BY <1>6, OwedJoined
  <2> QED
    BY <1>5, <1>6, <2>1 DEF Kept
<1>7. ASSUME ~Stays(r, st) PROVE Kept("session")'
  <2>1. Queue(Session!Left(cs))
    <3> DEFINE t == Session!Left(cs)
    <3>1. DOMAIN t = DOMAIN cs /\ t = [i \in DOMAIN cs |-> t[i]]
      BY DEF Session!Left
    <3> HIDE DEF t
    <3>2. Queue(t)
      BY <3>1, Mapped
    <3> QED
      BY <3>2 DEF t
  <2>2. /\ Queue(Session!Left(cs) \o mount)
        /\ Owed("session", Session!Left(cs) \o mount)
             = Owed("session", Session!Left(cs)) \cup Owed("session", mount)
    BY <1>3, <2>1, OwedJoined
  <2>3. ui' = Session!Fresh(shown, st) /\ calls' = Session!Left(cs) \o mount
    BY <1>1, <1>7
  <2>4. Shaped("session", ui') /\ Spinning("session", ui') \subseteq Owed("session", mount)
    BY <1>3, <2>3
  <2>5. Queue(calls') /\ Owed("session", mount) \subseteq Owed("session", calls')
    BY <2>2, <2>3
  <2> QED
    BY <2>4, <2>5 DEF Kept
<1>8. Kept("session")'
  <2>1. CASE ui' = newUi /\ calls' = cs \o <<>> /\ Stays(r, st)
    BY <1>4, <1>6, <2>1
  <2>2. CASE ui' = newUi /\ calls' = cs \o mount /\ Stays(r, st)
    BY <1>3, <1>6, <2>2
  <2> QED
    BY <1>1, <1>7, <2>1, <2>2
<1> QED
  BY <1>2, <1>8 DEF SessionKept

\* The page's own steps.
LEMMA ActsKept ==
  ASSUME SessionKept, NEW newUi, NEW new, Session!Acts(newUi, new),
         {"op", "side"} \subseteq DOMAIN new, DOMAIN new \cap {"cookie", "here"} = {},
         new.side \in Session!Sides, DOMAIN newUi = DOMAIN ui,
         newUi.busy \subseteq ui.busy \cup Ends("session", Session!Ask(new))
  PROVE  SessionKept'
<1> DEFINE asked == Session!Ask(new)
<1>1. Session!Become(store, route, newUi, calls \o <<asked>>)
  BY DEF Session!Acts
<1> HIDE DEF asked
<1>2. Queue(calls) /\ ui.busy \subseteq Owed("session", calls)
  BY PlainRest DEF Plain, SessionKept
<1>3. Queue(<<asked>>) /\ Owed("session", <<asked>>) = Ends("session", asked)
  BY OwedSingle
<1>4. /\ Queue(calls \o <<asked>>)
      /\ Owed("session", calls \o <<asked>>) = Owed("session", calls) \cup Owed("session", <<asked>>)
  BY <1>2, <1>3, OwedJoined
<1>5. newUi.busy \subseteq Owed("session", calls \o <<asked>>)
  BY <1>2, <1>3, <1>4 DEF asked
<1> QED
  BY <1>1, <1>4, <1>5, BecomeKept DEF SessionKept

\* An answer that lands, and what its handler asks.
LEMMA BecomeEnded ==
  ASSUME SessionKept, NEW i \in DOMAIN calls, NEW st, NEW r \in Session!Routes, NEW newUi,
         Session!Become(st, r, newUi, Session!Rest(i)), DOMAIN newUi = DOMAIN ui,
         Stays(r, st) => newUi.busy \subseteq ui.busy \ Ends("session", calls[i])
  PROVE  SessionKept'
<1>1. Session!Rest(i) = Rest(i)
  BY DEF Session!Rest, Rest
<1>2. Queue(Rest(i)) /\ ui.busy \subseteq Owed("session", Rest(i)) \cup Ends("session", calls[i])
  BY PlainRest DEF Plain, SessionKept
<1> QED
  BY <1>1, <1>2, BecomeKept

LEMMA BecomeWentOn ==
  ASSUME SessionKept, NEW i \in DOMAIN calls, NEW st, NEW r \in Session!Routes, NEW newUi, NEW new,
         Session!Become(st, r, newUi, Append(Session!Rest(i), new)), DOMAIN newUi = DOMAIN ui,
         newUi.busy \subseteq ui.busy, Ends("session", calls[i]) \subseteq Ends("session", new)
  PROVE  SessionKept'
<1>1. Session!Rest(i) = Rest(i)
  BY DEF Session!Rest, Rest
<1>2. Queue(Rest(i)) /\ ui.busy \subseteq Owed("session", Rest(i)) \cup Ends("session", calls[i])
  BY PlainRest DEF Plain, SessionKept
<1>3. /\ Queue(Append(Rest(i), new))
      /\ Owed("session", Append(Rest(i), new)) = Owed("session", Rest(i)) \cup Ends("session", new)
  BY <1>2, OwedAppended
<1>4. newUi.busy \subseteq Owed("session", Append(Rest(i), new))
  BY <1>2, <1>3
<1>5. Session!Become(st, r, newUi, Append(Rest(i), new))
  BY <1>1
<1> QED
  BY <1>3, <1>4, <1>5, BecomeKept


\* Who signs in or is sent to the sign-in page leaves the bootstrap that asked.
LEMMA SessionLandKept ==
  ASSUME SessionIInv, SessionKept, NEW i \in DOMAIN calls, Session!SessionLand(i)
  PROVE  SessionKept'
<1> DEFINE c == calls[i]
           who == Session!Identity(c.side, account[c.side])
           st == IF c.here THEN [store EXCEPT ![c.side] = who] ELSE store
<1>1. Session!Become(st, route, ui, Session!Rest(i)) /\ c.op = "session"
  BY DEF Session!SessionLand, Session!Is
<1>2. WellFormed(c) /\ Bootstraps(c)
  BY RestCalls
<1>3. route \in Session!Routes
  BY DEF SessionKept
<1>4. who # None
  <2>1. /\ account[c.side].must \in BOOLEAN /\ account[c.side].super \in BOOLEAN
        /\ account[c.side].twoFactor \in BOOLEAN
    BY <1>2 DEF SessionIInv, WellFormed, Session!AccountRow
  <2>2. who \in [must : BOOLEAN, super : BOOLEAN, twoFactor : BOOLEAN]
    BY <2>1 DEF Session!Identity
  <2> QED
    BY <2>2, NullAssumption
<1>5. ~c.here => Ends("session", c) = {}
  BY DEF Ends, SessionEnds
<1>6. c.here => ~Stays(route, st)
  <2> SUFFICES ASSUME c.here PROVE ~Stays(route, st)
    OBVIOUS
  <2>1. Session!Shown(route, store) = Session!Bootstrap[c.side] /\ c.side \in Session!Sides
    BY <1>1, <1>2 DEF Bootstraps, WellFormed
  <2>2. Session!Bootstrap[c.side] \notin Session!Routes
    BY <2>1, RouteFacts
  <2>3. route \notin Session!LoginPages /\ c.side = Session!SideOf(route)
    BY <1>3, <2>1, <2>2 DEF Session!Shown, Session!Bootstrap, Session!Sides, Session!SideOf
  <2>4. st[c.side] = who
    BY <2>1 DEF SessionIInv
  <2> DEFINE to == Session!Redirected(route, st)
  <2>5. Session!SideOf(to) = c.side /\ to \in Session!Routes
    <3>1. to \in Session!Routes
      BY <1>3, RedirectedRoute
    <3>2. to \in {route, Session!SettingsOf(Session!SideOf(route))}
            \cup (IF route = "/admins" THEN {"/dashboard"} ELSE {})
      BY DEF Session!Redirected
    <3> HIDE DEF to
    <3> QED
      BY <2>3, <3>1, <3>2 DEF Session!SettingsOf, Session!SideOf, Session!PortalPages
  <2> HIDE DEF to, st, who
  <2>6. Session!Shown(to, st) = to
    BY <1>4, <2>4, <2>5 DEF Session!Shown
  <2> QED
    BY <2>1, <2>2, <2>5, <2>6 DEF Stays, Shows, to
<1> HIDE DEF st
<1> QED
  BY <1>1, <1>3, <1>5, <1>6, BecomeEnded

LEMMA LoginRoute ==
  ASSUME NEW side \in Session!Sides
  PROVE  /\ Session!LoginOf(side) \in Session!Routes
         /\ \A st : Shows(Session!LoginOf(side), st) \in Session!LoginPages
BY DEF Session!LoginOf, Session!Routes, Session!LoginPages, Shows, Session!Shown, Session!Redirected

LEMMA SessionFailedKept ==
  ASSUME SessionIInv, SessionKept, NEW i \in DOMAIN calls, Session!SessionFailed(i)
  PROVE  SessionKept'
<1> DEFINE c == calls[i]
           r == IF c.here THEN Session!LoginOf(c.side) ELSE route
<1>1. PICK st : Session!Become(st, r, ui, Session!Rest(i))
  BY DEF Session!SessionFailed
<1>2. WellFormed(c) /\ Bootstraps(c) /\ c.op = "session"
  BY RestCalls DEF Session!SessionFailed, Session!Is
<1>3. ~c.here => Ends("session", c) = {}
  BY DEF Ends, SessionEnds
<1>4. c.here => ~Stays(r, st)
  BY <1>2, LoginRoute DEF Bootstraps, WellFormed, Stays, Session!LoginPages, Session!Bootstrap,
     Session!Sides
<1>5. r \in Session!Routes
  BY <1>2, LoginRoute DEF SessionKept, WellFormed
<1> HIDE DEF r
<1> QED
  BY <1>1, <1>3, <1>4, <1>5, BecomeEnded

LEMMA LoginLandKept ==
  ASSUME SessionIInv, SessionKept, NEW i \in DOMAIN calls, Session!LoginLand(i)
  PROVE  SessionKept'
<1> DEFINE newUi == [ui EXCEPT !.pending = None, !.busy = {}]
<1>1. PICK st, r : /\ Session!Become(st, r, newUi, Session!Rest(i))
                   /\ r \in {Session!SettingsOf(calls[i].side), Session!HomeOf(calls[i].side)}
  BY DEF Session!LoginLand
<1>2. r \in Session!Routes
  BY <1>1, RouteFacts DEF Session!SettingsOf, Session!HomeOf
<1>3. DOMAIN newUi = DOMAIN ui /\ newUi.busy = {}
  <2>1. "busy" \in DOMAIN ui
    BY DEF SessionKept, Kept, Shaped
  <2> QED
    BY <2>1
<1> HIDE DEF newUi
<1> QED
  BY <1>1, <1>2, <1>3, BecomeEnded

LEMMA LoginFailedKept ==
  ASSUME SessionIInv, SessionKept, NEW i \in DOMAIN calls, NEW reply, Session!LoginFailed(i, reply)
  PROVE  SessionKept'
<1> DEFINE c == calls[i]
           asked == Session!Ask(Session!Login("portal", "/login", c.who, None))
           again == [asked EXCEPT !.here = c.here]
           falls == c.from = "/login" /\ c.side = "admin" /\ c.code = None
                      /\ reply = "INVALID_CREDENTIALS"
           spinner == IF c.code = None THEN "login" ELSE "otp"
<1>1. /\ asked.op = "login" /\ asked.code = None
      /\ {"op", "code", "here"} \subseteq DOMAIN asked
  BY DEF Session!Ask, Session!Merged, Session!Login
<1>2. again.op = "login" /\ again.code = None /\ again.here = c.here
  <2> HIDE DEF asked
  <2> QED
    BY <1>1
<1> HIDE DEF again
<1>3. c.op = "login" /\ route \in Session!Routes /\ "busy" \in DOMAIN ui
  BY DEF Session!LoginFailed, Session!Is, SessionKept, Kept, Shaped
<1>4. CASE falls
  <2>1. Session!Become(store, route, ui, Append(Session!Rest(i), again))
    BY <1>4 DEF Session!LoginFailed, again
  <2>2. Ends("session", c) \subseteq Ends("session", again)
    BY <1>2, <1>3, <1>4 DEF Ends, SessionEnds
  <2> QED
    BY <1>3, <2>1, <2>2, BecomeWentOn
<1>5. CASE ~falls /\ ~c.here
  <2>1. Session!Become(store, route, ui, Session!Rest(i))
    BY <1>5 DEF Session!LoginFailed
  <2>2. Ends("session", c) = {}
    BY <1>5 DEF Ends, SessionEnds
  <2> QED
    BY <1>3, <2>1, <2>2, BecomeEnded
<1>6. CASE ~falls /\ c.here
  <2>1. PICK said : Session!Become(store, route, Session!Refused(c, said), Session!Rest(i))
    BY <1>6 DEF Session!LoginFailed
  <2>2. /\ DOMAIN Session!Refused(c, said) = DOMAIN ui
        /\ Session!Refused(c, said).busy = ui.busy \ {spinner}
    BY <1>3 DEF Session!Refused
  <2>3. Ends("session", c) \subseteq {spinner}
    BY <1>3 DEF Ends, SessionEnds
  <2> QED
    BY <1>3, <2>1, <2>2, <2>3, BecomeEnded
<1> QED
  BY <1>4, <1>5, <1>6

LEMMA LogoutKept ==
  ASSUME SessionIInv, SessionKept, NEW i \in DOMAIN calls, NEW ok, Session!LogoutLand(i, ok)
  PROVE  SessionKept'
<1> DEFINE r == Session!LoginOf(calls[i].side)
<1>1. PICK st : Session!Become(st, r, ui, Session!Rest(i))
  BY DEF Session!LogoutLand
<1>2. WellFormed(calls[i]) /\ calls[i].op = "logout"
  BY RestCalls DEF Session!LogoutLand, Session!Is
<1>3. Ends("session", calls[i]) = {} /\ r \in Session!Routes
  BY <1>2, LoginRoute DEF Ends, SessionEnds, WellFormed
<1> HIDE DEF r
<1> QED
  BY <1>1, <1>3, BecomeEnded

LEMMA PageLandKept ==
  ASSUME SessionIInv, SessionKept, NEW i \in DOMAIN calls, Session!PageLand(i)
  PROVE  SessionKept'
<1>1. PICK st : Session!Become(st, route, ui, Session!Rest(i))
  BY Zenon DEF Session!PageLand
<1>2. Ends("session", calls[i]) = {}
  BY DEF Ends, SessionEnds, Session!PageLand, Session!Is
<1> QED
  BY <1>1, <1>2, BecomeEnded DEF SessionKept

\* A status that is asked for after a write turns for what the write turned for.
LEMMA SettingsWriteKept ==
  ASSUME SessionIInv, SessionKept, NEW i \in DOMAIN calls, Session!SettingsWriteLand(i)
  PROVE  SessionKept'
<1> DEFINE c == calls[i]
           asked == Session!Ask([op |-> "statusAgain", side |-> "admin"])
           again == [asked EXCEPT !.here = c.here]
<1>1. asked.op = "statusAgain" /\ {"op", "here"} \subseteq DOMAIN asked
  BY DEF Session!Ask, Session!Merged
<1>2. again.op = "statusAgain" /\ again.here = c.here
  <2> HIDE DEF asked
  <2> QED
    BY <1>1
<1> HIDE DEF again
<1>3. c.op \in Session!SettingsWrites /\ route \in Session!Routes /\ "busy" \in DOMAIN ui
  BY DEF Session!SettingsWriteLand, SessionKept, Kept, Shaped
<1>4. CASE c.op \in {"enable", "disable"}
  <2>1. ASSUME NEW newUi, Session!Become(store, route, newUi, Append(Session!Rest(i), again)),
               newUi = ui \/ newUi = [ui EXCEPT !.secret = FALSE]
        PROVE  SessionKept'
    <3>1. DOMAIN newUi = DOMAIN ui /\ newUi.busy = ui.busy
      BY <1>3, <2>1
    <3>2. Ends("session", c) \subseteq Ends("session", again)
      BY <1>2, <1>4 DEF Ends, SessionEnds
    <3> QED
      BY <1>3, <2>1, <3>1, <3>2, BecomeWentOn
  <2>2. CASE c.op = "enable"
    <3> DEFINE newUi == IF ~c.here THEN ui ELSE [ui EXCEPT !.secret = FALSE]
    <3>1. Session!Become(store, route, newUi, Append(Session!Rest(i), again))
      BY <2>2 DEF Session!SettingsWriteLand, again
    <3> HIDE DEF again
    <3> QED
      BY <2>1, <3>1
  <2>3. CASE c.op = "disable"
    <3>1. Session!Become(store, route, ui, Append(Session!Rest(i), again))
      BY <2>3 DEF Session!SettingsWriteLand, again
    <3> QED
      BY <2>1, <3>1
  <2> QED
    BY <1>4, <2>2, <2>3
<1>5. ASSUME c.op \notin {"enable", "disable"} PROVE SessionKept'
  <2> DEFINE set == [ui EXCEPT !.secret = TRUE, !.waits = TRUE, !.enabled = FALSE,
                               !.busy = Session!Off("twoFactor")]
             changed == [ui EXCEPT !.busy = Session!Off("password")]
             newUi == IF ~c.here THEN ui ELSE IF c.op = "setup" THEN set ELSE changed
  <2>1. PICK st : Session!Become(st, route, newUi, Session!Rest(i))
    BY <1>5 DEF Session!SettingsWriteLand
  <2>2. /\ DOMAIN set = DOMAIN ui /\ set.busy = ui.busy \ {"twoFactor"}
        /\ DOMAIN changed = DOMAIN ui /\ changed.busy = ui.busy \ {"password"}
    BY <1>3 DEF Session!Off
  <2> HIDE DEF set, changed
  <2>3. DOMAIN newUi = DOMAIN ui /\ newUi.busy \subseteq ui.busy \ Ends("session", c)
    BY <1>3, <1>5, <2>2 DEF Ends, SessionEnds, Session!SettingsWrites
  <2> HIDE DEF newUi
  <2> QED
    BY <1>3, <2>1, <2>3, BecomeEnded
<1> QED
  BY <1>4, <1>5

LEMMA SettingsWriteFailedKept ==
  ASSUME SessionIInv, SessionKept, NEW i \in DOMAIN calls, NEW lost, Session!SettingsWriteFailed(i, lost)
  PROVE  SessionKept'
<1> DEFINE c == calls[i]
           off == [ui EXCEPT !.busy = Session!Off(Session!Spinner(c))]
           newUi == IF c.here THEN off ELSE ui
<1>1. PICK st : Session!Become(st, route, newUi, Session!Rest(i))
  BY DEF Session!SettingsWriteFailed
<1>2. c.op \in Session!SettingsWrites /\ route \in Session!Routes /\ "busy" \in DOMAIN ui
  BY DEF Session!SettingsWriteFailed, SessionKept, Kept, Shaped
<1>3. DOMAIN off = DOMAIN ui /\ off.busy = ui.busy \ {Session!Spinner(c)}
  BY <1>2 DEF Session!Off
<1> HIDE DEF off
<1>4. DOMAIN newUi = DOMAIN ui /\ newUi.busy \subseteq ui.busy \ Ends("session", c)
  BY <1>2, <1>3 DEF Ends, SessionEnds, Session!SettingsWrites, Session!Spinner
<1> HIDE DEF newUi
<1> QED
  BY <1>1, <1>2, <1>4, BecomeEnded

LEMMA StatusKept ==
  ASSUME SessionIInv, SessionKept, NEW i \in DOMAIN calls, NEW ok, Session!StatusLand(i, ok)
  PROVE  SessionKept'
<1> DEFINE c == calls[i]
           a == account.admin
           told == ok /\ Session!Valid(c) /\ (c.here \/ Session!Is(i, "statusAgain"))
           busy == ui.busy \ ({"status"} \cup (IF Session!Is(i, "statusAgain") THEN {"twoFactor"} ELSE {}))
           quiet == [ui EXCEPT !.busy = busy]
           shown == [ui EXCEPT !.enabled = a.twoFactor, !.waits = a.waits, !.secret = @ /\ a.waits,
                               !.busy = busy]
           newUi == IF ~c.here THEN ui ELSE IF told THEN shown ELSE quiet
<1>1. PICK st : Session!Become(st, route, newUi, Session!Rest(i))
  BY DEF Session!StatusLand
<1>2. c.op \in {"status", "statusAgain"} /\ route \in Session!Routes /\ "busy" \in DOMAIN ui
  BY DEF Session!StatusLand, SessionKept, Kept, Shaped
<1>3. /\ DOMAIN quiet = DOMAIN ui /\ quiet.busy = busy
      /\ DOMAIN shown = DOMAIN ui /\ shown.busy = busy
  <2> HIDE DEF busy, a
  <2> QED
    BY <1>2
<1> HIDE DEF quiet, shown, told
<1>4. DOMAIN newUi = DOMAIN ui /\ newUi.busy \subseteq ui.busy \ Ends("session", c)
  BY <1>2, <1>3 DEF Ends, SessionEnds, Session!Is
<1> HIDE DEF newUi
<1> QED
  BY <1>1, <1>2, <1>4, BecomeEnded

LEMMA SubmitKept ==
  ASSUME SessionKept,
         \/ \E who : Session!SubmitLogin(who)
         \/ \E right \in BOOLEAN : Session!SubmitCode(right)
  PROVE  SessionKept'
<1> DEFINE asked(who, code) == Session!Login(Session!SideOf(route), route, who, code)
           on(spinner) == [ui EXCEPT !.busy = Session!On(spinner)]
<1>1. PICK who, code, spinner :
        /\ Session!Acts(on(spinner), asked(who, code))
        /\ spinner = IF code = None THEN "login" ELSE "otp"
  <2>1. ASSUME NEW who, Session!SubmitLogin(who)
        PROVE  Session!Acts(on("login"), asked(who, None))
    BY <2>1 DEF Session!SubmitLogin
  <2>2. ASSUME NEW right \in BOOLEAN, Session!SubmitCode(right)
        PROVE  Session!Acts(on("otp"), asked(ui.pending, right)) /\ right # None
    BY <2>2, NullAssumption DEF Session!SubmitCode
  <2> HIDE DEF asked, on
  <2> QED
    BY <2>1, <2>2
<1>2. "busy" \in DOMAIN ui
  BY DEF SessionKept, Kept, Shaped
<1> DEFINE new == asked(who, code)
           call == Session!Ask(new)
           newUi == on(spinner)
<1>3. /\ {"op", "side"} \subseteq DOMAIN new /\ DOMAIN new \cap {"cookie", "here"} = {}
      /\ new.side \in Session!Sides
  BY DEF Session!Login, Session!SideOf, Session!Sides
<1>4. call.op = "login" /\ call.code = code /\ call.here = TRUE
  BY DEF Session!Ask, Session!Merged, Session!Login
<1>5. DOMAIN newUi = DOMAIN ui /\ newUi.busy = ui.busy \cup {spinner}
  BY <1>2 DEF Session!On
<1> HIDE DEF call
<1>6. Ends("session", call) = {spinner}
  BY <1>1, <1>4 DEF Ends, SessionEnds
<1>7. Session!Acts(newUi, new) /\ call = Session!Ask(new)
  BY <1>1 DEF call
<1> HIDE DEF newUi, new
<1> QED
  BY <1>3, <1>5, <1>6, <1>7, ActsKept

\* A button whose call keeps its own spinner turning, if it has one.
LEMMA ButtonKept ==
  ASSUME SessionKept, NEW newUi, NEW new, Session!Acts(newUi, new),
         {"op", "side"} \subseteq DOMAIN new, DOMAIN new \cap {"cookie", "here"} = {},
         new.side \in Session!Sides,
         \/ newUi = ui
         \/ new.op = "password" /\ newUi = [ui EXCEPT !.busy = Session!On("password")]
         \/ new.op \in {"setup", "enable", "disable"} /\ newUi = [ui EXCEPT !.busy = Session!On("twoFactor")]
  PROVE  SessionKept'
<1> DEFINE call == Session!Ask(new)
<1>1. "busy" \in DOMAIN ui
  BY DEF SessionKept, Kept, Shaped
<1>2. call.op = new.op /\ call.here = TRUE
  BY AskedCall
<1> HIDE DEF call
<1>3. /\ new.op = "password" => Ends("session", call) = {"password"}
      /\ new.op \in {"setup", "enable", "disable"} => Ends("session", call) = {"twoFactor"}
  BY <1>2 DEF Ends, SessionEnds
<1>4. DOMAIN newUi = DOMAIN ui /\ newUi.busy \subseteq ui.busy \cup Ends("session", call)
  BY <1>1, <1>3 DEF Session!On
<1>5. newUi.busy \subseteq ui.busy \cup Ends("session", Session!Ask(new))
  BY <1>4 DEF call
<1> QED
  BY <1>4, <1>5, ActsKept

LEMMA SessionStepKept == SessionIInv /\ SessionKept /\ Session!SessionNext => SessionKept'
<1> SUFFICES ASSUME SessionIInv, SessionKept, Session!SessionNext PROVE SessionKept'
  OBVIOUS
<1>1. "session" \in Plain /\ "busy" \in DOMAIN ui /\ Queue(calls) /\ ui.busy \subseteq Owed("session", calls)
  BY PlainRest DEF Plain, SessionKept
<1>2. CASE Session!CancelCode
  <2>1. DOMAIN ui' = DOMAIN ui /\ ui'.busy = ui.busy /\ UNCHANGED <<calls, route>>
    BY <1>1, <1>2 DEF Session!CancelCode
  <2> QED
    BY <1>1, <2>1, PlainStill DEF SessionKept
<1>3. ASSUME NEW side, NEW must, Session!Elsewhere(side, must) PROVE SessionKept'
  BY <1>1, <1>3, PlainStill DEF Session!Elsewhere, SessionKept
<1>4. ASSUME NEW r \in Session!Routes, Session!Go(r) PROVE SessionKept'
  BY <1>1, <1>4, BecomeKept DEF Session!Go
<1>5. ASSUME NEW r \in Session!Routes, Session!Reload(r) PROVE SessionKept'
  <2>1. PICK shown, st : /\ ui' = Session!Fresh(shown, st)
                         /\ calls' = Session!OnMount(shown, st)
                         /\ route' = r
    BY <1>5 DEF Session!Reload
  <2> QED
    BY <2>1, FreshOwed DEF SessionKept, Kept
<1>6. ASSUME NEW side \in Session!Sides, Session!Logout(side) \/ Session!PageAsks(side) PROVE SessionKept'
  BY <1>6, ButtonKept DEF Session!Logout, Session!PageAsks
<1>7. CASE Session!ChangePassword
  BY <1>7, ButtonKept DEF Session!ChangePassword, Session!Sides
<1>8. ASSUME NEW op \in {"setup", "enable", "disable"}, Session!SetupOrEnable(op) PROVE SessionKept'
  BY <1>8, ButtonKept DEF Session!SetupOrEnable, Session!Sides
<1>9. ASSUME NEW i \in DOMAIN calls, Session!Handled(i) PROVE SessionKept'
  BY <1>9, SessionLandKept, SessionFailedKept, LoginLandKept, LoginFailedKept, LogoutKept, PageLandKept,
     SettingsWriteKept, SettingsWriteFailedKept, StatusKept DEF Session!Handled
<1> QED
  BY <1>2, <1>3, <1>4, <1>5, <1>6, <1>7, <1>8, <1>9, SubmitKept DEF Session!SessionNext

LEMMA SessionStartKept == Session!SessionInit => SessionKept
<1> SUFFICES ASSUME Session!SessionInit PROVE SessionKept
  OBVIOUS
<1> DEFINE asked == [op |-> "session", side |-> Session!SideOf(route),
                     cookie |-> jar[Session!SideOf(route)], here |-> TRUE]
           shown == Session!Shown(route, store)
<1>1. /\ route \in Session!Routes
      /\ store = [s \in Session!Sides |-> None]
      /\ ui = Session!Fresh(shown, store)
      /\ calls = IF route \in Session!LoginPages THEN <<>> ELSE <<asked>>
  BY DEF Session!SessionInit
<1>2. Shaped("session", ui) /\ Spinning("session", ui) = ui.busy
  BY <1>1, FreshOwed
<1>3. Ends("session", asked) = {"session"}
  BY DEF Ends, SessionEnds
<1>4. CASE route \in Session!LoginPages
  <2>1. shown = route /\ shown # "/settings"
    BY <1>4 DEF Session!Shown, Session!LoginPages
  <2>2. ui.busy = {}
    BY <1>1, <1>4, <2>1 DEF Session!Fresh, Session!LoginPages, Session!Bootstrap, Session!Sides
  <2> QED
    BY <1>1, <1>2, <1>4, <2>2, OwedEmpty DEF SessionKept, Kept
<1>5. CASE route \notin Session!LoginPages
  <2>1. shown \in {Session!Bootstrap[s] : s \in Session!Sides}
    BY <1>1, <1>5 DEF Session!Shown, Session!SideOf, Session!Sides
  <2>2. ui.busy = {"session"}
    BY <1>1, <2>1 DEF Session!Fresh
  <2>3. Queue(<<asked>>) /\ Owed("session", <<asked>>) = {"session"}
    BY <1>3, OwedSingle
  <2> HIDE DEF asked, shown
  <2> QED
    BY <1>1, <1>2, <1>5, <2>2, <2>3 DEF SessionKept, Kept
<1> QED
  BY <1>4, <1>5
=============================================================================
