---------------------------- MODULE ConsoleSession ----------------------------
(***************************************************************************)
(* Signing in and out of the console and the mailbox portal in one tab: the  *)
(* routes and their guards (App.tsx), the two sign-in pages, the shells, the *)
(* administrator's settings and what the response interceptor does to the    *)
(* stores of authStore.ts and mailboxAuthStore.ts. The API is modelled by    *)
(* the accounts' session versions and the cookies it sets: a password or     *)
(* two-factor change raises the version and renews the cookie, a sign-out    *)
(* only drops the cookie. A session that expires is left out: it refuses     *)
(* like a version that is gone.                                              *)
(***************************************************************************)
EXTENDS ConsolePage

CONSTANTS
  Accounts,    \* what the database may hold at first
  MaxVersion   \* session versions of an account

VARIABLES
  account,  \* the accounts as the database has them
  jar,      \* the cookies of the browser: the version their token names
  store,    \* the identities the stores hold, None when signed out
  route     \* the location

sessionVars == <<account, jar, store, route>>

Sides == {"admin", "portal"}
LoginPages == {"/login", "/mail/login"}

\* The groups of the console's navigation.
Navigation ==
  [overview |-> {"/dashboard"},
   mailResources |-> {"/emails", "/domains", "/domain-mailboxes", "/mailbox-users"},
   mailFlow |-> {"/domain-messages", "/forwarding-jobs", "/sending-configs"},
   automation |-> {"/api-keys", "/api-docs", "/operation-logs"},
   system |-> {"/admins", "/settings"}]
AdminPages == UNION {Navigation[g] : g \in DOMAIN Navigation}
PortalPages == {"/mail/inbox", "/mail/overview", "/mail/settings"}
Routes == LoginPages \cup AdminPages \cup PortalPages

SideOf(r) == IF r \in PortalPages \cup {"/mail/login"} THEN "portal" ELSE "admin"
LoginOf(side) == IF side = "admin" THEN "/login" ELSE "/mail/login"
SettingsOf(side) == IF side = "admin" THEN "/settings" ELSE "/mail/settings"
HomeOf(side) == IF side = "admin" THEN "/dashboard" ELSE "/mail/inbox"

-----------------------------------------------------------------------------
(* What is shown.                                                          *)

\* ProtectedRoute and MailboxProtectedRoute: without an identity a shell asks
\* for the session of the cookie first.
Bootstrap == [admin |-> "AdminSessionBootstrap", portal |-> "MailboxSessionBootstrap"]
Shown(r, st) ==
  IF r \in LoginPages \/ st[SideOf(r)] # None THEN r ELSE Bootstrap[SideOf(r)]

\* A password that must change confines to the settings; the page of the
\* administrators is for super administrators.
Redirected(r, st) ==
  LET who == st[SideOf(r)] IN
  IF r \in LoginPages \/ who = None THEN r
  ELSE IF who.must THEN SettingsOf(SideOf(r))
  ELSE IF r = "/admins" /\ ~who.super THEN "/dashboard" ELSE r

\* The menus: items of super administrators only, disabled but for the settings
\* while the password must change.
MenuItems(side) ==
  LET who == store[side]
      pages == IF side = "portal" THEN PortalPages
               ELSE {r \in AdminPages : r = "/admins" => who.super}
  IN IF who.must THEN {SettingsOf(side)} ELSE pages

\* A page starts afresh when it is shown. On a sign-in page pending is whose
\* password waits for a code; in the settings enabled, waits and secret are the
\* two-factor state and whether the binding is on the screen.
Fresh(shown, st) ==
  [pending |-> None, enabled |-> FALSE, waits |-> FALSE, secret |-> FALSE,
   busy |-> IF shown \in {Bootstrap[s] : s \in Sides} THEN {"session"}
            ELSE IF shown = "/settings" /\ ~st.admin.must THEN {"status"} ELSE {}]

Ask(c) == Merged(c, [cookie |-> jar'[c.side], here |-> TRUE])

\* What a page asks for when it is shown.
OnMount(shown, st) ==
  CASE shown = Bootstrap["admin"] -> <<Ask([op |-> "session", side |-> "admin"])>>
    [] shown = Bootstrap["portal"] -> <<Ask([op |-> "session", side |-> "portal"])>>
    [] shown = "/settings" /\ ~st.admin.must -> <<Ask([op |-> "status", side |-> "admin"])>>
    [] OTHER -> <<>>

\* The continuations of a page that is gone go on, but not its state.
Left(cs) == [i \in DOMAIN cs |-> [cs[i] EXCEPT !.here = FALSE]]

\* The stores, the location and the requests that wait after a step; the
\* redirects and the effects of what is shown then are part of it.
Become(st, r, newUi, cs) ==
  LET to == Redirected(r, st)
      shown == Shown(to, st)
      stays == shown = Shown(route, store)
      unlocked == stays /\ shown = "/settings" /\ store.admin.must /\ ~st.admin.must
  IN /\ store' = st
     /\ route' = to
     /\ ui' = IF stays THEN newUi ELSE Fresh(shown, st)
     /\ calls' = (IF stays THEN cs ELSE Left(cs))
                   \o (IF ~stays \/ unlocked THEN OnMount(shown, st) ELSE <<>>)

Is(i, op) == calls[i].op = op

\* The user acts on the page that is shown.
Acts(newUi, new) ==
  /\ Room
  /\ UNCHANGED <<account, jar>>
  /\ Become(store, route, newUi, calls \o <<Ask(new)>>)

-----------------------------------------------------------------------------
(* The API.                                                                *)

Valid(c) == c.cookie # None /\ c.cookie = account[c.side].version

\* What the database has of an account.
AccountRow == [version : Nat, must : BOOLEAN, twoFactor : BOOLEAN, waits : BOOLEAN, super : BOOLEAN]

Renewed(side, a) == [a EXCEPT !.version = @ + 1]
CanRenew(side) == account[side].version < MaxVersion
Identity(side, a) == [must |-> a.must, super |-> a.super, twoFactor |-> a.twoFactor]

\* An administrator, or the account itself in another browser, changes the
\* password, resets it or disables and enables the account.
Elsewhere(side, must) ==
  /\ CanRenew(side)
  /\ account' = [account EXCEPT ![side] = [Renewed(side, account[side]) EXCEPT !.must = must]]
  /\ UNCHANGED <<jar, store, route, ui, calls>>

\* The response interceptor, of an answer 401. A token that is missing clears
\* the administrator's store whichever API said so; an invalid one of the portal
\* has a code of its own.
Unauthorized(c) ==
  [store EXCEPT !.admin = IF c.side = "admin" \/ c.cookie = None THEN None ELSE @,
                !.portal = IF c.side = "portal" THEN None ELSE @]

-----------------------------------------------------------------------------
(* The bootstraps of a session.                                            *)

\* Mutant: a bootstrap that is gone does not.
SessionLandAlways(i) ==
  LET c == calls[i] IN
  /\ Is(i, "session") /\ Valid(c)
  /\ UNCHANGED <<account, jar>>
  /\ Become([store EXCEPT ![c.side] = Identity(c.side, account[c.side])], route, ui, Rest(i))

\* getMe and getSession: a bootstrap that is gone ignores the answer, the
\* interceptor does not.
SessionLand(i) ==
  LET c == calls[i] IN
  /\ Is(i, "session") /\ Valid(c)
  /\ UNCHANGED <<account, jar>>
  /\ Become(IF c.here THEN [store EXCEPT ![c.side] = Identity(c.side, account[c.side])] ELSE store,
            route, ui, Rest(i))

\* An error of any kind leads to the sign-in page of the side.
SessionFailed(i) ==
  LET c == calls[i] IN
  /\ Is(i, "session")
  /\ UNCHANGED <<account, jar>>
  /\ \E st \in (IF Valid(c) THEN {} ELSE {Unauthorized(c)}) \cup {store} :
       Become(IF c.here THEN [st EXCEPT ![c.side] = None] ELSE st,
              IF c.here THEN LoginOf(c.side) ELSE route, ui, Rest(i))

-----------------------------------------------------------------------------
(* The sign-in pages.                                                      *)

Login(side, from, who, code) ==
  [op |-> "login", side |-> side, from |-> from, who |-> who, code |-> code]

\* handleSubmit; the dialog that asks for a code covers the form.
SubmitLogin(who) ==
  /\ route \in LoginPages /\ ui.pending = None /\ "login" \notin ui.busy
  /\ Acts([ui EXCEPT !.busy = On("login")], Login(SideOf(route), route, who, None))

\* handleOtpConfirm, with a right or a wrong code.
SubmitCode(right) ==
  /\ route \in LoginPages /\ ui.pending # None /\ "otp" \notin ui.busy
  /\ Acts([ui EXCEPT !.busy = On("otp")], Login(SideOf(route), route, ui.pending, right))

\* The dialog can be left while its code is checked.
CancelCode ==
  /\ ui.pending # None
  /\ ui' = [ui EXCEPT !.pending = None]
  /\ UNCHANGED <<account, jar, store, route, calls>>

LoginReply(c) ==
  IF c.who # c.side THEN "INVALID_CREDENTIALS"
  ELSE IF ~account[c.side].twoFactor \/ c.code = TRUE THEN "ok"
  ELSE IF c.code = None THEN "OTP_REQUIRED" ELSE "INVALID_OTP"

\* finishLogin and finishMailboxLogin. The console's page forgets the identity
\* of the other side, the portal's does not.
LoginLand(i) ==
  LET c == calls[i]
      known == IF c.from = "/login" THEN [s \in Sides |-> None] ELSE store
      who == Identity(c.side, account[c.side])
  IN /\ Is(i, "login") /\ LoginReply(c) = "ok"
     /\ jar' = [jar EXCEPT ![c.side] = account[c.side].version]
     /\ UNCHANGED account
     /\ Become([known EXCEPT ![c.side] = who],
               IF who.must THEN SettingsOf(c.side) ELSE HomeOf(c.side),
               [ui EXCEPT !.pending = None, !.busy = {}], Rest(i))

\* What the form becomes when a sign-in is refused.
Refused(c, reply) ==
  [ui EXCEPT !.busy = @ \ {IF c.code = None THEN "login" ELSE "otp"},
             !.pending = IF c.code = None /\ reply = "OTP_REQUIRED" THEN c.who ELSE @]

\* Only a sign-in of the console that is refused as unknown tries the portal; the
\* form waits for both, and a code the portal wants is not asked for.
LoginFailed(i, reply) ==
  LET c == calls[i]
      falls == c.from = "/login" /\ c.side = "admin" /\ c.code = None
                 /\ reply = "INVALID_CREDENTIALS"
      fallback == c.from = "/login" /\ c.side = "portal"
  IN /\ Is(i, "login")
     /\ reply \in {LoginReply(c), "ERROR"} \ {"ok"}
     /\ UNCHANGED <<account, jar>>
     /\ Become(store, route,
               IF ~c.here \/ falls THEN ui
               ELSE Refused(c, IF fallback THEN "ERROR" ELSE reply),
               IF falls
               THEN Append(Rest(i), [Ask(Login("portal", "/login", c.who, None)) EXCEPT !.here = c.here])
               ELSE Rest(i))

-----------------------------------------------------------------------------
(* The shells.                                                             *)

InShell(side) == route \notin LoginPages /\ SideOf(route) = side /\ store[side] # None

\* handleLogout of MainLayout and MailboxLayout.
Logout(side) ==
  /\ InShell(side)
  /\ Acts(ui, [op |-> "logout", side |-> side])

\* Whether the request succeeds or not, the identity is forgotten.
LogoutLand(i, ok) ==
  LET c == calls[i] IN
  /\ Is(i, "logout")
  /\ jar' = IF ok THEN [jar EXCEPT ![c.side] = None] ELSE jar
  /\ UNCHANGED account
  /\ Become([store EXCEPT ![c.side] = None], LoginOf(c.side), ui, Rest(i))

\* A menu, or the browser's history.
Go(r) ==
  /\ r # route /\ Room
  /\ \E side \in Sides : InShell(side) /\ r \in MenuItems(side)
  /\ UNCHANGED <<account, jar>>
  /\ Become(store, r, ui, calls)

\* The address bar and a reload start the program again.
Reload(r) ==
  /\ UNCHANGED <<account, jar>>
  /\ store' = [s \in Sides |-> None]
  /\ route' = r
  /\ ui' = Fresh(Shown(r, store'), store')
  /\ calls' = OnMount(Shown(r, store'), store')

\* Any request of a page of the shell. The API of the portal answers 403 while
\* the password must change, and the store remembers it.
PageAsks(side) ==
  /\ InShell(side)
  /\ Acts(ui, [op |-> "page", side |-> side])

PageLand(i) ==
  LET c == calls[i]
      told == c.side = "portal" /\ account.portal.must /\ store.portal # None
  IN /\ Is(i, "page")
     /\ UNCHANGED <<account, jar>>
     /\ Become(IF ~Valid(c) THEN Unauthorized(c)
               ELSE IF told THEN [store EXCEPT !.portal.must = TRUE] ELSE store,
               route, ui, Rest(i))

-----------------------------------------------------------------------------
(* The administrator's settings (settings/index.tsx).                      *)

InSettings == route = "/settings" /\ store.admin # None

\* handleChangePassword; its closure keeps the identity of the click.
ChangePassword ==
  /\ InSettings /\ "password" \notin ui.busy
  /\ Acts([ui EXCEPT !.busy = On("password")],
          [op |-> "password", side |-> "admin", admin |-> store.admin])

TwoFactorFree ==
  InSettings /\ ~store.admin.must /\ ui.busy \cap {"status", "twoFactor"} = {}

\* handleSetup2Fa, handleEnable2Fa and handleDisable2Fa: each has its button, and
\* one spinner is for all.
SetupOrEnable(op) ==
  /\ TwoFactorFree
  /\ \/ op = "setup" /\ ~ui.enabled
     \/ op = "enable" /\ ui.secret
     \/ op = "disable" /\ ui.enabled
  /\ Acts([ui EXCEPT !.busy = On("twoFactor")], [op |-> op, side |-> "admin"])

\* What the API does. A two-factor state that is there already is kept, and the
\* session with it.
Written(c) ==
  LET a == account.admin IN
  CASE c.op = "password" -> [Renewed("admin", a) EXCEPT !.must = FALSE]
    [] c.op = "setup" -> [a EXCEPT !.waits = TRUE]
    [] c.op = "enable" /\ ~a.twoFactor ->
         [Renewed("admin", a) EXCEPT !.twoFactor = TRUE, !.waits = FALSE]
    [] c.op = "disable" /\ a.twoFactor ->
         [Renewed("admin", a) EXCEPT !.twoFactor = FALSE, !.waits = FALSE]
    [] OTHER -> a

SettingsWrites == {"password", "setup", "enable", "disable"}

\* The old password or the code may be wrong.
Accepts(c) ==
  /\ Valid(c)
  /\ c.op = "setup" => ~account.admin.twoFactor
  /\ c.op = "enable" => account.admin.twoFactor \/ account.admin.waits
  /\ Written(c).version # account.admin.version => CanRenew("admin")

Spinner(c) == IF c.op = "password" THEN "password" ELSE "twoFactor"

SettingsWriteLand(i) ==
  LET c == calls[i]
      reload == c.op \in {"enable", "disable"}
      next == IF ~c.here THEN ui
              ELSE IF c.op = "setup"
              THEN [ui EXCEPT !.secret = TRUE, !.waits = TRUE, !.enabled = FALSE, !.busy = Off("twoFactor")]
              ELSE IF c.op = "enable" THEN [ui EXCEPT !.secret = FALSE]
              ELSE IF c.op = "disable" THEN ui
              ELSE [ui EXCEPT !.busy = Off("password")]
  IN /\ c.op \in SettingsWrites /\ Accepts(c)
     /\ account' = [account EXCEPT !.admin = Written(c)]
     /\ jar' = IF account' = account \/ c.op = "setup" THEN jar
               ELSE [jar EXCEPT !.admin = account'.admin.version]
     /\ Become(IF c.op = "password" THEN [store EXCEPT !.admin = [c.admin EXCEPT !.must = FALSE]]
               ELSE store,
               route, next,
               IF reload
               THEN Append(Rest(i), [Ask([op |-> "statusAgain", side |-> "admin"]) EXCEPT !.here = c.here])
               ELSE Rest(i))

\* Refused, or written and the answer lost.
SettingsWriteFailed(i, lost) ==
  LET c == calls[i] IN
  /\ c.op \in SettingsWrites
  /\ lost => Accepts(c)
  /\ account' = IF lost THEN [account EXCEPT !.admin = Written(c)] ELSE account
  /\ UNCHANGED jar
  /\ Become(IF Valid(c) THEN store ELSE Unauthorized(c), route,
            IF c.here THEN [ui EXCEPT !.busy = Off(Spinner(c))] ELSE ui, Rest(i))

\* The effect of the page, or loadTwoFactorStatus after a write, which does not
\* ask whether the page is still there before it corrects the store.
StatusLand(i, ok) ==
  LET c == calls[i]
      a == account.admin
      told == ok /\ Valid(c) /\ (c.here \/ Is(i, "statusAgain"))
      busy == ui.busy \ ({"status"} \cup (IF Is(i, "statusAgain") THEN {"twoFactor"} ELSE {}))
  IN /\ c.op \in {"status", "statusAgain"}
     /\ UNCHANGED <<account, jar>>
     /\ Become(IF ~Valid(c) THEN Unauthorized(c)
               ELSE IF told /\ store.admin # None THEN [store EXCEPT !.admin.twoFactor = a.twoFactor]
               ELSE store,
               route,
               IF ~c.here THEN ui
               ELSE IF told
               THEN [ui EXCEPT !.enabled = a.twoFactor, !.waits = a.waits, !.secret = @ /\ a.waits,
                               !.busy = busy]
               ELSE [ui EXCEPT !.busy = busy],
               Rest(i))

-----------------------------------------------------------------------------
SessionInit ==
  /\ account \in Accounts
  /\ jar = [s \in Sides |-> None]
  /\ store = [s \in Sides |-> None]
  /\ route \in Routes
  /\ ui = Fresh(Shown(route, store), store)
  /\ calls = IF route \in LoginPages THEN <<>>
             ELSE <<[op |-> "session", side |-> SideOf(route), cookie |-> jar[SideOf(route)], here |-> TRUE]>>

Handled(i) ==
  \/ SessionLand(i) \/ SessionFailed(i)
  \/ LoginLand(i) \/ \E reply \in {"INVALID_CREDENTIALS", "OTP_REQUIRED", "INVALID_OTP", "ERROR"} :
                       LoginFailed(i, reply)
  \/ \E ok \in BOOLEAN : LogoutLand(i, ok) \/ StatusLand(i, ok) \/ SettingsWriteFailed(i, ok)
  \/ PageLand(i) \/ SettingsWriteLand(i)

SessionNext ==
  \/ \E who \in Sides \cup {"nobody"} : SubmitLogin(who)
  \/ \E right \in BOOLEAN : SubmitCode(right)
  \/ CancelCode
  \/ \E side \in Sides : Logout(side) \/ PageAsks(side) \/ \E must \in BOOLEAN : Elsewhere(side, must)
  \/ \E r \in Routes : Go(r) \/ Reload(r)
  \/ ChangePassword
  \/ \E op \in {"setup", "enable", "disable"} : SetupOrEnable(op)
  \/ \E i \in DOMAIN calls : Handled(i)

-----------------------------------------------------------------------------
\* An identity a store holds came with a cookie, and the cookie is still there:
\* no late answer brings one back after the sign-out took the cookie away.
StoreHasCookie == \A s \in Sides : store[s] # None => jar[s] # None
=============================================================================
