-------------------------------- MODULE Console --------------------------------
(***************************************************************************)
(* The web console, page by page (web/src/pages): each behaviour is one page    *)
(* from its mount on, of an administrator or a portal user who is signed in;    *)
(* the page "session" is the way in and out (ConsoleSession). The table of        *)
(* external mailboxes is four pages, its list and its three dialogs, which meet   *)
(* in the list's reload only.                                                 *)
(***************************************************************************)
EXTENDS ConsolePage

CONSTANTS
  Pages,       \* the pages of an instance
  Filters,     \* values of a page's filters, None among them
  TwoFactor,   \* whether the administrator has a second factor
  MaxLines,    \* lines of an import
  Accounts,    \* the accounts of the page "session"
  MaxVersion   \* their session versions

VARIABLES account, jar, store, route

Lists == INSTANCE ListPages
Domains == INSTANCE DomainsPage
Mailboxes == INSTANCE MailboxesPage
Keys == INSTANCE ApiKeysPage
Emails == INSTANCE EmailsPage
Account == INSTANCE EmailAccount
Mails == INSTANCE MailDialog
Imports == INSTANCE ImportWorkflow
Portal == INSTANCE PortalPages
Session == INSTANCE ConsoleSession

ASSUME FiltersAssumption == None \in Filters
\* A cookie is a session version; no version is null.
ASSUME NoneAssumption == None \notin Nat
ASSUME PagesAssumption ==
  Pages \subseteq {"jobs", "messages", "logs", "sending", "admins", "users", "domains", "mailboxes", "keys",
                   "emails", "account", "mails", "import", "inbox", "settings", "overview", "session"}
\* A row's identifier is no name of a tool.
ASSUME RowsAssumption == Rows \cap {"batchFetch", "batchClear"} = {}
\* Null is no value of what a field or a parameter holds otherwise.
ASSUME NullAssumption ==
  /\ None \notin BOOLEAN /\ None # "password"
  /\ None \notin [id : Rows, open : BOOLEAN]
  /\ None \notin [must : BOOLEAN, super : BOOLEAN, twoFactor : BOOLEAN]
ASSUME AccountsAssumption == Accounts \subseteq [Session!Sides -> Session!AccountRow]

vars == <<pageVars, account, jar, store, route>>

Mounted(p) ==
  CASE p = "jobs" -> Lists!JobsMount
    [] p = "messages" -> Lists!MessagesMount
    [] p = "logs" -> Lists!LogsMount
    [] p = "sending" -> Lists!SendingMount
    [] p = "admins" -> Lists!AdminsMount
    [] p = "users" -> Lists!UsersMount
    [] p = "domains" -> Domains!DomainsMount
    [] p = "mailboxes" -> Mailboxes!MailboxesMount
    [] p = "keys" -> Keys!KeysMount
    [] p = "emails" -> Emails!EmailsMount
    [] p = "account" -> Account!AccountMount
    [] p = "mails" -> Mails!MailsMount
    [] p = "import" -> Imports!ImportMount
    [] p = "inbox" -> Portal!InboxMount
    [] p = "settings" -> Portal!SettingsMount
    [] p = "overview" -> Portal!OverviewMount

\* Of the other pages the session is not looked at.
Init ==
  /\ page \in Pages
  /\ IF page = "session" THEN Session!SessionInit
     ELSE Mounted(page) /\ account = None /\ jar = None /\ store = None /\ route = None

Acts ==
  \/ page = "jobs" /\ Lists!JobsNext
  \/ page = "messages" /\ Lists!MessagesNext
  \/ page = "logs" /\ Lists!LogsNext
  \/ page = "sending" /\ Lists!SendingNext
  \/ page = "admins" /\ Lists!AdminsNext
  \/ page = "users" /\ Lists!UsersNext
  \/ page = "domains" /\ Domains!DomainsNext
  \/ page = "mailboxes" /\ Mailboxes!MailboxesNext
  \/ page = "keys" /\ Keys!KeysNext
  \/ page = "emails" /\ Emails!EmailsNext
  \/ page = "account" /\ Account!AccountNext
  \/ page = "mails" /\ Mails!MailDialogNext
  \/ page = "import" /\ Imports!ImportNext
  \/ page = "inbox" /\ Portal!InboxNext
  \/ page = "settings" /\ Portal!SettingsNext
  \/ page = "overview" /\ Portal!OverviewNext

Next ==
  /\ UNCHANGED page
  /\ \/ Acts /\ UNCHANGED <<account, jar, store, route>>
     \/ page = "session" /\ Session!SessionNext

Spec == Init /\ [][Next]_vars

-----------------------------------------------------------------------------
\* The rows whose buttons turn, of the pages that have such.
Slots == {ui[slot] : slot \in DOMAIN ui
                                \cap {"requeueing", "deleting", "deletingConfig", "toggling", "deletingAlias"}}

\* Nothing spins for ever: on every page, when no request waits, no button, table or
\* dialog is still busy, however answers overtook each other and dialogs were closed
\* and opened in between. (The inbox without a mailbox never loads its list.)
QuietIsIdle ==
  calls = <<>> =>
    /\ Slots \subseteq {None}
    /\ ui.busy \subseteq IF page = "inbox" /\ ui.selected = None THEN {"list"} ELSE {}

\* The table of external mailboxes shows the answer to its latest question once nothing
\* waits, whatever landed late (the numbers of fetchData).
LatestShown ==
  page = "emails" /\ Waiting("emails") = {} /\ ~ui.failed => ui.shown = ui.asked

\* MailDialog: the mail on top is the one clicked last.
MailOfClick == page = "mails" => Mails!MailOfClick

\* ImportWorkflow: no import asks for a mailbox twice.
MailboxOnce == page = "import" => Imports!MailboxOnce

\* ConsoleSession: no late answer brings an identity back that signed out.
StoreHasCookie == page = "session" => Session!StoreHasCookie
=============================================================================
