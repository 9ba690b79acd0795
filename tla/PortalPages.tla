------------------------------ MODULE PortalPages ------------------------------
(***************************************************************************)
(* The pages of the mailbox portal: inbox, settings and overview             *)
(* (web/src/pages/mail-portal). The inbox and the settings follow the chosen *)
(* mailbox with effects, and their requests are not numbered.                *)
(***************************************************************************)
EXTENDS ConsolePage

-----------------------------------------------------------------------------
(* The inbox (inbox/index.tsx). shown says what each folder's list answers:  *)
(* of the inbox a mailbox and whether only what is unread, of the sent mail a *)
(* mailbox.                                                                *)

BoxesOf(had) == [op |-> "boxes", had |-> had]
FolderList(f, box, unread) == [op |-> f, box |-> box, unread |-> unread]

\* The composer is open at first when the link says so.
InboxMount ==
  /\ \E compose \in BOOLEAN :
       ui = [folder |-> "inbox", unread |-> FALSE, boxes |-> {}, ready |-> {}, selected |-> None,
             shown |-> [inbox |-> None, sent |-> None], detail |-> None, drawer |-> FALSE,
             compose |-> compose, busy |-> {"list"}]
  /\ calls = <<BoxesOf(None)>>

\* The effects: another mailbox asks for the mailboxes, and anything the list
\* depends on for the list.
InboxBecomes(new, asked) ==
  LET list == new.selected # None /\ \E k \in {"folder", "unread", "selected"} : new[k] # ui[k]
  IN /\ ui' = IF list THEN [new EXCEPT !.busy = @ \cup {"list"}] ELSE new
     /\ calls' = asked
          \o (IF new.selected # ui.selected THEN <<BoxesOf(new.selected)>> ELSE <<>>)
          \o (IF list THEN <<FolderList(new.folder, new.selected, new.unread)>> ELSE <<>>)

\* loadMailboxes: the first mailbox is chosen if none was when it was asked for.
\* ready are those that may send.
InboxBoxesLand(i, boxes, ready) ==
  \E box \in IF calls[i].had = None /\ boxes # {} THEN boxes ELSE {ui.selected} :
    InboxBecomes([ui EXCEPT !.boxes = boxes, !.ready = ready, !.selected = box], Rest(i))

InboxBoxesFailed(i) == UNCHANGED ui /\ Landed(i, <<>>)

\* loadInboxMessages and loadSentMessages.
FolderLand(i, ok) ==
  LET c == calls[i] IN
  /\ ui' = [ui EXCEPT !.busy = Off("list"),
                      !.shown[c.op] = IF ~ok THEN @
                                      ELSE IF c.op = "sent" THEN c.box ELSE <<c.box, c.unread>>]
  /\ Landed(i, <<>>)

\* reloadCurrentFolder: the inbox of no mailbox is that of all of them, the sent
\* mail of none is empty.
InboxRefresh ==
  IF ui.folder = "sent" /\ ui.selected = None
  THEN ui' = [ui EXCEPT !.shown.sent = None] /\ UNCHANGED calls
  ELSE /\ ui' = [ui EXCEPT !.busy = On("list")]
       /\ Asked(<<FolderList(ui.folder, ui.selected, ui.unread)>>)

\* openInboxMessage and openSentMessage: the drawer opens at once, and keeps what
\* it showed when the detail cannot be loaded.
OpenMail(id) ==
  /\ ui' = [ui EXCEPT !.drawer = TRUE, !.busy = On("detail")]
  /\ Asked(<<[op |-> "mail", id |-> id]>>)

MailLand(i, ok) ==
  /\ ui' = [ui EXCEPT !.detail = IF ok THEN calls[i].id ELSE @, !.busy = Off("detail")]
  /\ Landed(i, <<>>)

CloseMail ==
  /\ ui.drawer
  /\ ui' = [ui EXCEPT !.drawer = FALSE]
  /\ UNCHANGED calls

CanSend == ui.selected \in ui.ready

Compose(open) ==
  /\ ui.compose # open /\ (open => CanSend)
  /\ ui' = [ui EXCEPT !.compose = open]
  /\ UNCHANGED calls

\* handleSend, of a mail that has recipients.
SendMail ==
  /\ CanSend /\ "send" \notin ui.busy
  /\ ui' = [ui EXCEPT !.busy = On("send")]
  /\ Asked(<<[op |-> "sendMail", box |-> ui.selected]>>)

\* The sent mail is shown, by the effect and by the handler: the handler asks for
\* that of the mailbox that sent.
SendMailLand(i, ok) ==
  LET idle == [ui EXCEPT !.busy = Off("send")]
      rest == Rest(i)
  IN IF ok
     THEN InboxBecomes([idle EXCEPT !.folder = "sent", !.compose = FALSE, !.busy = @ \cup {"list"}],
                       Append(rest, FolderList("sent", calls[i].box, FALSE)))
     ELSE ui' = idle /\ calls' = rest

InboxHeader ==
  \/ \E f \in {"inbox", "sent"} \ {ui.folder} : InboxBecomes([ui EXCEPT !.folder = f], calls)
  \/ InboxRefresh

InboxFilters ==
  \/ \E box \in ui.boxes \ {ui.selected} : InboxBecomes([ui EXCEPT !.selected = box], calls)
  \/ ui.folder = "inbox" /\ InboxBecomes([ui EXCEPT !.unread = ~@], calls)

\* The rows of a list that is not loading.
MailRow(id) == "list" \notin ui.busy /\ ui.shown[ui.folder] # None /\ OpenMail(id)

ComposeDrawer == ui.compose /\ SendMail

InboxNext ==
  \/ /\ ~ui.drawer /\ ~ui.compose /\ Room
     /\ InboxHeader \/ InboxFilters \/ \E id \in Rows : MailRow(id)
  \/ Room /\ ComposeDrawer
  \/ CloseMail
  \/ \E open \in BOOLEAN : Compose(open)
  \/ \E i \in Waiting("boxes") :
       \/ InboxBoxesFailed(i)
       \/ \E boxes \in SUBSET Rows : \E ready \in SUBSET boxes : InboxBoxesLand(i, boxes, ready)
  \/ \E i \in Waiting("inbox") \cup Waiting("sent"), ok \in BOOLEAN : FolderLand(i, ok)
  \/ \E i \in Waiting("mail"), ok \in BOOLEAN : MailLand(i, ok)
  \/ \E i \in Waiting("sendMail"), ok \in BOOLEAN : SendMailLand(i, ok)

-----------------------------------------------------------------------------
(* The settings (settings/index.tsx). selected is the mailbox the forwarding  *)
(* form names, jobs whose recent results are listed; setup says that the      *)
(* two-factor binding is on the screen.                                     *)

Session(then) == [op |-> "session", then |-> then]
Boxes(preferred, then) ==
  [op |-> "boxes", preferred |-> preferred, had |-> ui.selected, then |-> then]
BoxesHaving(box) == [Boxes(None, None) EXCEPT !.had = box]
JobsFor(box, then) == [op |-> "jobs", box |-> box, then |-> then]
TwoFactorStatus(then) == [op |-> "status", then |-> then]

\* must is what the store says until the session is there.
SettingsMount ==
  \E must \in BOOLEAN :
    /\ ui = [must |-> must, session |-> FALSE, boxes |-> {}, selected |-> None, jobs |-> None,
             enabled |-> FALSE, setup |-> FALSE, busy |-> {}]
    /\ calls = <<Session(None)>> \o (IF must THEN <<>> ELSE <<BoxesHaving(None)>>)

CanManageTwoFactor(u) == u.session /\ ~u.must

\* The effects: a password that must change empties the forwarding form, another
\* mailbox asks for the mailboxes again and for its results, and the two-factor
\* state is loaded when it may be managed.
SettingsBecome(new, asked) ==
  LET locked == new.must /\ ~ui.must
      next == IF locked THEN [new EXCEPT !.selected = None] ELSE new
      changed == ~next.must /\ (ui.must \/ next.selected # ui.selected)
      status == CanManageTwoFactor(next) /\ ~CanManageTwoFactor(ui)
  IN /\ ui' = [next EXCEPT !.jobs = IF locked \/ (changed /\ next.selected = None) THEN None ELSE @,
                           !.busy = IF status THEN @ \cup {"status"} ELSE @]
     /\ calls' = asked
          \o (IF changed THEN <<BoxesHaving(next.selected)>> ELSE <<>>)
          \o (IF changed /\ next.selected # None THEN <<JobsFor(next.selected, None)>> ELSE <<>>)
          \o (IF status THEN <<TwoFactorStatus(None)>> ELSE <<>>)

Ends(then) == ui.busy \ {then}

\* loadSession; a password change goes on with the mailboxes.
SettingsSessionLand(i, known, must) ==
  LET c == calls[i] IN
  SettingsBecome([ui EXCEPT !.session = @ \/ known, !.must = IF known THEN must ELSE @],
                 Rest(i)
                   \o (IF c.then = None THEN <<>> ELSE <<[Boxes(None, c.then) EXCEPT !.had = c.had]>>))

\* loadMailboxes: the form is set to the mailbox that was to be shown, to the one
\* it named when this was asked for, or to the first. A saved forwarding goes on
\* with the results.
SettingsBoxesLand(i, boxes) ==
  LET c == calls[i]
      focus == IF c.preferred \in boxes THEN {c.preferred}
               ELSE IF c.had \in boxes THEN {c.had}
               ELSE IF boxes = {} THEN {ui.selected} ELSE boxes
      jobs == c.then = "forward"
  IN \E box \in focus :
       SettingsBecome([ui EXCEPT !.boxes = boxes, !.selected = box,
                                 !.busy = IF jobs THEN @ ELSE Ends(c.then)],
                      Rest(i) \o (IF jobs THEN <<JobsFor(c.preferred, c.then)>> ELSE <<>>))

SettingsBoxesFailed(i) ==
  LET c == calls[i]
      jobs == c.then = "forward"
  IN /\ ui' = [ui EXCEPT !.busy = IF jobs THEN @ ELSE Ends(c.then)]
     /\ Landed(i, IF jobs THEN <<JobsFor(c.preferred, c.then)>> ELSE <<>>)

\* loadForwardingJobs: no answer is an empty list.
SettingsJobsLand(i, ok) ==
  /\ ui' = [ui EXCEPT !.jobs = IF ok THEN calls[i].box ELSE None, !.busy = Ends(calls[i].then)]
  /\ Landed(i, <<>>)

\* The select of the form shows the values of the mailbox it names.
ChooseBox(box) == SettingsBecome([ui EXCEPT !.selected = box], calls)

\* handlePasswordSubmit and handleForwardSubmit.
ChangePassword ==
  /\ "password" \notin ui.busy
  /\ ui' = [ui EXCEPT !.busy = On("password")]
  /\ Asked(<<[op |-> "password", had |-> ui.selected]>>)

PasswordLand(i, ok) ==
  /\ ui' = IF ok THEN ui ELSE [ui EXCEPT !.busy = Off("password")]
  /\ Landed(i, IF ok THEN <<Merged(Session("password"), [had |-> calls[i].had])>> ELSE <<>>)

SaveForwarding ==
  /\ ~ui.must /\ ui.selected # None /\ "forward" \notin ui.busy
  /\ ui' = [ui EXCEPT !.busy = On("forward")]
  /\ Asked(<<[op |-> "forward", box |-> ui.selected]>>)

ForwardLand(i, ok) ==
  /\ ui' = IF ok THEN ui ELSE [ui EXCEPT !.busy = Off("forward")]
  /\ Landed(i, IF ok THEN <<[Boxes(calls[i].box, "forward") EXCEPT !.had = calls[i].box]>> ELSE <<>>)

\* loadTwoFactorStatus.
StatusLand(i, ok, enabled, waits) ==
  /\ ui' = [ui EXCEPT !.enabled = IF ok THEN enabled ELSE @, !.setup = @ /\ (ok => waits),
                      !.busy = (@ \ {"status"}) \ {calls[i].then}]
  /\ Landed(i, <<>>)

\* The two-factor card: hidden while its state loads, one spinner for all of it.
TwoFactorCard(op) ==
  /\ CanManageTwoFactor(ui) /\ ui.busy \cap {"status", "twoFactor"} = {}
  /\ CASE op = "setup" -> ~ui.enabled
       [] op = "enable" -> ~ui.enabled /\ ui.setup
       [] op = "disable" -> ui.enabled
  /\ ui' = [ui EXCEPT !.busy = On("twoFactor")]
  /\ Asked(<<[op |-> op]>>)

\* handleSetupTwoFactor, handleEnableTwoFactor and handleDisableTwoFactor: the
\* last two go on with the state.
TwoFactorLand(i, ok) ==
  LET op == calls[i].op
      status == ok /\ op # "setup"
      idle == IF status THEN On("status") ELSE Off("twoFactor")
  IN /\ ui' = IF ~ok THEN [ui EXCEPT !.busy = idle]
              ELSE IF op = "setup" THEN [ui EXCEPT !.setup = TRUE, !.enabled = FALSE, !.busy = idle]
              ELSE IF op = "enable" THEN [ui EXCEPT !.setup = FALSE, !.busy = idle]
              ELSE [ui EXCEPT !.busy = idle]
     /\ Landed(i, IF status THEN <<TwoFactorStatus("twoFactor")>> ELSE <<>>)

TwoFactorOps == {"setup", "enable", "disable"}

\* What is there only once the password need not change.
ForwardingCard == ~ui.must /\ ((\E box \in ui.boxes : ChooseBox(box)) \/ SaveForwarding)

SettingsNext ==
  \/ Room /\ (ChangePassword \/ ForwardingCard \/ \E op \in TwoFactorOps : TwoFactorCard(op))
  \/ \E i \in Waiting("session") : \E known, must \in BOOLEAN : SettingsSessionLand(i, known, must)
  \/ \E i \in Waiting("boxes") :
       SettingsBoxesFailed(i) \/ \E boxes \in SUBSET Rows : SettingsBoxesLand(i, boxes) /\ Bounded
  \/ \E i \in Waiting("jobs"), ok \in BOOLEAN : SettingsJobsLand(i, ok)
  \/ \E i \in Waiting("password"), ok \in BOOLEAN : PasswordLand(i, ok)
  \/ \E i \in Waiting("forward"), ok \in BOOLEAN : ForwardLand(i, ok)
  \/ \E i \in Waiting("status") : \E ok, enabled, waits \in BOOLEAN :
       (enabled => ~waits) /\ StatusLand(i, ok, enabled, waits)
  \/ \E i \in UNION {Waiting(op) : op \in TwoFactorOps}, ok \in BOOLEAN : TwoFactorLand(i, ok)

-----------------------------------------------------------------------------
(* The overview (overview/index.tsx): three requests are one load. The       *)
(* demonstration on a local host asks for nothing.                          *)

OverviewMount ==
  \/ ui = [proof |-> TRUE, session |-> FALSE, boxes |-> FALSE, unread |-> FALSE, busy |-> {}]
     /\ calls = <<>>
  \/ ui = [proof |-> FALSE, session |-> FALSE, boxes |-> FALSE, unread |-> FALSE, busy |-> {"load"}]
     /\ calls = <<[op |-> "load"]>>

\* Each of the three that failed leaves its part of the page empty.
OverviewLand(i, got) ==
  /\ ui' = [ui EXCEPT !.session = got.session, !.boxes = got.boxes, !.unread = got.unread,
                      !.busy = Off("load")]
  /\ Landed(i, <<>>)

OverviewNext ==
  \E i \in Waiting("load"), got \in [{"session", "boxes", "unread"} -> BOOLEAN] : OverviewLand(i, got)
=============================================================================
