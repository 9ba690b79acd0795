------------------------------- MODULE MailDialog -------------------------------
(***************************************************************************)
(* The mails of one external mailbox (emails/index.tsx): three folders, ticks,  *)
(* one mail on top, and the dialog that sends one. The list and the detail       *)
(* number their requests; the writes do not, and keep the mailbox and the        *)
(* folder of the click.                                                       *)
(***************************************************************************)
EXTENDS ConsolePage

Folders == {"INBOX", "SENT", "Junk"}

\* account and folder are what the dialog is open for, mails whose list it shows (an
\* emptied list is None), wanted what its latest load asked for, detail the mail
\* that is open and opened the one that was clicked; sends and clears, whether the
\* mailbox can.
MailsMount ==
  /\ \E sends, clears \in BOOLEAN :
       ui = [open |-> FALSE, account |-> None, folder |-> "INBOX", mails |-> None, ticked |-> FALSE,
             wanted |-> None, detail |-> None, opened |-> None, compose |-> FALSE,
             sends |-> sends, clears |-> clears, busy |-> {}]
  /\ calls = <<>>

\* loadMails empties the list and takes a number.
Loading(state, waiting, account, folder) ==
  /\ ui' = [state EXCEPT !.mails = None, !.ticked = FALSE, !.wanted = <<account, folder>>,
                         !.busy = @ \cup {"mails"}]
  /\ calls' = Numbered(waiting, [op |-> "mails", of |-> <<account, folder>>])

\* handleViewMails, handleMailboxTabChange and handleRefreshMails.
ViewMails(id, folder) ==
  Loading([ui EXCEPT !.open = TRUE, !.account = id, !.folder = folder], calls, id, folder)
ChangeFolder(folder) ==
  folder # ui.folder /\ Loading([ui EXCEPT !.folder = folder], calls, ui.account, folder)
RefreshMails ==
  "mails" \notin ui.busy /\ Loading(ui, calls, ui.account, ui.folder)

MailsLand(i, ok) ==
  LET c == calls[i] IN
  /\ ui' = IF c.late THEN ui
           ELSE [ui EXCEPT !.mails = IF ok THEN c.of ELSE @, !.busy = Off("mails")]
  /\ Landed(i, <<>>)

TickMails(some) ==
  /\ ui.mails # None /\ "mails" \notin ui.busy /\ some # ui.ticked
  /\ ui' = [ui EXCEPT !.ticked = some]
  /\ UNCHANGED calls

-----------------------------------------------------------------------------
(* What changes the mailbox.                                               *)

Change(op, spinner) ==
  /\ ui' = [ui EXCEPT !.busy = @ \cup spinner]
  /\ Asked(<<[op |-> op, of |-> <<ui.account, ui.folder>>, listed |-> ui.mails]>>)

\* handleDeleteSelectedMails: the ticks are of the list, the folder of the tab.
DeleteMails == ui.ticked /\ "delete" \notin ui.busy /\ Change("delete", {"delete"})

\* handleClearMailbox.
ClearMails ==
  /\ ui.clears /\ ui.folder # "SENT" /\ "mails" \notin ui.busy
  /\ Change("clear", {})

\* What is left replaces whatever list the dialog has by now.
ChangeLand(i, ok) ==
  LET c == calls[i]
      ended == [ui EXCEPT !.busy = Off(c.op)]
  IN /\ ui' = IF ok THEN [ended EXCEPT !.ticked = FALSE, !.mails = IF c.op = "delete" THEN c.of ELSE None]
              ELSE ended
     /\ Landed(i, <<>>)

\* handleSendMail; it goes on with the folder of what was sent, of the mailbox of
\* the click.
OpenCompose(open) ==
  /\ open # ui.compose /\ (open => ui.sends)
  /\ ui' = [ui EXCEPT !.compose = open]
  /\ UNCHANGED calls

SendMail ==
  /\ ui.compose /\ "send" \notin ui.busy
  /\ ui' = [ui EXCEPT !.busy = On("send")]
  /\ Asked(<<[op |-> "send", id |-> ui.account]>>)

SendMailLand(i, ok) ==
  LET sent == [ui EXCEPT !.busy = Off("send")] IN
  IF ok THEN Loading([sent EXCEPT !.compose = FALSE, !.folder = "SENT"], Rest(i), calls[i].id, "SENT")
        ELSE ui' = sent /\ Landed(i, <<>>)

-----------------------------------------------------------------------------
(* One mail.                                                               *)

Superseded(waiting, op) ==
  [i \in DOMAIN waiting |-> IF waiting[i].op = op THEN [waiting[i] EXCEPT !.late = TRUE] ELSE waiting[i]]

\* handleViewEmailDetail shows the row at once and aborts the detail before.
OpenMail(id) ==
  LET mail == <<ui.account, ui.folder, id>> IN
  /\ ui.mails # None /\ "mails" \notin ui.busy
  /\ ui' = [ui EXCEPT !.detail = mail, !.opened = mail, !.busy = On("detail")]
  /\ calls' = Numbered(calls, [op |-> "detail", mail |-> mail])

\* Mutant: an answer is shown though another mail was opened since.
MailLandAlways(i, ok) ==
  /\ ui' = [ui EXCEPT !.detail = IF ok THEN calls[i].mail ELSE @, !.busy = Off("detail")]
  /\ Landed(i, <<>>)

MailLand(i, ok) ==
  LET c == calls[i] IN
  /\ ui' = IF c.late THEN ui
           ELSE [ui EXCEPT !.detail = IF ok THEN c.mail ELSE @, !.busy = Off("detail")]
  /\ Landed(i, <<>>)

\* closeMailDetail and closeMailboxModal.
WithoutMail(state) == [state EXCEPT !.detail = None, !.opened = None, !.busy = @ \ {"detail"}]

CloseMail ==
  /\ ui.detail # None
  /\ ui' = WithoutMail(ui)
  /\ calls' = Superseded(calls, "detail")

CloseMails ==
  /\ ui.open
  /\ ui' = WithoutMail([ui EXCEPT !.open = FALSE, !.mails = None, !.ticked = FALSE, !.wanted = None,
                                  !.busy = Off("mails")])
  /\ calls' = Superseded(Superseded(calls, "mails"), "detail")

-----------------------------------------------------------------------------
MailsToolbar ==
  \/ RefreshMails
  \/ DeleteMails
  \/ ClearMails
  \/ \E folder \in Folders : ChangeFolder(folder)

MailDialogNext ==
  \/ Room /\ ~ui.open /\ ~ui.compose /\ \E id \in Rows, folder \in {"INBOX", "SENT"} : ViewMails(id, folder)
  \/ Room /\ ui.open /\ ~ui.compose /\ ui.detail = None
       /\ (MailsToolbar \/ \E id \in 1..2 : OpenMail(id))
  \/ Room /\ SendMail
  \/ ~ui.compose /\ (CloseMail \/ (ui.detail = None /\ CloseMails))
  \/ ui.open /\ ui.detail = None /\ OpenCompose(TRUE)
  \/ OpenCompose(FALSE)
  \/ \E some \in BOOLEAN : ui.open /\ TickMails(some)
  \/ \E i \in Waiting("mails"), ok \in BOOLEAN : MailsLand(i, ok)
  \/ \E i \in Waiting("detail"), ok \in BOOLEAN : MailLand(i, ok)
  \/ \E i \in UNION {Waiting(op) : op \in {"delete", "clear"}}, ok \in BOOLEAN : ChangeLand(i, ok)
  \/ \E i \in Waiting("send"), ok \in BOOLEAN : SendMailLand(i, ok)

-----------------------------------------------------------------------------
\* The mail on top is the one that was opened last, whatever answers are late.
MailOfClick == ui.detail = ui.opened

=============================================================================
