----------------------------- MODULE MailboxesPage -----------------------------
(***************************************************************************)
(* The mailboxes of the own domains (domain-mailboxes/index.tsx): one table   *)
(* with filters and ticks, and four dialogs: one mailbox, a batch to create,  *)
(* a batch to delete by filter, and a user to join the ticked rows to. A link  *)
(* of the domains page may ask for the first dialog (domainId, intent).       *)
(***************************************************************************)
EXTENDS ConsolePage

CONSTANT Filters

Mailboxes(filter, then) == [op |-> "mailboxes", filter |-> filter, then |-> then]

\* link is the domain of a link that has not opened its dialog; known, whether it is
\* among the active domains; users, whether there is a user to join rows to.
MailboxesMount ==
  /\ \E link \in Filters :
       ui = [rows |-> {}, ticked |-> {}, filter |-> None, open |-> {}, editing |-> None,
             link |-> link, known |-> FALSE, users |-> FALSE, range |-> None, busy |-> {"mailboxes"}]
  /\ calls = <<Mailboxes(None, None)>>

\* The two effects: a link whose domain is known opens the dialog for a new mailbox
\* as soon as it is closed and sets the filter, and a new filter loads.
Settled(new, waiting) ==
  LET opens == new.link # None /\ new.known /\ "mailbox" \notin new.open
      shown == IF opens THEN [new EXCEPT !.filter = new.link, !.link = None, !.editing = None,
                                         !.open = @ \cup {"mailbox"}]
                        ELSE new
      again == shown.filter # ui.filter
  IN /\ ui' = IF again THEN [shown EXCEPT !.busy = @ \cup {"mailboxes"}] ELSE shown
     /\ calls' = IF again THEN Append(waiting, Mailboxes(shown.filter, None)) ELSE waiting

\* loadData: four lists, each of which may have failed and is empty then. Nothing
\* asks whether the filter is still the one of the question.
MailboxesLand(i, rows, known, users) ==
  LET c == calls[i] IN
  Settled([ui EXCEPT !.rows = rows, !.known = known, !.users = users,
                     !.busy = @ \ {"mailboxes", c.then}], Rest(i))

FilterMailboxes(filter) ==
  filter # ui.filter /\ Settled([ui EXCEPT !.filter = filter], calls)

\* rowSelection: a tick forgets the rows the table no longer has. Only a tick does:
\* a row that went out of sight by a filter or a deletion stays ticked.
Tick(id) ==
  /\ ui' = [ui EXCEPT !.ticked = {r \in ui.rows : (r # id) <=> (r \in @)}]
  /\ UNCHANGED calls

\* openMailboxModal: the form takes the row's values.
EditMailbox(id) ==
  Settled([ui EXCEPT !.editing = id, !.open = @ \cup {"mailbox"}], calls)

\* openBatchCreateModal, openBatchAssignModal, and openBatchDeleteModal, whose form
\* takes the filters of the table.
OpenBatch(dialog) ==
  Settled([ui EXCEPT !.open = @ \cup {dialog},
                        !.range = IF dialog = "batchDelete" THEN ui.filter ELSE @], calls)

CloseMailboxes(dialog) ==
  dialog \in ui.open /\ Settled([ui EXCEPT !.open = @ \ {dialog}], calls)

\* Every write captures the filter of the click for the load that follows it.
MailboxWrite(spinner, change) ==
  /\ spinner \notin ui.busy \/ spinner = None
  /\ ui' = [ui EXCEPT !.busy = @ \cup ({spinner} \ {None})]
  /\ Asked(<<Merged(change, [then |-> spinner, filter |-> ui.filter])>>)

\* handleMailboxSubmit.
SaveMailbox ==
  "mailbox" \in ui.open /\ MailboxWrite("saveMailbox", [op |-> "mailbox", id |-> ui.editing])

\* handleBatchCreateSubmit.
BatchCreate ==
  "batchCreate" \in ui.open /\ MailboxWrite("create", [op |-> "batchCreate"])

\* handleDeleteSelected and handleBatchDeleteSubmit share a spinner. The second one's
\* form needs a domain; what else it leaves open is not asked.
DeleteTicked ==
  ui.ticked # {} /\ MailboxWrite("delete", [op |-> "deleteTicked", ids |-> ui.ticked])
BatchDelete ==
  /\ "batchDelete" \in ui.open
  /\ MailboxWrite("delete", [op |-> "batchDelete", range |-> ui.range])

\* handleBatchAssignSubmit: the rows ticked at the click.
BatchAssign ==
  /\ "batchAssign" \in ui.open /\ ui.ticked # {}
  /\ MailboxWrite("assign", [op |-> "batchAssign", ids |-> ui.ticked])

\* handleSingleDelete has no spinner and leaves the ticks alone.
DeleteMailbox(id) == MailboxWrite(None, [op |-> "deleteMailbox", id |-> id])

ClearsTicks == {"deleteTicked", "batchDelete", "batchAssign"}
MailboxWrites == {"mailbox", "batchCreate", "deleteMailbox"} \cup ClearsTicks

MailboxWriteLand(i, ok) ==
  LET c == calls[i] IN
  IF ok THEN Settled([ui EXCEPT !.open = @ \ {c.op}, !.ticked = IF c.op \in ClearsTicks THEN {} ELSE @,
                                !.busy = On("mailboxes")],
                     Append(Rest(i), Mailboxes(c.filter, c.then)))
        ELSE ui' = [ui EXCEPT !.busy = Off(c.then)] /\ Landed(i, <<>>)

-----------------------------------------------------------------------------
MailboxRow(id) == EditMailbox(id) \/ DeleteMailbox(id) \/ Tick(id)

MailboxesToolbar ==
  \/ EditMailbox(None)
  \/ \E filter \in Filters : FilterMailboxes(filter)
  \/ \E dialog \in {"batchCreate", "batchDelete"} : OpenBatch(dialog)

TickedBar == DeleteTicked \/ (ui.ticked # {} /\ ui.users /\ OpenBatch("batchAssign"))

MailboxDialogs == SaveMailbox \/ BatchCreate \/ BatchAssign \/ BatchDelete

MailboxesNext ==
  \/ /\ Room /\ ui.open = {}
     /\ MailboxesToolbar \/ TickedBar \/ \E id \in ui.rows : MailboxRow(id)
  \/ Room /\ MailboxDialogs
  \/ Room /\ \E dialog \in ui.open : CloseMailboxes(dialog)
  \/ \E i \in Waiting("mailboxes"), rows \in SUBSET Rows \cup {ui.rows}, known, users \in BOOLEAN :
       MailboxesLand(i, rows, known, users)
  \/ \E i \in UNION {Waiting(op) : op \in MailboxWrites}, ok \in BOOLEAN : MailboxWriteLand(i, ok)
=============================================================================
