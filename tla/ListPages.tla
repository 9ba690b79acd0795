------------------------------- MODULE ListPages -------------------------------
(***************************************************************************)
(* The pages of the console that show a list and act on its rows:           *)
(* forwarding jobs, domain messages, operation logs, administrators, portal  *)
(* users and sending configurations (web/src/pages). None of them numbers   *)
(* its requests: the answer that lands last is shown. The options of their   *)
(* filters, loaded once, are left out. A modal dialog covers the page.       *)
(***************************************************************************)
EXTENDS ConsolePage

CONSTANT Filters  \* values of a page's filters, None among them

-----------------------------------------------------------------------------
(* Forwarding jobs (forwarding-jobs/index.tsx).                            *)

JobsList(q, then) == [op |-> "jobs", query |-> q, then |-> then]
JobDetail(id) == [op |-> "job", id |-> id]

JobsMount ==
  /\ ui = [query |-> [page |-> 1, filter |-> None], shown |-> None, rows |-> {}, failed |-> {},
           detail |-> None, drawer |-> FALSE, requeueing |-> None, busy |-> {"jobs"}]
  /\ calls = <<JobsList(ui.query, None)>>

\* Filters, search and pagination: a filter goes back to the first page, and the
\* list is asked for with the new query.
JobsQuery(q) ==
  /\ q # ui.query /\ (q.filter # ui.query.filter => q.page = 1)
  /\ ui' = [ui EXCEPT !.query = q, !.busy = On("jobs")]
  /\ Asked(<<JobsList(q, None)>>)

JobsRefresh ==
  /\ ui' = [ui EXCEPT !.busy = On("jobs")]
  /\ Asked(<<JobsList(ui.query, None)>>)

\* loadJobs: the page of the answer becomes the page of the query, and a page
\* that changes asks for the list again. A requeue continues with the drawer it
\* saw open.
JobsLand(i, rows, failed) ==
  LET c == calls[i]
      query == [ui.query EXCEPT !.page = c.query.page]
      again == query # ui.query
      detail == c.then # None /\ c.then.open
  IN /\ ui' = [ui EXCEPT !.query = query, !.shown = c.query, !.rows = rows, !.failed = failed,
                         !.busy = (IF again THEN ui.busy ELSE Off("jobs"))
                                    \cup (IF detail THEN {"job"} ELSE {}),
                         !.requeueing = IF c.then = None \/ detail THEN @ ELSE None]
     /\ Landed(i, (IF detail THEN <<[JobDetail(c.then.id) EXCEPT !.op = "jobAgain"]>> ELSE <<>>)
                  \o (IF again THEN <<JobsList(query, None)>> ELSE <<>>))

JobsLandFailed(i) ==
  LET c == calls[i]
      detail == c.then # None /\ c.then.open
  IN /\ ui' = [ui EXCEPT !.busy = Off("jobs") \cup (IF detail THEN {"job"} ELSE {}),
                         !.requeueing = IF c.then = None \/ detail THEN @ ELSE None]
     /\ Landed(i, IF detail THEN <<[JobDetail(c.then.id) EXCEPT !.op = "jobAgain"]>> ELSE <<>>)

\* openDetail, from a row or after a requeue; the drawer opens with the answer.
OpenJob(id) ==
  /\ ui' = [ui EXCEPT !.busy = On("job")]
  /\ Asked(<<JobDetail(id)>>)

JobLand(i, ok) ==
  /\ ui' = [ui EXCEPT !.detail = IF ok THEN calls[i].id ELSE @, !.drawer = @ \/ ok,
                      !.busy = Off("job"),
                      !.requeueing = IF calls[i].op = "jobAgain" THEN None ELSE @]
  /\ Landed(i, <<>>)

CloseJob ==
  /\ ui.drawer
  /\ ui' = [ui EXCEPT !.drawer = FALSE, !.detail = None]
  /\ UNCHANGED calls

\* handleRequeue; its closure keeps the query and the drawer of the click.
Requeue(id) ==
  /\ ui' = [ui EXCEPT !.requeueing = id]
  /\ Asked(<<[op |-> "requeue", id |-> id, query |-> ui.query,
              open |-> ui.drawer /\ ui.detail = id]>>)

RequeueLand(i, ok) ==
  LET c == calls[i] IN
  IF ok THEN /\ ui' = [ui EXCEPT !.busy = On("jobs")]
             /\ Landed(i, <<JobsList(c.query, [id |-> c.id, open |-> c.open])>>)
        ELSE /\ ui' = [ui EXCEPT !.requeueing = None]
             /\ Landed(i, <<>>)

\* The columns: a failed or skipped job can be put back, while the button of its
\* row is not busy.
Requeueable == {id \in ui.failed : ui.requeueing # id}

JobsRow(id) == OpenJob(id) \/ (id \in Requeueable /\ Requeue(id))

JobsToolbar ==
  \/ \E f \in Filters : JobsQuery([page |-> 1, filter |-> f])
  \/ JobsRefresh

JobsTable == \E n \in 1..2 : JobsQuery([ui.query EXCEPT !.page = n])

JobsNext ==
  \/ Room /\ (JobsToolbar \/ JobsTable \/ \E id \in ui.rows : JobsRow(id))
  \/ CloseJob
  \/ \E i \in Waiting("jobs") :
       \/ \E rows \in SUBSET Rows : \E failed \in SUBSET rows : JobsLand(i, rows, failed)
       \/ JobsLandFailed(i)
  \/ \E i \in Waiting("job") \cup Waiting("jobAgain"), ok \in BOOLEAN : JobLand(i, ok)
  \/ \E i \in Waiting("requeue"), ok \in BOOLEAN : RequeueLand(i, ok)

-----------------------------------------------------------------------------
(* Rows that are deleted one by one or as a selection. Domain messages,      *)
(* operation logs and the history of sent mail share these handlers.         *)

RowsList(q, then) == [op |-> "rows", query |-> q, then |-> then]

RowsState == [query |-> None, shown |-> None, rows |-> {}, selected |-> {}, deleting |-> None,
              busy |-> {"rows"}]

\* A filter keeps the selection.
RowsQuery(q) ==
  /\ q # ui.query
  /\ ui' = [ui EXCEPT !.query = q, !.busy = On("rows")]
  /\ Asked(<<RowsList(q, None)>>)

RowsRefresh ==
  /\ ui' = [ui EXCEPT !.busy = On("rows")]
  /\ Asked(<<RowsList(ui.query, None)>>)

\* Rows that are not shown any more stay selected until they are cleared.
SelectRows(ids) ==
  /\ ids # ui.selected /\ (ids \ ui.selected) \subseteq ui.rows
  /\ ui' = [ui EXCEPT !.selected = ids]
  /\ UNCHANGED calls

\* What ends with the list a deletion waited for, or with its failure.
Ended(then) ==
  [deleting |-> IF then = "row" THEN None ELSE ui.deleting,
   busy |-> ui.busy \ (IF then = "batch" THEN {"batch"} ELSE {})]

RowsLand(i, changes) ==
  LET end == Ended(calls[i].then) IN
  /\ ui' = With(ui, Merged(changes, [end EXCEPT !.busy = @ \ {"rows"}]))
  /\ Landed(i, <<>>)

\* handleDelete; the closure keeps the query of the click, and the drawer.
DeleteRow(id, saw) ==
  /\ ui.deleting # id
  /\ ui' = [ui EXCEPT !.deleting = id]
  /\ Asked(<<[op |-> "deleteRows", ids |-> {id}, then |-> "row", query |-> ui.query,
              saw |-> saw]>>)

\* handleBatchDelete, behind a button that is there while rows are selected.
DeleteSelected(saw) ==
  /\ ui.selected # {} /\ "batch" \notin ui.busy
  /\ ui' = [ui EXCEPT !.busy = On("batch")]
  /\ Asked(<<[op |-> "deleteRows", ids |-> ui.selected, then |-> "batch", query |-> ui.query,
              saw |-> saw]>>)

DeleteLand(i, changes) ==
  LET c == calls[i] IN
  /\ ui' = With(ui, Merged(changes,
       [selected |-> IF c.then = "batch" THEN {} ELSE ui.selected \ c.ids, busy |-> On("rows")]))
  /\ Landed(i, <<RowsList(c.query, c.then)>>)

DeleteFailed(i) ==
  /\ ui' = With(ui, Ended(calls[i].then))
  /\ Landed(i, <<>>)

RowsNext(changesOfDelete(_)) ==
  \/ \E ids \in SUBSET Rows : SelectRows(ids)
  \/ \E i \in Waiting("rows"), rows \in SUBSET Rows :
       RowsLand(i, [shown |-> calls[i].query, rows |-> rows])
  \/ \E i \in Waiting("deleteRows") : DeleteLand(i, changesOfDelete(i)) \/ DeleteFailed(i)

-----------------------------------------------------------------------------
(* Domain messages (domain-messages/index.tsx).                            *)

MessagesMount ==
  /\ ui = Merged(RowsState, [detail |-> None, drawer |-> FALSE])
  /\ calls = <<RowsList(None, None)>>

\* openDetail: the drawer opens with the answer.
OpenMessage(id) ==
  /\ Asked(<<[op |-> "message", id |-> id]>>)
  /\ UNCHANGED ui

MessageLand(i, ok) ==
  /\ ui' = IF ok THEN [ui EXCEPT !.detail = calls[i].id, !.drawer = TRUE] ELSE ui
  /\ Landed(i, <<>>)

\* Closing the drawer keeps what it shows.
CloseMessage ==
  /\ ui.drawer
  /\ ui' = [ui EXCEPT !.drawer = FALSE]
  /\ UNCHANGED calls

\* closeDrawerIfDeleted, of the message the closure saw.
DrawerAfterDelete(i) ==
  LET close == calls[i].saw \in calls[i].ids IN
  [drawer |-> ui.drawer /\ ~close, detail |-> IF close THEN None ELSE ui.detail]

MessagesRow(id) == OpenMessage(id) \/ DeleteRow(id, ui.detail)

MessagesToolbar ==
  \/ \E f \in Filters : RowsQuery(f)
  \/ DeleteSelected(ui.detail)
  \/ RowsRefresh

MessagesNext ==
  \/ RowsNext(DrawerAfterDelete)
  \/ Room /\ (MessagesToolbar \/ \E id \in ui.rows : MessagesRow(id))
  \/ CloseMessage
  \/ \E i \in Waiting("rows") : RowsLand(i, <<>>)
  \/ \E i \in Waiting("message"), ok \in BOOLEAN : MessageLand(i, ok)

-----------------------------------------------------------------------------
(* Operation logs (operation-logs/index.tsx).                              *)

LogsMount == ui = RowsState /\ calls = <<RowsList(None, None)>>

LogsRow(id) == DeleteRow(id, None)

\* A filter, the page or its size: all are part of the query.
LogsToolbar ==
  \/ \E f \in Filters : RowsQuery(f)
  \/ DeleteSelected(None)
  \/ RowsRefresh

LogsNext ==
  \/ RowsNext(LAMBDA i : <<>>)
  \/ Room /\ (LogsToolbar \/ \E id \in ui.rows : LogsRow(id))
  \/ \E i \in Waiting("rows") : RowsLand(i, <<>>)

-----------------------------------------------------------------------------
(* Sending configurations (sending-configs/index.tsx).                     *)

\* Four lists are one load: rows are the history of sent mail, configs the
\* configurations, domains those that may send.
SendingMount ==
  /\ ui = Merged(RowsState, [configs |-> {}, domains |-> {}, deletingConfig |-> None, open |-> FALSE])
  /\ calls = <<RowsList(None, None)>>

DeleteConfig(id) ==
  /\ ui.deletingConfig # id
  /\ ui' = [ui EXCEPT !.deletingConfig = id]
  /\ Asked(<<[op |-> "deleteConfig", id |-> id]>>)

\* "deleted: false" ends like an error.
DeleteConfigLand(i, deleted) ==
  IF deleted THEN /\ ui' = [ui EXCEPT !.busy = On("rows")]
                  /\ Landed(i, <<RowsList(None, "config")>>)
             ELSE /\ ui' = [ui EXCEPT !.deletingConfig = None]
                  /\ Landed(i, <<>>)

\* The dialog keeps its fields in a form of the page.
OpenSend(open) ==
  /\ ui.open # open
  /\ ui' = [ui EXCEPT !.open = open]
  /\ UNCHANGED calls

\* handleSend, of a valid form: it needs a domain to choose.
SendTest ==
  /\ ui.open /\ "send" \notin ui.busy /\ ui.domains # {}
  /\ ui' = [ui EXCEPT !.busy = On("send")]
  /\ Asked(<<[op |-> "send"]>>)

SendLand(i, ok) ==
  IF ok THEN /\ ui' = [ui EXCEPT !.open = FALSE, !.busy = On("rows")]
             /\ Landed(i, <<RowsList(None, "send")>>)
        ELSE /\ ui' = [ui EXCEPT !.busy = Off("send")]
             /\ Landed(i, <<>>)

\* A list that fails is empty; what waited for the load ends.
SendingLand(i, rows, configs, domains) ==
  LET then == calls[i].then IN
  /\ ui' = With(ui, [rows |-> rows, configs |-> configs, domains |-> domains,
                     deletingConfig |-> IF then = "config" THEN None ELSE ui.deletingConfig,
                     deleting |-> Ended(then).deleting,
                     busy |-> Ended(then).busy \ ({"rows"} \cup ({"send"} \cap {then}))])
  /\ Landed(i, <<>>)

SendingRow ==
  \/ \E id \in ui.configs : DeleteConfig(id)
  \/ \E id \in ui.rows : DeleteRow(id, None)

SendingControls == RowsRefresh \/ DeleteSelected(None)

SendingNext ==
  \/ Room /\ (SendingRow \/ SendingControls \/ SendTest)
  \/ \E ids \in SUBSET Rows : SelectRows(ids)
  \/ \E open \in BOOLEAN : OpenSend(open)
  \/ \E i \in Waiting("rows"), rows \in SUBSET Rows, configs \in SUBSET Rows,
       domains \in SUBSET Rows : SendingLand(i, rows, configs, domains)
  \/ \E i \in Waiting("deleteRows") : DeleteLand(i, <<>>) \/ DeleteFailed(i)
  \/ \E i \in Waiting("deleteConfig"), ok \in BOOLEAN : DeleteConfigLand(i, ok)
  \/ \E i \in Waiting("send"), ok \in BOOLEAN : SendLand(i, ok)

-----------------------------------------------------------------------------
(* Administrators (admins/index.tsx).                                      *)

AdminsList == [op |-> "admins"]

AdminsMount ==
  /\ \E self \in Rows :
       ui = [self |-> self, rows |-> {}, open |-> FALSE, editing |-> None, form |-> None,
             busy |-> {"admins"}]
  /\ calls = <<AdminsList>>

\* A page or its size, an effect that loads again.
AdminsTurn ==
  /\ ui' = [ui EXCEPT !.busy = On("admins")]
  /\ Asked(<<AdminsList>>)

\* handleCreate and handleEdit: the form holds the row it was opened for.
EditAdmin(id) ==
  /\ ~ui.open
  /\ ui' = [ui EXCEPT !.open = TRUE, !.editing = id, !.form = id]
  /\ UNCHANGED calls

CloseAdmin ==
  /\ ui.open
  /\ ui' = [ui EXCEPT !.open = FALSE]
  /\ UNCHANGED calls

\* handleSubmit: the button of the dialog is never busy.
SaveAdmin ==
  /\ ui.open
  /\ Asked(<<[op |-> "saveAdmin", id |-> ui.editing, of |-> ui.form]>>)
  /\ UNCHANGED ui

DeleteAdmin(id) ==
  /\ Asked(<<[op |-> "deleteAdmin", id |-> id]>>)
  /\ UNCHANGED ui

\* An answer to a save closes whatever dialog is open.
AdminWriteLand(i, ok) ==
  IF ok THEN /\ ui' = [ui EXCEPT !.open = @ /\ calls[i].op # "saveAdmin", !.busy = On("admins")]
             /\ Landed(i, <<AdminsList>>)
        ELSE UNCHANGED ui /\ Landed(i, <<>>)

AdminsLand(i, rows) ==
  /\ ui' = [ui EXCEPT !.rows = rows, !.busy = Off("admins")]
  /\ Landed(i, <<>>)

\* The row of the signed-in administrator has no button to delete it.
AdminsRow(id) == EditAdmin(id) \/ (id # ui.self /\ Room /\ DeleteAdmin(id))

AdminsDialog == CloseAdmin \/ (Room /\ SaveAdmin)

AdminsNext ==
  \/ \E id \in ui.rows : AdminsRow(id)
  \/ EditAdmin(None)
  \/ Room /\ AdminsTurn
  \/ AdminsDialog
  \/ \E i \in Waiting("saveAdmin") \cup Waiting("deleteAdmin"), ok \in BOOLEAN :
       AdminWriteLand(i, ok)
  \/ \E i \in Waiting("admins") : AdminsLand(i, ui.rows) \/ \E rows \in SUBSET Rows : AdminsLand(i, rows)

-----------------------------------------------------------------------------
(* Portal users (mailbox-users/index.tsx).                                 *)

UsersList(then) == [op |-> "users", then |-> then]

\* members is whose memberships the form holds: nobody's until they are loaded.
UsersMount ==
  /\ ui = [rows |-> {}, open |-> FALSE, editing |-> None, members |-> None, busy |-> {"users"}]
  /\ calls = <<UsersList(None)>>

\* openModal: the form is reset, the memberships of a row follow.
EditUser(id) ==
  /\ ~ui.open
  /\ ui' = [ui EXCEPT !.open = TRUE, !.editing = id, !.members = None,
                      !.busy = IF id = None THEN Off("member") ELSE On("member")]
  /\ IF id = None THEN UNCHANGED calls ELSE Room /\ Asked(<<[op |-> "member", id |-> id]>>)

\* The continuation checks that the page is mounted, not whom it edits by now.
MemberLand(i, ok) ==
  /\ ui' = [ui EXCEPT !.members = IF ok THEN calls[i].id ELSE @, !.busy = Off("member")]
  /\ Landed(i, <<>>)

CloseUser ==
  /\ ui.open
  /\ ui' = [ui EXCEPT !.open = FALSE]
  /\ UNCHANGED calls

\* handleSubmit, behind confirmLoading.
SaveUser ==
  /\ ui.open /\ ui.busy \cap {"saveUser", "member"} = {}
  /\ ui' = [ui EXCEPT !.busy = On("saveUser")]
  /\ Asked(<<[op |-> "saveUser", id |-> ui.editing, members |-> ui.members]>>)

SaveUserLand(i, ok) ==
  IF ok THEN /\ ui' = [ui EXCEPT !.open = FALSE, !.busy = On("users")]
             /\ Landed(i, <<UsersList("saveUser")>>)
        ELSE /\ ui' = [ui EXCEPT !.busy = Off("saveUser")]
             /\ Landed(i, <<>>)

DeleteUser(id) ==
  /\ Asked(<<[op |-> "deleteUser", id |-> id]>>)
  /\ UNCHANGED ui

DeleteUserLand(i, ok) ==
  IF ok THEN /\ ui' = [ui EXCEPT !.busy = On("users")]
             /\ Landed(i, <<UsersList(None)>>)
        ELSE UNCHANGED ui /\ Landed(i, <<>>)

\* loadData: a list that fails keeps the rows.
UsersLand(i, rows) ==
  /\ ui' = [ui EXCEPT !.rows = rows, !.busy = @ \ {"users", calls[i].then}]
  /\ Landed(i, <<>>)

UsersRow(id) == EditUser(id) \/ (Room /\ DeleteUser(id))

UsersDialog == CloseUser \/ (Room /\ SaveUser)

UsersNext ==
  \/ \E id \in ui.rows : UsersRow(id)
  \/ EditUser(None)
  \/ UsersDialog
  \/ \E i \in Waiting("member"), ok \in BOOLEAN : MemberLand(i, ok)
  \/ \E i \in Waiting("saveUser"), ok \in BOOLEAN : SaveUserLand(i, ok)
  \/ \E i \in Waiting("deleteUser"), ok \in BOOLEAN : DeleteUserLand(i, ok)
  \/ \E i \in Waiting("users"), rows \in SUBSET Rows \cup {ui.rows} : UsersLand(i, rows)
=============================================================================
