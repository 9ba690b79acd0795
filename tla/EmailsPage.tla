------------------------------- MODULE EmailsPage -------------------------------
(***************************************************************************)
(* The table of external mailboxes (emails/index.tsx): filters, ticks, the     *)
(* tools that work on the ticked rows or, when none is ticked, on every row   *)
(* the filters match, and the groups behind the second tab; changing the tab    *)
(* changes nothing else, and is left out. EmailAccount, MailDialog and         *)
(* ImportWorkflow have the page's other dialogs.                             *)
(***************************************************************************)
EXTENDS ConsolePage

CONSTANT Filters

\* filter is the keyword, group, provider, protocol and status the table is asked with,
\* typed the same with the keyword of the search box; asked is the last question, shown
\* the one whose answer the rows are, failed whether the answer to the last one was an
\* error. A link may bring a filter along.
EmailsMount ==
  \E link \in Filters :
    /\ ui = [rows |-> {}, n |-> 1, typed |-> link, filter |-> link, asked |-> [n |-> 1, filter |-> link],
             shown |-> None, failed |-> FALSE, ticked |-> {}, groups |-> {},
             open |-> None, target |-> None, checking |-> {}, busy |-> {"emails"}]
    /\ calls = <<[op |-> "groups"],
                 [op |-> "emails", ask |-> ui.asked, after |-> None, late |-> FALSE]>>

\* What fetchData asks with, from the state of the render that made it.
Question == [n |-> ui.n, filter |-> ui.filter]

\* fetchData takes a number at the call, not at the click: one that a write calls when
\* it is done asks what it was clicked under, and is the latest all the same.
FetchEmails(waiting, ask, after) ==
  Numbered(waiting, [op |-> "emails", ask |-> ask, after |-> after])

Groups == [op |-> "groups"]

\* What waits for fetchData ends with it, late or not.
Finished(state, after) ==
  IF after \in Rows THEN [state EXCEPT !.checking = @ \ {after}]
                    ELSE [state EXCEPT !.busy = @ \ {after}]

\* Mutants: the answer that lands is shown, whichever was asked last; one that is late
\* ends nothing.
EmailsLandAlways(i, rows) ==
  /\ ui' = [Finished(ui, calls[i].after) EXCEPT !.rows = rows, !.shown = calls[i].ask, !.failed = FALSE,
                                                !.busy = @ \ {"emails"}]
  /\ Landed(i, <<>>)
EmailsLandInTime(i, rows) ==
  /\ ui' = IF calls[i].late THEN ui
           ELSE [Finished(ui, calls[i].after) EXCEPT !.rows = rows, !.shown = calls[i].ask, !.failed = FALSE,
                                                     !.busy = @ \ {"emails"}]
  /\ Landed(i, <<>>)

\* fetchData, once its answer is there.
EmailsLand(i, rows) ==
  LET c == calls[i]
      ended == Finished(ui, c.after)
  IN /\ ui' = IF c.late THEN ended
              ELSE [ended EXCEPT !.rows = rows, !.shown = c.ask, !.failed = FALSE, !.busy = @ \ {"emails"}]
     /\ Landed(i, <<>>)

\* An answer that failed leaves the rows.
EmailsFail(i) ==
  LET c == calls[i] IN
  /\ ui' = IF c.late THEN Finished(ui, c.after)
           ELSE [Finished(ui, c.after) EXCEPT !.failed = TRUE, !.busy = @ \ {"emails"}]
  /\ Landed(i, <<>>)

GroupsLand(i, groups) ==
  /\ ui' = [ui EXCEPT !.groups = groups]
  /\ Landed(i, <<>>)

\* A new filter goes back to the first page, a new keyword does not.
Asking(new) ==
  LET ask == [n |-> new.n, filter |-> new.filter] IN
  IF ask = Question THEN ui' = new /\ UNCHANGED calls
  ELSE /\ ui' = [new EXCEPT !.asked = ask, !.busy = @ \cup {"emails"}]
       /\ calls' = FetchEmails(calls, ask, None)

FilterEmails(filter) ==
  /\ filter # ui.filter
  /\ Asking([ui EXCEPT !.filter = filter, !.n = 1, !.typed = IF @ = ui.filter THEN filter ELSE @])
TurnEmails(n) == n # ui.n /\ Asking([ui EXCEPT !.n = n])

TypeKeyword(keyword) ==
  /\ keyword # ui.typed
  /\ ui' = [ui EXCEPT !.typed = keyword]
  /\ UNCHANGED calls

\* The timer of 300 milliseconds.
Debounced == ui.typed # ui.filter /\ Asking([ui EXCEPT !.filter = ui.typed])

\* A tick forgets the rows the table no longer has; nothing else does.
TickEmail(id) ==
  /\ ui' = [ui EXCEPT !.ticked = {r \in ui.rows : (r # id) <=> (r \in @)}]
  /\ UNCHANGED calls

-----------------------------------------------------------------------------
(* The tools. buildBatchActionPayload is evaluated at the click that runs one. *)

Scope == IF ui.ticked # {} THEN [ids |-> ui.ticked] ELSE [filter |-> ui.filter]

Tool(op, change, spinner) ==
  /\ ui' = [ui EXCEPT !.busy = @ \cup spinner]
  /\ Asked(<<Merged([op |-> op, ask |-> Question], change)>>)

\* handleBatchFetchMailboxes and handleBatchClearMailbox.
BatchFetch == "batchFetch" \notin ui.busy /\ Tool("batchFetch", [scope |-> Scope], {"batchFetch"})
BatchClear ==
  /\ ui.open = "clear" /\ "batchClear" \notin ui.busy
  /\ Tool("batchClear", [scope |-> Scope], {"batchClear"})

\* handleBatchDelete and handleBatchAssignGroup wait behind no spinner.
BatchDeleteEmails == ui.ticked # {} /\ Tool("batchDelete", [ids |-> ui.ticked], {})
AssignGroup ==
  /\ ui.open = "assign" /\ ui.ticked # {} /\ ui.target # None
  /\ Tool("assignGroup", [ids |-> ui.ticked], {})

\* handleBatchRemoveGroup: one call for each group of the ticked rows in sight, one
\* after the other; no group, no call.
RemoveGroup(groups) ==
  /\ ui.ticked # {} /\ groups <= Cardinality(ui.ticked \cap ui.rows)
  /\ IF groups = 0
     THEN /\ ui' = [ui EXCEPT !.ticked = {}, !.asked = Question, !.busy = On("emails")]
          /\ calls' = Append(FetchEmails(calls, Question, None), Groups)
     ELSE Tool("removeGroup", [left |-> groups - 1], {})

\* handleCheckSingleMailbox.
CheckEmail(id) ==
  /\ ui' = [ui EXCEPT !.checking = @ \cup {id}]
  /\ Asked(<<[op |-> "check", id |-> id, ask |-> Question]>>)

DeleteEmail(id) == Tool("deleteEmail", [id |-> id], {})
Export == Tool("export", [scope |-> Scope], {})

\* A tool that did its work loads the table as it was at the click, some the groups too.
ToolDone(i, new, after, withGroups) ==
  /\ ui' = [new EXCEPT !.asked = calls[i].ask, !.busy = @ \cup {"emails"}]
  /\ calls' = LET asked == FetchEmails(Rest(i), calls[i].ask, after)
              IN IF withGroups THEN Append(asked, Groups) ELSE asked

\* The ticks that go are those of now. The dialog that closes is the one of the tool.
Unticked == [ui EXCEPT !.ticked = {}]
Closed(state, dialog) == IF state.open = dialog THEN [state EXCEPT !.open = None] ELSE state

ToolLand(i) ==
  LET c == calls[i] IN
  \/ c.op = "batchFetch" /\ ToolDone(i, ui, "batchFetch", FALSE)
  \/ c.op = "batchClear" /\ ToolDone(i, Closed(ui, "clear"), "batchClear", FALSE)
  \/ c.op = "batchDelete" /\ ToolDone(i, Unticked, None, TRUE)
  \/ c.op = "assignGroup" /\ ToolDone(i, [Closed(Unticked, "assign") EXCEPT !.target = None], None, TRUE)
  \/ c.op = "removeGroup" /\ c.left = 0 /\ ToolDone(i, Unticked, None, TRUE)
  \/ c.op = "removeGroup" /\ c.left > 0 /\ UNCHANGED ui /\ Landed(i, <<[c EXCEPT !.left = @ - 1]>>)
  \/ c.op = "check" /\ ToolDone(i, ui, c.id, FALSE)
  \/ c.op \in {"deleteEmail", "deleteGroup"} /\ ToolDone(i, ui, None, TRUE)
  \/ c.op = "saveGroup" /\ ui' = Closed(ui, "group") /\ Landed(i, <<Groups>>)
  \/ c.op = "export" /\ UNCHANGED ui /\ Landed(i, <<>>)

\* Its failure loads nothing; groups that were left already stay so.
ToolFail(i) ==
  LET c == calls[i] IN
  /\ ui' = IF c.op = "check" THEN Finished(ui, c.id) ELSE Finished(ui, c.op)
  /\ Landed(i, <<>>)

Tools == {"batchFetch", "batchClear", "batchDelete", "assignGroup", "removeGroup", "check",
          "deleteEmail", "export", "saveGroup", "deleteGroup"}

-----------------------------------------------------------------------------
(* Dialogs and the groups.                                                 *)

OpenDialog(dialog) ==
  /\ ui' = [ui EXCEPT !.open = dialog]
  /\ UNCHANGED calls

CloseDialog ==
  /\ ui.open # None
  /\ ui' = [ui EXCEPT !.open = None]
  /\ UNCHANGED calls

ChooseTarget(group) ==
  /\ ui.open = "assign" /\ group # ui.target
  /\ ui' = [ui EXCEPT !.target = group]
  /\ UNCHANGED calls

\* handleCreateGroup and handleEditGroup, of whichever group.
EditGroup == OpenDialog("group")

\* handleGroupSubmit and handleDeleteGroup.
SaveGroup == ui.open = "group" /\ Tool("saveGroup", <<>>, {})
DeleteGroup(id) == Tool("deleteGroup", [id |-> id], {})

-----------------------------------------------------------------------------
EmailsToolbar ==
  \/ BatchFetch
  \/ Export
  \/ OpenDialog("clear")

EmailFilters ==
  \/ \E filter \in Filters : FilterEmails(filter) \/ TypeKeyword(filter)
  \/ \E n \in 1..2 : TurnEmails(n)

TickedEmails ==
  \/ ui.ticked # {} /\ OpenDialog("assign")
  \/ \E groups \in 0..2 : RemoveGroup(groups)
  \/ BatchDeleteEmails

EmailRow(id) == TickEmail(id) \/ CheckEmail(id) \/ DeleteEmail(id)

EmailsTab == EmailFilters \/ TickedEmails \/ \E id \in ui.rows : EmailRow(id)

GroupsTab == EditGroup \/ \E id \in ui.groups : DeleteGroup(id)

EmailDialogs ==
  \/ BatchClear
  \/ AssignGroup
  \/ SaveGroup

EmailsNext ==
  \/ /\ Room /\ ui.open = None
     /\ EmailsToolbar \/ EmailsTab \/ GroupsTab
  \/ Room /\ EmailDialogs
  \/ Room /\ Debounced
  \/ CloseDialog
  \/ \E group \in ui.groups : ChooseTarget(group)
  \/ \E i \in Waiting("emails") : EmailsFail(i) \/ \E rows \in SUBSET Rows : EmailsLand(i, rows)
  \/ \E i \in Waiting("groups"), groups \in SUBSET Rows \cup {ui.groups} : GroupsLand(i, groups)
  \/ \E i \in UNION {Waiting(op) : op \in Tools} : ToolLand(i) \/ ToolFail(i)
=============================================================================
