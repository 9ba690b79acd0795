------------------------ MODULE ConsoleSpinners_proofs ------------------------
(***************************************************************************)
(* Nothing spins for ever on any page of the console. Console_proofs says   *)
(* what a call owes and follows the pages that have spinners only and the    *)
(* tab; here follow the mailboxes' table and its account dialog, the inbox   *)
(* and the pages whose rows turn, and what all of them give together.        *)
(***************************************************************************)
EXTENDS Console_proofs

-----------------------------------------------------------------------------
(* The table of external mailboxes.                                         *)

\* A question of the table says what ends with it.
EmailForm(c) == "op" \in DOMAIN c /\ (c.op = "emails" => "after" \in DOMAIN c)

EmailsKept == Kept("emails") /\ \A c \in ToSet(calls) : EmailForm(c)

LEMMA EmailsCalls ==
  ASSUME NEW i, NEW new
  PROVE  /\ Emails!Asked(new) => Asked(new)
         /\ Emails!Landed(i, new) => Landed(i, new)
         /\ Emails!Rest(i) = Rest(i)
BY DEF Emails!Asked, Emails!Landed, Emails!Rest, Asked, Landed, Rest

LEMMA EmailsRest ==
  ASSUME EmailsKept
  PROVE  /\ "emails" \in Plain /\ "busy" \in DOMAIN ui
         /\ Queue(calls) /\ ui.busy \subseteq Owed("emails", calls)
         /\ \A i \in DOMAIN calls :
              /\ Queue(Rest(i)) /\ ui.busy \subseteq Owed("emails", Rest(i)) \cup Ends("emails", calls[i])
              /\ EmailForm(calls[i])
              /\ \A c \in ToSet(Rest(i)) : EmailForm(c)
<1>1. "emails" \in Plain /\ Kept("emails")
  BY DEF Plain, EmailsKept
<1>2. Queue(calls) /\ \A i \in DOMAIN calls :
                        calls[i] \in ToSet(calls) /\ ToSet(Rest(i)) \subseteq ToSet(calls)
  BY Dropped DEF Kept, EmailsKept, Rest, RemoveAt
<1> QED
  BY <1>1, <1>2, PlainRest DEF EmailsKept

LEMMA EmailsStill ==
  ASSUME EmailsKept, UNCHANGED calls, DOMAIN ui' = DOMAIN ui, ui'.busy = ui.busy
  PROVE  EmailsKept'
BY EmailsRest, PlainStill DEF EmailsKept

LEMMA EmailsAsked ==
  ASSUME EmailsKept, NEW new, Emails!Asked(<<new>>), DOMAIN ui' = DOMAIN ui, EmailForm(new),
         ui'.busy \subseteq ui.busy \cup Ends("emails", new)
  PROVE  EmailsKept'
<1>1. Asked(<<new>>)
  BY EmailsCalls
<1>2. Kept("emails")'
  BY <1>1, EmailsRest, PlainAsked DEF EmailsKept
<1>3. ToSet(calls') = ToSet(calls) \cup {new}
  <2>1. Queue(calls) /\ Queue(<<new>>) /\ ToSet(<<new>>) = {new}
    BY EmailsRest, Single
  <2>2. ToSet(calls \o <<new>>) = ToSet(calls) \cup {new}
    BY <2>1, Joined
  <2> QED
    BY <1>1, <2>2 DEF Asked
<1> QED
  BY <1>2, <1>3 DEF EmailsKept

LEMMA EmailsWentOn ==
  ASSUME EmailsKept, NEW i \in DOMAIN calls, NEW new, DOMAIN ui' = DOMAIN ui,
         \/ Emails!Landed(i, <<>>) /\ ui'.busy \subseteq ui.busy \ Ends("emails", calls[i])
         \/ /\ Emails!Landed(i, <<new>>) /\ EmailForm(new)
            /\ ui'.busy \subseteq (ui.busy \ Ends("emails", calls[i])) \cup Ends("emails", new)
  PROVE  EmailsKept'
<1>1. Kept("emails")'
  BY EmailsRest, EmailsCalls, PlainEnded, PlainWentOn DEF EmailsKept
<1>2. Queue(Rest(i)) /\ \A c \in ToSet(Rest(i)) : EmailForm(c)
  BY EmailsRest
<1>3. CASE Landed(i, <<>>)
  <2>1. ToSet(Rest(i) \o <<>>) = ToSet(Rest(i)) \cup {}
    BY <1>2, Empty, Joined
  <2>2. calls' = Rest(i) \o <<>>
    BY <1>3 DEF Landed
  <2> QED
    BY <1>1, <1>2, <2>1, <2>2 DEF EmailsKept
<1>4. CASE Landed(i, <<new>>) /\ EmailForm(new)
  <2>1. Queue(<<new>>) /\ ToSet(<<new>>) = {new}
    BY Single
  <2>2. ToSet(Rest(i) \o <<new>>) = ToSet(Rest(i)) \cup {new}
    BY <1>2, <2>1, Joined
  <2>3. calls' = Rest(i) \o <<new>>
    BY <1>4 DEF Landed
  <2> QED
    BY <1>1, <1>2, <1>4, <2>2, <2>3 DEF EmailsKept
<1> QED
  BY <1>3, <1>4, EmailsCalls

\* The question that is asked owes what those it makes late owed.
LEMMA EmailsFetched ==
  ASSUME EmailsKept, NEW w, NEW ask, NEW after, Queue(w), \A c \in ToSet(w) : EmailForm(c),
         \/ calls' = Emails!FetchEmails(w, ask, after)
         \/ calls' = Append(Emails!FetchEmails(w, ask, after), Emails!Groups),
         DOMAIN ui' = DOMAIN ui,
         ui'.busy \subseteq Owed("emails", w) \cup {"emails"} \cup ({after} \ Rows)
  PROVE  EmailsKept'
<1> DEFINE call == [op |-> "emails", ask |-> ask, after |-> after]
           last == Merged(call, [late |-> FALSE])
           s == Emails!FetchEmails(w, ask, after)
           T == {"emails"}
<1>1. s = Numbered(w, call)
  BY Zenon DEF Emails!FetchEmails, Emails!Numbered, Numbered, Emails!Merged, Merged
<1>2. Queue(s) /\ ToSet(s) = {LateOf(c, "emails") : c \in ToSet(w)} \cup {last}
  BY <1>1, NumberedCalls
<1>3. /\ {"op", "after"} \subseteq DOMAIN last /\ last.op = "emails" /\ last.after = after
      /\ last.late = FALSE
  BY DEF Merged
<1>4. ASSUME NEW c \in ToSet(w), c.op = "emails"
      PROVE  Late(c).op = c.op /\ Late(c).after = c.after /\ {"op", "after"} \subseteq DOMAIN Late(c)
  BY <1>4 DEF Late, EmailForm
<1>5. \A c \in ToSet(w) : c.op = call.op => Ends("emails", c) \subseteq Ends("emails", Late(c)) \cup T
  BY <1>4 DEF Ends, EmailsEnds
<1>6. Ends("emails", last) = T \cup ({after} \ Rows)
  <2> HIDE DEF last
  <2> QED
    BY <1>3 DEF Ends, EmailsEnds
<1>7. /\ Owed("emails", w) \subseteq Owed("emails", s) \cup T
      /\ Ends("emails", last) \subseteq Owed("emails", s)
  <2> HIDE DEF T, s, call
  <2>1. /\ Owed("emails", w) \subseteq Owed("emails", Numbered(w, call)) \cup T
        /\ Ends("emails", Merged(call, [late |-> FALSE])) \subseteq Owed("emails", Numbered(w, call))
    BY <1>5, OwedNumbered
  <2> QED
    BY <1>1, <2>1
<1>8. \A c \in ToSet(s) : EmailForm(c)
  <2>1. EmailForm(last)
    BY <1>3 DEF EmailForm
  <2>2. ASSUME NEW c \in ToSet(w) PROVE EmailForm(LateOf(c, "emails"))
    BY <1>4 DEF LateOf, EmailForm
  <2> HIDE DEF last, s
  <2> QED
    BY <1>2, <2>1, <2>2
<1> HIDE DEF last, s
<1>9. /\ Queue(calls') /\ Owed("emails", s) \subseteq Owed("emails", calls')
      /\ \A c \in ToSet(calls') : EmailForm(c)
  <2>1. CASE calls' = s
    BY <1>2, <1>8, <2>1
  <2>2. CASE calls' = Append(s, Emails!Groups)
    <3>1. /\ Queue(Append(s, Emails!Groups))
          /\ Owed("emails", Append(s, Emails!Groups)) = Owed("emails", s) \cup Ends("emails", Emails!Groups)
          /\ ToSet(Append(s, Emails!Groups)) = ToSet(s) \cup {Emails!Groups}
      BY <1>2, OwedAppended, Appended
    <3>2. EmailForm(Emails!Groups)
      BY DEF Emails!Groups, EmailForm
    <3> QED
      BY <1>8, <2>2, <3>1, <3>2
  <2> QED
    BY <2>1, <2>2 DEF s
<1>10. Shaped("emails", ui') /\ Spinning("emails", ui') = ui'.busy
  BY EmailsRest, PlainSpins DEF EmailsKept
<1> QED
  BY <1>6, <1>7, <1>9, <1>10 DEF EmailsKept, Kept

LEMMA AskingKept ==
  ASSUME EmailsKept, NEW new, DOMAIN new = DOMAIN ui, new.busy = ui.busy, Emails!Asking(new)
  PROVE  EmailsKept'
<1> DEFINE ask == [n |-> new.n, filter |-> new.filter]
<1>1. CASE ui' = new /\ UNCHANGED calls
  BY <1>1, EmailsStill
<1>2. CASE /\ ui' = [new EXCEPT !.asked = ask, !.busy = @ \cup {"emails"}]
           /\ calls' = Emails!FetchEmails(calls, ask, None)
  <2> HIDE DEF ask
  <2>1. DOMAIN ui' = DOMAIN ui /\ ui'.busy = ui.busy \cup {"emails"}
    BY <1>2, EmailsRest
  <2> QED
    BY <1>2, <2>1, EmailsFetched, EmailsRest DEF EmailsKept
<1> QED
  BY <1>1, <1>2 DEF Emails!Asking

LEMMA FilterKept ==
  ASSUME EmailsKept, Emails!EmailFilters \/ Emails!Debounced
  PROVE  EmailsKept'
<1>1. ASSUME NEW filter, Emails!FilterEmails(filter) PROVE EmailsKept'
  <2> DEFINE new == [ui EXCEPT !.filter = filter, !.n = 1, !.typed = IF @ = ui.filter THEN filter ELSE @]
  <2>1. DOMAIN new = DOMAIN ui /\ new.busy = ui.busy
    BY EmailsRest
  <2>2. Emails!Asking(new)
    BY <1>1 DEF Emails!FilterEmails
  <2> HIDE DEF new
  <2> QED
    BY <2>1, <2>2, AskingKept
<1>2. ASSUME NEW n, Emails!TurnEmails(n) PROVE EmailsKept'
  <2> DEFINE new == [ui EXCEPT !.n = n]
  <2>1. DOMAIN new = DOMAIN ui /\ new.busy = ui.busy
    BY EmailsRest
  <2>2. Emails!Asking(new)
    BY <1>2 DEF Emails!TurnEmails
  <2> HIDE DEF new
  <2> QED
    BY <2>1, <2>2, AskingKept
<1>3. CASE Emails!Debounced
  <2> DEFINE new == [ui EXCEPT !.filter = ui.typed]
  <2>1. DOMAIN new = DOMAIN ui /\ new.busy = ui.busy
    BY EmailsRest
  <2>2. Emails!Asking(new)
    BY <1>3 DEF Emails!Debounced
  <2> HIDE DEF new
  <2> QED
    BY <2>1, <2>2, AskingKept
<1>4. ASSUME NEW keyword, Emails!TypeKeyword(keyword) PROVE EmailsKept'
  BY <1>4, EmailsRest, EmailsStill DEF Emails!TypeKeyword
<1> QED
  BY <1>1, <1>2, <1>3, <1>4 DEF Emails!EmailFilters

LEMMA EmailsIdleKept ==
  ASSUME EmailsKept,
         \/ \E dialog : Emails!OpenDialog(dialog)
         \/ Emails!CloseDialog
         \/ \E group : Emails!ChooseTarget(group)
         \/ \E id : Emails!TickEmail(id)
  PROVE  EmailsKept'
<1>1. DOMAIN ui' = DOMAIN ui /\ ui'.busy = ui.busy /\ UNCHANGED calls
  BY EmailsRest DEF Emails!OpenDialog, Emails!CloseDialog, Emails!ChooseTarget, Emails!TickEmail
<1> QED
  BY <1>1, EmailsStill

\* A tool turns until its call is answered, if it turns at all.
LEMMA ToolKept ==
  ASSUME EmailsKept, NEW op, NEW change, NEW spinner, op # "emails",
         spinner = {} \/ (spinner = {op} /\ op \in {"batchFetch", "batchClear"}),
         Emails!Tool(op, change, spinner)
  PROVE  EmailsKept'
<1> DEFINE new == Merged([op |-> op, ask |-> Emails!Question], change)
<1>1. Emails!Asked(<<new>>)
  BY DEF Emails!Tool, Emails!Merged, Merged
<1>2. EmailForm(new) /\ new.op = op
  BY DEF Merged, EmailForm
<1>3. DOMAIN ui' = DOMAIN ui /\ ui'.busy = ui.busy \cup spinner
  BY EmailsRest DEF Emails!Tool
<1> HIDE DEF new
<1>4. spinner \subseteq Ends("emails", new)
  BY <1>2 DEF Ends, EmailsEnds
<1> QED
  BY <1>1, <1>2, <1>3, <1>4, EmailsAsked

LEMMA OneCallKept ==
  ASSUME EmailsKept,
         \/ Emails!BatchFetch \/ Emails!BatchClear \/ Emails!BatchDeleteEmails
         \/ Emails!AssignGroup \/ Emails!SaveGroup \/ Emails!Export
         \/ \E id : Emails!DeleteEmail(id) \/ Emails!DeleteGroup(id)
  PROVE  EmailsKept'
<1>1. \E op, change : \/ op # "emails" /\ Emails!Tool(op, change, {})
                      \/ op \in {"batchFetch", "batchClear"} /\ Emails!Tool(op, change, {op})
  BY Zenon DEF Emails!BatchFetch, Emails!BatchClear, Emails!BatchDeleteEmails, Emails!AssignGroup,
               Emails!SaveGroup, Emails!Export, Emails!DeleteEmail, Emails!DeleteGroup
<1> QED
  BY <1>1, ToolKept

LEMMA RemoveGroupKept ==
  ASSUME EmailsKept, NEW groups, Emails!RemoveGroup(groups) PROVE EmailsKept'
<1>1. CASE groups # 0
  <2>1. Emails!Tool("removeGroup", [left |-> groups - 1], {})
    BY <1>1 DEF Emails!RemoveGroup
  <2> QED
    BY <2>1, ToolKept
<1>2. CASE groups = 0
  <2>1. /\ ui' = [ui EXCEPT !.ticked = {}, !.asked = Emails!Question, !.busy = Emails!On("emails")]
        /\ calls' = Append(Emails!FetchEmails(calls, Emails!Question, None), Emails!Groups)
    BY <1>2 DEF Emails!RemoveGroup
  <2>2. DOMAIN ui' = DOMAIN ui /\ ui'.busy = ui.busy \cup {"emails"}
    BY <2>1, EmailsRest DEF Emails!On
  <2> QED
    BY <2>1, <2>2, EmailsRest, EmailsFetched DEF EmailsKept
<1> QED
  BY <1>1, <1>2

LEMMA FinishedEnds ==
  ASSUME EmailsKept, NEW after
  PROVE  /\ DOMAIN Emails!Finished(ui, after) = DOMAIN ui
         /\ Emails!Finished(ui, after).busy = ui.busy \ ({after} \ Rows)
BY EmailsRest DEF Emails!Finished

\* A tool that did its work leaves its spinner to the question it asks.
LEMMA ToolDoneKept ==
  ASSUME EmailsKept, NEW i \in DOMAIN calls, NEW new, DOMAIN new = DOMAIN ui, new.busy = ui.busy,
         NEW after, NEW withGroups, Emails!ToolDone(i, new, after, withGroups),
         calls[i].op # "emails", calls[i].op \in {"batchFetch", "batchClear"} => after = calls[i].op
  PROVE  EmailsKept'
<1> DEFINE ask == calls[i].ask
           w == Emails!Rest(i)
           s == Emails!FetchEmails(w, ask, after)
<1>1. ui' = [new EXCEPT !.asked = ask, !.busy = @ \cup {"emails"}]
  BY DEF Emails!ToolDone
<1>2. calls' = s \/ calls' = Append(s, Emails!Groups)
  BY Zenon DEF Emails!ToolDone
<1>3. w = Rest(i)
  BY EmailsCalls
<1> HIDE DEF ask, w
<1>4. DOMAIN ui' = DOMAIN ui /\ ui'.busy = ui.busy \cup {"emails"}
  BY <1>1, EmailsRest
<1>5. /\ Queue(w) /\ \A c \in ToSet(w) : EmailForm(c)
      /\ ui.busy \subseteq Owed("emails", w) \cup Ends("emails", calls[i])
  BY <1>3, EmailsRest
<1>6. Ends("emails", calls[i]) \subseteq {after} \ Rows
  BY RowsAssumption DEF Ends, EmailsEnds
<1>7. ui'.busy \subseteq Owed("emails", w) \cup {"emails"} \cup ({after} \ Rows)
  BY <1>4, <1>5, <1>6
<1> QED
  BY <1>2, <1>4, <1>5, <1>7, EmailsFetched

LEMMA ToolLandKept ==
  ASSUME EmailsKept, NEW i \in DOMAIN calls, calls[i].op \in Emails!Tools, Emails!ToolLand(i)
  PROVE  EmailsKept'
<1> DEFINE c == calls[i]
           closed == [Emails!Closed(Emails!Unticked, "assign") EXCEPT !.target = None]
           done(new) == DOMAIN new = DOMAIN ui /\ new.busy = ui.busy
<1>1. done(ui) /\ done(Emails!Unticked) /\ done(Emails!Closed(ui, "clear")) /\ done(closed)
  BY EmailsRest DEF Emails!Unticked, Emails!Closed
<1> HIDE DEF closed
<1>2. ASSUME NEW new, NEW after, NEW withGroups, done(new), Emails!ToolDone(i, new, after, withGroups),
             c.op \in {"batchFetch", "batchClear"} => after = c.op
      PROVE  EmailsKept'
  BY <1>2, ToolDoneKept DEF Emails!Tools
<1>3. c.op \notin {"batchFetch", "batchClear"} => Ends("emails", c) = {}
  BY DEF Ends, EmailsEnds, Emails!Tools
<1>4. CASE c.op = "removeGroup" /\ UNCHANGED ui /\ Emails!Landed(i, <<[c EXCEPT !.left = @ - 1]>>)
  <2> DEFINE next == [c EXCEPT !.left = @ - 1]
  <2>1. EmailForm(next)
    BY <1>4, EmailsRest DEF EmailForm
  <2>2. Emails!Landed(i, <<next>>)
    BY <1>4
  <2> HIDE DEF next
  <2> QED
    BY <1>3, <1>4, <2>1, <2>2, EmailsWentOn
<1>5. CASE c.op = "saveGroup" /\ ui' = Emails!Closed(ui, "group") /\ Emails!Landed(i, <<Emails!Groups>>)
  <2>1. DOMAIN ui' = DOMAIN ui /\ ui'.busy = ui.busy
    BY <1>5, EmailsRest DEF Emails!Closed
  <2>2. EmailForm(Emails!Groups)
    BY DEF EmailForm, Emails!Groups
  <2> QED
    BY <1>3, <1>5, <2>1, <2>2, EmailsWentOn
<1>6. CASE c.op = "export" /\ UNCHANGED ui /\ Emails!Landed(i, <<>>)
  BY <1>3, <1>6, EmailsWentOn
<1>7. CASE c.op = "batchFetch" /\ Emails!ToolDone(i, ui, "batchFetch", FALSE)
  BY <1>1, <1>2, <1>7
<1>8. CASE c.op = "batchClear" /\ Emails!ToolDone(i, Emails!Closed(ui, "clear"), "batchClear", FALSE)
  BY <1>1, <1>2, <1>8
<1>9. ASSUME c.op \notin {"batchFetch", "batchClear"},
             NEW new \in {ui, Emails!Unticked, closed}, NEW after, NEW withGroups,
             Emails!ToolDone(i, new, after, withGroups)
      PROVE  EmailsKept'
  BY <1>1, <1>2, <1>9
<1> HIDE DEF done
<1> QED
  BY Zenon, <1>4, <1>5, <1>6, <1>7, <1>8, <1>9 DEF Emails!ToolLand, closed

LEMMA EmailsAnswerKept ==
  ASSUME EmailsKept, NEW i \in DOMAIN calls, calls[i].op = "emails",
         Emails!EmailsFail(i) \/ \E rows : Emails!EmailsLand(i, rows)
  PROVE  EmailsKept'
<1> DEFINE c == calls[i]
           ended == Emails!Finished(ui, c.after)
<1>1. DOMAIN ended = DOMAIN ui /\ ended.busy = ui.busy \ ({c.after} \ Rows)
  BY FinishedEnds
<1>2. Emails!Landed(i, <<>>)
  BY DEF Emails!EmailsFail, Emails!EmailsLand
<1>3. \/ c.late /\ ui' = ended
      \/ ~c.late /\ ui' = [ended EXCEPT !.failed = TRUE, !.busy = @ \ {"emails"}]
      \/ ~c.late /\ \E rows : ui' = [ended EXCEPT !.rows = rows, !.shown = c.ask, !.failed = FALSE,
                                                  !.busy = @ \ {"emails"}]
  BY DEF Emails!EmailsFail, Emails!EmailsLand
<1> HIDE DEF ended
<1>4. /\ DOMAIN ui' = DOMAIN ui
      /\ ui'.busy = ended.busy \ (IF c.late THEN {} ELSE {"emails"})
  BY <1>1, <1>3, EmailsRest
<1>5. ui'.busy \subseteq ui.busy \ Ends("emails", c)
  BY <1>1, <1>4 DEF Ends, EmailsEnds
<1> QED
  BY <1>2, <1>4, <1>5, EmailsWentOn

LEMMA QuietAnswerKept ==
  ASSUME EmailsKept, NEW i \in DOMAIN calls,
         \/ calls[i].op \in Emails!Tools /\ Emails!ToolFail(i)
         \/ calls[i].op = "groups" /\ \E groups : Emails!GroupsLand(i, groups)
  PROVE  EmailsKept'
<1> DEFINE c == calls[i]
<1>1. Emails!Landed(i, <<>>)
  BY DEF Emails!ToolFail, Emails!GroupsLand
<1>2. DOMAIN ui' = DOMAIN ui /\ ui'.busy \subseteq ui.busy \ Ends("emails", c)
  <2>1. CASE c.op = "groups" /\ \E groups : Emails!GroupsLand(i, groups)
    BY <2>1, EmailsRest DEF Emails!GroupsLand, Ends, EmailsEnds
  <2>2. CASE c.op \in Emails!Tools /\ Emails!ToolFail(i)
    <3>1. PICK after : ui' = Emails!Finished(ui, after) /\ (c.op # "check" => after = c.op)
      BY <2>2 DEF Emails!ToolFail
    <3>2. DOMAIN ui' = DOMAIN ui /\ ui'.busy = ui.busy \ ({after} \ Rows)
      BY <3>1, FinishedEnds
    <3>3. Ends("emails", c) \subseteq {after} \ Rows
      BY <2>2, <3>1, RowsAssumption DEF Ends, EmailsEnds, Emails!Tools
    <3> QED
      BY <3>2, <3>3
  <2> QED
    BY <2>1, <2>2
<1> QED
  BY <1>1, <1>2, EmailsWentOn

LEMMA CheckKept == ASSUME EmailsKept, NEW id, Emails!CheckEmail(id) PROVE EmailsKept'
<1> DEFINE new == [op |-> "check", id |-> id, ask |-> Emails!Question]
<1>1. Emails!Asked(<<new>>)
  BY DEF Emails!CheckEmail
<1>2. EmailForm(new)
  BY DEF EmailForm
<1>3. DOMAIN ui' = DOMAIN ui /\ ui'.busy = ui.busy
  BY EmailsRest DEF Emails!CheckEmail
<1> HIDE DEF new
<1> QED
  BY <1>1, <1>2, <1>3, EmailsAsked

LEMMA EmailsStepKept == EmailsKept /\ Emails!EmailsNext => EmailsKept'
<1> SUFFICES ASSUME EmailsKept, Emails!EmailsNext PROVE EmailsKept'
  OBVIOUS
<1>1. CASE Emails!EmailsToolbar
  BY <1>1, OneCallKept, EmailsIdleKept DEF Emails!EmailsToolbar
<1>2. CASE Emails!EmailsTab
  <2>1. CASE Emails!TickedEmails
    BY <2>1, OneCallKept, EmailsIdleKept, RemoveGroupKept DEF Emails!TickedEmails
  <2>2. ASSUME NEW id, Emails!EmailRow(id) PROVE EmailsKept'
    BY <2>2, OneCallKept, EmailsIdleKept, CheckKept DEF Emails!EmailRow
  <2> QED
    BY <1>2, <2>1, <2>2, FilterKept DEF Emails!EmailsTab
<1>3. CASE Emails!GroupsTab
  BY <1>3, OneCallKept, EmailsIdleKept DEF Emails!GroupsTab, Emails!EditGroup
<1>4. CASE Emails!EmailDialogs
  BY <1>4, OneCallKept DEF Emails!EmailDialogs
<1>5. ASSUME NEW op, NEW i \in Emails!Waiting(op) PROVE i \in DOMAIN calls /\ calls[i].op = op
  BY DEF Emails!Waiting
<1>6. ASSUME NEW i \in Emails!Waiting("emails"),
             Emails!EmailsFail(i) \/ \E rows : Emails!EmailsLand(i, rows)
      PROVE  EmailsKept'
  BY <1>5, <1>6, EmailsAnswerKept
<1>7. ASSUME NEW i \in Emails!Waiting("groups"), NEW groups, Emails!GroupsLand(i, groups)
      PROVE  EmailsKept'
  BY <1>5, <1>7, QuietAnswerKept
<1>8. ASSUME NEW i \in UNION {Emails!Waiting(op) : op \in Emails!Tools},
             Emails!ToolLand(i) \/ Emails!ToolFail(i)
      PROVE  EmailsKept'
  <2>1. i \in DOMAIN calls /\ calls[i].op \in Emails!Tools
    BY <1>5
  <2> QED
    BY <1>8, <2>1, ToolLandKept, QuietAnswerKept
<1> QED
  BY <1>1, <1>2, <1>3, <1>4, <1>6, <1>7, <1>8, FilterKept, EmailsIdleKept DEF Emails!EmailsNext

LEMMA EmailsStartKept == Emails!EmailsMount => EmailsKept
<1> SUFFICES ASSUME Emails!EmailsMount PROVE EmailsKept
  OBVIOUS
<1> DEFINE a == [op |-> "groups"]
           b == [op |-> "emails", ask |-> ui.asked, after |-> None, late |-> FALSE]
<1>1. /\ calls = <<a, b>> /\ "busy" \in DOMAIN ui /\ ui.busy = {"emails"}
      /\ DOMAIN ui \cap SlotNames = {}
  BY DEF Emails!EmailsMount, SlotNames
<1>2. EmailForm(a) /\ EmailForm(b) /\ "emails" \in Ends("emails", b)
  BY DEF EmailForm, Ends, EmailsEnds
<1> HIDE DEF a, b
<1>3. Queue(<<a, b>>) /\ ToSet(<<a, b>>) = {a, b}
  BY PairCalls
<1>4. Shaped("emails", ui) /\ Spinning("emails", ui) = ui.busy
  BY <1>1, PlainShaped DEF Plain
<1> QED
  BY <1>1, <1>2, <1>3, <1>4 DEF EmailsKept, Kept, Owed

-----------------------------------------------------------------------------
(* The dialog of one external mailbox.                                      *)

LEMMA AccountCalls ==
  ASSUME NEW i, NEW new
  PROVE  /\ Account!Asked(new) => Asked(new)
         /\ Account!Landed(i, new) => Landed(i, new)
         /\ Account!Rest(i) = Rest(i)
BY DEF Account!Asked, Account!Landed, Account!Rest, Asked, Landed, Rest

\* A poll that is abandoned owed nothing.
LEMMA OwedAbandoned ==
  ASSUME NEW s, NEW providers, Queue(s)
  PROVE  /\ Queue(Account!Abandoned(s, providers))
         /\ Owed("account", s) \subseteq Owed("account", Account!Abandoned(s, providers))
<1> DEFINE t == Account!Abandoned(s, providers)
<1>1. /\ DOMAIN t = DOMAIN s /\ t = [i \in DOMAIN s |-> t[i]]
      /\ \A i \in DOMAIN s : s[i].op # "poll" => t[i] = s[i]
  BY DEF Account!Abandoned
<1> HIDE DEF t
<1>2. Queue(t) /\ ToSet(t) = {t[i] : i \in DOMAIN s}
  BY <1>1, Mapped
<1>3. ASSUME NEW i \in DOMAIN s PROVE Ends("account", s[i]) \subseteq Owed("account", t)
  <2>1. CASE s[i].op = "poll"
    BY <2>1 DEF Ends, AccountEnds
  <2>2. CASE s[i].op # "poll"
    <3>1. s[i] \in ToSet(t)
      BY <1>1, <1>2, <2>2
    <3> QED
      BY <3>1 DEF Owed
  <2> QED
    BY <2>1, <2>2
<1>4. Owed("account", s) \subseteq Owed("account", t)
  BY <1>3 DEF Owed, ToSet
<1> QED
  BY <1>2, <1>4 DEF t

\* A step that abandons polls, whatever it asks for.
LEMMA AccountBecomes ==
  ASSUME Kept("account"), NEW w, NEW providers, NEW new, Queue(w), DOMAIN ui' = DOMAIN ui,
         \/ /\ calls' = Account!Abandoned(w, providers)
            /\ ui'.busy \subseteq Owed("account", w)
         \/ /\ calls' = Append(Account!Abandoned(w, providers), new)
            /\ ui'.busy \subseteq Owed("account", w) \cup Ends("account", new)
  PROVE  Kept("account")'
<1> DEFINE t == Account!Abandoned(w, providers)
<1>1. Queue(t) /\ Owed("account", w) \subseteq Owed("account", t)
  BY OwedAbandoned
<1> HIDE DEF t
<1>2. Queue(Append(t, new)) /\ Owed("account", Append(t, new)) = Owed("account", t) \cup Ends("account", new)
  BY <1>1, OwedAppended
<1>3. Queue(calls') /\ ui'.busy \subseteq Owed("account", calls')
  <2>1. CASE calls' = t /\ ui'.busy \subseteq Owed("account", w)
    BY <1>1, <2>1
  <2>2. CASE /\ calls' = Append(t, new)
             /\ ui'.busy \subseteq Owed("account", w) \cup Ends("account", new)
    BY <1>1, <1>2, <2>2
  <2> QED
    BY <2>1, <2>2 DEF t
<1>4. Shaped("account", ui') /\ Spinning("account", ui') = ui'.busy
  BY PlainSpins DEF Plain
<1> QED
  BY <1>3, <1>4 DEF Kept

LEMMA AccountForgets ==
  ASSUME Kept("account")
  PROVE  /\ "account" \in Plain /\ "busy" \in DOMAIN ui
         /\ Queue(calls) /\ ui.busy \subseteq Owed("account", calls)
         /\ \A i \in DOMAIN calls :
              Queue(Rest(i)) /\ ui.busy \subseteq Owed("account", Rest(i)) \cup Ends("account", calls[i])
         /\ DOMAIN Account!Hidden(ui) = DOMAIN ui /\ Account!Hidden(ui).busy \subseteq ui.busy
         /\ DOMAIN Account!Dismissed(ui) = DOMAIN ui /\ Account!Dismissed(ui).busy \subseteq ui.busy
<1>1. /\ "account" \in Plain /\ "busy" \in DOMAIN ui
      /\ Queue(calls) /\ ui.busy \subseteq Owed("account", calls)
      /\ \A i \in DOMAIN calls :
           Queue(Rest(i)) /\ ui.busy \subseteq Owed("account", Rest(i)) \cup Ends("account", calls[i])
  BY PlainRest DEF Plain
<1> DEFINE hidden == Account!Hidden(ui)
<1>2. DOMAIN hidden = DOMAIN ui /\ hidden.busy = ui.busy \ {"reveal"}
  BY <1>1 DEF Account!Hidden
<1> HIDE DEF hidden
<1>3. DOMAIN Account!Dismissed(ui) = DOMAIN ui /\ Account!Dismissed(ui).busy = hidden.busy
  BY <1>1, <1>2 DEF Account!Dismissed, hidden
<1> QED
  BY <1>1, <1>2, <1>3 DEF hidden

\* The values, the secrets and what the user does.
LEMMA AccountValuesKept ==
  ASSUME Kept("account"),
         \/ Account!CreateAccount \/ \E id : Account!AccountRow(id)
         \/ \E password : Account!SaveAccount(password)
         \/ Account!RevealHere \/ Account!ConfirmCode \/ Account!CloseAccount \/ Account!ChooseProfile
         \/ Account!CancelCode \/ Account!HideSecret \/ Account!HideRowSecret \/ Account!GrantEnds
         \/ \E p : Account!Poll(p)
  PROVE  Kept("account")'
<1> USE DEF Ends, AccountEnds
<1>1. CASE Account!CreateAccount
  <2>1. DOMAIN ui' = DOMAIN ui /\ ui'.busy \subseteq ui.busy
    BY <1>1, AccountForgets DEF Account!CreateAccount
  <2> QED
    BY <1>1, <2>1, AccountForgets, AccountBecomes DEF Account!CreateAccount
<1>2. ASSUME NEW id, Account!EditAccount(id) PROVE Kept("account")'
  <2> DEFINE new == [op |-> "account", id |-> id]
  <2>1. DOMAIN ui' = DOMAIN ui /\ ui'.busy \subseteq ui.busy \cup {"detail"}
    BY <1>2, AccountForgets DEF Account!EditAccount
  <2>2. calls' = Append(Account!Abandoned(calls, Account!Providers), new) /\ Ends("account", new) = {"detail"}
    BY <1>2 DEF Account!EditAccount
  <2> HIDE DEF new
  <2>3. ui'.busy \subseteq Owed("account", calls) \cup Ends("account", new)
    BY <2>1, <2>2, AccountForgets
  <2> QED
    BY <2>1, <2>2, <2>3, AccountForgets, AccountBecomes
<1>3. CASE Account!CloseAccount \/ Account!ChooseProfile
  <2>1. /\ DOMAIN ui' = DOMAIN ui /\ ui'.busy \subseteq ui.busy
        /\ calls' = Account!Abandoned(calls, Account!Providers)
    BY <1>3, AccountForgets DEF Account!CloseAccount, Account!ChooseProfile
  <2> QED
    BY <2>1, AccountForgets, AccountBecomes
<1>4. CASE /\ UNCHANGED calls /\ DOMAIN ui' = DOMAIN ui /\ ui'.busy = ui.busy
  BY <1>4, AccountForgets, PlainStill
<1>5. ASSUME NEW new, Account!Asked(<<new>>), UNCHANGED ui PROVE Kept("account")'
  BY <1>5, AccountForgets, AccountCalls, PlainAsked
<1>6. CASE \/ Account!CancelCode \/ Account!HideSecret \/ Account!HideRowSecret \/ Account!GrantEnds
  BY <1>4, <1>6, AccountForgets
     DEF Account!CancelCode, Account!HideSecret, Account!HideRowSecret, Account!GrantEnds
<1>7. ASSUME NEW target, Account!Reveal(target) PROVE Kept("account")'
  BY <1>4, <1>5, <1>7, AccountForgets DEF Account!Reveal, Account!AskCode
<1>8. CASE Account!ConfirmCode
  <2> DEFINE new == [op |-> "unlock", target |-> ui.target]
  <2>1. DOMAIN ui' = DOMAIN ui /\ ui'.busy = ui.busy \cup {"reveal"}
    BY <1>8, AccountForgets DEF Account!ConfirmCode, Account!On
  <2>2. Asked(<<new>>) /\ Ends("account", new) = {"reveal"}
    BY <1>8, AccountCalls DEF Account!ConfirmCode
  <2> HIDE DEF new
  <2> QED
    BY <2>1, <2>2, AccountForgets, PlainAsked
<1>9. ASSUME NEW password, Account!SaveAccount(password) PROVE Kept("account")'
  BY <1>5, <1>9 DEF Account!SaveAccount
<1>10. ASSUME NEW p, Account!Poll(p) PROVE Kept("account")'
  BY <1>5, <1>10 DEF Account!Poll
<1> QED
  BY <1>1, <1>2, <1>3, <1>6, <1>7, <1>8, <1>9, <1>10
     DEF Account!AccountRow, Account!RevealRow, Account!RevealHere

\* The answers of the values and the secrets.
LEMMA AccountAnswersKept ==
  ASSUME Kept("account"), NEW i \in DOMAIN calls,
         \/ calls[i].op = "reload" /\ Account!ReloadLand(i)
         \/ calls[i].op = "account" /\ \E ok \in BOOLEAN : Account!AccountLand(i, ok)
         \/ calls[i].op = "saveAccount" /\ \E ok \in BOOLEAN : Account!SaveAccountLand(i, ok)
         \/ calls[i].op = "unlock" /\ \E answer : Account!UnlockLand(i, answer)
         \/ /\ calls[i].op = "reveal"
            /\ \E answer \in {"ok", "nothing", "ended", "noFactor", "failed"} : Account!RevealLand(i, answer)
  PROVE  Kept("account")'
<1> USE DEF Ends, AccountEnds
<1>1. CASE calls[i].op = "reload" /\ Account!ReloadLand(i)
  BY <1>1, AccountForgets, AccountCalls, PlainEnded DEF Account!ReloadLand
<1>2. ASSUME NEW ok, calls[i].op = "account", Account!AccountLand(i, ok) PROVE Kept("account")'
  <2>1. DOMAIN ui' = DOMAIN ui /\ ui'.busy = ui.busy \ {"detail"}
    BY <1>2, AccountForgets DEF Account!AccountLand, Account!Off
  <2> QED
    BY <1>2, <2>1, AccountForgets, AccountCalls, PlainEnded DEF Account!AccountLand
<1>3. ASSUME NEW ok, calls[i].op = "saveAccount", Account!SaveAccountLand(i, ok) PROVE Kept("account")'
  <2>1. CASE ok
    <3>1. /\ DOMAIN ui' = DOMAIN ui /\ ui'.busy \subseteq ui.busy
          /\ calls' = Append(Account!Abandoned(Account!Rest(i), Account!Providers), Account!Reload)
      BY <1>3, <2>1, AccountForgets DEF Account!SaveAccountLand
    <3>2. Account!Rest(i) = Rest(i) /\ Queue(Rest(i)) /\ ui'.busy \subseteq Owed("account", Rest(i))
      BY <1>3, <3>1, AccountForgets, AccountCalls
    <3> QED
      BY <3>1, <3>2, AccountBecomes
  <2>2. CASE ~ok
    BY <1>3, <2>2, AccountForgets, AccountCalls, PlainEnded DEF Account!SaveAccountLand
  <2> QED
    BY <2>1, <2>2
<1>4. ASSUME NEW answer, calls[i].op = "unlock", Account!UnlockLand(i, answer) PROVE Kept("account")'
  <2>1. CASE answer = "ok"
    <3> DEFINE new == Account!Revealing(calls[i].target, "reveal")
    <3>1. DOMAIN ui' = DOMAIN ui /\ ui'.busy = ui.busy /\ Landed(i, <<new>>)
      BY <1>4, <2>1, AccountForgets, AccountCalls DEF Account!UnlockLand
    <3>2. Ends("account", new) = {"reveal"}
      BY DEF Account!Revealing
    <3> HIDE DEF new
    <3> QED
      BY <1>4, <3>1, <3>2, AccountForgets, PlainWentOn
  <2>2. CASE answer # "ok"
    <3>1. DOMAIN ui' = DOMAIN ui /\ ui'.busy = ui.busy \ {"reveal"}
      BY <1>4, <2>2, AccountForgets DEF Account!UnlockLand, Account!Off
    <3> QED
      BY <1>4, <2>2, <3>1, AccountForgets, AccountCalls, PlainEnded DEF Account!UnlockLand
  <2> QED
    BY <2>1, <2>2
<1>5. ASSUME NEW answer \in {"ok", "nothing", "ended", "noFactor", "failed"}, calls[i].op = "reveal",
             Account!RevealLand(i, answer)
      PROVE  Kept("account")'
  <2> DEFINE c == calls[i]
             ended == [ui EXCEPT !.busy = @ \ {c.after}]
  <2>1. DOMAIN ended = DOMAIN ui /\ ended.busy = ui.busy \ {c.after}
    BY AccountForgets
  <2>2. \/ ui' = ended
        \/ ui' = [ended EXCEPT !.rowSecret = c.target.id]
        \/ ui' = [ended EXCEPT !.secret = c.target.id]
        \/ ui' = [ended EXCEPT !.otp = FALSE]
        \/ ui' = [ended EXCEPT !.grant = FALSE, !.otp = @ \/ TwoFactor,
                               !.target = IF TwoFactor THEN c.target ELSE @]
    BY <1>5 DEF Account!RevealLand
  <2> HIDE DEF ended
  <2>3. DOMAIN ui' = DOMAIN ui /\ ui'.busy = ui.busy \ {c.after}
    BY <2>1, <2>2, AccountForgets
  <2>4. Landed(i, <<>>)
    BY <1>5, AccountCalls DEF Account!RevealLand
  <2> QED
    BY <1>5, <2>3, <2>4, AccountForgets, PlainEnded
<1> QED
  BY <1>1, <1>2, <1>3, <1>4, <1>5

\* The authorization: the spinner of a step is its button's or its follower's.
LEMMA AuthorizationKept ==
  ASSUME Kept("account"), NEW p, Account!AuthorizationPart(p)
  PROVE  Kept("account")'
<1> DEFINE spin(op, q) == Account!Spinner(op, q)
<1> USE DEF Ends, AccountEnds
<1>1. ASSUME NEW op \in {"parse", "save"}, NEW q, NEW then \in BOOLEAN, NEW saved,
             Asked(<<Account!Step(op, q, then, saved)>>), DOMAIN ui' = DOMAIN ui,
             ui'.busy \subseteq ui.busy \cup {spin(op, q)} \cup (IF then THEN {spin("start", q)} ELSE {})
      PROVE  Kept("account")'
  <2> DEFINE new == Account!Step(op, q, then, saved)
  <2>1. new.op = op /\ new.provider = q /\ new.then = then
    BY DEF Account!Step
  <2>2. Asked(<<new>>)
    BY <1>1
  <2> HIDE DEF new
  <2>3. Ends("account", new) = {spin(op, q)} \cup (IF then THEN {spin("start", q)} ELSE {})
    BY <2>1
  <2> QED
    BY <1>1, <2>2, <2>3, AccountForgets, PlainAsked
<1>2. CASE Account!Parse(p)
  <2>1. DOMAIN ui' = DOMAIN ui /\ ui'.busy = ui.busy \cup {spin("parse", p)}
    BY <1>2, AccountForgets DEF Account!Parse, Account!On
  <2> QED
    BY <1>1, <1>2, <2>1, AccountCalls DEF Account!Parse
<1>3. CASE Account!SaveProvider(p)
  <2>1. DOMAIN ui' = DOMAIN ui /\ ui'.busy = ui.busy \cup {spin("save", p)}
    BY <1>3, AccountForgets DEF Account!SaveProvider, Account!On
  <2> QED
    BY <1>1, <1>3, <2>1, AccountCalls DEF Account!SaveProvider
<1>4. ASSUME NEW file, Account!Authorize(p, file) PROVE Kept("account")'
  <2> DEFINE first == IF file THEN "parse" ELSE "save"
  <2>1. DOMAIN ui' = DOMAIN ui /\ ui'.busy = ui.busy \cup {spin("start", p), spin(first, p)}
    BY <1>4, AccountForgets DEF Account!Authorize
  <2>2. Asked(<<Account!Step(first, p, TRUE, ui.editing)>>) /\ first \in {"parse", "save"}
    BY <1>4, AccountCalls DEF Account!Authorize
  <2> HIDE DEF first
  <2> QED
    BY <1>1, <2>1, <2>2
<1>5. CASE Account!ImportSecretFile
  <2> DEFINE new == Account!Step("parse", "GMAIL", FALSE, None)
  <2>1. DOMAIN ui' = DOMAIN ui /\ ui'.busy = ui.busy \cup {spin("parse", "GMAIL")}
    BY <1>5, AccountForgets DEF Account!ImportSecretFile, Account!On
  <2>2. calls' = Append(Account!Abandoned(calls, {"GMAIL"}), new)
    BY <1>5 DEF Account!ImportSecretFile
  <2>3. new.op = "parse" /\ new.provider = "GMAIL" /\ new.then = FALSE
    BY DEF Account!Step
  <2> HIDE DEF new
  <2>4. Ends("account", new) = {spin("parse", "GMAIL")}
    BY <2>3
  <2>5. Queue(calls) /\ ui'.busy \subseteq Owed("account", calls) \cup Ends("account", new)
    BY <2>1, <2>4, AccountForgets
  <2> QED
    BY <2>1, <2>2, <2>5, AccountBecomes
<1> QED
  BY <1>2, <1>3, <1>4, <1>5 DEF Account!AuthorizationPart

\* A step that is done hands its handler's spinner to the next.
LEMMA StepsKept ==
  ASSUME Kept("account"), NEW i \in DOMAIN calls,
         \/ calls[i].op \in {"parse", "save", "start"} /\ Account!StepFail(i)
         \/ calls[i].op = "save" /\ Account!SaveProviderLand(i)
         \/ calls[i].op = "statuses" /\ Account!StatusesLand(i)
         \/ calls[i].op = "parse" /\ Account!ParseLand(i)
         \/ calls[i].op = "start" /\ Account!StartLand(i)
  PROVE  Kept("account")'
<1> DEFINE c == calls[i]
           p == c.provider
           spin(op) == Account!Spinner(op, p)
           then == IF c.then THEN {spin("start")} ELSE {}
<1>1. /\ c.op \in {"parse", "save"} => Ends("account", c) = {spin(c.op)} \cup then
      /\ c.op = "statuses" => Ends("account", c) = {spin("save")} \cup then
      /\ c.op = "start" => Ends("account", c) = {spin("start")}
  BY DEF Ends, AccountEnds
<1>2. ASSUME c.op \in {"parse", "save", "start"}, Account!StepFail(i) PROVE Kept("account")'
  <2>1. DOMAIN ui' = DOMAIN ui /\ ui'.busy = ui.busy \ ({spin(c.op)} \cup then)
    BY <1>2, AccountForgets DEF Account!StepFail
  <2>2. Landed(i, <<>>)
    BY <1>2, AccountCalls DEF Account!StepFail
  <2> QED
    BY <1>1, <1>2, <2>1, <2>2, AccountForgets, PlainEnded
<1>3. ASSUME c.op = "save", Account!SaveProviderLand(i) PROVE Kept("account")'
  <2> DEFINE new == Account!Step("statuses", p, c.then, c.account)
  <2>1. Landed(i, <<new>>) /\ UNCHANGED ui
    BY <1>3, AccountCalls DEF Account!SaveProviderLand
  <2>2. new.op = "statuses" /\ new.provider = p /\ new.then = c.then
    BY DEF Account!Step
  <2> HIDE DEF new
  <2>3. Ends("account", new) = {spin("save")} \cup then
    BY <2>2 DEF Ends, AccountEnds
  <2> QED
    BY <1>1, <1>3, <2>1, <2>3, AccountForgets, PlainWentOn
<1>4. ASSUME c.op = "statuses", Account!StatusesLand(i) PROVE Kept("account")'
  <2>1. DOMAIN ui' = DOMAIN ui /\ ui'.busy = ui.busy \ {spin("save")}
    BY <1>4, AccountForgets DEF Account!StatusesLand, Account!Off
  <2>2. CASE c.then
    <3> DEFINE new == Account!Step("start", p, TRUE, c.account)
    <3>1. Landed(i, <<new>>)
      BY <1>4, <2>2, AccountCalls DEF Account!StatusesLand
    <3>2. new.op = "start" /\ new.provider = p
      BY DEF Account!Step
    <3> HIDE DEF new
    <3>3. Ends("account", new) = {spin("start")}
      BY <3>2 DEF Ends, AccountEnds
    <3> QED
      BY <1>1, <1>4, <2>1, <2>2, <3>1, <3>3, AccountForgets, PlainWentOn
  <2>3. CASE ~c.then
    <3>1. Landed(i, <<>>)
      BY <1>4, <2>3, AccountCalls DEF Account!StatusesLand
    <3> QED
      BY <1>1, <1>4, <2>1, <2>3, <3>1, AccountForgets, PlainEnded
  <2> QED
    BY <2>2, <2>3
<1>5. /\ Account!Rest(i) = Rest(i) /\ Queue(Rest(i))
      /\ ui.busy \subseteq Owed("account", Rest(i)) \cup Ends("account", c)
  BY AccountForgets, AccountCalls
<1>6. ASSUME c.op = "parse", Account!ParseLand(i) PROVE Kept("account")'
  <2> DEFINE parsed == [ui EXCEPT !.flow[c.provider] = <<>>,
                                  !.busy = Account!Off(Account!Spinner("parse", c.provider))]
  <2>1. DOMAIN parsed = DOMAIN ui /\ parsed.busy = ui.busy \ {spin("parse")}
    BY AccountForgets DEF Account!Off
  <2>2. CASE c.then
    <3> DEFINE new == Account!Step("save", p, TRUE, c.account)
    <3>1. /\ ui' = [parsed EXCEPT !.busy = @ \cup {spin("save")}]
          /\ calls' = Append(Account!Abandoned(Account!Rest(i), {p}), new)
      BY <1>6, <2>2 DEF Account!ParseLand
    <3>2. new.op = "save" /\ new.provider = p /\ new.then = TRUE
      BY DEF Account!Step
    <3> HIDE DEF new, parsed
    <3>3. Ends("account", new) = {spin("save"), spin("start")}
      BY <3>2 DEF Ends, AccountEnds
    <3>4. DOMAIN ui' = DOMAIN ui /\ ui'.busy = (ui.busy \ {spin("parse")}) \cup {spin("save")}
      BY <2>1, <3>1, AccountForgets
    <3>5. ui'.busy \subseteq Owed("account", Rest(i)) \cup Ends("account", new)
      BY <1>1, <1>5, <1>6, <2>2, <3>3, <3>4
    <3> QED
      BY <1>5, <3>1, <3>4, <3>5, AccountBecomes
  <2>3. CASE ~c.then
    <3>1. ui' = parsed /\ calls' = Account!Abandoned(Account!Rest(i), {p})
      BY <1>6, <2>3 DEF Account!ParseLand
    <3> HIDE DEF parsed
    <3>2. ui'.busy \subseteq Owed("account", Rest(i))
      BY <1>1, <1>5, <1>6, <2>1, <2>3, <3>1
    <3> QED
      BY <1>5, <2>1, <3>1, <3>2, AccountBecomes
  <2> QED
    BY <2>2, <2>3
<1>7. ASSUME c.op = "start", Account!StartLand(i) PROVE Kept("account")'
  <2>1. DOMAIN ui' = DOMAIN ui /\ ui'.busy = ui.busy \ {spin("start")}
    BY <1>7, AccountForgets DEF Account!StartLand, Account!Off
  <2>2. calls' = Account!Abandoned(Account!Rest(i), {p})
    BY <1>7 DEF Account!StartLand
  <2>3. ui'.busy \subseteq Owed("account", Rest(i))
    BY <1>1, <1>5, <1>7, <2>1
  <2> QED
    BY <1>5, <2>1, <2>2, <2>3, AccountBecomes
<1> QED
  BY <1>2, <1>3, <1>4, <1>6, <1>7

LEMMA PollKept ==
  ASSUME Kept("account"), NEW i \in DOMAIN calls, calls[i].op = "poll",
         NEW answer \in {"pending", "expired", "error", "authorized"}, Account!PollLand(i, answer)
  PROVE  Kept("account")'
<1> DEFINE c == calls[i]
           ended == [ui EXCEPT !.flow[c.provider] = <<>>]
           left(providers) == Account!Abandoned(Account!Rest(i), providers)
<1>1. Ends("account", c) = {}
  BY DEF Ends, AccountEnds
<1>2. DOMAIN ended = DOMAIN ui /\ ended.busy = ui.busy
  BY AccountForgets
<1> HIDE DEF ended
<1>3. Account!Rest(i) = Rest(i) /\ Queue(Rest(i)) /\ ui.busy \subseteq Owed("account", Rest(i))
  BY <1>1, AccountForgets, AccountCalls
<1>4. CASE UNCHANGED ui /\ Account!Landed(i, <<>>)
  BY <1>1, <1>4, AccountForgets, AccountCalls, PlainEnded
<1>5. ASSUME ui' = ended \/ ui' = Account!Dismissed(ui), NEW providers, NEW new,
             calls' = left(providers) \/ calls' = Append(left(providers), new)
      PROVE  Kept("account")'
  <2>1. DOMAIN ui' = DOMAIN ui /\ ui'.busy \subseteq Owed("account", Rest(i))
    BY <1>2, <1>3, <1>5, AccountForgets
  <2> QED
    BY <1>3, <1>5, <2>1, AccountBecomes
<1> QED
  BY <1>4, <1>5 DEF Account!PollLand, ended

LEMMA AccountDialogKept == Kept("account") /\ Account!AccountNext => Kept("account")'
<1> SUFFICES ASSUME Kept("account"), Account!AccountNext PROVE Kept("account")'
  OBVIOUS
<1>1. ASSUME NEW op, NEW i \in Account!Waiting(op) PROVE i \in DOMAIN calls /\ calls[i].op = op
  BY DEF Account!Waiting
<1>2. ASSUME NEW i \in UNION {Account!Waiting(op) : op \in {"parse", "save", "start"}}, Account!StepFail(i)
      PROVE  Kept("account")'
  <2>1. i \in DOMAIN calls /\ calls[i].op \in {"parse", "save", "start"}
    BY <1>1
  <2> QED
    BY <1>2, <2>1, StepsKept
<1> QED
  BY <1>1, <1>2, AccountValuesKept, AccountAnswersKept, AuthorizationKept, StepsKept, PollKept
     DEF Account!AccountNext, Account!AccountForm

-----------------------------------------------------------------------------
(* The inbox: without a mailbox its list does not load.                     *)

InboxKept ==
  /\ Kept("inbox")
  /\ {"folder", "selected"} \subseteq DOMAIN ui /\ ui.folder \in {"inbox", "sent"}

LEMMA InboxSpins ==
  ASSUME NEW state, DOMAIN state = DOMAIN ui, InboxKept
  PROVE  /\ Shaped("inbox", state)
         /\ Spinning("inbox", state) = state.busy \ (IF state.selected = None THEN {"list"} ELSE {})
         /\ Spinning("inbox", ui) = ui.busy \ (IF ui.selected = None THEN {"list"} ELSE {})
         /\ "busy" \in DOMAIN ui
<1>1. SlotsOf("inbox") = {}
  BY DEF SlotsOf
<1> QED
  BY <1>1 DEF Shaped, Spinning, InboxKept, Kept

\* A step that chooses neither a folder nor a mailbox.
LEMMA InboxStill ==
  ASSUME InboxKept, DOMAIN ui' = DOMAIN ui, ui'.folder = ui.folder, ui'.selected = ui.selected,
         \/ UNCHANGED calls /\ ui'.busy \subseteq ui.busy
         \/ \E new : Asked(<<new>>) /\ ui'.busy \subseteq ui.busy \cup Ends("inbox", new)
         \/ \E i \in DOMAIN calls : Landed(i, <<>>) /\ ui'.busy \subseteq ui.busy \ Ends("inbox", calls[i])
  PROVE  InboxKept'
<1>1. /\ Shaped("inbox", ui')
      /\ Spinning("inbox", ui') = ui'.busy \ (IF ui.selected = None THEN {"list"} ELSE {})
      /\ Spinning("inbox", ui) = ui.busy \ (IF ui.selected = None THEN {"list"} ELSE {})
  BY InboxSpins
<1>2. Kept("inbox")'
  <2>1. CASE UNCHANGED calls /\ ui'.busy \subseteq ui.busy
    BY <1>1, <2>1, StillKept DEF InboxKept
  <2>2. ASSUME NEW new, Asked(<<new>>), ui'.busy \subseteq ui.busy \cup Ends("inbox", new)
        PROVE  Kept("inbox")'
    BY <1>1, <2>2, AskedKept DEF InboxKept
  <2>3. ASSUME NEW i \in DOMAIN calls, Landed(i, <<>>), ui'.busy \subseteq ui.busy \ Ends("inbox", calls[i])
        PROVE  Kept("inbox")'
    BY <1>1, <2>3, EndedKept DEF InboxKept
  <2> QED
    BY <2>1, <2>2, <2>3
<1> QED
  BY <1>2 DEF InboxKept

\* The effects: the list that begins to load is asked for.
LEMMA InboxBecomeKept ==
  ASSUME InboxKept, NEW new, NEW asked, Portal!InboxBecomes(new, asked),
         Queue(asked), DOMAIN new = DOMAIN ui, new.folder \in {"inbox", "sent"},
         new.busy \ (IF ui.selected = None THEN {"list"} ELSE {}) \subseteq Owed("inbox", asked)
  PROVE  InboxKept'
<1> DEFINE list == new.selected # None /\ \E k \in {"folder", "unread", "selected"} : new[k] # ui[k]
           load == Portal!FolderList(new.folder, new.selected, new.unread)
           a == IF new.selected # ui.selected THEN <<Portal!BoxesOf(new.selected)>> ELSE <<>>
           b == IF list THEN <<load>> ELSE <<>>
<1>1. calls' = asked \o a \o b
  BY Zenon DEF Portal!InboxBecomes
<1>2. ui' = IF list THEN [new EXCEPT !.busy = @ \cup {"list"}] ELSE new
  BY Zenon DEF Portal!InboxBecomes
<1>3. ~list /\ new.selected # None => ui.selected # None
  OBVIOUS
<1>4. Ends("inbox", load) = {"list"}
  <2>1. load.op \in {"inbox", "sent"}
    BY DEF Portal!FolderList
  <2> HIDE DEF load
  <2> QED
    BY <2>1 DEF Ends, InboxEnds
<1> HIDE DEF list, load, a
<1>5. Queue(a) /\ Queue(b) /\ (list => Owed("inbox", b) = {"list"})
  BY <1>4, Empty, Single, OwedSingle DEF a
<1> HIDE DEF b
<1>6. /\ Queue(asked \o a)
      /\ Owed("inbox", asked \o a) = Owed("inbox", asked) \cup Owed("inbox", a)
  BY <1>5, OwedJoined
<1>7. /\ Queue(asked \o a \o b)
      /\ Owed("inbox", asked \o a \o b) = Owed("inbox", asked \o a) \cup Owed("inbox", b)
  BY <1>5, <1>6, OwedJoined
<1>8. /\ DOMAIN ui' = DOMAIN ui /\ ui'.selected = new.selected /\ ui'.folder = new.folder
      /\ ui'.busy = new.busy \cup (IF list THEN {"list"} ELSE {})
  BY <1>2, InboxSpins
<1>9. /\ Shaped("inbox", ui')
      /\ Spinning("inbox", ui') = ui'.busy \ (IF new.selected = None THEN {"list"} ELSE {})
  BY <1>8, InboxSpins
<1>10. Spinning("inbox", ui') \subseteq Owed("inbox", calls')
  <2>1. CASE list
    BY <1>1, <1>5, <1>6, <1>7, <1>8, <1>9, <2>1
  <2>2. CASE ~list
    BY <1>1, <1>3, <1>6, <1>7, <1>8, <1>9, <2>2
  <2> QED
    BY <2>1, <2>2
<1> QED
  BY <1>1, <1>7, <1>8, <1>9, <1>10 DEF InboxKept, Kept

LEMMA InboxStepKept == InboxKept /\ Portal!InboxNext => InboxKept'
<1> SUFFICES ASSUME InboxKept, Portal!InboxNext PROVE InboxKept'
  OBVIOUS
<1> USE DEF Ends, InboxEnds
<1>1. "busy" \in DOMAIN ui /\ {"folder", "selected"} \subseteq DOMAIN ui /\ ui.folder \in {"inbox", "sent"}
  BY InboxSpins DEF InboxKept
<1>2. /\ Queue(calls)
      /\ ui.busy \ (IF ui.selected = None THEN {"list"} ELSE {}) \subseteq Owed("inbox", calls)
      /\ \A i \in DOMAIN calls :
           /\ Queue(Rest(i))
           /\ ui.busy \ (IF ui.selected = None THEN {"list"} ELSE {})
                \subseteq Owed("inbox", Rest(i)) \cup Ends("inbox", calls[i])
  <2> HIDE DEF Ends, InboxEnds
  <2>1. Queue(calls) /\ ui.busy \ (IF ui.selected = None THEN {"list"} ELSE {}) \subseteq Owed("inbox", calls)
    BY InboxSpins DEF InboxKept, Kept
  <2> QED
    BY <2>1, OwedDropped
<1>3. \A i : Portal!Rest(i) = Rest(i)
  BY DEF Portal!Rest, Rest
<1>4. ASSUME NEW i \in DOMAIN calls, calls[i].op = "boxes", NEW boxes, NEW ready,
             Portal!InboxBoxesLand(i, boxes, ready)
      PROVE  InboxKept'
  <2> DEFINE new(box) == [ui EXCEPT !.boxes = boxes, !.ready = ready, !.selected = box]
  <2>1. PICK box : Portal!InboxBecomes(new(box), Rest(i))
    BY <1>3, <1>4 DEF Portal!InboxBoxesLand
  <2>2. /\ DOMAIN new(box) = DOMAIN ui /\ new(box).busy = ui.busy /\ new(box).folder = ui.folder
    BY <1>1
  <2>3. Ends("inbox", calls[i]) = {}
    BY <1>4
  <2> HIDE DEF new
  <2> QED
    BY <1>1, <1>2, <2>1, <2>2, <2>3, InboxBecomeKept
<1>5. ASSUME NEW i \in DOMAIN calls, calls[i].op = "boxes", Portal!InboxBoxesFailed(i) PROVE InboxKept'
  BY <1>5, InboxStill, PortalCalls DEF Portal!InboxBoxesFailed
<1>6. ASSUME NEW i \in DOMAIN calls, calls[i].op \in {"inbox", "sent"}, NEW ok, Portal!FolderLand(i, ok)
      PROVE  InboxKept'
  <2>1. /\ DOMAIN ui' = DOMAIN ui /\ ui'.folder = ui.folder /\ ui'.selected = ui.selected
        /\ ui'.busy = ui.busy \ {"list"}
    BY <1>1, <1>6 DEF Portal!FolderLand, Portal!Off
  <2>2. Landed(i, <<>>)
    BY <1>6, PortalCalls DEF Portal!FolderLand
  <2> QED
    BY <1>6, <2>1, <2>2, InboxStill
<1>7. CASE Portal!InboxRefresh
  <2>1. CASE ui.folder = "sent" /\ ui.selected = None
    <3>1. /\ DOMAIN ui' = DOMAIN ui /\ ui'.folder = ui.folder /\ ui'.selected = ui.selected
          /\ ui'.busy = ui.busy /\ UNCHANGED calls
      BY <1>1, <1>7, <2>1 DEF Portal!InboxRefresh
    <3> QED
      BY <3>1, InboxStill
  <2>2. CASE ~(ui.folder = "sent" /\ ui.selected = None)
    <3> DEFINE new == Portal!FolderList(ui.folder, ui.selected, ui.unread)
    <3>1. /\ DOMAIN ui' = DOMAIN ui /\ ui'.folder = ui.folder /\ ui'.selected = ui.selected
          /\ ui'.busy = ui.busy \cup {"list"} /\ Asked(<<new>>)
      BY <1>1, <1>7, <2>2, PortalCalls DEF Portal!InboxRefresh, Portal!On
    <3>2. new.op \in {"inbox", "sent"}
      BY <1>1 DEF Portal!FolderList
    <3> HIDE DEF new
    <3>3. Ends("inbox", new) = {"list"}
      BY <3>2
    <3> QED
      BY <3>1, <3>3, InboxStill
  <2> QED
    BY <2>1, <2>2
<1>8. ASSUME NEW id, Portal!OpenMail(id) PROVE InboxKept'
  <2> DEFINE new == [op |-> "mail", id |-> id]
  <2>1. /\ DOMAIN ui' = DOMAIN ui /\ ui'.folder = ui.folder /\ ui'.selected = ui.selected
        /\ ui'.busy = ui.busy \cup {"detail"} /\ Asked(<<new>>)
    BY <1>1, <1>8, PortalCalls DEF Portal!OpenMail, Portal!On
  <2>2. Ends("inbox", new) = {"detail"}
    OBVIOUS
  <2> HIDE DEF new
  <2> QED
    BY <2>1, <2>2, InboxStill
<1>9. ASSUME NEW i \in DOMAIN calls, calls[i].op = "mail", NEW ok, Portal!MailLand(i, ok) PROVE InboxKept'
  <2>1. /\ DOMAIN ui' = DOMAIN ui /\ ui'.folder = ui.folder /\ ui'.selected = ui.selected
        /\ ui'.busy = ui.busy \ {"detail"} /\ Landed(i, <<>>)
    BY <1>1, <1>9, PortalCalls DEF Portal!MailLand, Portal!Off
  <2> QED
    BY <1>9, <2>1, InboxStill
<1>10. CASE Portal!CloseMail \/ \E open \in BOOLEAN : Portal!Compose(open)
  <2>1. /\ DOMAIN ui' = DOMAIN ui /\ ui'.folder = ui.folder /\ ui'.selected = ui.selected
        /\ ui'.busy = ui.busy /\ UNCHANGED calls
    BY <1>1, <1>10 DEF Portal!CloseMail, Portal!Compose
  <2> QED
    BY <2>1, InboxStill
<1>11. CASE Portal!SendMail
  <2> DEFINE new == [op |-> "sendMail", box |-> ui.selected]
  <2>1. /\ DOMAIN ui' = DOMAIN ui /\ ui'.folder = ui.folder /\ ui'.selected = ui.selected
        /\ ui'.busy = ui.busy \cup {"send"} /\ Asked(<<new>>)
    BY <1>1, <1>11, PortalCalls DEF Portal!SendMail, Portal!On
  <2>2. Ends("inbox", new) = {"send"}
    OBVIOUS
  <2> HIDE DEF new
  <2> QED
    BY <2>1, <2>2, InboxStill
<1>12. ASSUME NEW i \in DOMAIN calls, calls[i].op = "sendMail", NEW ok, Portal!SendMailLand(i, ok)
       PROVE  InboxKept'
  <2> DEFINE idle == [ui EXCEPT !.busy = Portal!Off("send")]
  <2>1. DOMAIN idle = DOMAIN ui /\ idle.busy = ui.busy \ {"send"}
        /\ idle.folder = ui.folder /\ idle.selected = ui.selected
    BY <1>1 DEF Portal!Off
  <2>2. Ends("inbox", calls[i]) = {"send"}
    BY <1>12
  <2>3. CASE ok
    <3> DEFINE new == [idle EXCEPT !.folder = "sent", !.compose = FALSE, !.busy = @ \cup {"list"}]
               load == Portal!FolderList("sent", calls[i].box, FALSE)
    <3>1. Portal!InboxBecomes(new, Append(Rest(i), load))
      BY <1>3, <1>12, <2>3 DEF Portal!SendMailLand
    <3> HIDE DEF idle
    <3>2. DOMAIN new = DOMAIN ui /\ new.busy = (ui.busy \ {"send"}) \cup {"list"} /\ new.folder = "sent"
      BY <1>1, <2>1
    <3>3. Ends("inbox", load) = {"list"}
      BY DEF Portal!FolderList
    <3> HIDE DEF new, load
    <3>4. /\ Queue(Append(Rest(i), load))
          /\ Owed("inbox", Append(Rest(i), load)) = Owed("inbox", Rest(i)) \cup {"list"}
      BY <1>2, <3>3, OwedAppended
    <3>5. new.busy \ (IF ui.selected = None THEN {"list"} ELSE {})
            \subseteq Owed("inbox", Append(Rest(i), load))
      BY <1>2, <2>2, <3>2, <3>4
    <3> QED
      BY <3>1, <3>2, <3>4, <3>5, InboxBecomeKept
  <2>4. CASE ~ok
    <3>1. ui' = idle /\ calls' = Rest(i)
      BY <1>3, <1>12, <2>4 DEF Portal!SendMailLand
    <3> HIDE DEF idle
    <3>2. /\ Shaped("inbox", ui')
          /\ Spinning("inbox", ui') = ui'.busy \ (IF ui'.selected = None THEN {"list"} ELSE {})
      BY <2>1, <3>1, InboxSpins
    <3>3. Queue(calls') /\ Spinning("inbox", ui') \subseteq Owed("inbox", calls')
      BY <1>2, <2>1, <2>2, <3>1, <3>2
    <3> QED
      BY <1>1, <2>1, <3>1, <3>2, <3>3 DEF InboxKept, Kept
  <2> QED
    BY <2>3, <2>4
<1>13. CASE Portal!InboxHeader \/ Portal!InboxFilters
  <2>1. ASSUME NEW new, Portal!InboxBecomes(new, calls), DOMAIN new = DOMAIN ui, new.busy = ui.busy,
               new.folder \in {"inbox", "sent"}
        PROVE  InboxKept'
    BY <1>2, <2>1, InboxBecomeKept
  <2>2. ASSUME NEW f \in {"inbox", "sent"}, Portal!InboxBecomes([ui EXCEPT !.folder = f], calls)
        PROVE  InboxKept'
    <3> DEFINE new == [ui EXCEPT !.folder = f]
    <3>1. DOMAIN new = DOMAIN ui /\ new.busy = ui.busy /\ new.folder \in {"inbox", "sent"}
      BY <1>1
    <3>2. Portal!InboxBecomes(new, calls)
      BY <2>2
    <3> HIDE DEF new
    <3> QED
      BY <2>1, <3>1, <3>2
  <2>3. ASSUME NEW box, Portal!InboxBecomes([ui EXCEPT !.selected = box], calls) PROVE InboxKept'
    <3> DEFINE new == [ui EXCEPT !.selected = box]
    <3>1. DOMAIN new = DOMAIN ui /\ new.busy = ui.busy /\ new.folder \in {"inbox", "sent"}
      BY <1>1
    <3>2. Portal!InboxBecomes(new, calls)
      BY <2>3
    <3> HIDE DEF new
    <3> QED
      BY <2>1, <3>1, <3>2
  <2>4. CASE Portal!InboxBecomes([ui EXCEPT !.unread = ~@], calls)
    <3> DEFINE new == [ui EXCEPT !.unread = ~@]
    <3>1. DOMAIN new = DOMAIN ui /\ new.busy = ui.busy /\ new.folder \in {"inbox", "sent"}
      BY <1>1
    <3>2. Portal!InboxBecomes(new, calls)
      BY <2>4
    <3> HIDE DEF new
    <3> QED
      BY <2>1, <3>1, <3>2
  <2> QED
    BY <1>7, <1>13, <2>2, <2>3, <2>4 DEF Portal!InboxHeader, Portal!InboxFilters
<1>14. ASSUME NEW op, NEW i \in Portal!Waiting(op) PROVE i \in DOMAIN calls /\ calls[i].op = op
  BY DEF Portal!Waiting
<1> QED
  BY <1>4, <1>5, <1>6, <1>8, <1>9, <1>10, <1>11, <1>12, <1>13, <1>14
     DEF Portal!InboxNext, Portal!MailRow, Portal!ComposeDrawer

-----------------------------------------------------------------------------
(* The pages whose rows have buttons that turn.                             *)

Slotted == {"jobs", "messages", "logs", "sending", "domains"}

\* A step, of what its answer and its question owe.
LEMMA SlotsLanded ==
  ASSUME NEW p \in Slotted, Kept(p), NEW i \in DOMAIN calls, NEW new, Queue(new), Landed(i, new),
         Shaped(p, ui'),
         ui'.busy \subseteq (ui.busy \ Ends(p, calls[i])) \cup Owed(p, new),
         \A slot \in SlotsOf(p) :
           \/ ui'[slot] = None
           \/ ui'[slot] = ui[slot] /\ slot \notin Ends(p, calls[i])
           \/ slot \in Owed(p, new)
  PROVE  Kept(p)'
<1>1. p # "inbox"
  BY DEF Slotted
<1>2. Spinning(p, ui') \subseteq (Spinning(p, ui) \ Ends(p, calls[i])) \cup Owed(p, new)
  BY <1>1 DEF Spinning
<1> QED
  BY <1>2, LandedKept

LEMMA SlotsEnded ==
  ASSUME NEW p \in Slotted, Kept(p), NEW i \in DOMAIN calls, Landed(i, <<>>), Shaped(p, ui'),
         ui'.busy \subseteq ui.busy \ Ends(p, calls[i]),
         \A slot \in SlotsOf(p) :
           ui'[slot] = None \/ (ui'[slot] = ui[slot] /\ slot \notin Ends(p, calls[i]))
  PROVE  Kept(p)'
BY OwedEmpty, SlotsLanded

LEMMA SlotsWentOn ==
  ASSUME NEW p \in Slotted, Kept(p), NEW i \in DOMAIN calls, NEW new, Landed(i, <<new>>), Shaped(p, ui'),
         ui'.busy \subseteq (ui.busy \ Ends(p, calls[i])) \cup Ends(p, new),
         \A slot \in SlotsOf(p) :
           \/ ui'[slot] = None
           \/ ui'[slot] = ui[slot] /\ slot \notin Ends(p, calls[i])
           \/ slot \in Ends(p, new)
  PROVE  Kept(p)'
<1>1. Queue(<<new>>) /\ Owed(p, <<new>>) = Ends(p, new)
  BY OwedSingle
<1> QED
  BY <1>1, SlotsLanded

LEMMA SlotsAsked ==
  ASSUME NEW p \in Slotted, Kept(p), NEW new, Asked(<<new>>), Shaped(p, ui'),
         ui'.busy \subseteq ui.busy \cup Ends(p, new),
         \A slot \in SlotsOf(p) : ui'[slot] = ui[slot] \/ slot \in Ends(p, new)
  PROVE  Kept(p)'
<1>1. p # "inbox"
  BY DEF Slotted
<1>2. Spinning(p, ui') \subseteq Spinning(p, ui) \cup Ends(p, new)
  BY <1>1 DEF Spinning
<1> QED
  BY <1>2, AskedKept

LEMMA SlotsStill ==
  ASSUME NEW p \in Slotted, Kept(p), UNCHANGED calls, Shaped(p, ui'), ui'.busy = ui.busy,
         \A slot \in SlotsOf(p) : ui'[slot] = ui[slot]
  PROVE  Kept(p)'
<1>1. p # "inbox"
  BY DEF Slotted
<1>2. Spinning(p, ui') \subseteq Spinning(p, ui)
  BY <1>1 DEF Spinning
<1> QED
  BY <1>2, StillKept

\* A page whose fields stay has its shape while no name of a slot turns.
LEMMA SlotsShaped ==
  ASSUME NEW p, Kept(p), DOMAIN ui' = DOMAIN ui, ui'.busy \cap SlotsOf(p) = {} PROVE Shaped(p, ui')
BY DEF Kept, Shaped

-----------------------------------------------------------------------------
(* The forwarding jobs.                                                     *)

\* A requeue remembers its row, never null.
JobForm(c) == c.op = "requeue" => c.id \in Rows /\ c.open \in BOOLEAN

JobsKept ==
  /\ Kept("jobs")
  /\ {"rows", "drawer"} \subseteq DOMAIN ui /\ ui.rows \subseteq Rows /\ ui.drawer \in BOOLEAN
  /\ \A c \in ToSet(calls) : JobForm(c)

LEMMA JobsFacts ==
  ASSUME JobsKept
  PROVE  /\ "jobs" \in Slotted /\ SlotsOf("jobs") = {"requeueing"}
         /\ {"busy", "requeueing", "rows", "drawer"} \subseteq DOMAIN ui
         /\ ui.busy \cap {"requeueing"} = {}
         /\ Queue(calls)
         /\ \A i \in DOMAIN calls :
              Queue(Rest(i)) /\ JobForm(calls[i]) /\ \A c \in ToSet(Rest(i)) : JobForm(c)
<1>1. Queue(calls) /\ \A i \in DOMAIN calls :
                        Queue(Rest(i)) /\ calls[i] \in ToSet(calls) /\ ToSet(Rest(i)) \subseteq ToSet(calls)
  BY Dropped DEF Kept, JobsKept, Rest, RemoveAt
<1> QED
  BY <1>1 DEF JobsKept, Kept, Shaped, SlotsOf, Slotted

\* The rows and the drawer of a step, and what it asks for.
LEMMA JobsWithin ==
  ASSUME JobsKept, Kept("jobs")', DOMAIN ui' = DOMAIN ui, ui'.rows \subseteq Rows, ui'.drawer \in BOOLEAN,
         \/ UNCHANGED calls
         \/ \E new : Asked(<<new>>) /\ JobForm(new)
         \/ \E i \in DOMAIN calls : Landed(i, <<>>)
         \/ \E i \in DOMAIN calls : \E new : Landed(i, <<new>>) /\ JobForm(new)
         \/ \E i \in DOMAIN calls : \E t : Landed(i, t) /\ Queue(t) /\ \A c \in ToSet(t) : JobForm(c)
  PROVE  JobsKept'
<1>1. \A c \in ToSet(calls') : JobForm(c)
  <2>1. ASSUME NEW s, NEW t, Queue(s), Queue(t), calls' = s \o t,
               \A c \in ToSet(s) : JobForm(c), \A c \in ToSet(t) : JobForm(c)
        PROVE  \A c \in ToSet(calls') : JobForm(c)
    <3>1. ToSet(s \o t) = ToSet(s) \cup ToSet(t)
      BY <2>1, Joined
    <3> QED
      BY <2>1, <3>1
  <2>2. CASE UNCHANGED calls
    BY <2>2 DEF JobsKept
  <2>3. ASSUME NEW new, Asked(<<new>>), JobForm(new) PROVE \A c \in ToSet(calls') : JobForm(c)
    <3>1. Queue(<<new>>) /\ ToSet(<<new>>) = {new} /\ Queue(calls)
      BY Single, JobsFacts
    <3>2. calls' = calls \o <<new>> /\ \A c \in ToSet(calls) : JobForm(c)
      BY <2>3 DEF Asked, JobsKept
    <3> QED
      BY <2>1, <2>3, <3>1, <3>2
  <2>4. ASSUME NEW i \in DOMAIN calls, NEW t, Landed(i, t), Queue(t), \A c \in ToSet(t) : JobForm(c)
        PROVE  \A c \in ToSet(calls') : JobForm(c)
    BY <2>1, <2>4, JobsFacts DEF Landed
  <2>5. Queue(<<>>) /\ ToSet(<<>>) = {}
    BY Empty
  <2>6. \A a : Queue(<<a>>) /\ ToSet(<<a>>) = {a}
    BY Single
  <2>7. ASSUME NEW i \in DOMAIN calls, NEW a, Landed(i, <<a>>), JobForm(a)
        PROVE  \A c \in ToSet(calls') : JobForm(c)
    <3> DEFINE t == <<a>>
    <3>1. Queue(t) /\ ToSet(t) = {a} /\ Landed(i, t)
      BY <2>6, <2>7
    <3> HIDE DEF t
    <3> QED
      BY <2>4, <2>7, <3>1
  <2>8. ASSUME NEW i \in DOMAIN calls, Landed(i, <<>>) PROVE \A c \in ToSet(calls') : JobForm(c)
    <3> DEFINE t == <<>>
    <3>1. Queue(t) /\ ToSet(t) = {} /\ Landed(i, t)
      BY <2>5, <2>8
    <3> HIDE DEF t
    <3> QED
      BY <2>4, <3>1
  <2> QED
    BY <2>2, <2>3, <2>4, <2>7, <2>8
<1> QED
  BY <1>1 DEF JobsKept

\* A call about nothing but the list and its details.
LEMMA JobCalls ==
  /\ \A q, then : LET c == Lists!JobsList(q, then) IN
       /\ JobForm(c)
       /\ Ends("jobs", c) = {"jobs"} \cup (IF then = None THEN {} ELSE {"requeueing"})
  /\ \A id : LET c == Lists!JobDetail(id)
                 d == [c EXCEPT !.op = "jobAgain"]
             IN /\ JobForm(c) /\ JobForm(d)
                /\ Ends("jobs", c) = {"job"} /\ Ends("jobs", d) = {"job", "requeueing"}
<1>1. ASSUME NEW q, NEW then
      PROVE  LET c == Lists!JobsList(q, then) IN
             /\ JobForm(c)
             /\ Ends("jobs", c) = {"jobs"} \cup (IF then = None THEN {} ELSE {"requeueing"})
  BY DEF Lists!JobsList, JobForm, Ends, JobsEnds
<1>2. ASSUME NEW id
      PROVE  LET c == Lists!JobDetail(id)
                 d == [c EXCEPT !.op = "jobAgain"]
             IN /\ JobForm(c) /\ JobForm(d)
                /\ Ends("jobs", c) = {"job"} /\ Ends("jobs", d) = {"job", "requeueing"}
  <2> DEFINE c == Lists!JobDetail(id)
             d == [c EXCEPT !.op = "jobAgain"]
  <2>1. c.op = "job" /\ d.op = "jobAgain"
    BY DEF Lists!JobDetail
  <2> HIDE DEF c, d
  <2>2. JobForm(c) /\ JobForm(d) /\ Ends("jobs", c) = {"job"} /\ Ends("jobs", d) = {"job", "requeueing"}
    BY <2>1 DEF JobForm, Ends, JobsEnds
  <2> QED
    BY <2>2 DEF c, d
<1> QED
  BY <1>1, <1>2

\* A list that lands asks for the detail a requeue waits for, and for the list again.
LEMMA JobsLandKept ==
  ASSUME JobsKept, NEW i \in DOMAIN calls, calls[i].op = "jobs",
         \/ \E rows \in SUBSET Rows : \E failed : Lists!JobsLand(i, rows, failed)
         \/ Lists!JobsLandFailed(i)
  PROVE  JobsKept'
<1> DEFINE c == calls[i]
           query == [ui.query EXCEPT !.page = c.query.page]
           detail == c.then # None /\ c.then.open
           d == [Lists!JobDetail(c.then.id) EXCEPT !.op = "jobAgain"]
           l == Lists!JobsList(query, None)
           a == IF detail THEN <<d>> ELSE <<>>
<1>1. /\ JobForm(d) /\ Ends("jobs", d) = {"job", "requeueing"}
      /\ JobForm(l) /\ Ends("jobs", l) = {"jobs"}
  BY JobCalls
<1>2. Ends("jobs", c) = {"jobs"} \cup (IF c.then = None THEN {} ELSE {"requeueing"})
  BY DEF Ends, JobsEnds
<1> HIDE DEF d, l
<1>3. /\ Queue(a) /\ \A e \in ToSet(a) : JobForm(e)
      /\ Owed("jobs", a) = IF detail THEN {"job", "requeueing"} ELSE {}
  <2>1. /\ Queue(<<d>>) /\ ToSet(<<d>>) = {d} /\ Owed("jobs", <<d>>) = Ends("jobs", d)
        /\ Queue(<<>>) /\ ToSet(<<>>) = {} /\ Owed("jobs", <<>>) = {}
    BY Single, Empty, OwedSingle, OwedEmpty
  <2> QED
    BY <1>1, <2>1
<1>4. /\ Queue(<<l>>) /\ ToSet(<<l>>) = {l} /\ Owed("jobs", <<l>>) = {"jobs"}
      /\ Queue(<<>>) /\ ToSet(<<>>) = {} /\ Owed("jobs", <<>>) = {}
  BY <1>1, Single, Empty, OwedSingle, OwedEmpty
<1> HIDE DEF a
<1> DEFINE b(again) == IF again THEN <<l>> ELSE <<>>
<1>5. ASSUME NEW again \in BOOLEAN
      PROVE  /\ Queue(a \o b(again)) /\ \A e \in ToSet(a \o b(again)) : JobForm(e)
             /\ Owed("jobs", a \o b(again)) = Owed("jobs", a) \cup (IF again THEN {"jobs"} ELSE {})
  <2> DEFINE t == b(again)
  <2>1. Queue(t) /\ Owed("jobs", t) = (IF again THEN {"jobs"} ELSE {}) /\ \A e \in ToSet(t) : JobForm(e)
    BY <1>1, <1>4
  <2> HIDE DEF t
  <2>2. Queue(a \o t) /\ Owed("jobs", a \o t) = Owed("jobs", a) \cup Owed("jobs", t)
    BY <1>3, <2>1, OwedJoined
  <2>3. ToSet(a \o t) = ToSet(a) \cup ToSet(t)
    BY <1>3, <2>1, Joined
  <2> QED
    BY <1>3, <2>1, <2>2, <2>3 DEF t
<1>6. ASSUME NEW t, Queue(t), \A e \in ToSet(t) : JobForm(e), Landed(i, t),
             DOMAIN ui' = DOMAIN ui, ui'.rows \subseteq Rows, ui'.drawer = ui.drawer,
             ui'.requeueing = (IF c.then = None \/ detail THEN ui.requeueing ELSE None),
             ui'.busy \subseteq (ui.busy \ {"jobs"}) \cup Owed("jobs", t),
             "requeueing" \notin ui'.busy,
             Owed("jobs", a) \subseteq Owed("jobs", t)
      PROVE  JobsKept'
  <2> HIDE DEF c, b
  <2>1. /\ Kept("jobs") /\ "jobs" \in Slotted /\ SlotsOf("jobs") = {"requeueing"}
        /\ ui.busy \cap {"requeueing"} = {} /\ ui.drawer \in BOOLEAN
    BY JobsFacts DEF JobsKept
  <2>2. Shaped("jobs", ui')
    BY <1>6, <2>1, SlotsShaped
  <2>3. \/ ui'["requeueing"] = None
        \/ ui'["requeueing"] = ui["requeueing"] /\ "requeueing" \notin Ends("jobs", calls[i])
        \/ "requeueing" \in Owed("jobs", t)
    BY <1>2, <1>3, <1>6 DEF c
  <2>4. ui'.busy \subseteq (ui.busy \ Ends("jobs", calls[i])) \cup Owed("jobs", t)
    BY <1>2, <1>6, <2>1 DEF c
  <2> HIDE DEF detail
  <2>5. Kept("jobs")'
    BY <1>6, <2>1, <2>2, <2>3, <2>4, SlotsLanded
  <2> QED
    BY <1>6, <2>1, <2>5, JobsWithin
<1>7. /\ {"busy", "requeueing", "rows", "drawer"} \subseteq DOMAIN ui /\ ui.busy \cap {"requeueing"} = {}
      /\ ui.rows \subseteq Rows
  BY JobsFacts DEF JobsKept
<1>8. ASSUME NEW rows \in SUBSET Rows, NEW failed, Lists!JobsLand(i, rows, failed) PROVE JobsKept'
  <2> DEFINE again == query # ui.query
  <2>1. /\ DOMAIN ui' = DOMAIN ui /\ ui'.rows = rows /\ ui'.drawer = ui.drawer
        /\ ui'.busy = (IF again THEN ui.busy ELSE ui.busy \ {"jobs"}) \cup (IF detail THEN {"job"} ELSE {})
        /\ ui'.requeueing = IF c.then = None \/ detail THEN ui.requeueing ELSE None
    BY <1>7, <1>8 DEF Lists!JobsLand, Off, Lists!Off
  <2>2. Landed(i, a \o b(again))
    <3>1. Lists!Landed(i, a \o b(again))
      BY <1>8, Zenon DEF Lists!JobsLand, a, d, l
    <3> QED
      BY <3>1, ListCalls
  <2>3. again \in BOOLEAN
    OBVIOUS
  <2> HIDE DEF again, b, c, detail
  <2> QED
    BY <1>3, <1>5, <1>6, <1>7, <2>1, <2>2, <2>3
<1>9. CASE Lists!JobsLandFailed(i)
  <2>1. /\ DOMAIN ui' = DOMAIN ui /\ ui'.rows = ui.rows /\ ui'.drawer = ui.drawer
        /\ ui'.busy = (ui.busy \ {"jobs"}) \cup (IF detail THEN {"job"} ELSE {})
        /\ ui'.requeueing = IF c.then = None \/ detail THEN ui.requeueing ELSE None
    BY <1>7, <1>9 DEF Lists!JobsLandFailed, Off, Lists!Off
  <2>2. Landed(i, a)
    <3>1. Lists!Landed(i, a)
      BY <1>9, Zenon DEF Lists!JobsLandFailed, a, d
    <3> QED
      BY <3>1, ListCalls
  <2> HIDE DEF c, b, detail
  <2> QED
    BY <1>3, <1>6, <1>7, <2>1, <2>2
<1> QED
  BY <1>8, <1>9

LEMMA JobsStepKept == JobsKept /\ Lists!JobsNext => JobsKept'
<1> SUFFICES ASSUME JobsKept, Lists!JobsNext PROVE JobsKept'
  OBVIOUS
<1>1. /\ Kept("jobs") /\ "jobs" \in Slotted /\ SlotsOf("jobs") = {"requeueing"}
      /\ {"busy", "requeueing", "rows", "drawer"} \subseteq DOMAIN ui
      /\ ui.busy \cap {"requeueing"} = {} /\ ui.rows \subseteq Rows /\ ui.drawer \in BOOLEAN
      /\ \A i \in DOMAIN calls : JobForm(calls[i])
  BY JobsFacts DEF JobsKept
<1>2. ASSUME DOMAIN ui' = DOMAIN ui, "requeueing" \notin ui'.busy, NEW new, JobForm(new), Asked(<<new>>),
             ui'.busy \subseteq ui.busy \cup Ends("jobs", new),
             ui'.requeueing = ui.requeueing \/ "requeueing" \in Ends("jobs", new),
             ui'.rows = ui.rows, ui'.drawer = ui.drawer
      PROVE  JobsKept'
  <2>1. Shaped("jobs", ui')
    BY <1>1, <1>2, SlotsShaped
  <2>2. Kept("jobs")'
    BY <1>1, <1>2, <2>1, SlotsAsked
  <2> QED
    BY <1>1, <1>2, <2>2, JobsWithin
<1>3. ASSUME DOMAIN ui' = DOMAIN ui, "requeueing" \notin ui'.busy, NEW i \in DOMAIN calls, Landed(i, <<>>),
             ui'.busy \subseteq ui.busy \ Ends("jobs", calls[i]),
             \/ ui'.requeueing = None
             \/ ui'.requeueing = ui.requeueing /\ "requeueing" \notin Ends("jobs", calls[i]),
             ui'.rows = ui.rows, ui'.drawer \in BOOLEAN
      PROVE  JobsKept'
  <2>1. Shaped("jobs", ui')
    BY <1>1, <1>3, SlotsShaped
  <2>2. Kept("jobs")'
    BY <1>1, <1>3, <2>1, SlotsEnded
  <2> QED
    BY <1>1, <1>3, <2>2, JobsWithin
<1> USE DEF Lists!On, Lists!Off
<1>4. ASSUME NEW q, Lists!JobsQuery(q) \/ (Lists!JobsRefresh /\ q = ui.query) PROVE JobsKept'
  <2> DEFINE new == Lists!JobsList(q, None)
  <2>1. /\ DOMAIN ui' = DOMAIN ui /\ ui'.busy = ui.busy \cup {"jobs"} /\ ui'.requeueing = ui.requeueing
        /\ ui'.rows = ui.rows /\ ui'.drawer = ui.drawer
    BY <1>1, <1>4 DEF Lists!JobsQuery, Lists!JobsRefresh
  <2>2. Asked(<<new>>)
    BY <1>4, ListCalls DEF Lists!JobsQuery, Lists!JobsRefresh
  <2>3. JobForm(new) /\ Ends("jobs", new) = {"jobs"}
    BY JobCalls
  <2> HIDE DEF new
  <2> QED
    BY <1>1, <1>2, <2>1, <2>2, <2>3
<1>5. ASSUME NEW id, Lists!OpenJob(id) PROVE JobsKept'
  <2> DEFINE new == Lists!JobDetail(id)
  <2>1. /\ DOMAIN ui' = DOMAIN ui /\ ui'.busy = ui.busy \cup {"job"} /\ ui'.requeueing = ui.requeueing
        /\ ui'.rows = ui.rows /\ ui'.drawer = ui.drawer
    BY <1>1, <1>5 DEF Lists!OpenJob
  <2>2. Asked(<<new>>)
    BY <1>5, ListCalls DEF Lists!OpenJob
  <2>3. JobForm(new) /\ Ends("jobs", new) = {"job"}
    BY JobCalls
  <2> HIDE DEF new
  <2> QED
    BY <1>1, <1>2, <2>1, <2>2, <2>3
<1>6. ASSUME NEW id \in ui.rows, Lists!Requeue(id) PROVE JobsKept'
  <2> DEFINE new == [op |-> "requeue", id |-> id, query |-> ui.query, open |-> ui.drawer /\ ui.detail = id]
  <2>1. /\ DOMAIN ui' = DOMAIN ui /\ ui'.busy = ui.busy
        /\ ui'.rows = ui.rows /\ ui'.drawer = ui.drawer
    BY <1>1, <1>6 DEF Lists!Requeue
  <2>2. Asked(<<new>>)
    BY <1>6, ListCalls DEF Lists!Requeue
  <2>3. new.op = "requeue" /\ new.id \in Rows /\ new.open \in BOOLEAN
    BY <1>1
  <2> HIDE DEF new
  <2>4. JobForm(new) /\ Ends("jobs", new) = {"requeueing"}
    BY <2>3 DEF JobForm, Ends, JobsEnds
  <2> QED
    BY <1>1, <1>2, <2>1, <2>2, <2>4
<1>7. ASSUME NEW i \in DOMAIN calls, NEW ok \in BOOLEAN, calls[i].op \in {"job", "jobAgain"},
             Lists!JobLand(i, ok)
      PROVE  JobsKept'
  <2>1. /\ DOMAIN ui' = DOMAIN ui /\ ui'.busy = ui.busy \ {"job"} /\ ui'.rows = ui.rows
        /\ ui'.drawer = (ui.drawer \/ ok)
        /\ ui'.requeueing = IF calls[i].op = "jobAgain" THEN None ELSE ui.requeueing
    BY <1>1, <1>7 DEF Lists!JobLand
  <2>2. Landed(i, <<>>)
    BY <1>7, ListCalls DEF Lists!JobLand
  <2>3. Ends("jobs", calls[i]) = IF calls[i].op = "jobAgain" THEN {"job", "requeueing"} ELSE {"job"}
    BY <1>7 DEF Ends, JobsEnds
  <2> QED
    BY <1>1, <1>3, <1>7, <2>1, <2>2, <2>3
<1>8. CASE Lists!CloseJob
  <2>1. /\ DOMAIN ui' = DOMAIN ui /\ ui'.busy = ui.busy /\ ui'.rows = ui.rows /\ ui'.drawer = FALSE
        /\ ui'.requeueing = ui.requeueing /\ UNCHANGED calls
    BY <1>1, <1>8 DEF Lists!CloseJob
  <2>2. Shaped("jobs", ui')
    BY <1>1, <2>1, SlotsShaped
  <2>3. Kept("jobs")'
    BY <1>1, <2>1, <2>2, SlotsStill
  <2> QED
    BY <1>1, <2>1, <2>3, JobsWithin
<1>9. ASSUME NEW i \in DOMAIN calls, NEW ok \in BOOLEAN, calls[i].op = "requeue", Lists!RequeueLand(i, ok)
      PROVE  JobsKept'
  <2>1. Ends("jobs", calls[i]) = {"requeueing"} /\ calls[i].id \in Rows /\ calls[i].open \in BOOLEAN
    BY <1>1, <1>9 DEF Ends, JobsEnds, JobForm
  <2>2. CASE ok
    <3> DEFINE then == [id |-> calls[i].id, open |-> calls[i].open]
               new == Lists!JobsList(calls[i].query, then)
    <3>1. /\ DOMAIN ui' = DOMAIN ui /\ ui'.busy = ui.busy \cup {"jobs"} /\ ui'.rows = ui.rows
          /\ ui'.drawer = ui.drawer /\ ui'.requeueing = ui.requeueing
      BY <1>1, <1>9, <2>2 DEF Lists!RequeueLand
    <3>2. Landed(i, <<new>>)
      BY <1>9, <2>2, ListCalls DEF Lists!RequeueLand
    <3>3. then # None
      BY <2>1, NullAssumption
    <3> HIDE DEF then
    <3>4. JobForm(new) /\ Ends("jobs", new) = {"jobs", "requeueing"}
      BY <3>3, JobCalls
    <3> HIDE DEF new
    <3>5. Shaped("jobs", ui')
      BY <1>1, <3>1, SlotsShaped
    <3>6. Kept("jobs")'
      BY <1>1, <2>1, <3>1, <3>2, <3>4, <3>5, SlotsWentOn
    <3> QED
      BY <1>1, <3>1, <3>2, <3>4, <3>6, JobsWithin
  <2>3. CASE ~ok
    <3>1. /\ DOMAIN ui' = DOMAIN ui /\ ui'.busy = ui.busy /\ ui'.rows = ui.rows
          /\ ui'.drawer = ui.drawer /\ ui'.requeueing = None
      BY <1>1, <1>9, <2>3 DEF Lists!RequeueLand
    <3>2. Landed(i, <<>>)
      BY <1>9, <2>3, ListCalls DEF Lists!RequeueLand
    <3> QED
      BY <1>1, <1>3, <2>1, <3>1, <3>2
  <2> QED
    BY <2>2, <2>3
<1>10. ASSUME NEW op, NEW i \in Lists!Waiting(op) PROVE i \in DOMAIN calls /\ calls[i].op = op
  BY DEF Lists!Waiting
<1>11. ASSUME NEW i \in Lists!Waiting("jobs"), NEW rows \in SUBSET Rows, NEW failed,
              Lists!JobsLand(i, rows, failed)
       PROVE  JobsKept'
  BY <1>10, <1>11, JobsLandKept
<1>12. ASSUME NEW i \in Lists!Waiting("jobs"), Lists!JobsLandFailed(i) PROVE JobsKept'
  BY <1>10, <1>12, JobsLandKept
<1> QED
  BY <1>4, <1>5, <1>6, <1>7, <1>8, <1>9, <1>10, <1>11, <1>12
     DEF Lists!JobsNext, Lists!JobsRow, Lists!JobsToolbar, Lists!JobsTable

LEMMA JobsStartKept == Lists!JobsMount => JobsKept
<1> SUFFICES ASSUME Lists!JobsMount PROVE JobsKept
  OBVIOUS
<1> DEFINE new == Lists!JobsList(ui.query, None)
<1>1. /\ DOMAIN ui = {"query", "shown", "rows", "failed", "detail", "drawer", "requeueing", "busy"}
      /\ ui.rows = {} /\ ui.drawer = FALSE /\ ui.requeueing = None /\ ui.busy = {"jobs"} /\ calls = <<new>>
  BY DEF Lists!JobsMount
<1>2. JobForm(new) /\ Ends("jobs", new) = {"jobs"}
  BY JobCalls
<1> HIDE DEF new
<1>3. /\ Queue(calls) /\ Owed("jobs", calls) = {"jobs"} /\ ToSet(calls) = {new}
  BY <1>1, <1>2, OwedSingle, Single
<1>4. SlotsOf("jobs") = {"requeueing"}
  BY DEF SlotsOf
<1>5. Shaped("jobs", ui) /\ Spinning("jobs", ui) = {"jobs"}
  BY <1>1, <1>4 DEF Shaped, Spinning, SlotNames
<1> QED
  BY <1>1, <1>2, <1>3, <1>5 DEF JobsKept, Kept

-----------------------------------------------------------------------------
(* Domain messages, operation logs and sent mail: the handlers they share.  *)

RowsPages == {"messages", "logs", "sending"}

LEMMA RowsFacts ==
  ASSUME NEW p \in RowsPages
  PROVE  /\ p \in Slotted /\ "deleting" \in SlotsOf(p) /\ SlotsOf(p) \subseteq {"deleting", "deletingConfig"}
         /\ \A c : Ends(p, c) = RowsEnds(p, c)
         /\ Kept(p) => /\ {"busy"} \cup SlotsOf(p) \subseteq DOMAIN ui
                       /\ DOMAIN ui \cap SlotNames \subseteq SlotsOf(p)
                       /\ ui.busy \cap SlotsOf(p) = {}
BY DEF RowsPages, Slotted, SlotsOf, Ends, Kept, Shaped

\* With takes the changes to fields that neither turn nor hold a row, and those to the others.
LEMMA Changed ==
  ASSUME NEW p, Kept(p), NEW changes, NEW end,
         DOMAIN changes \cap ({"busy"} \cup SlotNames) = {},
         "busy" \in DOMAIN end, DOMAIN end \cap SlotNames \subseteq SlotsOf(p),
         end.busy \cap SlotsOf(p) = {},
         ui' = Lists!With(ui, Lists!Merged(changes, end))
  PROVE  /\ Shaped(p, ui') /\ ui'.busy = end.busy
         /\ \A slot \in SlotsOf(p) : ui'[slot] = IF slot \in DOMAIN end THEN end[slot] ELSE ui[slot]
<1> DEFINE merged == Lists!Merged(changes, end)
<1>1. SlotsOf(p) \subseteq SlotNames
  BY DEF SlotsOf, SlotNames
<1>2. DOMAIN merged = DOMAIN changes \cup DOMAIN end
  BY DEF Lists!Merged
<1>3. \A f \in DOMAIN merged : merged[f] = IF f \in DOMAIN changes THEN changes[f] ELSE end[f]
  BY DEF Lists!Merged
<1> HIDE DEF merged
<1>4. DOMAIN ui' = DOMAIN merged \cup DOMAIN ui
  BY DEF Lists!With, Lists!Merged, merged
<1>5. \A f \in DOMAIN ui' : ui'[f] = IF f \in DOMAIN merged THEN merged[f] ELSE ui[f]
  BY DEF Lists!With, Lists!Merged, merged
<1>6. {"busy"} \cup SlotsOf(p) \subseteq DOMAIN ui /\ DOMAIN ui \cap SlotNames \subseteq SlotsOf(p)
  BY DEF Kept, Shaped
<1>7. ui'.busy = end.busy
  BY <1>2, <1>3, <1>4, <1>5
<1>8. \A slot \in SlotsOf(p) : ui'[slot] = IF slot \in DOMAIN end THEN end[slot] ELSE ui[slot]
  BY <1>1, <1>2, <1>3, <1>4, <1>5, <1>6
<1>9. Shaped(p, ui')
  BY <1>2, <1>4, <1>6, <1>7 DEF Shaped
<1> QED
  BY <1>7, <1>8, <1>9

LEMMA RowsQueryKept ==
  ASSUME NEW p \in RowsPages, Kept(p), NEW q, Lists!RowsQuery(q) \/ (Lists!RowsRefresh /\ q = ui.query)
  PROVE  Kept(p)'
<1> DEFINE new == Lists!RowsList(q, None)
<1>1. /\ p \in Slotted /\ "busy" \in DOMAIN ui /\ ui.busy \cap SlotsOf(p) = {}
      /\ SlotsOf(p) \subseteq {"deleting", "deletingConfig"} /\ SlotsOf(p) \subseteq DOMAIN ui
  BY RowsFacts
<1>2. /\ DOMAIN ui' = DOMAIN ui /\ ui'.busy = ui.busy \cup {"rows"}
      /\ \A slot \in SlotsOf(p) : ui'[slot] = ui[slot]
  BY <1>1 DEF Lists!RowsQuery, Lists!RowsRefresh, Lists!On
<1>3. Asked(<<new>>)
  BY ListCalls DEF Lists!RowsQuery, Lists!RowsRefresh
<1>4. "rows" \in Ends(p, new)
  <2>1. new.op = "rows"
    BY DEF Lists!RowsList
  <2> HIDE DEF new
  <2> QED
    BY <2>1, RowsFacts DEF RowsEnds
<1> HIDE DEF new
<1>5. Shaped(p, ui')
  BY <1>1, <1>2, SlotsShaped
<1> QED
  BY <1>1, <1>2, <1>3, <1>4, <1>5, SlotsAsked

LEMMA RowsSelectKept ==
  ASSUME NEW p \in RowsPages, Kept(p), NEW ids, Lists!SelectRows(ids) PROVE Kept(p)'
<1>1. /\ p \in Slotted /\ "busy" \in DOMAIN ui /\ ui.busy \cap SlotsOf(p) = {}
      /\ SlotsOf(p) \subseteq {"deleting", "deletingConfig"} /\ SlotsOf(p) \subseteq DOMAIN ui
  BY RowsFacts
<1>2. /\ DOMAIN ui' = DOMAIN ui /\ ui'.busy = ui.busy /\ UNCHANGED calls
      /\ \A slot \in SlotsOf(p) : ui'[slot] = ui[slot]
  BY <1>1 DEF Lists!SelectRows
<1>3. Shaped(p, ui')
  BY <1>1, <1>2, SlotsShaped
<1> QED
  BY <1>1, <1>2, <1>3, SlotsStill

LEMMA RowsDeleteKept ==
  ASSUME NEW p \in RowsPages, Kept(p), NEW saw,
         (\E id : Lists!DeleteRow(id, saw)) \/ Lists!DeleteSelected(saw)
  PROVE  Kept(p)'
<1>1. /\ p \in Slotted /\ {"busy", "deleting"} \subseteq DOMAIN ui /\ ui.busy \cap SlotsOf(p) = {}
      /\ SlotsOf(p) \subseteq {"deleting", "deletingConfig"} /\ SlotsOf(p) \subseteq DOMAIN ui
  BY RowsFacts
<1>2. ASSUME NEW id, Lists!DeleteRow(id, saw) PROVE Kept(p)'
  <2> DEFINE new == [op |-> "deleteRows", ids |-> {id}, then |-> "row", query |-> ui.query, saw |-> saw]
  <2>1. /\ DOMAIN ui' = DOMAIN ui /\ ui'.busy = ui.busy
        /\ \A slot \in SlotsOf(p) : slot = "deleting" \/ ui'[slot] = ui[slot]
    BY <1>1, <1>2 DEF Lists!DeleteRow
  <2>2. Asked(<<new>>)
    BY <1>2, ListCalls DEF Lists!DeleteRow
  <2>3. new.op = "deleteRows" /\ new.then = "row"
    OBVIOUS
  <2> HIDE DEF new
  <2>4. Ends(p, new) = {"deleting"}
    BY <2>3, RowsFacts DEF RowsEnds, RowsThen
  <2>5. Shaped(p, ui')
    BY <1>1, <2>1, SlotsShaped
  <2> QED
    BY <1>1, <2>1, <2>2, <2>4, <2>5, SlotsAsked
<1>3. CASE Lists!DeleteSelected(saw)
  <2> DEFINE new == [op |-> "deleteRows", ids |-> ui.selected, then |-> "batch", query |-> ui.query,
                     saw |-> saw]
  <2>1. /\ DOMAIN ui' = DOMAIN ui /\ ui'.busy = ui.busy \cup {"batch"}
        /\ \A slot \in SlotsOf(p) : ui'[slot] = ui[slot]
    BY <1>1, <1>3 DEF Lists!DeleteSelected, Lists!On
  <2>2. Asked(<<new>>)
    BY <1>3, ListCalls DEF Lists!DeleteSelected
  <2>3. new.op = "deleteRows" /\ new.then = "batch"
    OBVIOUS
  <2> HIDE DEF new
  <2>4. Ends(p, new) = {"batch"}
    BY <2>3, RowsFacts DEF RowsEnds, RowsThen
  <2>5. Shaped(p, ui')
    BY <1>1, <2>1, SlotsShaped
  <2> QED
    BY <1>1, <2>1, <2>2, <2>4, <2>5, SlotsAsked
<1> QED
  BY <1>2, <1>3

LEMMA RowsDeleteLandKept ==
  ASSUME NEW p \in RowsPages, Kept(p), NEW i \in DOMAIN calls, calls[i].op = "deleteRows",
         NEW changes, DOMAIN changes \cap ({"busy", "selected"} \cup SlotNames) = {},
         Lists!DeleteLand(i, changes) \/ Lists!DeleteFailed(i)
  PROVE  Kept(p)'
<1> DEFINE then == calls[i].then
<1>1. /\ p \in Slotted /\ {"busy", "deleting"} \subseteq DOMAIN ui /\ ui.busy \cap SlotsOf(p) = {}
      /\ SlotsOf(p) \subseteq {"deleting", "deletingConfig"} /\ "deleting" \in SlotsOf(p)
  BY RowsFacts
<1>2. Ends(p, calls[i]) = RowsThen("logs", then)
  BY RowsFacts DEF RowsEnds
<1>3. CASE Lists!DeleteLand(i, changes)
  <2> DEFINE end == [selected |-> IF then = "batch" THEN {} ELSE ui.selected \ calls[i].ids,
                     busy |-> ui.busy \cup {"rows"}]
             new == Lists!RowsList(calls[i].query, then)
  <2>1. ui' = Lists!With(ui, Lists!Merged(changes, end))
    BY <1>3 DEF Lists!DeleteLand, Lists!On
  <2>2. DOMAIN end = {"selected", "busy"} /\ end.busy = ui.busy \cup {"rows"}
    OBVIOUS
  <2> HIDE DEF end
  <2>3. /\ Shaped(p, ui') /\ ui'.busy = ui.busy \cup {"rows"}
        /\ \A slot \in SlotsOf(p) : ui'[slot] = ui[slot]
    <3>1. "busy" \in DOMAIN end /\ DOMAIN end \cap SlotNames = {} /\ end.busy \cap SlotsOf(p) = {}
      BY <1>1, <2>2 DEF SlotNames
    <3>2. \A slot \in SlotsOf(p) : slot \notin DOMAIN end
      BY <1>1, <2>2
    <3> QED
      BY <2>1, <2>2, <3>1, <3>2, Changed
  <2>4. Landed(i, <<new>>)
    BY <1>3, ListCalls DEF Lists!DeleteLand
  <2>5. new.op = "rows" /\ new.then = then
    BY DEF Lists!RowsList
  <2> HIDE DEF new
  <2>6. {"rows"} \cup Ends(p, calls[i]) \subseteq Ends(p, new)
    BY <1>2, <2>5, RowsFacts DEF RowsEnds, RowsThen
  <2> HIDE DEF then
  <2> QED
    BY <1>1, <2>3, <2>4, <2>6, SlotsWentOn
<1>4. CASE Lists!DeleteFailed(i)
  <2> DEFINE end == Lists!Ended(then)
  <2>1. ui' = Lists!With(ui, end) /\ Landed(i, <<>>)
    BY <1>4, ListCalls DEF Lists!DeleteFailed
  <2>2. /\ DOMAIN end = {"deleting", "busy"}
        /\ end.deleting = (IF then = "row" THEN None ELSE ui.deleting)
        /\ end.busy = ui.busy \ (IF then = "batch" THEN {"batch"} ELSE {})
    BY DEF Lists!Ended
  <2> HIDE DEF end
  <2>3. DOMAIN ui' = DOMAIN ui /\ \A f \in DOMAIN ui : ui'[f] = IF f \in DOMAIN end THEN end[f] ELSE ui[f]
    BY <1>1, <2>1, <2>2 DEF Lists!With, Lists!Merged
  <2>4. /\ ui'.busy = ui.busy \ (IF then = "batch" THEN {"batch"} ELSE {})
        /\ ui'.deleting = (IF then = "row" THEN None ELSE ui.deleting)
        /\ \A slot \in SlotsOf(p) : slot = "deleting" \/ ui'[slot] = ui[slot]
    <3>1. SlotsOf(p) \subseteq DOMAIN ui
      BY RowsFacts
    <3> QED
      BY <1>1, <2>2, <2>3, <3>1
  <2>5. Shaped(p, ui')
    BY <1>1, <2>3, <2>4, SlotsShaped
  <2> HIDE DEF then
  <2>6. /\ ui'.busy \subseteq ui.busy \ Ends(p, calls[i])
        /\ \A slot \in SlotsOf(p) :
             ui'[slot] = None \/ (ui'[slot] = ui[slot] /\ slot \notin Ends(p, calls[i]))
    BY <1>1, <1>2, <2>4 DEF RowsThen
  <2> QED
    BY <1>1, <2>1, <2>5, <2>6, SlotsEnded
<1> QED
  BY <1>3, <1>4

\* The list of the messages or of the logs.
LEMMA RowsLandKept ==
  ASSUME NEW p \in {"messages", "logs"}, Kept(p), NEW i \in DOMAIN calls, calls[i].op = "rows",
         NEW changes, DOMAIN changes \cap ({"busy"} \cup SlotNames) = {}, Lists!RowsLand(i, changes)
  PROVE  Kept(p)'
<1> DEFINE then == calls[i].then
           end == [Lists!Ended(then) EXCEPT !.busy = @ \ {"rows"}]
<1>1. /\ p \in Slotted /\ {"busy", "deleting"} \subseteq DOMAIN ui /\ ui.busy \cap SlotsOf(p) = {}
      /\ SlotsOf(p) = {"deleting"}
  BY RowsFacts DEF RowsPages, SlotsOf
<1>2. Ends(p, calls[i]) = {"rows"} \cup RowsThen(p, then)
  BY RowsFacts DEF RowsEnds, RowsPages
<1>3. ui' = Lists!With(ui, Lists!Merged(changes, end)) /\ Landed(i, <<>>)
  BY ListCalls DEF Lists!RowsLand
<1>4. /\ DOMAIN end = {"deleting", "busy"}
      /\ end.deleting = (IF then = "row" THEN None ELSE ui.deleting)
      /\ end.busy = (ui.busy \ (IF then = "batch" THEN {"batch"} ELSE {})) \ {"rows"}
  BY DEF Lists!Ended
<1> HIDE DEF end, then
<1>5. /\ Shaped(p, ui') /\ ui'.busy = end.busy /\ ui'.deleting = end.deleting
  <2>1. /\ "busy" \in DOMAIN end /\ DOMAIN end \cap SlotNames \subseteq SlotsOf(p)
        /\ end.busy \cap SlotsOf(p) = {} /\ "deleting" \in DOMAIN end /\ "deleting" \in SlotsOf(p)
    BY <1>1, <1>4 DEF SlotNames
  <2> QED
    BY <1>3, <2>1, Changed
<1>6. RowsThen(p, then) = IF then = "row" THEN {"deleting"} ELSE IF then = "batch" THEN {"batch"} ELSE {}
  BY DEF RowsThen
<1>7. /\ ui'.busy \subseteq ui.busy \ Ends(p, calls[i])
      /\ \A slot \in SlotsOf(p) : ui'[slot] = None \/ (ui'[slot] = ui[slot] /\ slot \notin Ends(p, calls[i]))
  BY <1>1, <1>2, <1>4, <1>5, <1>6
<1> QED
  BY <1>1, <1>3, <1>5, <1>7, SlotsEnded

-----------------------------------------------------------------------------
(* The three pages.                                                         *)

LEMMA MessagesKept == Kept("messages") /\ Lists!MessagesNext => Kept("messages")'
<1> SUFFICES ASSUME Kept("messages"), Lists!MessagesNext PROVE Kept("messages")'
  OBVIOUS
<1> DEFINE p == "messages"
<1>1. /\ p \in RowsPages /\ p \in {"messages", "logs"} /\ p \in Slotted /\ SlotsOf(p) = {"deleting"}
      /\ {"busy", "deleting"} \subseteq DOMAIN ui /\ ui.busy \cap SlotsOf(p) = {}
  BY RowsFacts DEF RowsPages, SlotsOf
<1>2. ASSUME NEW op, NEW i \in Lists!Waiting(op) PROVE i \in DOMAIN calls /\ calls[i].op = op
  BY DEF Lists!Waiting
<1>3. ASSUME NEW ids, Lists!SelectRows(ids) PROVE Kept(p)'
  BY <1>1, <1>3, RowsSelectKept
<1>4. ASSUME NEW i \in Lists!Waiting("rows"), NEW rows,
             \/ Lists!RowsLand(i, [shown |-> calls[i].query, rows |-> rows])
             \/ Lists!RowsLand(i, <<>>)
      PROVE  Kept(p)'
  BY <1>1, <1>2, <1>4, RowsLandKept DEF SlotNames
<1>5. ASSUME NEW i \in Lists!Waiting("deleteRows"),
             Lists!DeleteLand(i, Lists!DrawerAfterDelete(i)) \/ Lists!DeleteFailed(i)
      PROVE  Kept(p)'
  <2>1. DOMAIN Lists!DrawerAfterDelete(i) \cap ({"busy", "selected"} \cup SlotNames) = {}
    BY DEF Lists!DrawerAfterDelete, SlotNames
  <2> QED
    BY <1>1, <1>2, <1>5, <2>1, RowsDeleteLandKept
<1>6. CASE Lists!RowsNext(Lists!DrawerAfterDelete)
  BY <1>3, <1>4, <1>5, <1>6 DEF Lists!RowsNext
<1>7. ASSUME NEW q, Lists!RowsQuery(q) \/ (Lists!RowsRefresh /\ q = ui.query) PROVE Kept(p)'
  BY <1>1, <1>7, RowsQueryKept
<1>8. ASSUME NEW saw, (\E id : Lists!DeleteRow(id, saw)) \/ Lists!DeleteSelected(saw) PROVE Kept(p)'
  BY <1>1, <1>8, RowsDeleteKept
<1>9. ASSUME NEW id, Lists!OpenMessage(id) PROVE Kept(p)'
  <2> DEFINE new == [op |-> "message", id |-> id]
  <2>1. Asked(<<new>>) /\ UNCHANGED ui
    BY <1>9, ListCalls DEF Lists!OpenMessage
  <2> HIDE DEF new
  <2>2. Shaped(p, ui')
    BY <1>1, <2>1, SlotsShaped
  <2> QED
    BY <1>1, <2>1, <2>2, SlotsAsked
<1>10. ASSUME NEW i \in Lists!Waiting("message"), NEW ok, Lists!MessageLand(i, ok) PROVE Kept(p)'
  <2>1. /\ DOMAIN ui' = DOMAIN ui /\ ui'.busy = ui.busy /\ ui'.deleting = ui.deleting /\ Landed(i, <<>>)
    BY <1>1, <1>10, ListCalls DEF Lists!MessageLand
  <2>2. Ends(p, calls[i]) = {}
    BY <1>1, <1>2, <1>10, RowsFacts DEF RowsEnds
  <2>3. Shaped(p, ui')
    BY <1>1, <2>1, SlotsShaped
  <2> QED
    BY <1>1, <1>2, <1>10, <2>1, <2>2, <2>3, SlotsEnded
<1>11. CASE Lists!CloseMessage
  <2>1. /\ DOMAIN ui' = DOMAIN ui /\ ui'.busy = ui.busy /\ ui'.deleting = ui.deleting /\ UNCHANGED calls
    BY <1>1, <1>11 DEF Lists!CloseMessage
  <2>2. Shaped(p, ui')
    BY <1>1, <2>1, SlotsShaped
  <2> QED
    BY <1>1, <2>1, <2>2, SlotsStill
<1> HIDE DEF p
<1> QED
  BY <1>4, <1>6, <1>7, <1>8, <1>9, <1>10, <1>11
     DEF Lists!MessagesNext, Lists!MessagesToolbar, Lists!MessagesRow, p

LEMMA LogsKept == Kept("logs") /\ Lists!LogsNext => Kept("logs")'
<1> SUFFICES ASSUME Kept("logs"), Lists!LogsNext PROVE Kept("logs")'
  OBVIOUS
<1> DEFINE p == "logs"
<1>1. p \in RowsPages /\ p \in {"messages", "logs"}
  BY DEF RowsPages
<1>2. ASSUME NEW op, NEW i \in Lists!Waiting(op) PROVE i \in DOMAIN calls /\ calls[i].op = op
  BY DEF Lists!Waiting
<1>3. ASSUME NEW ids, Lists!SelectRows(ids) PROVE Kept(p)'
  BY <1>1, <1>3, RowsSelectKept
<1>4. ASSUME NEW i \in Lists!Waiting("rows"), NEW rows,
             \/ Lists!RowsLand(i, [shown |-> calls[i].query, rows |-> rows])
             \/ Lists!RowsLand(i, <<>>)
      PROVE  Kept(p)'
  BY <1>1, <1>2, <1>4, RowsLandKept DEF SlotNames
<1>5. ASSUME NEW i \in Lists!Waiting("deleteRows"), Lists!DeleteLand(i, <<>>) \/ Lists!DeleteFailed(i)
      PROVE  Kept(p)'
  BY <1>1, <1>2, <1>5, RowsDeleteLandKept DEF SlotNames
<1> QED
  BY <1>1, <1>3, <1>4, <1>5, RowsQueryKept, RowsDeleteKept
     DEF Lists!LogsNext, Lists!RowsNext, Lists!LogsToolbar, Lists!LogsRow

LEMMA SendingKept == Kept("sending") /\ Lists!SendingNext => Kept("sending")'
<1> SUFFICES ASSUME Kept("sending"), Lists!SendingNext PROVE Kept("sending")'
  OBVIOUS
<1> DEFINE p == "sending"
<1>1. /\ p \in RowsPages /\ p \in Slotted /\ SlotsOf(p) = {"deleting", "deletingConfig"}
      /\ {"busy", "deleting", "deletingConfig"} \subseteq DOMAIN ui /\ ui.busy \cap SlotsOf(p) = {}
  BY RowsFacts DEF RowsPages, SlotsOf
<1>2. ASSUME NEW op, NEW i \in Lists!Waiting(op) PROVE i \in DOMAIN calls /\ calls[i].op = op
  BY DEF Lists!Waiting
<1> USE DEF Lists!On, Lists!Off
<1>3. ASSUME NEW id, Lists!DeleteConfig(id) PROVE Kept(p)'
  <2> DEFINE new == [op |-> "deleteConfig", id |-> id]
  <2>1. DOMAIN ui' = DOMAIN ui /\ ui'.busy = ui.busy /\ ui'.deleting = ui.deleting /\ Asked(<<new>>)
    BY <1>1, <1>3, ListCalls DEF Lists!DeleteConfig
  <2>2. new.op = "deleteConfig"
    OBVIOUS
  <2> HIDE DEF new
  <2>3. Ends(p, new) = {"deletingConfig"}
    BY <1>1, <2>2, RowsFacts DEF RowsEnds
  <2>4. Shaped(p, ui')
    BY <1>1, <2>1, SlotsShaped
  <2> QED
    BY <1>1, <2>1, <2>3, <2>4, SlotsAsked
<1>4. ASSUME NEW i \in Lists!Waiting("deleteConfig"), NEW ok \in BOOLEAN, Lists!DeleteConfigLand(i, ok)
      PROVE  Kept(p)'
  <2>1. Ends(p, calls[i]) = {"deletingConfig"}
    BY <1>1, <1>2, <1>4, RowsFacts DEF RowsEnds
  <2>2. CASE ok
    <3> DEFINE new == Lists!RowsList(None, "config")
    <3>1. /\ DOMAIN ui' = DOMAIN ui /\ ui'.busy = ui.busy \cup {"rows"} /\ Landed(i, <<new>>)
          /\ ui'.deleting = ui.deleting
      BY <1>1, <1>4, <2>2, ListCalls DEF Lists!DeleteConfigLand
    <3>2. new.op = "rows" /\ new.then = "config"
      BY DEF Lists!RowsList
    <3> HIDE DEF new
    <3>3. Ends(p, new) = {"rows", "deletingConfig"}
      BY <1>1, <3>2, RowsFacts DEF RowsEnds, RowsThen
    <3>4. Shaped(p, ui')
      BY <1>1, <3>1, SlotsShaped
    <3> QED
      BY <1>1, <1>2, <1>4, <2>1, <3>1, <3>3, <3>4, SlotsWentOn
  <2>3. CASE ~ok
    <3>1. /\ DOMAIN ui' = DOMAIN ui /\ ui'.busy = ui.busy /\ Landed(i, <<>>)
          /\ ui'.deleting = ui.deleting /\ ui'.deletingConfig = None
      BY <1>1, <1>4, <2>3, ListCalls DEF Lists!DeleteConfigLand
    <3>2. Shaped(p, ui')
      BY <1>1, <3>1, SlotsShaped
    <3> QED
      BY <1>1, <1>2, <1>4, <2>1, <3>1, <3>2, SlotsEnded
  <2> QED
    BY <2>2, <2>3
<1>5. ASSUME NEW open, Lists!OpenSend(open) PROVE Kept(p)'
  <2>1. /\ DOMAIN ui' = DOMAIN ui /\ ui'.busy = ui.busy /\ UNCHANGED calls
        /\ ui'.deleting = ui.deleting /\ ui'.deletingConfig = ui.deletingConfig
    BY <1>1, <1>5 DEF Lists!OpenSend
  <2>2. Shaped(p, ui')
    BY <1>1, <2>1, SlotsShaped
  <2> QED
    BY <1>1, <2>1, <2>2, SlotsStill
<1>6. CASE Lists!SendTest
  <2> DEFINE new == [op |-> "send"]
  <2>1. /\ DOMAIN ui' = DOMAIN ui /\ ui'.busy = ui.busy \cup {"send"} /\ Asked(<<new>>)
        /\ ui'.deleting = ui.deleting /\ ui'.deletingConfig = ui.deletingConfig
    BY <1>1, <1>6, ListCalls DEF Lists!SendTest
  <2>2. new.op = "send"
    OBVIOUS
  <2> HIDE DEF new
  <2>3. Ends(p, new) = {"send"}
    BY <1>1, <2>2, RowsFacts DEF RowsEnds
  <2>4. Shaped(p, ui')
    BY <1>1, <2>1, SlotsShaped
  <2> QED
    BY <1>1, <2>1, <2>3, <2>4, SlotsAsked
<1>7. ASSUME NEW i \in Lists!Waiting("send"), NEW ok \in BOOLEAN, Lists!SendLand(i, ok) PROVE Kept(p)'
  <2>1. Ends(p, calls[i]) = {"send"}
    BY <1>1, <1>2, <1>7, RowsFacts DEF RowsEnds
  <2>2. CASE ok
    <3> DEFINE new == Lists!RowsList(None, "send")
    <3>1. /\ DOMAIN ui' = DOMAIN ui /\ ui'.busy = ui.busy \cup {"rows"} /\ Landed(i, <<new>>)
          /\ ui'.deleting = ui.deleting /\ ui'.deletingConfig = ui.deletingConfig
      BY <1>1, <1>7, <2>2, ListCalls DEF Lists!SendLand
    <3>2. new.op = "rows" /\ new.then = "send"
      BY DEF Lists!RowsList
    <3> HIDE DEF new
    <3>3. Ends(p, new) = {"rows", "send"}
      BY <1>1, <3>2, RowsFacts DEF RowsEnds, RowsThen
    <3>4. Shaped(p, ui')
      BY <1>1, <3>1, SlotsShaped
    <3> QED
      BY <1>1, <1>2, <1>7, <2>1, <3>1, <3>3, <3>4, SlotsWentOn
  <2>3. CASE ~ok
    <3>1. /\ DOMAIN ui' = DOMAIN ui /\ ui'.busy = ui.busy \ {"send"} /\ Landed(i, <<>>)
          /\ ui'.deleting = ui.deleting /\ ui'.deletingConfig = ui.deletingConfig
      BY <1>1, <1>7, <2>3, ListCalls DEF Lists!SendLand
    <3>2. Shaped(p, ui')
      BY <1>1, <3>1, SlotsShaped
    <3> QED
      BY <1>1, <1>2, <1>7, <2>1, <3>1, <3>2, SlotsEnded
  <2> QED
    BY <2>2, <2>3
<1>8. ASSUME NEW i \in Lists!Waiting("rows"), NEW rows, NEW configs, NEW domains,
             Lists!SendingLand(i, rows, configs, domains)
      PROVE  Kept(p)'
  <2> DEFINE then == calls[i].then
             end == [rows |-> rows, configs |-> configs, domains |-> domains,
                     deletingConfig |-> IF then = "config" THEN None ELSE ui.deletingConfig,
                     deleting |-> Lists!Ended(then).deleting,
                     busy |-> Lists!Ended(then).busy \ ({"rows"} \cup ({"send"} \cap {then}))]
  <2>1. Ends(p, calls[i]) = {"rows"} \cup RowsThen(p, then)
    BY <1>1, <1>2, <1>8, RowsFacts DEF RowsEnds
  <2>2. ui' = Lists!With(ui, end) /\ Landed(i, <<>>)
    BY <1>8, ListCalls DEF Lists!SendingLand
  <2>3. /\ DOMAIN end = {"rows", "configs", "domains", "deletingConfig", "deleting", "busy"}
        /\ end.deletingConfig = (IF then = "config" THEN None ELSE ui.deletingConfig)
        /\ end.deleting = (IF then = "row" THEN None ELSE ui.deleting)
        /\ end.busy = (ui.busy \ (IF then = "batch" THEN {"batch"} ELSE {}))
                        \ ({"rows"} \cup ({"send"} \cap {then}))
    BY DEF Lists!Ended
  <2> HIDE DEF end, then
  <2>4. /\ DOMAIN ui' = DOMAIN end \cup DOMAIN ui
        /\ \A f \in DOMAIN end : ui'[f] = end[f]
    BY <2>2 DEF Lists!With, Lists!Merged
  <2>5. /\ ui'.busy = end.busy /\ ui'.deleting = end.deleting /\ ui'.deletingConfig = end.deletingConfig
    BY <2>3, <2>4
  <2>6. Shaped(p, ui')
    <3>1. DOMAIN ui \cap SlotNames \subseteq SlotsOf(p)
      BY <1>1, RowsFacts
    <3> QED
      BY <1>1, <2>3, <2>4, <2>5, <3>1 DEF Shaped, SlotNames
  <2>7. RowsThen(p, then) = IF then = "row" THEN {"deleting"} ELSE IF then = "batch" THEN {"batch"}
                            ELSE IF then = "config" THEN {"deletingConfig"}
                            ELSE IF then = "send" THEN {"send"} ELSE {}
    BY DEF RowsThen
  <2>8. /\ ui'.busy \subseteq ui.busy \ Ends(p, calls[i])
        /\ \A slot \in SlotsOf(p) :
             ui'[slot] = None \/ (ui'[slot] = ui[slot] /\ slot \notin Ends(p, calls[i]))
    BY <1>1, <2>1, <2>3, <2>5, <2>7
  <2> QED
    BY <1>1, <1>2, <1>8, <2>2, <2>6, <2>8, SlotsEnded
<1>9. ASSUME NEW i \in Lists!Waiting("deleteRows"), Lists!DeleteLand(i, <<>>) \/ Lists!DeleteFailed(i)
      PROVE  Kept(p)'
  BY <1>1, <1>2, <1>9, RowsDeleteLandKept DEF SlotNames
<1>10. ASSUME NEW ids, Lists!SelectRows(ids) PROVE Kept(p)'
  BY <1>1, <1>10, RowsSelectKept
<1>11. CASE Lists!SendingControls \/ \E id : Lists!DeleteRow(id, None)
  BY <1>1, <1>11, RowsQueryKept, RowsDeleteKept DEF Lists!SendingControls
<1> HIDE DEF p
<1> QED
  BY <1>3, <1>4, <1>5, <1>6, <1>7, <1>8, <1>9, <1>10, <1>11
     DEF Lists!SendingNext, Lists!SendingRow, p

-----------------------------------------------------------------------------
(* The domains and the dialog that configures one.                          *)

LEMMA DomainCalls ==
  ASSUME NEW i, NEW new
  PROVE  /\ Domains!Asked(new) => Asked(new)
         /\ Domains!Landed(i, new) => Landed(i, new)
BY DEF Domains!Asked, Domains!Landed, Domains!Rest, Asked, Landed, Rest

LEMMA DomainsFacts ==
  ASSUME Kept("domains")
  PROVE  /\ "domains" \in Slotted /\ SlotsOf("domains") = {"deleting", "toggling", "deletingAlias"}
         /\ {"busy", "deleting", "toggling", "deletingAlias"} \subseteq DOMAIN ui
         /\ ui.busy \cap {"deleting", "toggling", "deletingAlias"} = {}
         /\ \A c : Ends("domains", c) = DomainsEnds(c)
BY DEF Slotted, SlotsOf, Ends, Kept, Shaped

\* The ends a continuation knows by name.
LEMMA ThenOf ==
  /\ \A then : DomainsThen(then) =
       ({then} \ {"deleting", "toggling", "deletingAlias"})
         \cup (IF then = "delete" THEN {"deleting"} ELSE {})
         \cup (IF then = "toggle" THEN {"toggling"} ELSE {})
         \cup (IF then = "deleteAlias" THEN {"deletingAlias"} ELSE {})
  /\ \A op \in Domains!ConfigWrites :
       /\ DomainsThen(Domains!Spinner(op)) = {Domains!Spinner(op)}
       /\ Domains!Spinner(op) \notin {"deleting", "toggling", "deletingAlias"}
  /\ "validate" \in Domains!ConfigWrites /\ Domains!Spinner("validate") = "validate"
<1>1. ASSUME NEW then
      PROVE  DomainsThen(then) =
               ({then} \ {"deleting", "toggling", "deletingAlias"})
                 \cup (IF then = "delete" THEN {"deleting"} ELSE {})
                 \cup (IF then = "toggle" THEN {"toggling"} ELSE {})
                 \cup (IF then = "deleteAlias" THEN {"deletingAlias"} ELSE {})
  BY DEF DomainsThen, SlotsOf
<1>2. ASSUME NEW op \in Domains!ConfigWrites
      PROVE  Domains!Spinner(op) \in {"verification", "cloudflare", "catchAll", "sending", "validate"}
  BY DEF Domains!ConfigWrites, Domains!Spinner
<1>3. "validate" \in Domains!ConfigWrites /\ Domains!Spinner("validate") = "validate"
  BY DEF Domains!ConfigWrites, Domains!Spinner
<1> QED
  BY <1>1, <1>2, <1>3

\* What ends on the page is what the continuation owed.
LEMMA DomainsEnded ==
  ASSUME Kept("domains"), NEW then
  PROVE  LET end == Domains!Ended(then) IN
         /\ DOMAIN end = DOMAIN ui /\ end.busy = ui.busy \ {then}
         /\ end.busy \subseteq ui.busy \ DomainsThen(then)
         /\ \A slot \in SlotsOf("domains") :
              end[slot] = None \/ (end[slot] = ui[slot] /\ slot \notin DomainsThen(then))
<1> DEFINE end == Domains!Ended(then)
<1>1. /\ DOMAIN end = DOMAIN ui /\ end.busy = ui.busy \ {then}
      /\ end.deleting = (IF then = "delete" THEN None ELSE ui.deleting)
      /\ end.toggling = (IF then = "toggle" THEN None ELSE ui.toggling)
      /\ end.deletingAlias = (IF then = "deleteAlias" THEN None ELSE ui.deletingAlias)
  BY DomainsFacts DEF Domains!Ended
<1> HIDE DEF end
<1>2. end.busy \subseteq ui.busy \ DomainsThen(then)
  BY <1>1, DomainsFacts, ThenOf
<1>3. \A slot \in SlotsOf("domains") :
        end[slot] = None \/ (end[slot] = ui[slot] /\ slot \notin DomainsThen(then))
  BY <1>1, DomainsFacts, ThenOf
<1> QED
  BY <1>1, <1>2, <1>3 DEF end

\* A write goes on with a load that owes what the write did.
LEMMA DomainsGoOnKept ==
  ASSUME Kept("domains"), NEW i \in DOMAIN calls, NEW new, Landed(i, <<new>>),
         DOMAIN ui' = DOMAIN ui, NEW list, list \notin SlotsOf("domains"),
         ui'.busy = ui.busy \cup {list},
         \A slot \in SlotsOf("domains") : ui'[slot] = ui[slot],
         {list} \cup Ends("domains", calls[i]) \subseteq Ends("domains", new)
  PROVE  Kept("domains")'
<1>1. Shaped("domains", ui')
  BY DomainsFacts, SlotsShaped
<1> QED
  BY <1>1, DomainsFacts, SlotsWentOn

LEMMA DomainsWriteLandKept ==
  ASSUME Kept("domains"), NEW i \in DOMAIN calls, NEW ok \in BOOLEAN,
         \/ calls[i].op \in {"saveDomain", "status", "deleteDomain"} /\ Domains!DomainWriteLand(i, ok)
         \/ calls[i].op \in Domains!ConfigWrites /\ Domains!ConfigWriteLand(i, ok)
         \/ calls[i].op \in Domains!AliasEnds /\ Domains!AliasWriteLand(i, ok)
  PROVE  Kept("domains")'
<1> DEFINE c == calls[i]
           then == IF c.op \in {"saveDomain", "status", "deleteDomain"} THEN c.then
                   ELSE IF c.op \in Domains!ConfigWrites THEN Domains!Spinner(c.op) ELSE c.op
           list == IF c.op \in {"saveDomain", "status", "deleteDomain"} THEN "domains" ELSE "config"
           new == IF c.op \in {"saveDomain", "status", "deleteDomain"} THEN Domains!DomainList(c.then)
                  ELSE IF c.op \in Domains!ConfigWrites
                       THEN Domains!ConfigOf(c.domain, Domains!Spinner(c.op), c.next)
                       ELSE Domains!ConfigOf(c.domain, c.op, None)
<1>1. /\ {"saveDomain", "status", "deleteDomain"} \cap (Domains!ConfigWrites \cup Domains!AliasEnds) = {}
      /\ Domains!ConfigWrites \cap Domains!AliasEnds = {}
      /\ {"domains", "config"} \cap (Domains!ConfigWrites \cup Domains!AliasEnds) = {}
  BY DEF Domains!ConfigWrites, Domains!AliasEnds
<1>2. Ends("domains", c) = DomainsThen(then)
  BY <1>1, DomainsFacts DEF DomainsEnds
<1>3. new.op = list /\ new.then = then
  BY <1>1 DEF Domains!DomainList, Domains!ConfigOf
<1>4. ok => /\ DOMAIN ui' = DOMAIN ui /\ ui'.busy = ui.busy \cup {list}
            /\ \A slot \in SlotsOf("domains") : ui'[slot] = ui[slot]
            /\ Landed(i, <<new>>)
  BY <1>1, DomainsFacts, DomainCalls
     DEF Domains!DomainWriteLand, Domains!ConfigWriteLand, Domains!AliasWriteLand, Domains!On
<1>5. ~ok => ui' = Domains!Ended(then) /\ Landed(i, <<>>)
  BY <1>1, DomainCalls DEF Domains!DomainWriteLand, Domains!ConfigWriteLand, Domains!AliasWriteLand
<1>6. list \in {"domains", "config"}
  OBVIOUS
<1> HIDE DEF new, list, then
<1>7. Ends("domains", new) = {list} \cup DomainsThen(then)
  BY <1>1, <1>3, <1>6, DomainsFacts DEF DomainsEnds
<1>8. list \notin SlotsOf("domains")
  BY <1>6, DomainsFacts
<1>9. CASE ok
  BY <1>2, <1>4, <1>7, <1>8, <1>9, DomainsGoOnKept
<1>10. CASE ~ok
  <2>1. /\ Shaped("domains", ui') /\ ui'.busy \subseteq ui.busy \ DomainsThen(then)
        /\ \A slot \in SlotsOf("domains") :
             ui'[slot] = None \/ (ui'[slot] = ui[slot] /\ slot \notin DomainsThen(then))
    <3>1. /\ DOMAIN ui' = DOMAIN ui /\ ui'.busy = ui.busy \ {then}
          /\ ui'.busy \subseteq ui.busy \ DomainsThen(then)
          /\ \A slot \in SlotsOf("domains") :
               ui'[slot] = None \/ (ui'[slot] = ui[slot] /\ slot \notin DomainsThen(then))
      BY <1>5, <1>10, DomainsEnded
    <3> QED
      BY <3>1, DomainsFacts, SlotsShaped
  <2> QED
    BY <1>2, <1>5, <1>10, <2>1, DomainsFacts, SlotsEnded
<1> QED
  BY <1>9, <1>10

LEMMA DomainsLoadKept ==
  ASSUME Kept("domains"), NEW i \in DOMAIN calls,
         \/ calls[i].op = "domains" /\ \E rows : Domains!DomainsLand(i, rows)
         \/ calls[i].op = "config" /\ \E ok \in BOOLEAN : \E features : Domains!ConfigLand(i, ok, features)
  PROVE  Kept("domains")'
<1> DEFINE c == calls[i]
           then == c.then
<1>1. ASSUME c.op \in {"domains", "config"}
      PROVE Ends("domains", c) = {c.op} \cup DomainsThen(then)
  BY <1>1, DomainsFacts DEF DomainsEnds, Domains!ConfigWrites, Domains!AliasEnds
<1>2. SlotsOf("domains") = {"deleting", "toggling", "deletingAlias"}
  BY DomainsFacts
<1>3. ASSUME c.op = "domains", NEW rows, Domains!DomainsLand(i, rows) PROVE Kept("domains")'
  <2> DEFINE goesOn == "next" \in DOMAIN c /\ c.next # None
             end == Domains!Ended(then)
             new == [op |-> "validate", domain |-> c.domain, of |-> c.domain, next |-> None]
  <2>1. /\ DOMAIN end = DOMAIN ui /\ end.busy \subseteq ui.busy \ DomainsThen(then)
        /\ \A slot \in SlotsOf("domains") :
             end[slot] = None \/ (end[slot] = ui[slot] /\ slot \notin DomainsThen(then))
    BY DomainsEnded
  <2>2. /\ ui' = IF goesOn THEN [[end EXCEPT !.rows = rows, !.busy = @ \ {"domains"}]
                                   EXCEPT !.busy = @ \cup {"validate"}]
                 ELSE [end EXCEPT !.rows = rows, !.busy = @ \ {"domains"}]
        /\ Domains!Landed(i, IF goesOn THEN <<new>> ELSE <<>>)
    BY <1>3, Zenon DEF Domains!DomainsLand
  <2> HIDE DEF end
  <2>3. /\ DOMAIN ui' = DOMAIN ui
        /\ ui'.busy = (end.busy \ {"domains"}) \cup (IF goesOn THEN {"validate"} ELSE {})
        /\ \A slot \in SlotsOf("domains") : ui'[slot] = end[slot]
    BY <1>2, <2>1, <2>2, DomainsFacts
  <2>4. Shaped("domains", ui')
    BY <1>2, <2>1, <2>3, DomainsFacts, SlotsShaped
  <2>5. CASE goesOn
    <3>1. Landed(i, <<new>>)
      BY <2>2, <2>5, DomainCalls
    <3>2. new.op = "validate"
      OBVIOUS
    <3> HIDE DEF new
    <3>3. Ends("domains", new) = {"validate"}
      BY <3>2, DomainsFacts, ThenOf DEF DomainsEnds
    <3> HIDE DEF goesOn, then
    <3>4. /\ ui'.busy \subseteq (ui.busy \ Ends("domains", calls[i])) \cup Ends("domains", new)
          /\ \A slot \in SlotsOf("domains") :
               ui'[slot] = None \/ (ui'[slot] = ui[slot] /\ slot \notin Ends("domains", calls[i]))
      BY <1>1, <1>2, <1>3, <2>1, <2>3, <2>5, <3>3
    <3> QED
      BY <2>4, <3>1, <3>4, DomainsFacts, SlotsWentOn
  <2>6. CASE ~goesOn
    <3>1. Landed(i, <<>>)
      BY <2>2, <2>6, DomainCalls
    <3> HIDE DEF goesOn, then
    <3>2. /\ ui'.busy \subseteq ui.busy \ Ends("domains", calls[i])
          /\ \A slot \in SlotsOf("domains") :
               ui'[slot] = None \/ (ui'[slot] = ui[slot] /\ slot \notin Ends("domains", calls[i]))
      BY <1>1, <1>2, <1>3, <2>1, <2>3, <2>6
    <3> QED
      BY <2>4, <3>1, <3>2, DomainsFacts, SlotsEnded
  <2> QED
    BY <2>5, <2>6
<1>4. ASSUME c.op = "config", NEW ok \in BOOLEAN, NEW features, Domains!ConfigLand(i, ok, features)
      PROVE  Kept("domains")'
  <2> DEFINE last == then = None \/ then \in Domains!AliasEnds
             end == Domains!Ended(IF last THEN then ELSE None)
             loaded == [end EXCEPT !.busy = @ \ {"config"},
                          !.detail = IF ok THEN [domain |-> c.domain, features |-> features] ELSE @,
                          !.aliases = c.domain]
             new == Domains!Merged(Domains!DomainList(then), [next |-> c.next, domain |-> c.domain])
  <2>1. /\ DOMAIN end = DOMAIN ui
        /\ end.busy \subseteq ui.busy \ DomainsThen(IF last THEN then ELSE None)
        /\ \A slot \in SlotsOf("domains") :
             \/ end[slot] = None
             \/ end[slot] = ui[slot] /\ slot \notin DomainsThen(IF last THEN then ELSE None)
    BY DomainsEnded
  <2>2. IF last THEN ui' = loaded /\ Domains!Landed(i, <<>>)
        ELSE ui' = [loaded EXCEPT !.busy = @ \cup {"domains"}] /\ Domains!Landed(i, <<new>>)
    BY <1>4, Zenon DEF Domains!ConfigLand
  <2> HIDE DEF end
  <2>3. /\ DOMAIN loaded = DOMAIN ui /\ loaded.busy = end.busy \ {"config"}
        /\ \A slot \in SlotsOf("domains") : loaded[slot] = end[slot]
    BY <1>2, <2>1, DomainsFacts
  <2> HIDE DEF loaded
  <2>4. CASE last
    <3>1. Landed(i, <<>>)
      BY <2>2, <2>4, DomainCalls
    <3>2. Shaped("domains", ui')
      BY <1>2, <2>1, <2>2, <2>3, <2>4, DomainsFacts, SlotsShaped
    <3> HIDE DEF then, last
    <3>3. /\ ui'.busy \subseteq ui.busy \ Ends("domains", calls[i])
          /\ \A slot \in SlotsOf("domains") :
               ui'[slot] = None \/ (ui'[slot] = ui[slot] /\ slot \notin Ends("domains", calls[i]))
      BY <1>1, <1>2, <1>4, <2>1, <2>2, <2>3, <2>4
    <3> QED
      BY <3>1, <3>2, <3>3, DomainsFacts, SlotsEnded
  <2>5. CASE ~last
    <3>1. Landed(i, <<new>>)
      BY <2>2, <2>5, DomainCalls
    <3>2. /\ DOMAIN ui' = DOMAIN ui /\ ui'.busy = (end.busy \ {"config"}) \cup {"domains"}
          /\ \A slot \in SlotsOf("domains") : ui'[slot] = end[slot]
      BY <1>2, <2>2, <2>3, <2>5, DomainsFacts
    <3>3. Shaped("domains", ui')
      BY <1>2, <2>1, <3>2, DomainsFacts, SlotsShaped
    <3>4. new.op = "domains" /\ new.then = then
      BY DEF Domains!Merged, Domains!DomainList
    <3> HIDE DEF new, then, last
    <3>5. Ends("domains", new) = {"domains"} \cup DomainsThen(then)
      BY <3>4, DomainsFacts DEF DomainsEnds, Domains!ConfigWrites, Domains!AliasEnds
    <3>6. /\ ui'.busy \subseteq (ui.busy \ Ends("domains", calls[i])) \cup Ends("domains", new)
          /\ \A slot \in SlotsOf("domains") :
               \/ ui'[slot] = None
               \/ ui'[slot] = ui[slot] /\ slot \notin Ends("domains", calls[i])
               \/ slot \in Ends("domains", new)
      BY <1>1, <1>2, <1>4, <2>1, <3>2, <3>5
    <3> QED
      BY <3>1, <3>3, <3>6, DomainsFacts, SlotsWentOn
  <2> QED
    BY <2>4, <2>5
<1> QED
  BY <1>3, <1>4

\* A question of the list or of the dialog.
LEMMA DomainsAskKept ==
  ASSUME Kept("domains"), NEW new, Asked(<<new>>), DOMAIN ui' = DOMAIN ui,
         ui'.busy \cap SlotsOf("domains") = {}, ui'.busy \subseteq ui.busy \cup Ends("domains", new),
         \A slot \in SlotsOf("domains") : ui'[slot] = ui[slot] \/ slot \in Ends("domains", new)
  PROVE  Kept("domains")'
<1>1. Shaped("domains", ui')
  BY DomainsFacts, SlotsShaped
<1> QED
  BY <1>1, DomainsFacts, SlotsAsked

LEMMA DomainsKept == Kept("domains") /\ Domains!DomainsNext => Kept("domains")'
<1> SUFFICES ASSUME Kept("domains"), Domains!DomainsNext PROVE Kept("domains")'
  OBVIOUS
<1> DEFINE Same == \A slot \in SlotsOf("domains") : ui'[slot] = ui[slot]
<1>1. /\ "domains" \in Slotted /\ SlotsOf("domains") = {"deleting", "toggling", "deletingAlias"}
      /\ {"busy", "deleting", "toggling", "deletingAlias"} \subseteq DOMAIN ui
      /\ ui.busy \cap SlotsOf("domains") = {}
      /\ \A c : Ends("domains", c) = DomainsEnds(c)
  BY DomainsFacts
<1> USE DEF Domains!On
<1>2. ASSUME UNCHANGED calls, DOMAIN ui' = DOMAIN ui, ui'.busy = ui.busy, Same PROVE Kept("domains")'
  <2>1. Shaped("domains", ui')
    BY <1>2, DomainsFacts, SlotsShaped
  <2> QED
    BY <1>1, <1>2, <2>1, SlotsStill
<1>3. ASSUME \/ \E id : Domains!EditDomain(id)
             \/ Domains!CloseDomain
             \/ Domains!CloseConfig
             \/ \E open : Domains!OpenAlias(open)
      PROVE  Kept("domains")'
  <2>1. UNCHANGED calls /\ DOMAIN ui' = DOMAIN ui /\ ui'.busy = ui.busy /\ Same
    BY <1>1, <1>3 DEF Domains!EditDomain, Domains!CloseDomain, Domains!CloseConfig, Domains!OpenAlias
  <2> QED
    BY <1>2, <2>1
<1>4. ASSUME NEW id, Domains!SetStatus(id) PROVE Kept("domains")'
  <2> DEFINE new == [op |-> "status", id |-> id, then |-> None]
  <2>1. Asked(<<new>>) /\ UNCHANGED ui
    BY <1>4, DomainCalls DEF Domains!SetStatus
  <2> HIDE DEF new
  <2> QED
    BY <1>1, <2>1, DomainsAskKept
<1>5. CASE Domains!SaveDomain
  <2> DEFINE new == [op |-> "saveDomain", id |-> ui.editing, then |-> "save"]
  <2>1. Asked(<<new>>) /\ DOMAIN ui' = DOMAIN ui /\ ui'.busy = ui.busy \cup {"save"} /\ Same
    BY <1>1, <1>5, DomainCalls DEF Domains!SaveDomain
  <2>2. new.op = "saveDomain" /\ new.then = "save"
    OBVIOUS
  <2> HIDE DEF new
  <2>3. "save" \in Ends("domains", new)
    BY <1>1, <2>2, ThenOf DEF DomainsEnds, Domains!ConfigWrites, Domains!AliasEnds
  <2> QED
    BY <1>1, <2>1, <2>3, DomainsAskKept
<1>6. ASSUME NEW id, Domains!DeleteDomain(id) PROVE Kept("domains")'
  <2> DEFINE new == [op |-> "deleteDomain", id |-> id, then |-> "delete"]
  <2>1. /\ Asked(<<new>>) /\ DOMAIN ui' = DOMAIN ui /\ ui'.busy = ui.busy
        /\ ui'.toggling = ui.toggling /\ ui'.deletingAlias = ui.deletingAlias
    BY <1>1, <1>6, DomainCalls DEF Domains!DeleteDomain
  <2>2. new.op = "deleteDomain" /\ new.then = "delete"
    OBVIOUS
  <2> HIDE DEF new
  <2>3. "deleting" \in Ends("domains", new)
    BY <1>1, <2>2, ThenOf DEF DomainsEnds, Domains!ConfigWrites, Domains!AliasEnds
  <2> QED
    BY <1>1, <2>1, <2>3, DomainsAskKept
<1>7. ASSUME NEW id, Domains!OpenConfig(id) \/ (Domains!RefreshConfig /\ id = ui.config)
      PROVE  Kept("domains")'
  <2> DEFINE new == Domains!ConfigOf(id, None, None)
  <2>1. Asked(<<new>>) /\ DOMAIN ui' = DOMAIN ui /\ ui'.busy = ui.busy \cup {"config"} /\ Same
    BY <1>1, <1>7, DomainCalls DEF Domains!OpenConfig, Domains!RefreshConfig
  <2>2. new.op = "config"
    BY DEF Domains!ConfigOf
  <2> HIDE DEF new
  <2>3. "config" \in Ends("domains", new)
    BY <1>1, <2>2 DEF DomainsEnds, Domains!ConfigWrites, Domains!AliasEnds
  <2> QED
    BY <1>1, <2>1, <2>3, DomainsAskKept
<1>8. ASSUME NEW op \in Domains!ConfigWrites, NEW next, Domains!Write(op, next) PROVE Kept("domains")'
  <2> DEFINE new == [op |-> op, domain |-> ui.config, of |-> ui.detail.domain, next |-> next]
  <2>1. Asked(<<new>>) /\ DOMAIN ui' = DOMAIN ui /\ ui'.busy = ui.busy \cup {Domains!Spinner(op)} /\ Same
    BY <1>1, <1>8, DomainCalls DEF Domains!Write
  <2>2. new.op = op
    OBVIOUS
  <2> HIDE DEF new
  <2>3. Ends("domains", new) = {Domains!Spinner(op)} /\ {Domains!Spinner(op)} \cap SlotsOf("domains") = {}
    <3>1. op \notin Domains!AliasEnds /\ op \notin {"domains", "config"}
      BY DEF Domains!ConfigWrites, Domains!AliasEnds
    <3> QED
      BY <1>1, <2>2, <3>1, ThenOf DEF DomainsEnds
  <2> QED
    BY <1>1, <2>1, <2>3, DomainsAskKept
<1>9. Domains!ConfigWrites = {"saveToken", "newToken", "saveCloudflare", "clearCloudflare", "catchAll",
                              "sending", "validate"}
  BY DEF Domains!ConfigWrites
<1>10. ASSUME NEW op, NEW new, Domains!AliasWrite(op, new),
              DOMAIN new = DOMAIN ui,
              \/ /\ op = "alias" /\ new.busy = ui.busy \cup {"alias"}
                 /\ \A slot \in SlotsOf("domains") : new[slot] = ui[slot]
              \/ /\ op = "toggle" /\ new.busy = ui.busy
                 /\ \A slot \in SlotsOf("domains") \ {"toggling"} : new[slot] = ui[slot]
              \/ /\ op = "deleteAlias" /\ new.busy = ui.busy
                 /\ \A slot \in SlotsOf("domains") \ {"deletingAlias"} : new[slot] = ui[slot]
       PROVE  Kept("domains")'
  <2> DEFINE ask == [op |-> op, domain |-> ui.config, of |-> ui.aliases]
  <2>1. Asked(<<ask>>) /\ ui' = new
    BY <1>10, DomainCalls DEF Domains!AliasWrite
  <2>2. ask.op = op
    OBVIOUS
  <2> HIDE DEF ask
  <2>3. Ends("domains", ask) = DomainsThen(op)
    BY <1>1, <1>10, <2>2 DEF DomainsEnds, Domains!ConfigWrites, Domains!AliasEnds
  <2>4. /\ ui'.busy \cap SlotsOf("domains") = {} /\ ui'.busy \subseteq ui.busy \cup DomainsThen(op)
        /\ \A slot \in SlotsOf("domains") : ui'[slot] = ui[slot] \/ slot \in DomainsThen(op)
    BY <1>1, <1>10, <2>1, ThenOf
  <2> QED
    BY <1>1, <1>10, <2>1, <2>3, <2>4, DomainsAskKept
<1>11. ASSUME \/ Domains!CreateAlias
              \/ \E id : Domains!ToggleAlias(id)
              \/ \E id : Domains!DeleteAlias(id)
       PROVE  Kept("domains")'
  <2>1. CASE Domains!CreateAlias
    <3> DEFINE new == [ui EXCEPT !.busy = ui.busy \cup {"alias"}]
    <3>1. Domains!AliasWrite("alias", new)
      BY <2>1 DEF Domains!CreateAlias
    <3>2. /\ DOMAIN new = DOMAIN ui /\ new.busy = ui.busy \cup {"alias"}
          /\ \A slot \in SlotsOf("domains") : new[slot] = ui[slot]
      BY <1>1
    <3> HIDE DEF new
    <3> QED
      BY <1>10, <3>1, <3>2
  <2>2. ASSUME NEW id, Domains!ToggleAlias(id) PROVE Kept("domains")'
    <3> DEFINE new == [ui EXCEPT !.toggling = id]
    <3>1. Domains!AliasWrite("toggle", new)
      BY <2>2 DEF Domains!ToggleAlias
    <3>2. /\ DOMAIN new = DOMAIN ui /\ new.busy = ui.busy
          /\ \A slot \in SlotsOf("domains") \ {"toggling"} : new[slot] = ui[slot]
      BY <1>1
    <3> HIDE DEF new
    <3> QED
      BY <1>10, <3>1, <3>2
  <2>3. ASSUME NEW id, Domains!DeleteAlias(id) PROVE Kept("domains")'
    <3> DEFINE new == [ui EXCEPT !.deletingAlias = id]
    <3>1. Domains!AliasWrite("deleteAlias", new)
      BY <2>3 DEF Domains!DeleteAlias
    <3>2. /\ DOMAIN new = DOMAIN ui /\ new.busy = ui.busy
          /\ \A slot \in SlotsOf("domains") \ {"deletingAlias"} : new[slot] = ui[slot]
      BY <1>1
    <3> HIDE DEF new
    <3> QED
      BY <1>10, <3>1, <3>2
  <2> QED
    BY <1>11, <2>1, <2>2, <2>3
<1>12. ASSUME NEW op, NEW i \in Domains!Waiting(op) PROVE i \in DOMAIN calls /\ calls[i].op = op
  BY DEF Domains!Waiting
<1>13. ASSUME NEW i, NEW ok \in BOOLEAN,
              \/ /\ i \in UNION {Domains!Waiting(op) : op \in {"saveDomain", "status", "deleteDomain"}}
                 /\ Domains!DomainWriteLand(i, ok)
              \/ /\ i \in UNION {Domains!Waiting(op) : op \in Domains!ConfigWrites}
                 /\ Domains!ConfigWriteLand(i, ok)
              \/ /\ i \in UNION {Domains!Waiting(op) : op \in Domains!AliasEnds}
                 /\ Domains!AliasWriteLand(i, ok)
       PROVE  Kept("domains")'
  BY <1>12, <1>13, DomainsWriteLandKept
<1>14. ASSUME NEW i,
              \/ i \in Domains!Waiting("domains") /\ \E rows : Domains!DomainsLand(i, rows)
              \/ /\ i \in Domains!Waiting("config")
                 /\ \E ok \in BOOLEAN : \E features : Domains!ConfigLand(i, ok, features)
       PROVE  Kept("domains")'
  BY <1>12, <1>14, DomainsLoadKept
<1>15. ASSUME \/ Domains!CloudflarePart
              \/ Domains!VerificationPart
              \/ Domains!CatchAllPart
              \/ Domains!SendingPart
       PROVE  Kept("domains")'
  BY <1>7, <1>8, <1>9, <1>15
     DEF Domains!CloudflarePart, Domains!VerificationPart, Domains!CatchAllPart, Domains!SendingPart,
         Domains!SaveConfig, Domains!Validate
<1> QED
  BY <1>3, <1>4, <1>5, <1>6, <1>7, <1>11, <1>13, <1>14, <1>15
     DEF Domains!DomainsNext, Domains!DomainRow, Domains!AliasPart

-----------------------------------------------------------------------------
(* Every page starts so.                                                    *)

\* A page that asks for one thing as it opens, or for none.
LEMMA StartKept ==
  ASSUME NEW p, Shaped(p, ui), NEW new,
         \/ calls = <<new>> /\ Spinning(p, ui) \subseteq Ends(p, new)
         \/ calls = <<>> /\ Spinning(p, ui) = {}
  PROVE  Kept(p)
BY OwedSingle, OwedEmpty DEF Kept

LEMMA RowsStartKept ==
  /\ Lists!MessagesMount => Kept("messages")
  /\ Lists!LogsMount => Kept("logs")
  /\ Lists!SendingMount => Kept("sending")
<1> DEFINE new == Lists!RowsList(None, None)
           state == Lists!RowsState
<1>1. new.op = "rows"
  BY DEF Lists!RowsList
<1>2. /\ DOMAIN state = {"query", "shown", "rows", "selected", "deleting", "busy"}
      /\ state.deleting = None /\ state.busy = {"rows"}
  BY DEF Lists!RowsState
<1> HIDE DEF new, state
<1>3. ASSUME NEW p \in RowsPages PROVE "rows" \in Ends(p, new)
  BY <1>1, <1>3, RowsFacts DEF RowsEnds
<1>4. ASSUME NEW p \in RowsPages, calls = <<new>>, {"busy"} \cup SlotsOf(p) \subseteq DOMAIN ui,
             DOMAIN ui \cap SlotNames \subseteq SlotsOf(p), ui.busy = {"rows"},
             \A slot \in SlotsOf(p) : ui[slot] = None
      PROVE  Kept(p)
  <2>1. SlotsOf(p) \subseteq {"deleting", "deletingConfig"} /\ p # "inbox"
    BY RowsFacts DEF RowsPages
  <2>2. Shaped(p, ui) /\ Spinning(p, ui) = {"rows"}
    BY <1>4, <2>1 DEF Shaped, Spinning
  <2> QED
    BY <1>3, <1>4, <2>2, StartKept
<1>5. ASSUME Lists!MessagesMount PROVE Kept("messages")
  <2>1. /\ calls = <<new>> /\ DOMAIN ui = DOMAIN state \cup {"detail", "drawer"}
        /\ ui.busy = {"rows"} /\ ui.deleting = None
    BY <1>2, <1>5 DEF Lists!MessagesMount, Lists!Merged, new, state
  <2> QED
    BY <1>2, <1>4, <2>1 DEF RowsPages, SlotsOf, SlotNames
<1>6. ASSUME Lists!LogsMount PROVE Kept("logs")
  <2>1. calls = <<new>> /\ ui = state
    BY <1>6 DEF Lists!LogsMount, new, state
  <2> QED
    BY <1>2, <1>4, <2>1 DEF RowsPages, SlotsOf, SlotNames
<1>7. ASSUME Lists!SendingMount PROVE Kept("sending")
  <2>1. /\ calls = <<new>> /\ DOMAIN ui = DOMAIN state \cup {"configs", "domains", "deletingConfig", "open"}
        /\ ui.busy = {"rows"} /\ ui.deleting = None /\ ui.deletingConfig = None
    BY <1>2, <1>7 DEF Lists!SendingMount, Lists!Merged, new, state
  <2> QED
    BY <1>2, <1>4, <2>1 DEF RowsPages, SlotsOf, SlotNames
<1> QED
  BY <1>5, <1>6, <1>7

LEMMA DomainsStartKept == Domains!DomainsMount => Kept("domains")
<1> SUFFICES ASSUME Domains!DomainsMount PROVE Kept("domains")
  OBVIOUS
<1> DEFINE new == Domains!DomainList(None)
<1>1. /\ DOMAIN ui = {"rows", "open", "editing", "deleting", "config", "detail", "aliases", "aliasOpen",
                      "toggling", "deletingAlias", "busy"}
      /\ ui.deleting = None /\ ui.toggling = None /\ ui.deletingAlias = None /\ ui.busy = {"domains"}
      /\ calls = <<new>>
  BY DEF Domains!DomainsMount
<1>2. new.op = "domains"
  BY DEF Domains!DomainList
<1> HIDE DEF new
<1>3. "domains" \in Ends("domains", new)
  BY <1>2 DEF Ends, DomainsEnds, Domains!ConfigWrites, Domains!AliasEnds
<1>4. SlotsOf("domains") = {"deleting", "toggling", "deletingAlias"}
  BY DEF SlotsOf
<1>5. Shaped("domains", ui) /\ Spinning("domains", ui) = {"domains"}
  BY <1>1, <1>4 DEF Shaped, Spinning, SlotNames
<1> QED
  BY <1>1, <1>3, <1>5, StartKept

\* The pages that have spinners only.
LEMMA PlainStartKept ==
  /\ Lists!AdminsMount => Kept("admins")
  /\ Lists!UsersMount => Kept("users")
  /\ Mailboxes!MailboxesMount => Kept("mailboxes")
  /\ Account!AccountMount => Kept("account")
  /\ Mails!MailsMount => Kept("mails")
  /\ Imports!ImportMount => Kept("import")
  /\ Portal!OverviewMount => Kept("overview")
<1>1. ASSUME NEW p \in Plain, "busy" \in DOMAIN ui, DOMAIN ui \cap SlotNames = {}, NEW new,
             \/ calls = <<new>> /\ ui.busy \subseteq Ends(p, new)
             \/ calls = <<>> /\ ui.busy = {}
      PROVE  Kept(p)
  BY <1>1, PlainShaped, StartKept
<1>2. ASSUME Lists!AdminsMount PROVE Kept("admins")
  <2> DEFINE new == Lists!AdminsList
  <2>1. "busy" \in DOMAIN ui /\ DOMAIN ui \cap SlotNames = {} /\ ui.busy = {"admins"} /\ calls = <<new>>
    BY <1>2 DEF Lists!AdminsMount, SlotNames
  <2>2. Ends("admins", new) = {"admins"}
    BY DEF Ends, AdminsEnds, Lists!AdminsList
  <2> HIDE DEF new
  <2> QED
    BY <1>1, <2>1, <2>2 DEF Plain
<1>3. ASSUME Lists!UsersMount PROVE Kept("users")
  <2> DEFINE new == Lists!UsersList(None)
  <2>1. "busy" \in DOMAIN ui /\ DOMAIN ui \cap SlotNames = {} /\ ui.busy = {"users"} /\ calls = <<new>>
    BY <1>3 DEF Lists!UsersMount, SlotNames
  <2>2. "users" \in Ends("users", new)
    BY DEF Ends, UsersEnds, Lists!UsersList
  <2> HIDE DEF new
  <2> QED
    BY <1>1, <2>1, <2>2 DEF Plain
<1>4. ASSUME Mailboxes!MailboxesMount PROVE Kept("mailboxes")
  <2> DEFINE new == Mailboxes!Mailboxes(None, None)
  <2>1. "busy" \in DOMAIN ui /\ DOMAIN ui \cap SlotNames = {} /\ ui.busy = {"mailboxes"} /\ calls = <<new>>
    BY <1>4 DEF Mailboxes!MailboxesMount, SlotNames
  <2>2. "mailboxes" \in Ends("mailboxes", new)
    BY DEF Ends, MailboxesEnds, Mailboxes!Mailboxes
  <2> HIDE DEF new
  <2> QED
    BY <1>1, <2>1, <2>2 DEF Plain
<1>5. ASSUME Account!AccountMount PROVE Kept("account")
  BY <1>1, <1>5 DEF Account!AccountMount, SlotNames, Plain
<1>6. ASSUME Mails!MailsMount PROVE Kept("mails")
  BY <1>1, <1>6 DEF Mails!MailsMount, SlotNames, Plain
<1>7. ASSUME Imports!ImportMount PROVE Kept("import")
  BY <1>1, <1>7 DEF Imports!ImportMount, SlotNames, Plain
<1>8. ASSUME Portal!OverviewMount PROVE Kept("overview")
  <2> DEFINE new == [op |-> "load"]
  <2>1. /\ "busy" \in DOMAIN ui /\ DOMAIN ui \cap SlotNames = {}
        /\ (ui.busy = {"load"} /\ calls = <<new>>) \/ (ui.busy = {} /\ calls = <<>>)
    BY <1>8 DEF Portal!OverviewMount, SlotNames
  <2>2. Ends("overview", new) = {"load"}
    BY DEF Ends, OverviewEnds
  <2> HIDE DEF new
  <2> QED
    BY <1>1, <2>1, <2>2 DEF Plain
<1> QED
  BY <1>2, <1>3, <1>4, <1>5, <1>6, <1>7, <1>8

LEMMA KeysStartKept == Keys!KeysMount => Kept("keys")
<1> SUFFICES ASSUME Keys!KeysMount PROVE Kept("keys")
  OBVIOUS
<1> DEFINE first == [op |-> "options"]
           s == <<first>>
           new == Keys!KeysList(1)
           last == Merged(new, [late |-> FALSE])
<1>1. calls = Numbered(s, new)
  BY Zenon DEF Keys!KeysMount, Keys!Numbered, Numbered, Keys!Merged, Merged
<1>2. "busy" \in DOMAIN ui /\ DOMAIN ui \cap SlotNames = {} /\ ui.busy = {"keys"}
  BY DEF Keys!KeysMount, SlotNames
<1>3. Queue(s) /\ ToSet(s) = {first}
  BY Single
<1>4. last.op = "keys" /\ last.late = FALSE
  BY DEF Merged, Keys!KeysList
<1>5. Queue(Numbered(s, new)) /\ last \in ToSet(Numbered(s, new))
  <2> HIDE DEF s, new
  <2> QED
    BY <1>3, NumberedCalls
<1> HIDE DEF last, s, new
<1>6. Ends("keys", last) = {"keys"}
  BY <1>4 DEF Ends, KeysEnds
<1>7. Queue(calls) /\ "keys" \in Owed("keys", calls)
  BY <1>1, <1>5, <1>6 DEF Owed
<1>8. Shaped("keys", ui) /\ Spinning("keys", ui) = {"keys"}
  BY <1>2, PlainShaped DEF Plain
<1> QED
  BY <1>7, <1>8 DEF Kept

LEMMA PortalStartKept ==
  /\ Portal!InboxMount => InboxKept
  /\ Portal!SettingsMount => Kept("settings")
<1>1. ASSUME Portal!InboxMount PROVE InboxKept
  <2> DEFINE new == Portal!BoxesOf(None)
  <2>1. /\ DOMAIN ui = {"folder", "unread", "boxes", "ready", "selected", "shown", "detail", "drawer",
                        "compose", "busy"}
        /\ ui.folder = "inbox" /\ ui.selected = None /\ ui.busy = {"list"} /\ calls = <<new>>
    BY <1>1 DEF Portal!InboxMount
  <2> HIDE DEF new
  <2>2. Shaped("inbox", ui) /\ Spinning("inbox", ui) = {}
    BY <2>1 DEF Shaped, Spinning, SlotsOf, SlotNames
  <2> QED
    BY <2>1, <2>2, StartKept DEF InboxKept
<1>2. ASSUME Portal!SettingsMount PROVE Kept("settings")
  <2> DEFINE a == <<Portal!Session(None)>>
             b == <<Portal!BoxesHaving(None)>>
  <2>1. /\ "busy" \in DOMAIN ui /\ DOMAIN ui \cap SlotNames = {} /\ ui.busy = {}
    BY <1>2 DEF Portal!SettingsMount, SlotNames
  <2>2. calls = a \o b \/ calls = a \o <<>>
    <3>1. PICK must \in BOOLEAN :
            calls = a \o (IF must THEN <<>> ELSE b)
      BY <1>2, Zenon DEF Portal!SettingsMount
    <3> HIDE DEF a, b
    <3> QED
      BY <3>1
  <2>3. Queue(a) /\ Queue(b) /\ Queue(<<>>)
    BY Single, Empty
  <2> HIDE DEF a, b
  <2> DEFINE c == <<>>
  <2>4. Queue(a \o b) /\ Queue(a \o c)
    <3>1. Queue(c)
      BY <2>3
    <3> HIDE DEF c
    <3> QED
      BY <2>3, <3>1, Joined
  <2>5. Shaped("settings", ui) /\ Spinning("settings", ui) = {}
    BY <2>1, PlainShaped DEF Plain
  <2> QED
    BY <2>1, <2>2, <2>4, <2>5 DEF Kept
<1> QED
  BY <1>1, <1>2

-----------------------------------------------------------------------------
(* The console.                                                             *)

\* The pages for which what calls owe is all an induction needs.
OwingPages == {"messages", "logs", "sending", "admins", "users", "domains", "mailboxes", "keys", "account",
               "mails", "import", "settings", "overview"}

PageKept ==
  /\ page \in OwingPages \cup {"jobs", "emails", "inbox", "session"}
  /\ \A p \in OwingPages : page = p => Kept(p)
  /\ page = "jobs" => JobsKept
  /\ page = "emails" => EmailsKept
  /\ page = "inbox" => InboxKept
  /\ page = "session" => SessionKept

LEMMA PageStart == Init => PageKept
<1> SUFFICES ASSUME Init PROVE PageKept
  OBVIOUS
<1>1. page \in OwingPages \cup {"jobs", "emails", "inbox", "session"}
  BY PagesAssumption DEF Init, OwingPages
<1>2. page # "session" => Mounted(page)
  BY DEF Init
<1>3. page = "session" => SessionKept
  BY SessionStartKept DEF Init
<1>4. page = "jobs" => JobsKept
  BY <1>2, JobsStartKept DEF Mounted
<1>5. page = "emails" => EmailsKept
  BY <1>2, EmailsStartKept DEF Mounted
<1>6. page = "inbox" => InboxKept
  BY <1>2, PortalStartKept DEF Mounted
<1>7. ASSUME NEW p \in OwingPages, page = p PROVE Kept(p)
  <2>1. Mounted(p)
    BY <1>2, <1>7 DEF OwingPages
  <2>2. CASE p \in RowsPages
    BY <2>1, <2>2, RowsStartKept DEF Mounted, RowsPages
  <2>3. CASE p \in {"admins", "users", "mailboxes", "account"}
    BY <2>1, <2>3, PlainStartKept DEF Mounted
  <2>4. CASE p \in {"mails", "import", "overview"}
    BY <2>1, <2>4, PlainStartKept DEF Mounted
  <2>5. CASE p \in {"domains", "keys", "settings"}
    BY <2>1, <2>5, DomainsStartKept, KeysStartKept, PortalStartKept DEF Mounted
  <2> QED
    BY <2>2, <2>3, <2>4, <2>5 DEF OwingPages, RowsPages
<1> QED
  BY <1>1, <1>3, <1>4, <1>5, <1>6, <1>7 DEF PageKept

LEMMA PageStep == (page = "session" => SessionIInv) /\ PageKept /\ [Next]_vars => PageKept'
<1> SUFFICES ASSUME page = "session" => SessionIInv, PageKept, [Next]_vars PROVE PageKept'
  OBVIOUS
<1>1. page' = page
  BY DEF Next, vars, pageVars
<1>2. CASE UNCHANGED vars
  <2>1. UNCHANGED <<page, ui, calls, route>>
    BY <1>2 DEF vars, pageVars
  <2> QED
    BY <2>1 DEF PageKept, JobsKept, EmailsKept, InboxKept, SessionKept, Kept
<1>3. CASE Next
  <2>1. page = "session" => SessionKept'
    BY <1>3, SessionStepKept DEF Next, Acts, PageKept
  <2>2. page = "jobs" => JobsKept'
    BY <1>3, JobsStepKept DEF Next, Acts, PageKept
  <2>3. page = "emails" => EmailsKept'
    BY <1>3, EmailsStepKept DEF Next, Acts, PageKept
  <2>4. page = "inbox" => InboxKept'
    BY <1>3, InboxStepKept DEF Next, Acts, PageKept
  <2>5. ASSUME NEW p \in OwingPages, page = p PROVE Kept(p)'
    <3>1. Kept(p) /\ p # "session" /\ Acts
      BY <1>3, <2>5 DEF Next, PageKept, OwingPages
    <3> QED
      BY <2>5, <3>1, MessagesKept, LogsKept, SendingKept, AdminsKept, UsersKept, DomainsKept,
         MailboxesKept, KeysKept, AccountDialogKept, MailDialogKept, ImportKept, SettingsKept,
         OverviewKept DEF Acts, OwingPages
  <2> QED
    BY <1>1, <2>1, <2>2, <2>3, <2>4, <2>5 DEF PageKept
<1> QED
  BY <1>2, <1>3

LEMMA PageIdle == PageKept => QuietIsIdle
<1> SUFFICES ASSUME PageKept, calls = <<>>
             PROVE  /\ Slots \subseteq {None}
                    /\ ui.busy \subseteq IF page = "inbox" /\ ui.selected = None THEN {"list"} ELSE {}
  BY DEF QuietIsIdle
<1>1. Kept(page)
  BY DEF PageKept, JobsKept, EmailsKept, InboxKept, SessionKept
<1>2. Spinning(page, ui) = {}
  BY <1>1, OwedEmpty DEF Kept
<1>3. Shaped(page, ui)
  BY <1>1 DEF Kept
<1>4. ASSUME NEW slot \in DOMAIN ui \cap SlotNames PROVE ui[slot] = None
  BY <1>2, <1>3 DEF Spinning, Shaped
<1>5. Slots \subseteq {None}
  BY <1>4 DEF Slots, SlotNames
<1> QED
  BY <1>2, <1>5 DEF Spinning

\* Nothing spins for ever: on every page of the console, whatever number of requests waited
\* and however their answers overtook each other, failed, or landed on a dialog opened since,
\* nothing is busy once none waits. A spinner turns only while a call waits that ends it,
\* itself or by what its continuation asks (PageKept).
THEOREM NothingSpinsForEver == Spec => []QuietIsIdle
<1>1. Spec => []PageKept
  BY PageStart, PageStep, SessionInvariance, PTL DEF Spec
<1> QED
  BY <1>1, PageIdle, PTL
=============================================================================
