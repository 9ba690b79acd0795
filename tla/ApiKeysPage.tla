------------------------------ MODULE ApiKeysPage ------------------------------
(***************************************************************************)
(* The API keys of the console (api-keys/index.tsx): the list, the dialog    *)
(* that creates and edits a key, the one that shows a new key once, the      *)
(* allocation statistics of a key and the dialog that sets which mailboxes   *)
(* are assigned to it. The options of the selects, loaded once, are left     *)
(* out but for whether the mailboxes are there.                             *)
(***************************************************************************)
EXTENDS ConsolePage

CONSTANT Filters  \* groups, None for all of them

KeysList(n) == [op |-> "keys", n |-> n]
Stats(op, key, group) == [op |-> op, key |-> key, group |-> group]

\* form says whose values the fields hold: the plain ones, the permissions, the
\* scopes, and whether mailboxes were dropped from the scope. stats and list are
\* the key and the group the statistics and the assigned mailboxes belong to.
KeysMount ==
  /\ ui = [n |-> 1, rows |-> {}, open |-> FALSE, editing |-> None,
           form |-> [plain |-> None, permissions |-> None, scopes |-> None, dropped |-> FALSE],
           newKey |-> FALSE, current |-> None, pool |-> FALSE, poolGroup |-> None, stats |-> None,
           scope |-> FALSE, scopeGroup |-> None, list |-> None, busy |-> {"keys"}]
  /\ calls = Numbered(<<[op |-> "options"]>>, KeysList(1))

\* fetchData is numbered, with the page its closure saw.
FetchKeys(n, new) ==
  /\ ui' = [new EXCEPT !.busy = @ \cup {"keys"}]
  /\ calls' = Numbered(calls, KeysList(n))

KeysTurn(n) == n # ui.n /\ FetchKeys(n, [ui EXCEPT !.n = n])

KeysLand(i, rows) ==
  /\ ui' = IF calls[i].late THEN ui ELSE [ui EXCEPT !.rows = rows, !.busy = Off("keys")]
  /\ Landed(i, <<>>)

\* fetchAllEmailOptions: the mailboxes of a scope that are not among the options
\* are dropped from the form, by an effect.
OptionsLand(i, dropped) ==
  /\ ui' = [ui EXCEPT !.form.dropped = @ \/ (dropped /\ ui.form.scopes # None)]
  /\ Landed(i, <<>>)

\* After a write: the list is asked for by what is left of the handler.
KeysAgain(i, new) ==
  /\ ui' = [new EXCEPT !.busy = @ \cup {"keys"}]
  /\ calls' = Numbered(Rest(i), KeysList(calls[i].n))

-----------------------------------------------------------------------------
(* The dialog of a key.                                                    *)

\* handleCreate resets the form, handleEdit does not: until the detail is there,
\* every permission is ticked and the scopes are those of the key before.
CreateKey ==
  /\ ui' = [ui EXCEPT !.open = TRUE, !.editing = None, !.busy = Off("detail"),
                      !.form = [plain |-> None, permissions |-> None, scopes |-> None, dropped |-> FALSE]]
  /\ UNCHANGED calls

EditKey(id) ==
  /\ ui' = [ui EXCEPT !.open = TRUE, !.editing = id, !.busy = On("detail"),
                      !.form.plain = id, !.form.permissions = None]
  /\ Asked(<<[op |-> "key", id |-> id]>>)

\* The detail fills whatever form is there; its groups may drop mailboxes, all of
\* them while there are no options.
KeyLand(i, ok, dropped) ==
  LET id == calls[i].id IN
  /\ ui' = [ui EXCEPT !.busy = Off("detail"),
                      !.form = IF ok THEN [plain |-> id, permissions |-> id, scopes |-> id, dropped |-> dropped]
                               ELSE @]
  /\ Landed(i, <<>>)

CloseKey ==
  /\ ui.open
  /\ ui' = [ui EXCEPT !.open = FALSE]
  /\ UNCHANGED calls

\* handleSubmit: the button stays enabled, while the detail loads and while the
\* key is saved.
SaveKey ==
  /\ ui.open
  /\ Asked(<<[op |-> "saveKey", id |-> ui.editing, form |-> ui.form, n |-> ui.n]>>)
  /\ UNCHANGED ui

\* A new key is shown, in place of one that still is.
SaveKeyLand(i) ==
  KeysAgain(i, [ui EXCEPT !.open = FALSE, !.newKey = @ \/ calls[i].id = None])

KeyWriteFailed(i) == UNCHANGED ui /\ Landed(i, <<>>)

HideNewKey ==
  /\ ui.newKey
  /\ ui' = [ui EXCEPT !.newKey = FALSE]
  /\ UNCHANGED calls

DeleteKey(id) ==
  /\ Asked(<<[op |-> "deleteKey", id |-> id, n |-> ui.n]>>)
  /\ UNCHANGED ui

DeleteKeyLand(i) == KeysAgain(i, ui)

-----------------------------------------------------------------------------
(* The allocation statistics.                                              *)

\* handleViewPool keeps the statistics that were shown before.
ViewPool(id) ==
  /\ ui' = [ui EXCEPT !.current = id, !.pool = TRUE, !.poolGroup = None, !.busy = On("pool")]
  /\ Asked(<<Stats("stats", id, None)>>)

PoolGroup(group) ==
  /\ group # ui.poolGroup
  /\ ui' = [ui EXCEPT !.poolGroup = group, !.busy = On("pool")]
  /\ Asked(<<Stats("stats", ui.current, group)>>)

ResetPool ==
  /\ Asked(<<Stats("resetPool", ui.current, ui.poolGroup)>>)
  /\ UNCHANGED ui

ResetPoolLand(i, ok) ==
  /\ Landed(i, IF ok THEN <<[calls[i] EXCEPT !.op = "statsAgain"]>> ELSE <<>>)
  /\ UNCHANGED ui

ClosePool ==
  /\ ui.pool
  /\ ui' = [ui EXCEPT !.pool = FALSE]
  /\ UNCHANGED calls

\* Statistics are shown whose key they may be. The third request is the one after
\* the assignment was saved.
StatsLand(i, ok) ==
  LET c == calls[i]
      ends == CASE c.op = "stats" -> {"pool"} [] c.op = "statsAgain" -> {} [] OTHER -> {"saveScope"}
  IN /\ ui' = [ui EXCEPT !.stats = IF ok THEN <<c.key, c.group>> ELSE @, !.busy = @ \ ends]
     /\ Landed(i, <<>>)

\* What the dialog offers is there when the statistics are.
PoolDialog ==
  /\ ui.pool /\ ui.stats # None /\ "pool" \notin ui.busy
  /\ ResetPool \/ \E group \in Filters : PoolGroup(group)

-----------------------------------------------------------------------------
(* The mailboxes that are assigned. Which of those listed are ticked is the   *)
(* user's and left out.                                                    *)

\* handleManageEmails and handleEmailGroupChange keep list and ticks until the
\* answer is there.
ManageScope(id) ==
  /\ ui' = [ui EXCEPT !.current = id, !.scope = TRUE, !.scopeGroup = None, !.busy = On("scope")]
  /\ Asked(<<Stats("assigned", id, None)>>)

ScopeGroup(group) ==
  /\ group # ui.scopeGroup
  /\ ui' = [ui EXCEPT !.scopeGroup = group, !.busy = On("scope")]
  /\ Asked(<<Stats("assigned", ui.current, group)>>)

AssignedLand(i, ok) ==
  LET c == calls[i] IN
  /\ ui' = [ui EXCEPT !.list = IF ok THEN <<c.key, c.group>> ELSE @, !.busy = Off("scope")]
  /\ Landed(i, <<>>)

\* handleSaveEmails: its button does not wait for the list.
SaveScope ==
  /\ ui.scope /\ "saveScope" \notin ui.busy
  /\ ui' = [ui EXCEPT !.busy = On("saveScope")]
  /\ Asked(<<Merged(Stats("assign", ui.current, ui.scopeGroup), [list |-> ui.list])>>)

SaveScopeLand(i, ok) ==
  /\ ui' = IF ok THEN [ui EXCEPT !.scope = FALSE] ELSE [ui EXCEPT !.busy = Off("saveScope")]
  /\ Landed(i, IF ok THEN <<Stats("statsLast", calls[i].key, None)>> ELSE <<>>)

CloseScope ==
  /\ ui.scope
  /\ ui' = [ui EXCEPT !.scope = FALSE]
  /\ UNCHANGED calls

ScopeDialog ==
  \/ SaveScope
  \/ ui.scope /\ "scope" \notin ui.busy /\ \E group \in Filters : ScopeGroup(group)

-----------------------------------------------------------------------------
KeysRow(id) == ViewPool(id) \/ ManageScope(id) \/ EditKey(id) \/ DeleteKey(id)

KeysToolbar == FetchKeys(ui.n, ui) \/ CreateKey

Covered == ui.open \/ ui.pool \/ ui.scope \/ ui.newKey

KeysNext ==
  \/ /\ Room /\ ~Covered
     /\ KeysToolbar \/ (\E n \in 1..2 : KeysTurn(n)) \/ \E id \in ui.rows : KeysRow(id)
  \/ Room /\ (SaveKey \/ PoolDialog \/ ScopeDialog)
  \/ CloseKey \/ HideNewKey \/ ClosePool \/ CloseScope
  \/ \E i \in Waiting("keys"), rows \in SUBSET Rows \cup {ui.rows} : KeysLand(i, rows)
  \/ \E i \in Waiting("options"), dropped \in BOOLEAN : OptionsLand(i, dropped)
  \/ \E i \in Waiting("key") : KeyLand(i, FALSE, FALSE) \/ \E dropped \in BOOLEAN : KeyLand(i, TRUE, dropped)
  \/ \E i \in Waiting("saveKey") : SaveKeyLand(i) \/ KeyWriteFailed(i)
  \/ \E i \in Waiting("deleteKey") : DeleteKeyLand(i) \/ KeyWriteFailed(i)
  \/ \E i \in Waiting("resetPool"), ok \in BOOLEAN : ResetPoolLand(i, ok)
  \/ \E i \in UNION {Waiting(op) : op \in {"stats", "statsAgain", "statsLast"}}, ok \in BOOLEAN :
       StatsLand(i, ok)
  \/ \E i \in Waiting("assigned"), ok \in BOOLEAN : AssignedLand(i, ok)
  \/ \E i \in Waiting("assign"), ok \in BOOLEAN : SaveScopeLand(i, ok)
=============================================================================
