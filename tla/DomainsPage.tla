------------------------------ MODULE DomainsPage ------------------------------
(***************************************************************************)
(* The domains of the console (domains/index.tsx) and the dialog that        *)
(* configures one of them (domains/DomainConfigModal.tsx): Cloudflare,        *)
(* verification token, catch-all, sending configuration and aliases. The      *)
(* dialog stays mounted with the page: it keeps what it loaded for one domain *)
(* until something is loaded for another.                                   *)
(***************************************************************************)
EXTENDS ConsolePage

DomainList(then) == [op |-> "domains", then |-> then]

\* What of a domain decides which controls the dialog offers: a Cloudflare token
\* is saved, it may send, it has an active mailbox.
Features == {"savedToken", "canSend", "activeMailbox"}

\* config is the domain the dialog is open for; detail what its forms show, with
\* the domain it came from, and aliases whose aliases are listed.
DomainsMount ==
  /\ ui = [rows |-> {}, open |-> FALSE, editing |-> None, deleting |-> None,
           config |-> None, detail |-> None, aliases |-> None, aliasOpen |-> FALSE,
           toggling |-> None, deletingAlias |-> None, busy |-> {"domains"}]
  /\ calls = <<DomainList(None)>>

-----------------------------------------------------------------------------
(* The list.                                                               *)

\* openCreateModal and openEditModal: the form takes the row's values.
EditDomain(id) ==
  /\ ui' = [ui EXCEPT !.open = TRUE, !.editing = id]
  /\ UNCHANGED calls

CloseDomain ==
  /\ ui.open
  /\ ui' = [ui EXCEPT !.open = FALSE]
  /\ UNCHANGED calls

\* handleSubmit, behind confirmLoading.
SaveDomain ==
  /\ ui.open /\ "save" \notin ui.busy
  /\ ui' = [ui EXCEPT !.busy = On("save")]
  /\ Asked(<<[op |-> "saveDomain", id |-> ui.editing, then |-> "save"]>>)

\* setDomainStatus.
SetStatus(id) ==
  /\ Asked(<<[op |-> "status", id |-> id, then |-> None]>>)
  /\ UNCHANGED ui

DeleteDomain(id) ==
  /\ ui.deleting # id
  /\ ui' = [ui EXCEPT !.deleting = id]
  /\ Asked(<<[op |-> "deleteDomain", id |-> id, then |-> "delete"]>>)

Ended(then) ==
  [ui EXCEPT !.busy = @ \ {then}, !.deleting = IF then = "delete" THEN None ELSE @,
             !.toggling = IF then = "toggle" THEN None ELSE @,
             !.deletingAlias = IF then = "deleteAlias" THEN None ELSE @]

DomainWriteLand(i, ok) ==
  LET c == calls[i] IN
  IF ok THEN /\ ui' = [ui EXCEPT !.open = @ /\ c.op # "saveDomain", !.busy = On("domains")]
             /\ Landed(i, <<DomainList(c.then)>>)
        ELSE ui' = Ended(c.then) /\ Landed(i, <<>>)

-----------------------------------------------------------------------------
(* The dialog. Its handlers keep the domain of the click: a write goes on     *)
(* with loadConfig of that domain, and with the list.                       *)

ConfigOf(domain, then, next) ==
  [op |-> "config", domain |-> domain, then |-> then, next |-> next]

\* The effect that loads when the dialog opens.
OpenConfig(id) ==
  /\ ui' = [ui EXCEPT !.config = id, !.busy = On("config")]
  /\ Asked(<<ConfigOf(id, None, None)>>)

RefreshConfig ==
  /\ ui' = [ui EXCEPT !.busy = On("config")]
  /\ Asked(<<ConfigOf(ui.config, None, None)>>)

CloseConfig ==
  /\ ui.config # None
  /\ ui' = [ui EXCEPT !.config = None, !.aliasOpen = FALSE]
  /\ UNCHANGED calls

\* The spinner of a write and of what follows it. The verification token is
\* saved or drawn anew behind one spinner, the Cloudflare credentials saved or
\* cleared.
Spinner(op) ==
  CASE op \in {"saveToken", "newToken"} -> "verification"
    [] op \in {"saveCloudflare", "clearCloudflare"} -> "cloudflare"
    [] OTHER -> op

\* Which controls the shown detail offers.
Offered(op) ==
  CASE op = "clearCloudflare" -> "savedToken" \in ui.detail.features
    [] op = "sending" -> "canSend" \in ui.detail.features
    [] OTHER -> TRUE

Write(op, next) ==
  /\ ui' = [ui EXCEPT !.busy = On(Spinner(op))]
  /\ Asked(<<[op |-> op, domain |-> ui.config, of |-> ui.detail.domain, next |-> next]>>)

ConfigWrites == {"saveToken", "newToken", "saveCloudflare", "clearCloudflare", "catchAll", "sending", "validate"}

\* handleSaveVerification, handleRegenerateVerification, handleSaveCloudflareConfig,
\* handleSaveCatchAll and handleSaveSendingConfig, each behind its spinner.
SaveConfig(op) ==
  op # "validate" /\ Offered(op) /\ Spinner(op) \notin ui.busy /\ Write(op, None)

\* handleRunCloudflareValidation: a token or a zone that was typed is saved first;
\* without a typed token the one that was saved at the click is needed.
Validate(typedToken, typedZone) ==
  LET goesOn == typedToken \/ "savedToken" \in ui.detail.features IN
  /\ "validate" \notin ui.busy
  /\ IF typedToken \/ typedZone
     THEN Write("saveCloudflare", IF goesOn THEN "validate" ELSE None)
     ELSE goesOn /\ Write("validate", None)

\* A write that succeeded is followed by refreshAfterMutation.
ConfigWriteLand(i, ok) ==
  LET c == calls[i] IN
  IF ok THEN /\ ui' = [ui EXCEPT !.busy = On("config")]
             /\ Landed(i, <<ConfigOf(c.domain, Spinner(c.op), c.next)>>)
        ELSE ui' = Ended(Spinner(c.op)) /\ Landed(i, <<>>)

AliasEnds == {"alias", "toggle", "deleteAlias"}

\* loadConfig: a detail that failed keeps the one before, aliases that failed are
\* none. Nothing asks for which domain the dialog is open by now.
ConfigLand(i, ok, features) ==
  LET c == calls[i]
      last == c.then = None \/ c.then \in AliasEnds
      loaded == [Ended(IF last THEN c.then ELSE None) EXCEPT !.busy = @ \ {"config"},
                   !.detail = IF ok THEN [domain |-> c.domain, features |-> features] ELSE @,
                   !.aliases = c.domain]
  IN IF last THEN ui' = loaded /\ Landed(i, <<>>)
     ELSE /\ ui' = [loaded EXCEPT !.busy = @ \cup {"domains"}]
          /\ Landed(i, <<Merged(DomainList(c.then), [next |-> c.next, domain |-> c.domain])>>)

\* loadDomains, as the page's own load or as the end of a write; a validation that
\* was waiting for the credentials starts with it.
DomainsLand(i, rows) ==
  LET c == calls[i]
      goesOn == "next" \in DOMAIN c /\ c.next # None
      ended == [Ended(c.then) EXCEPT !.rows = rows, !.busy = @ \ {"domains"}]
  IN /\ ui' = IF goesOn THEN [ended EXCEPT !.busy = @ \cup {"validate"}] ELSE ended
     /\ Landed(i, IF goesOn
                  THEN <<[op |-> "validate", domain |-> c.domain, of |-> c.domain, next |-> None]>>
                  ELSE <<>>)

-----------------------------------------------------------------------------
(* The aliases.                                                            *)

OpenAlias(open) ==
  /\ ui.aliasOpen # open
  /\ open => "activeMailbox" \in ui.detail.features
  /\ ui' = [ui EXCEPT !.aliasOpen = open]
  /\ UNCHANGED calls

AliasWrite(op, new) ==
  /\ ui' = new
  /\ Asked(<<[op |-> op, domain |-> ui.config, of |-> ui.aliases]>>)

\* handleCreateAlias, handleToggleAlias and handleDeleteAlias: the buttons of
\* other rows stay enabled.
CreateAlias ==
  /\ ui.aliasOpen /\ "alias" \notin ui.busy
  /\ AliasWrite("alias", [ui EXCEPT !.busy = On("alias")])

ToggleAlias(id) == ui.toggling # id /\ AliasWrite("toggle", [ui EXCEPT !.toggling = id])

DeleteAlias(id) ==
  ui.deletingAlias # id /\ AliasWrite("deleteAlias", [ui EXCEPT !.deletingAlias = id])

AliasWriteLand(i, ok) ==
  LET c == calls[i] IN
  IF ok THEN /\ ui' = [ui EXCEPT !.aliasOpen = @ /\ c.op # "alias", !.busy = On("config")]
             /\ Landed(i, <<ConfigOf(c.domain, c.op, None)>>)
        ELSE ui' = Ended(c.op) /\ Landed(i, <<>>)

-----------------------------------------------------------------------------
DomainRow(id) == EditDomain(id) \/ OpenConfig(id) \/ SetStatus(id) \/ DeleteDomain(id)

\* The dialog shows its detail while nothing loads, the aliases below it.
Configurable == ui.config # None /\ ui.detail # None /\ "config" \notin ui.busy
CloudflarePart ==
  \/ \E typedToken, typedZone \in BOOLEAN : Validate(typedToken, typedZone)
  \/ \E op \in {"saveCloudflare", "clearCloudflare"} : SaveConfig(op)
VerificationPart == RefreshConfig \/ \E op \in {"saveToken", "newToken"} : SaveConfig(op)
CatchAllPart == SaveConfig("catchAll")
SendingPart == SaveConfig("sending")
AliasPart == \E id \in Rows : ToggleAlias(id) \/ DeleteAlias(id)

DomainsNext ==
  \/ /\ Room /\ ~ui.open /\ ui.config = None
     /\ EditDomain(None) \/ \E id \in ui.rows : DomainRow(id)
  \/ Room /\ (SaveDomain \/ (ui.config # None /\ CreateAlias))
  \/ CloseDomain
  \/ /\ Room /\ Configurable /\ ~ui.aliasOpen
     /\ CloudflarePart \/ VerificationPart \/ CatchAllPart \/ SendingPart \/ AliasPart
  \/ ~ui.aliasOpen /\ CloseConfig
  \/ Configurable /\ OpenAlias(TRUE)
  \/ OpenAlias(FALSE)
  \/ \E i \in UNION {Waiting(op) : op \in {"saveDomain", "status", "deleteDomain"}}, ok \in BOOLEAN :
       DomainWriteLand(i, ok)
  \/ \E i \in Waiting("domains"), rows \in SUBSET Rows \cup {ui.rows} : DomainsLand(i, rows)
  \/ \E i \in UNION {Waiting(op) : op \in ConfigWrites}, ok \in BOOLEAN : ConfigWriteLand(i, ok)
  \/ \E i \in Waiting("config") :
       ConfigLand(i, FALSE, {}) \/ \E features \in SUBSET Features : ConfigLand(i, TRUE, features)
  \/ \E i \in UNION {Waiting(op) : op \in AliasEnds}, ok \in BOOLEAN : AliasWriteLand(i, ok)
=============================================================================
