------------------------------ MODULE EmailAccount ------------------------------
(***************************************************************************)
(* The dialog of one external mailbox (emails/index.tsx): its values, the       *)
(* authorization at Google or Microsoft, and the stored secrets, which a        *)
(* one-time code reveals for a minute, here or for a row of the table. What     *)
(* the page does with the table is EmailsPage: here a reload only lands.        *)
(***************************************************************************)
EXTENDS ConsolePage

CONSTANT TwoFactor  \* whether the administrator has a second factor

Providers == {"GMAIL", "OUTLOOK"}

\* editing is the mailbox the dialog is open for, values the one whose values its
\* form has; target the mailbox, source and field a reveal is about; secret and
\* rowSecret the mailbox whose secret is in sight; grant whether a code was accepted
\* a short while ago; flow the mailbox a provider is asked to authorize.
NoTarget == [id |-> None, source |-> None]

AccountMount ==
  /\ ui = [open |-> FALSE, editing |-> None, values |-> None, target |-> NoTarget,
           otp |-> FALSE, grant |-> FALSE, secret |-> None, rowSecret |-> None,
           flow |-> [p \in Providers |-> <<>>], busy |-> {}]
  /\ calls = <<>>

Reload == [op |-> "reload"]
NoFlow == [p \in Providers |-> <<>>]

ReloadLand(i) == UNCHANGED ui /\ Landed(i, <<>>)

\* The cleanup of the polling effects: what they still ask comes too late.
Abandoned(waiting, providers) ==
  [i \in DOMAIN waiting |-> IF waiting[i].op = "poll" /\ waiting[i].provider \in providers
                            THEN [waiting[i] EXCEPT !.late = TRUE] ELSE waiting[i]]

\* resetSecretRevealState. The secret of a row is not its business.
Hidden(state) ==
  [state EXCEPT !.otp = FALSE, !.target = NoTarget, !.secret = None, !.busy = @ \ {"reveal"}]

\* closeEmailModal.
Dismissed(state) == [Hidden(state) EXCEPT !.flow = NoFlow, !.open = FALSE]

-----------------------------------------------------------------------------
(* The values.                                                             *)

\* handleCreate.
CreateAccount ==
  /\ ui' = [Hidden(ui) EXCEPT !.open = TRUE, !.editing = None, !.values = None, !.flow = NoFlow,
                              !.busy = @ \ {"detail"}]
  /\ calls' = Abandoned(calls, Providers)

\* handleEdit: the form is empty until the mailbox is there.
EditAccount(id) ==
  /\ ui' = [Hidden(ui) EXCEPT !.open = TRUE, !.editing = id, !.values = None, !.flow = NoFlow,
                              !.busy = @ \cup {"detail"}]
  /\ calls' = Append(Abandoned(calls, Providers), [op |-> "account", id |-> id])

\* It fills whatever form is there by then.
AccountLand(i, ok) ==
  LET id == calls[i].id
      ended == [ui EXCEPT !.busy = Off("detail")]
  IN /\ ui' = IF ok THEN [ended EXCEPT !.values = id, !.target = [id |-> id, source |-> "edit"]]
              ELSE ended
     /\ Landed(i, <<>>)

CloseAccount ==
  /\ ui.open
  /\ ui' = Dismissed(ui)
  /\ calls' = Abandoned(calls, Providers)

\* applyProfileSelection and handleAuthTypeChange.
ChooseProfile ==
  /\ ui.open
  /\ ui' = [ui EXCEPT !.flow = NoFlow]
  /\ calls' = Abandoned(calls, Providers)

\* handleSubmit: neither the values that load nor a save that runs stop it. A new
\* login password of a stored mailbox needs the grant.
SaveAccount(password) ==
  /\ ui.open
  /\ password /\ ui.editing # None => ui.grant
  /\ Asked(<<[op |-> "saveAccount", id |-> ui.editing, values |-> ui.values]>>)
  /\ UNCHANGED ui

\* A save closes the dialog, for whichever mailbox it is open.
SaveAccountLand(i, ok) ==
  IF ok THEN ui' = Dismissed(ui) /\ calls' = Append(Abandoned(Rest(i), Providers), Reload)
        ELSE UNCHANGED ui /\ Landed(i, <<>>)

-----------------------------------------------------------------------------
(* The secrets.                                                            *)

\* openRevealModalForTarget.
AskCode(target) ==
  /\ TwoFactor
  /\ ui' = [ui EXCEPT !.target = target, !.otp = TRUE]

Revealing(target, after) == [op |-> "reveal", target |-> target, after |-> after]

Reveal(target) ==
  IF ui.grant THEN UNCHANGED ui /\ Asked(<<Revealing(target, None)>>)
              ELSE AskCode(target) /\ UNCHANGED calls

\* handleOpenRevealModal and handleOpenAccountLoginPasswordAccess.
RevealHere ==
  /\ ui.open /\ ui.editing # None /\ TwoFactor
  /\ Reveal([id |-> ui.editing, source |-> "edit"])

\* handleRowPasswordReveal.
RevealRow(id) == Reveal([id |-> id, source |-> "row"])

\* handleConfirmReveal, with six digits.
ConfirmCode ==
  /\ ui.otp /\ ui.target.id # None /\ "reveal" \notin ui.busy
  /\ ui' = [ui EXCEPT !.busy = On("reveal")]
  /\ Asked(<<[op |-> "unlock", target |-> ui.target]>>)

CancelCode ==
  /\ ui.otp
  /\ ui' = [ui EXCEPT !.otp = FALSE]
  /\ UNCHANGED calls

\* An accepted code goes on with the target of the click. Without a second factor the
\* page is left for the settings.
UnlockLand(i, answer) ==
  IF answer = "ok"
  THEN /\ ui' = [ui EXCEPT !.grant = TRUE, !.otp = FALSE]
       /\ Landed(i, <<Revealing(calls[i].target, "reveal")>>)
  ELSE /\ ui' = [ui EXCEPT !.busy = Off("reveal"), !.otp = @ /\ answer # "noFactor"]
       /\ Landed(i, <<>>)

\* executeRevealWithGrant: the answer is shown in whichever dialog is open. Nothing
\* stored counts as shown in the dialog; a grant that ended asks for a code again.
RevealLand(i, answer) ==
  LET c == calls[i]
      ended == [ui EXCEPT !.busy = @ \ {c.after}]
      shown == IF c.target.source = "row" THEN [ended EXCEPT !.rowSecret = c.target.id]
                                          ELSE [ended EXCEPT !.secret = c.target.id]
  IN /\ Landed(i, <<>>)
     /\ CASE answer = "ok" -> ui' = shown
          [] answer = "nothing" -> ui' = IF c.target.source = "edit" THEN shown ELSE ended
          [] answer = "ended" -> ui' = [ended EXCEPT !.grant = FALSE, !.otp = @ \/ TwoFactor,
                                                     !.target = IF TwoFactor THEN c.target ELSE @]
          [] answer = "noFactor" -> ui' = [ended EXCEPT !.otp = FALSE]
          [] answer = "failed" -> ui' = ended

\* The timers: a minute after the last secret, and the end of the grant.
HideSecret == ui.secret # None /\ ui' = [ui EXCEPT !.secret = None] /\ UNCHANGED calls
HideRowSecret == ui.rowSecret # None /\ ui' = [ui EXCEPT !.rowSecret = None] /\ UNCHANGED calls
GrantEnds == ui.grant /\ ui' = [ui EXCEPT !.grant = FALSE] /\ UNCHANGED calls

-----------------------------------------------------------------------------
(* The authorization. Steps of one handler wait for each other: parse a file    *)
(* that was given, save the configuration, load the state of the providers,      *)
(* start. Parse and save have buttons of their own, then nothing follows.         *)

Step(op, p, then, account) == [op |-> op, provider |-> p, then |-> then, account |-> account]
Spinner(op, p) == op \o p

Parse(p) ==
  /\ p = "GMAIL" /\ Spinner("parse", p) \notin ui.busy
  /\ ui' = [ui EXCEPT !.busy = On(Spinner("parse", p))]
  /\ Asked(<<Step("parse", p, FALSE, None)>>)

\* applyGoogleJsonImport drops the flow before it asks.
ImportSecretFile ==
  /\ ui' = [ui EXCEPT !.flow["GMAIL"] = <<>>, !.busy = On(Spinner("parse", "GMAIL"))]
  /\ calls' = Append(Abandoned(calls, {"GMAIL"}), Step("parse", "GMAIL", FALSE, None))

SaveProvider(p) ==
  /\ Spinner("save", p) \notin ui.busy
  /\ ui' = [ui EXCEPT !.busy = On(Spinner("save", p))]
  /\ Asked(<<Step("save", p, FALSE, None)>>)

\* handleGenerateGoogleAuthUrl and handleGenerateOutlookAuthUrl, for the mailbox of
\* the click.
Authorize(p, file) ==
  LET first == IF file THEN "parse" ELSE "save" IN
  /\ Spinner("start", p) \notin ui.busy /\ (file => p = "GMAIL")
  /\ ui' = [ui EXCEPT !.busy = @ \cup {Spinner("start", p), Spinner(first, p)}]
  /\ Asked(<<Step(first, p, TRUE, ui.editing)>>)

StepFail(i) ==
  LET c == calls[i] IN
  /\ ui' = [ui EXCEPT !.busy = @ \ ({Spinner(c.op, c.provider)}
                                     \cup (IF c.then THEN {Spinner("start", c.provider)} ELSE {}))]
  /\ Landed(i, <<>>)

ParseLand(i) ==
  LET c == calls[i]
      waiting == Abandoned(Rest(i), {c.provider})
      parsed == [ui EXCEPT !.flow[c.provider] = <<>>, !.busy = Off(Spinner("parse", c.provider))]
  IN IF c.then THEN /\ ui' = [parsed EXCEPT !.busy = @ \cup {Spinner("save", c.provider)}]
                    /\ calls' = Append(waiting, Step("save", c.provider, TRUE, c.account))
               ELSE ui' = parsed /\ calls' = waiting

SaveProviderLand(i) ==
  LET c == calls[i] IN
  UNCHANGED ui /\ Landed(i, <<Step("statuses", c.provider, c.then, c.account)>>)

StatusesLand(i) ==
  LET c == calls[i] IN
  /\ ui' = [ui EXCEPT !.busy = Off(Spinner("save", c.provider))]
  /\ Landed(i, IF c.then THEN <<Step("start", c.provider, TRUE, c.account)>> ELSE <<>>)

\* The flow starts, whether the dialog is still open for its mailbox or not.
StartLand(i) ==
  LET c == calls[i] IN
  /\ ui' = [ui EXCEPT !.flow[c.provider] = <<c.account>>, !.busy = Off(Spinner("start", c.provider))]
  /\ calls' = Abandoned(Rest(i), {c.provider})

\* Every three seconds; one that is answered slowly overlaps with the next, which
\* changes nothing here and is left out.
Poll(p) ==
  /\ ui.flow[p] # <<>>
  /\ \A i \in Waiting("poll") : calls[i].provider # p \/ calls[i].late
  /\ Asked(<<[op |-> "poll", provider |-> p, late |-> FALSE]>>)
  /\ UNCHANGED ui

\* handleOAuthCompletionFeedback: an authorization that did not fail closes the dialog.
PollLand(i, answer) ==
  LET c == calls[i]
      ended == [ui EXCEPT !.flow[c.provider] = <<>>]
  IN IF c.late \/ answer = "pending" THEN UNCHANGED ui /\ Landed(i, <<>>)
     ELSE CASE answer = "expired" -> ui' = ended /\ calls' = Abandoned(Rest(i), {c.provider})
            [] answer = "error" ->
                 ui' = ended /\ calls' = Append(Abandoned(Rest(i), {c.provider}), Reload)
            [] answer = "authorized" ->
                 ui' = Dismissed(ui) /\ calls' = Append(Abandoned(Rest(i), Providers), Reload)

-----------------------------------------------------------------------------
AccountRow(id) == EditAccount(id) \/ RevealRow(id)

AuthorizationPart(p) ==
  \/ \E file \in BOOLEAN : Authorize(p, file)
  \/ SaveProvider(p)
  \/ Parse(p)
  \/ p = "GMAIL" /\ ImportSecretFile

AccountForm ==
  \/ \E password \in BOOLEAN : SaveAccount(password)
  \/ RevealHere
  \/ \E p \in Providers : AuthorizationPart(p)

AccountNext ==
  \/ Room /\ ~ui.open /\ ~ui.otp /\ ui.rowSecret = None
       /\ (CreateAccount \/ \E id \in Rows : AccountRow(id))
  \/ Room /\ ui.open /\ ~ui.otp /\ AccountForm
  \/ Room /\ (ConfirmCode \/ \E p \in Providers : Poll(p))
  \/ ~ui.otp /\ (CloseAccount \/ ChooseProfile)
  \/ CancelCode \/ HideSecret \/ HideRowSecret \/ GrantEnds
  \/ \E i \in Waiting("reload") : ReloadLand(i)
  \/ \E i \in Waiting("account"), ok \in BOOLEAN : AccountLand(i, ok)
  \/ \E i \in Waiting("saveAccount"), ok \in BOOLEAN : SaveAccountLand(i, ok)
  \/ \E i \in Waiting("unlock"), answer \in {"ok", "refused", "noFactor"} : UnlockLand(i, answer)
  \/ \E i \in Waiting("reveal"), answer \in {"ok", "nothing", "ended", "noFactor", "failed"} :
       RevealLand(i, answer)
  \/ \E i \in UNION {Waiting(op) : op \in {"parse", "save", "start"}} : StepFail(i)
  \/ \E i \in Waiting("parse") : ParseLand(i)
  \/ \E i \in Waiting("save") : SaveProviderLand(i)
  \/ \E i \in Waiting("statuses") : StatusesLand(i)
  \/ \E i \in Waiting("start") : StartLand(i)
  \/ \E i \in Waiting("poll"), answer \in {"pending", "expired", "error", "authorized"} : PollLand(i, answer)
=============================================================================
