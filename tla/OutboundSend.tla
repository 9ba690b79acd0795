----------------------------- MODULE OutboundSend -----------------------------
(***************************************************************************)
(* Mail sent by hand (core/internal/businessapi/send_handlers.go,           *)
(* send_store.go): the requests of administrators and portal users, the row  *)
(* each leaves in outbound_messages, and the provider, which is external.    *)
(* The request's context ends with the caller's connection or with            *)
(* PROVIDER_TIMEOUT; a database call it is cut short in may or may not have   *)
(* been committed. Rights, history and domain change under way.              *)
(***************************************************************************)
EXTENDS Naturals

CONSTANTS
  AdminSends, PortalSends,  \* the requests, by who makes them
  MaxFaults,                \* bound on crashes, refused database calls, lost answers
  MaxChanges                \* bound on changes of rights and settings

Sends == AdminSends \cup PortalSends

VARIABLES
  rights,    \* what holds of the user, the mailbox and the domain
  domain,    \* the domain is not deleted
  row,       \* outbound_messages.status of each request's row
  pc,        \* where the handler is
  open,      \* the requests whose context is not done
  heard,     \* what the handler knows of the provider's answer
  told,      \* what it answered its caller
  mailed,    \* the requests whose mail the provider took
  faults, changes,
  entitled,  \* history: rows inserted while their user had every right
  cut        \* history: handlers that a fault cost their row: a crash, a failed call

world == <<rights, domain, changes>>
history == <<entitled, cut>>
vars == <<world, row, pc, open, heard, told, mailed, faults, history>>

\* "member": the user is ACTIVE, owns or shares the mailbox, and the domain receives;
\* "mailbox": it is ACTIVE; "sending": the domain is ACTIVE, sends, and has a
\* configuration. Administrators need the last two.
Facts == {"member", "mailbox", "sending"}
Required(s) == IF s \in PortalSends THEN Facts ELSE Facts \ {"member"}

Statuses == {"PENDING", "SENT", "FAILED"}
AtWork == {"idle", "loaded", "sending", "heard"}

Init ==
  /\ rights = Facts /\ domain = TRUE
  /\ row = [s \in Sends |-> "none"]
  /\ pc = [s \in Sends |-> "idle"]
  /\ open = Sends
  /\ heard = [s \in Sends |-> "nothing"]
  /\ told = [s \in Sends |-> "nothing"]
  /\ mailed = {}
  /\ faults = 0 /\ changes = 0
  /\ entitled = {} /\ cut = {}

Fault == faults < MaxFaults /\ faults' = faults + 1
NoFault == UNCHANGED faults

\* A call of the request is cut short: by its context, or for a fault.
CutShort(s) == (s \notin open /\ NoFault) \/ Fault

\* The handler writes its answer and returns.
Answer(s, what) ==
  /\ pc' = [pc EXCEPT ![s] = "over"]
  /\ told' = [told EXCEPT ![s] = what]

-----------------------------------------------------------------------------
(* The handler: sendOutboundMessage or mailboxPortalSend, and                *)
(* deliverOutboundMessage.                                                   *)

\* loadResendSendConfig, loadMailboxPortalSendConfig.
Permitted(s) == domain /\ Required(s) \subseteq rights

Load(s) ==
  /\ pc[s] = "idle"
  /\ \/ /\ Permitted(s) /\ s \in open
        /\ pc' = [pc EXCEPT ![s] = "loaded"]
        /\ NoFault /\ UNCHANGED told
     \/ /\ (~Permitted(s) /\ NoFault) \/ CutShort(s)
        /\ Answer(s, "refused")
  /\ UNCHANGED <<world, row, open, heard, mailed, history>>

\* Mutant: the insert of a portal user's row does not look at the rights again.
InsertableOnceLoaded(s) == domain

\* createPendingOutboundMessage inserts a portal user's row if every right still
\* holds; an administrator's needs what its foreign keys name.
Insertable(s) == domain /\ (s \in PortalSends => rights = Facts)

Inserted(s) ==
  /\ Insertable(s)
  /\ row' = [row EXCEPT ![s] = "PENDING"]
  /\ entitled' = IF rights = Facts THEN entitled \cup {s} ELSE entitled

\* A mailbox that is not ACTIVE may have been deleted.
CreatePending(s) ==
  /\ pc[s] = "loaded"
  /\ \/ /\ s \in open
        /\ Inserted(s)
        /\ pc' = [pc EXCEPT ![s] = "sending"]
        /\ NoFault /\ UNCHANGED <<told, cut>>
     \/ /\ ((~Insertable(s) \/ "mailbox" \notin rights) /\ NoFault) \/ CutShort(s)
        /\ Answer(s, "refused")
        /\ UNCHANGED <<row, history>>
     \/ /\ CutShort(s)
        /\ Inserted(s)
        /\ Answer(s, "refused")
        /\ cut' = IF faults' = faults THEN cut ELSE cut \cup {s}
  /\ UNCHANGED <<world, open, heard, mailed>>

\* The provider takes the mail of a request that is under way.
Accept(s) ==
  /\ pc[s] = "sending" /\ s \notin mailed
  /\ mailed' = mailed \cup {s}
  /\ UNCHANGED <<world, row, pc, open, heard, told, faults, history>>

\* ResendClient.Send returns: a message id, a refusal, or an error that tells
\* nothing of whether the mail was taken.
HearProvider(s) ==
  /\ pc[s] = "sending"
  /\ pc' = [pc EXCEPT ![s] = "heard"]
  /\ \/ /\ s \in mailed
        /\ heard' = [heard EXCEPT ![s] = "id"]
        /\ NoFault /\ UNCHANGED mailed
     \/ /\ s \notin mailed
        /\ heard' = [heard EXCEPT ![s] = "error"]
        /\ NoFault /\ UNCHANGED mailed
     \/ /\ CutShort(s)
        /\ heard' = [heard EXCEPT ![s] = "error"]
        /\ mailed' \in {mailed, mailed \cup {s}}
  /\ UNCHANGED <<world, row, open, told, history>>

\* Mutant: the outcome is written under the request's context.
WritableWhileOpen(s) == s \in open

\* context.WithoutCancel: the outcome can be written though the caller has left.
Writable(s) == TRUE

Outcome(s) == IF heard[s] = "id" THEN "SENT" ELSE "FAILED"
Completed(s) == [row EXCEPT ![s] = IF @ = "PENDING" THEN Outcome(s) ELSE @]

\* completeOutboundMessage: a row that was deleted is not found, which is an error
\* whatever became of the mail.
Complete(s) ==
  /\ pc[s] = "heard"
  /\ \/ /\ Writable(s)
        /\ row' = Completed(s)
        /\ Answer(s, IF row[s] = "PENDING" THEN Outcome(s) ELSE "error")
        /\ NoFault /\ UNCHANGED cut
     \/ /\ ~Writable(s)
        /\ Answer(s, "error")
        /\ NoFault /\ UNCHANGED <<row, cut>>
     \/ /\ Fault
        /\ row' \in {row, Completed(s)}
        /\ Answer(s, "error")
        /\ cut' = cut \cup {s}
  /\ UNCHANGED <<world, open, heard, mailed, entitled>>

-----------------------------------------------------------------------------
(* What happens meanwhile.                                                   *)

\* The caller hangs up, or PROVIDER_TIMEOUT passes.
Leave(s) ==
  /\ s \in open /\ pc[s] \in AtWork
  /\ open' = open \ {s}
  /\ UNCHANGED <<world, row, pc, heard, told, mailed, faults, history>>

\* The process dies, and every handler with it; a mail on its way may still be
\* taken. Requests that were not made yet go to the next process.
Crash ==
  LET dying == {s \in Sends : pc[s] \in AtWork \ {"idle"}} IN
  /\ dying # {}
  /\ Fault
  /\ pc' = [s \in Sends |-> IF s \in dying THEN "over" ELSE pc[s]]
  /\ cut' = cut \cup dying
  /\ \E late \in SUBSET {s \in dying : pc[s] = "sending"} : mailed' = mailed \cup late
  /\ UNCHANGED <<world, row, open, heard, told, entitled>>

\* deleteOutboundMessages, at any status.
DeleteMessage(s) ==
  /\ row[s] \in Statuses
  /\ row' = [row EXCEPT ![s] = "deleted"]
  /\ UNCHANGED <<world, pc, open, heard, told, mailed, faults, history>>

\* The history of a domain goes with it.
DeleteDomain ==
  /\ domain
  /\ domain' = FALSE
  /\ row' = [s \in Sends |-> IF row[s] = "none" THEN "none" ELSE "deleted"]
  /\ UNCHANGED <<rights, changes, pc, open, heard, told, mailed, faults, history>>

\* An administrator edits users, memberships, mailboxes, domains, or deletes the
\* sending configuration.
ChangeRights ==
  /\ changes < MaxChanges /\ changes' = changes + 1
  /\ rights' \in SUBSET Facts \ {rights}
  /\ UNCHANGED <<domain, row, pc, open, heard, told, mailed, faults, history>>

Next ==
  \/ \E s \in Sends :
       \/ Load(s) \/ CreatePending(s) \/ Accept(s) \/ HearProvider(s) \/ Complete(s)
       \/ Leave(s) \/ DeleteMessage(s)
  \/ Crash \/ DeleteDomain \/ ChangeRights

Spec == Init /\ [][Next]_vars

-----------------------------------------------------------------------------
TypeOK ==
  /\ rights \subseteq Facts /\ domain \in BOOLEAN
  /\ row \in [Sends -> Statuses \cup {"none", "deleted"}]
  /\ pc \in [Sends -> AtWork \cup {"over"}]
  /\ open \subseteq Sends /\ mailed \subseteq Sends
  /\ heard \in [Sends -> {"nothing", "id", "error"}]
  /\ told \in [Sends -> {"nothing", "refused", "error", "SENT", "FAILED"}]
  /\ faults \in Nat /\ changes \in Nat
  /\ entitled \subseteq Sends /\ cut \subseteq Sends

\* The caller left while the row was being inserted: it is there, and nothing was sent.
InsertAbandoned(s) == s \notin open /\ told[s] = "refused" /\ s \notin mailed

\* Nothing sweeps PENDING rows. Each has a handler that will settle it, whether or not
\* its caller waits, or was stranded by a crash, by a database call that failed, or by a
\* caller that left during the insert: a mail on its way is stranded by a fault only.
PendingHasReason ==
  \A s \in Sends :
    row[s] = "PENDING" =>
      pc[s] \in {"sending", "heard"} \/ s \in cut \/ InsertAbandoned(s)

\* The history accounts for every mail and for every answer: no mail leaves before its
\* row was written, under rights its user had in that moment, however they changed since
\* the configuration was loaded; SENT is true; and who was told of an outcome finds it,
\* unless the message was deleted.
MailIsAccounted ==
  \A s \in Sends :
    /\ s \in mailed => row[s] # "none" /\ (s \in PortalSends => s \in entitled)
    /\ row[s] = "SENT" => s \in mailed
    /\ told[s] = "SENT" => s \in mailed /\ row[s] \in {"SENT", "deleted"}
    /\ told[s] = "FAILED" => row[s] \in {"FAILED", "deleted"}
=============================================================================
