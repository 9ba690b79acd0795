------------------------------- MODULE Ingress -------------------------------
(***************************************************************************)
(* Receiving mail: the Cloudflare Email Worker that keeps the raw message   *)
(* in R2 and posts it, signed (cloudflare/workers/allmail-edge), and the    *)
(* core that reserves its delivery key in Redis and stores the message with *)
(* its forwarding job (ingress_handler.go, ingress_store.go).               *)
(*                                                                         *)
(* A mail stands for its delivery key, the digest of recipient address and  *)
(* message id: every attempt to deliver the mail has the same one. An       *)
(* attempt is one run of the email worker with the request it makes, whose  *)
(* handler lives on when the worker has given up.                           *)
(***************************************************************************)
EXTENDS Naturals, FiniteSets

CONSTANTS
  Mails,          \* delivery keys
  Attempts,       \* attempts to deliver, by any mail server
  Targets,        \* mailboxes the addresses resolve to
  ForwardTargets, \* those whose mail is forwarded
  Refused,        \* the domain, address or mailbox takes no mail (403, 404)
  NoAttempt,      \* the delivery key is not reserved
  MaxFaults       \* bound on failed calls and crashes

ASSUME TargetsAssumption == ForwardTargets \subseteq Targets /\ Refused \notin Targets
ASSUME AttemptsAssumption == NoAttempt \notin Attempts
ASSUME FaultsAssumption == MaxFaults \in Nat

VARIABLES
  endpoint,  \* the ingress endpoint is ACTIVE
  target,    \* what each mail's address resolves to
  edge,      \* each attempt's email worker
  mailOf,    \* the mail an attempt delivers
  raw,       \* the attempts that wrote the raw object, and say so in the payload
  handler,   \* each attempt's request in the core
  resolved,  \* the target a request resolved, before its transaction
  answer,    \* what the request answers
  reserved,  \* the attempt whose request holds the delivery key in Redis
  messages,  \* rows of inbound_messages
  jobs,      \* the mails with a row in mailbox_forward_jobs
  bucket,    \* the mails with a raw object in R2
  deletes,   \* attempts whose compensating delete is pending
  faults,
  leaked     \* history: requests that could not release their reservation

workerVars == <<edge, mailOf, raw, deletes>>
dbVars == <<messages, jobs>>
settings == <<endpoint, target>>
vars == <<settings, workerVars, handler, resolved, answer, reserved, dbVars, bucket,
          faults, leaked>>

Row == [mail : Mails, target : Targets, by : Attempts, raw : BOOLEAN]

Init ==
  /\ endpoint = TRUE
  /\ target \in [Mails -> Targets \cup {Refused}]
  /\ edge = [a \in Attempts |-> "idle"]
  /\ mailOf \in [Attempts -> Mails]
  /\ raw = {}
  /\ handler = [a \in Attempts |-> "none"]
  /\ resolved = [a \in Attempts |-> Refused]
  /\ answer = [a \in Attempts |-> "none"]
  /\ reserved = [m \in Mails |-> NoAttempt]
  /\ messages = {}
  /\ jobs = {}
  /\ bucket = {}
  /\ deletes = {}
  /\ faults = 0
  /\ leaked = {}

Fault == faults < MaxFaults /\ faults' = faults + 1

-----------------------------------------------------------------------------
(* The email worker.                                                       *)

\* buildIngressPayload: the raw message is kept under the delivery key; a
\* failed write is told in the payload and delivery goes on.
StoreRawEmail(a) ==
  /\ edge[a] = "idle"
  /\ edge' = [edge EXCEPT ![a] = "built"]
  /\ \/ /\ bucket' = bucket \cup {mailOf[a]}
        /\ raw' = raw \cup {a}
        /\ UNCHANGED faults
     \/ Fault /\ UNCHANGED <<bucket, raw>>
  /\ UNCHANGED <<settings, mailOf, deletes, handler, resolved, answer, reserved, dbVars,
                 leaked>>

DispatchIngress(a) ==
  /\ edge[a] = "built"
  /\ edge' = [edge EXCEPT ![a] = "posted"]
  /\ handler' = [handler EXCEPT ![a] = "arrived"]
  /\ UNCHANGED <<settings, mailOf, raw, deletes, resolved, answer, reserved, dbVars,
                 bucket, faults, leaked>>

\* Mutant: the raw object is deleted after any failure, transient ones (408, 409, 425,
\* 429, 5xx) included.
CompensatesAny(a) == answer[a] # "ok" /\ a \in raw

\* shouldCompensateRawStorage: only a permanent refusal takes the object back.
Compensates(a) == answer[a] = "refused" /\ a \in raw

\* isReplayAccepted: a replay counts as accepted, with no error thrown. The
\* raw object of a refused mail is deleted once handleEmail is over.
HandleAnswer(a) ==
  /\ edge[a] = "posted" /\ handler[a] = "done"
  /\ edge' = [edge EXCEPT ![a] =
       CASE answer[a] = "ok" -> "accepted"
         [] answer[a] = "replay" -> "replayed"
         [] answer[a] \in {"refused", "failed"} -> "rejected"]
  /\ deletes' = IF Compensates(a) THEN deletes \cup {a} ELSE deletes
  /\ UNCHANGED <<settings, mailOf, raw, handler, resolved, answer, reserved, dbVars,
                 bucket, faults, leaked>>

\* The answer never comes: fetch throws, the mail is rejected, and the request
\* goes on where it is.
GiveUp(a) ==
  /\ edge[a] = "posted"
  /\ Fault
  /\ edge' = [edge EXCEPT ![a] = "rejected"]
  /\ UNCHANGED <<settings, mailOf, raw, deletes, handler, resolved, answer, reserved,
                 dbVars, bucket, leaked>>

\* compensateRawStorage deletes by the key of the mail, and ignores a failure.
Compensate(a) ==
  /\ a \in deletes
  /\ deletes' = deletes \ {a}
  /\ \/ bucket' = bucket \ {mailOf[a]} /\ UNCHANGED faults
     \/ Fault /\ UNCHANGED bucket
  /\ UNCHANGED <<settings, edge, mailOf, raw, handler, resolved, answer, reserved, dbVars,
                 leaked>>

-----------------------------------------------------------------------------
(* The handler, receiveIngress.                                            *)

Finish(a, result) ==
  /\ handler' = [handler EXCEPT ![a] = "done"]
  /\ answer' = [answer EXCEPT ![a] = result]

\* The checks up to the endpoint's status and signature fail with a 4xx before
\* anything is reserved; then Reserve is SET NX. A Redis error is a 503, though
\* the key may have been set: nothing releases it then.
Reserve(a) ==
  /\ handler[a] = "arrived"
  /\ LET m == mailOf[a] IN
     \/ /\ ~endpoint
        /\ Finish(a, "refused")
        /\ UNCHANGED <<reserved, faults, leaked>>
     \/ /\ endpoint /\ reserved[m] = NoAttempt
        /\ reserved' = [reserved EXCEPT ![m] = a]
        /\ handler' = [handler EXCEPT ![a] = "reserved"]
        /\ UNCHANGED <<answer, faults, leaked>>
     \/ /\ endpoint /\ reserved[m] # NoAttempt
        /\ Finish(a, "replay")
        /\ UNCHANGED <<reserved, faults, leaked>>
     \/ /\ endpoint
        /\ Fault
        /\ Finish(a, "failed")
        /\ \/ UNCHANGED <<reserved, leaked>>
           \/ /\ reserved[m] = NoAttempt
              /\ reserved' = [reserved EXCEPT ![m] = a]
              /\ leaked' = leaked \cup {a}
  /\ UNCHANGED <<settings, workerVars, resolved, dbVars, bucket>>

\* ReceiveIngress reads domain and mailbox outside its transaction.
Resolve(a) ==
  /\ handler[a] = "reserved"
  /\ \/ /\ target[mailOf[a]] # Refused
        /\ handler' = [handler EXCEPT ![a] = "resolved"]
        /\ resolved' = [resolved EXCEPT ![a] = target[mailOf[a]]]
        /\ UNCHANGED <<answer, faults>>
     \/ /\ target[mailOf[a]] = Refused
        /\ handler' = [handler EXCEPT ![a] = "failing"]
        /\ answer' = [answer EXCEPT ![a] = "refused"]
        /\ UNCHANGED <<resolved, faults>>
     \/ /\ Fault
        /\ handler' = [handler EXCEPT ![a] = "failing"]
        /\ answer' = [answer EXCEPT ![a] = "failed"]
        /\ UNCHANGED resolved
  /\ UNCHANGED <<settings, workerVars, reserved, dbVars, bucket, leaked>>

RowsOf(m) == {r \in messages : r.mail = m}

\* Mutant: a job for every delivery.
JobsOfResolved(a) == IF resolved[a] \in ForwardTargets THEN {mailOf[a]} ELSE {}

\* ON CONFLICT (domain_id, delivery_key) DO NOTHING: a duplicate inserts no row,
\* and no job.
Inserted(a) ==
  IF RowsOf(mailOf[a]) # {} THEN {}
  ELSE {[mail |-> mailOf[a], target |-> resolved[a], by |-> a, raw |-> a \in raw]}

InsertedJobs(a) ==
  IF RowsOf(mailOf[a]) = {} /\ resolved[a] \in ForwardTargets THEN {mailOf[a]} ELSE {}

\* Mutant: the commit's error is ignored.
StoreUnchecked(a) ==
  /\ handler[a] = "resolved"
  /\ Finish(a, "ok")
  /\ \/ /\ messages' = messages \cup Inserted(a)
        /\ jobs' = jobs \cup InsertedJobs(a)
        /\ UNCHANGED faults
     \/ Fault /\ UNCHANGED dbVars
  /\ UNCHANGED <<settings, workerVars, resolved, reserved, bucket, leaked>>

\* The transaction. Its answer may be lost, after the commit or before.
Store(a) ==
  /\ handler[a] = "resolved"
  /\ \/ /\ messages' = messages \cup Inserted(a)
        /\ jobs' = jobs \cup InsertedJobs(a)
        /\ \/ Finish(a, "ok") /\ UNCHANGED faults
           \/ /\ Fault
              /\ handler' = [handler EXCEPT ![a] = "failing"]
              /\ answer' = [answer EXCEPT ![a] = "failed"]
     \/ /\ Fault
        /\ handler' = [handler EXCEPT ![a] = "failing"]
        /\ answer' = [answer EXCEPT ![a] = "failed"]
        /\ UNCHANGED dbVars
  /\ UNCHANGED <<settings, workerVars, resolved, reserved, bucket, leaked>>

\* Mutant: DEL, without comparing the value.
FreedByAnyone(a) == [reserved EXCEPT ![mailOf[a]] = NoAttempt]

\* replayReleaseScript deletes the key only if it still holds this request.
Freed(a) ==
  IF reserved[mailOf[a]] = a
  THEN [reserved EXCEPT ![mailOf[a]] = NoAttempt] ELSE reserved

\* Mutant: a failed request answers and keeps the key.
KeepReservation(a) ==
  /\ handler[a] = "failing"
  /\ handler' = [handler EXCEPT ![a] = "done"]
  /\ UNCHANGED <<settings, workerVars, resolved, answer, reserved, dbVars, bucket, faults,
                 leaked>>

\* The deferred Release of a request that failed, before its answer leaves.
ReleaseReservation(a) ==
  /\ handler[a] = "failing"
  /\ handler' = [handler EXCEPT ![a] = "done"]
  /\ \/ reserved' = Freed(a) /\ UNCHANGED <<faults, leaked>>
     \/ Fault /\ leaked' = leaked \cup {a} /\ UNCHANGED reserved
  /\ UNCHANGED <<settings, workerVars, resolved, answer, dbVars, bucket>>

\* The process dies, or the connection to it: the gateway answers 502.
HandlerDies(a) ==
  /\ handler[a] \in {"arrived", "reserved", "resolved", "failing"}
  /\ Fault
  /\ Finish(a, "failed")
  /\ leaked' = leaked \cup {a}
  /\ UNCHANGED <<settings, workerVars, resolved, reserved, dbVars, bucket>>

-----------------------------------------------------------------------------
(* The rest of the world.                                                  *)

\* The time to live of a reservation (twice the allowed skew, at least a
\* minute) passes. No bound on a request's time is assumed.
Expire(m) ==
  /\ reserved[m] # NoAttempt
  /\ reserved' = [reserved EXCEPT ![m] = NoAttempt]
  /\ UNCHANGED <<settings, workerVars, handler, resolved, answer, dbVars, bucket, faults,
                 leaked>>

ChangeEndpoint ==
  /\ endpoint' = ~endpoint
  /\ UNCHANGED <<target, workerVars, handler, resolved, answer, reserved, dbVars, bucket,
                 faults, leaked>>

ChangeTarget(m) ==
  /\ \E t \in (Targets \cup {Refused}) \ {target[m]} :
       target' = [target EXCEPT ![m] = t]
  /\ UNCHANGED <<endpoint, workerVars, handler, resolved, answer, reserved, dbVars, bucket,
                 faults, leaked>>

Deliver(a) ==
  \/ StoreRawEmail(a) \/ DispatchIngress(a) \/ HandleAnswer(a) \/ GiveUp(a)
  \/ Compensate(a)
  \/ Reserve(a) \/ Resolve(a) \/ Store(a) \/ ReleaseReservation(a) \/ HandlerDies(a)

Administer == ChangeEndpoint \/ \E m \in Mails : ChangeTarget(m)

\* SteadySpec is Spec under settings that stay as they are.
SteadyNext == (\E a \in Attempts : Deliver(a)) \/ (\E m \in Mails : Expire(m))
Next == SteadyNext \/ Administer

Spec == Init /\ [][Next]_vars
SteadySpec == Init /\ [][SteadyNext]_vars

-----------------------------------------------------------------------------
TypeOK ==
  /\ endpoint \in BOOLEAN /\ target \in [Mails -> Targets \cup {Refused}]
  /\ edge \in [Attempts ->
       {"idle", "built", "posted", "accepted", "replayed", "rejected"}]
  /\ mailOf \in [Attempts -> Mails]
  /\ handler \in [Attempts ->
       {"none", "arrived", "reserved", "resolved", "failing", "done"}]
  /\ resolved \in [Attempts -> Targets \cup {Refused}]
  /\ answer \in [Attempts -> {"none", "ok", "replay", "refused", "failed"}]
  /\ reserved \in [Mails -> Attempts \cup {NoAttempt}]
  /\ messages \subseteq Row /\ jobs \subseteq Mails
  /\ bucket \subseteq Mails
  /\ raw \subseteq Attempts /\ deletes \subseteq raw
  /\ faults \in 0..MaxFaults /\ leaked \subseteq Attempts

\* However often a mail is delivered, in parallel or again after a lost answer,
\* a crash or the end of its reservation, it is stored once, and its job is the
\* one its own target asked for.
StoredOnce ==
  /\ \A r, s \in messages : r.mail = s.mail => r = s
  /\ \A m \in Mails :
       m \in jobs <=> \E r \in RowsOf(m) : r.target \in ForwardTargets

\* What the core accepts is stored, whatever happens next.
AcceptedIsStored ==
  \A a \in Attempts : edge[a] = "accepted" => RowsOf(mailOf[a]) # {}

\* A delivery key stays reserved by a request that is at work or has stored its
\* mail, and by none that failed, unless Redis or the process failed with it.
ReservationHasReason ==
  \A a \in Attempts : reserved[mailOf[a]] = a =>
    \/ handler[a] \in {"reserved", "resolved", "failing"}
    \/ RowsOf(mailOf[a]) # {}
    \/ a \in leaked

\* A late release never frees a reservation that another request holds: the key
\* goes from one request to none only by its own hand or by its time to live.
ReleasesOnlyOwn ==
  [][\A m \in Mails, a \in Attempts :
       (reserved[m] = a /\ reserved'[m] # a) =>
         \/ handler[a] = "failing" /\ handler'[a] = "done"
         \/ reserved'[m] = NoAttempt /\ handler' = handler]_vars

\* Nothing but the compensation of a refused attempt takes away the raw object of
\* a stored message: no failed, lost, repeated or late attempt does.
RawObjectGoesByRefusal ==
  \A r \in messages : r.raw /\ r.mail \notin bucket =>
    \E a \in raw : mailOf[a] = r.mail /\ answer[a] = "refused"

\* "PostgreSQL stores the matching object key, but the complete RFC 822 message
\* remains in R2" (CLOUDFLARE-DEPLOY.md): a stored message that names a raw object
\* has it.
RawObjectIsKept == \A r \in messages : r.raw => r.mail \in bucket

Quiet(m) ==
  \A a \in Attempts : mailOf[a] = m => handler[a] \in {"none", "done"}

\* "replay response is treated as an accepted duplicate" (index.test.ts): a mail
\* whose sender was told so is stored, at the latest when no request for it is
\* left at work.
ReplayedIsStored ==
  \A a \in Attempts :
    edge[a] = "replayed" /\ Quiet(mailOf[a]) => RowsOf(mailOf[a]) # {}
=============================================================================
