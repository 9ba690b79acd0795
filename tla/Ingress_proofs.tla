---------------------------- MODULE Ingress_proofs ----------------------------
(* Theorems about Ingress, for any mails, attempts, mailboxes and faults. *)
EXTENDS Ingress, TLAPS

USE TargetsAssumption, AttemptsAssumption, FaultsAssumption

-----------------------------------------------------------------------------
(* The inductive invariant. A mail is stored once because a transaction looks   *)
(* for its row; that what is accepted is stored, and that a raw object goes by  *)
(* a refusal only, rests on an answer being final once the handler is done.     *)

\* What an attempt has done goes with where it is.
Stages ==
  \A a \in Attempts :
    /\ edge[a] \in {"idle", "built"} => handler[a] = "none"
    /\ edge[a] = "idle" => a \notin raw
    /\ handler[a] = "resolved" => resolved[a] \in Targets
    /\ handler[a] \in {"failing", "done"} => answer[a] # "none"
    /\ edge[a] = "accepted" => answer[a] = "ok" /\ handler[a] = "done"
    /\ answer[a] = "ok" => RowsOf(mailOf[a]) # {}
    /\ a \in deletes => answer[a] = "refused" /\ handler[a] = "done"

RefusedForGood(a) == a \in raw /\ answer[a] = "refused" /\ handler[a] = "done"

\* A row that names a raw object comes from an attempt that wrote one.
RowsNameTheirOwn ==
  \A r \in messages : r.raw => r.by \in raw /\ mailOf[r.by] = r.mail

\* An object that was written and is gone was taken by a refused attempt.
GoneByRefusal ==
  \A a \in raw : mailOf[a] \notin bucket =>
    \E b \in raw : mailOf[b] = mailOf[a] /\ RefusedForGood(b)

IInv ==
  /\ TypeOK /\ Stages /\ RowsNameTheirOwn /\ GoneByRefusal
  /\ StoredOnce /\ ReservationHasReason
LEMMA InitInv == Init => IInv
BY DEF Init, IInv, TypeOK, Stages, RowsNameTheirOwn, GoneByRefusal, StoredOnce,
       ReservationHasReason, RowsOf

\* What holds of the tables holds while no transaction commits.
LEMMA TablesKept ==
  ASSUME IInv, UNCHANGED dbVars
  PROVE  /\ StoredOnce' /\ messages' = messages
         /\ \A m : RowsOf(m)' = RowsOf(m)
BY DEF IInv, StoredOnce, RowsOf, dbVars

-----------------------------------------------------------------------------
(* The email worker. *)

LEMMA StoreRawEmailInv ==
  ASSUME IInv, NEW a \in Attempts, StoreRawEmail(a)
  PROVE  IInv'
<1>. USE DEF IInv
<1>1. /\ edge[a] = "idle" /\ edge' = [edge EXCEPT ![a] = "built"]
      /\ \/ bucket' = bucket \cup {mailOf[a]} /\ raw' = raw \cup {a} /\ UNCHANGED faults
         \/ faults < MaxFaults /\ faults' = faults + 1 /\ UNCHANGED <<bucket, raw>>
      /\ UNCHANGED <<endpoint, target, mailOf, deletes, handler, resolved, answer, reserved,
                     messages, jobs, leaked>>
  BY DEF StoreRawEmail, Fault, settings, dbVars
<1>2. mailOf[a] \in Mails
  BY DEF TypeOK
<1>3. TypeOK'
  BY <1>1, <1>2 DEF TypeOK
<1>4. StoredOnce' /\ ReservationHasReason' /\ RowsNameTheirOwn'
  BY <1>1, TablesKept DEF ReservationHasReason, RowsNameTheirOwn, dbVars
<1>5. Stages'
  BY <1>1, TablesKept DEF Stages, TypeOK, dbVars
<1>6. GoneByRefusal'
  <2>1. \A b \in raw : RefusedForGood(b) => RefusedForGood(b)'
    BY <1>1 DEF RefusedForGood
  <2>. QED BY <1>1, <2>1 DEF GoneByRefusal, RefusedForGood
<1>. QED BY <1>3, <1>4, <1>5, <1>6

LEMMA DispatchIngressInv ==
  ASSUME IInv, NEW a \in Attempts, DispatchIngress(a)
  PROVE  IInv'
<1>. USE DEF IInv
<1>1. /\ edge[a] = "built" /\ edge' = [edge EXCEPT ![a] = "posted"]
      /\ handler' = [handler EXCEPT ![a] = "arrived"]
      /\ UNCHANGED <<endpoint, target, mailOf, raw, deletes, resolved, answer, reserved,
                     messages, jobs, bucket, faults, leaked>>
  BY DEF DispatchIngress, settings, dbVars
<1>2. handler[a] = "none"
  BY <1>1 DEF Stages
<1>3. TypeOK'
  BY <1>1 DEF TypeOK
<1>4. StoredOnce' /\ RowsNameTheirOwn'
  BY <1>1, TablesKept DEF RowsNameTheirOwn, dbVars
<1>5. ReservationHasReason'
  BY <1>1, <1>2, TablesKept DEF ReservationHasReason, TypeOK, dbVars
<1>6. Stages'
  BY <1>1, <1>2, TablesKept DEF Stages, TypeOK, dbVars
<1>7. GoneByRefusal'
  <2>1. \A b \in raw : RefusedForGood(b) => RefusedForGood(b)'
    BY <1>1, <1>2 DEF RefusedForGood, TypeOK
  <2>. QED BY <1>1, <2>1 DEF GoneByRefusal
<1>. QED BY <1>3, <1>4, <1>5, <1>6, <1>7

LEMMA HandleAnswerInv ==
  ASSUME IInv, NEW a \in Attempts, HandleAnswer(a)
  PROVE  IInv'
<1>. USE DEF IInv
<1>1. /\ edge[a] = "posted" /\ handler[a] = "done"
      /\ deletes' = deletes \/ (deletes' = deletes \cup {a} /\ a \in raw /\ answer[a] = "refused")
      /\ UNCHANGED <<endpoint, target, mailOf, raw, handler, resolved, answer, reserved,
                     messages, jobs, bucket, faults, leaked>>
  BY DEF HandleAnswer, Compensates, settings, dbVars
<1>2. answer[a] \in {"ok", "replay", "refused", "failed"}
  BY <1>1 DEF Stages, TypeOK
<1>3. PICK e \in {"accepted", "replayed", "rejected"} :
        edge' = [edge EXCEPT ![a] = e] /\ (e = "accepted" => answer[a] = "ok")
  <2>1. CASE answer[a] = "ok"
    BY <2>1 DEF HandleAnswer
  <2>2. CASE answer[a] = "replay"
    BY <2>2 DEF HandleAnswer
  <2>3. CASE answer[a] \in {"refused", "failed"}
    BY <2>3 DEF HandleAnswer
  <2>. QED BY <1>2, <2>1, <2>2, <2>3
<1>4. TypeOK'
  BY <1>1, <1>2, <1>3 DEF TypeOK
<1>5. StoredOnce' /\ RowsNameTheirOwn' /\ ReservationHasReason'
  BY <1>1, TablesKept DEF RowsNameTheirOwn, ReservationHasReason, dbVars
<1>6. Stages'
  BY <1>1, <1>3, TablesKept DEF Stages, TypeOK, dbVars
<1>7. GoneByRefusal'
  BY <1>1 DEF GoneByRefusal, RefusedForGood
<1>. QED BY <1>4, <1>5, <1>6, <1>7

LEMMA GiveUpInv ==
  ASSUME IInv, NEW a \in Attempts, GiveUp(a)
  PROVE  IInv'
<1>. USE DEF IInv
<1>1. /\ edge[a] = "posted" /\ edge' = [edge EXCEPT ![a] = "rejected"]
      /\ faults < MaxFaults /\ faults' = faults + 1
      /\ UNCHANGED <<endpoint, target, mailOf, raw, deletes, handler, resolved, answer,
                     reserved, messages, jobs, bucket, leaked>>
  BY DEF GiveUp, Fault, settings, dbVars
<1>2. TypeOK'
  BY <1>1 DEF TypeOK
<1>3. StoredOnce' /\ RowsNameTheirOwn' /\ ReservationHasReason' /\ GoneByRefusal'
  BY <1>1, TablesKept DEF RowsNameTheirOwn, ReservationHasReason, GoneByRefusal,
                          RefusedForGood, dbVars
<1>4. Stages'
  BY <1>1, TablesKept DEF Stages, TypeOK, dbVars
<1>. QED BY <1>2, <1>3, <1>4

LEMMA CompensateInv ==
  ASSUME IInv, NEW a \in Attempts, Compensate(a)
  PROVE  IInv'
<1>. USE DEF IInv
<1>1. /\ a \in deletes /\ deletes' = deletes \ {a}
      /\ \/ bucket' = bucket \ {mailOf[a]} /\ UNCHANGED faults
         \/ faults < MaxFaults /\ faults' = faults + 1 /\ UNCHANGED bucket
      /\ UNCHANGED <<endpoint, target, edge, mailOf, raw, handler, resolved, answer,
                     reserved, messages, jobs, leaked>>
  BY DEF Compensate, Fault, settings, dbVars
<1>2. RefusedForGood(a)
  BY <1>1 DEF Stages, TypeOK, RefusedForGood
<1>3. TypeOK'
  BY <1>1 DEF TypeOK
<1>4. StoredOnce' /\ RowsNameTheirOwn' /\ ReservationHasReason'
  BY <1>1, TablesKept DEF RowsNameTheirOwn, ReservationHasReason, dbVars
<1>5. Stages'
  BY <1>1, TablesKept DEF Stages, dbVars
<1>6. GoneByRefusal'
  <2>1. \A b \in Attempts : RefusedForGood(b)' = RefusedForGood(b)
    BY <1>1 DEF RefusedForGood
  <2>2. ASSUME NEW b \in raw, mailOf[b] \notin bucket'
        PROVE  \E c \in raw : mailOf[c] = mailOf[b] /\ RefusedForGood(c)
    BY <1>1, <1>2, <2>2 DEF GoneByRefusal, RefusedForGood
  <2>. QED BY <1>1, <2>1, <2>2 DEF GoneByRefusal, TypeOK
<1>. QED BY <1>3, <1>4, <1>5, <1>6

-----------------------------------------------------------------------------
(* The handler. Its steps have in common that they end at most one request, *)
(* which was not at its end before.                                         *)

HandlerStep(a, h, result) ==
  /\ handler' = [handler EXCEPT ![a] = h]
  /\ answer' = [answer EXCEPT ![a] = result]

LEMMA FinalAnswers ==
  ASSUME IInv, NEW a \in Attempts, handler[a] \notin {"none", "done"},
         NEW h \in {"reserved", "resolved", "failing", "done"},
         NEW result \in {"none", "ok", "replay", "refused", "failed"},
         HandlerStep(a, h, result), UNCHANGED <<workerVars, bucket>>,
         messages \subseteq messages',
         h = "resolved" => resolved'[a] \in Targets,
         result = "ok" => RowsOf(mailOf[a])' # {},
         h \in {"failing", "done"} => result # "none",
         \A b \in Attempts \ {a} : resolved'[b] = resolved[b]
  PROVE  Stages' /\ GoneByRefusal'
<1>. USE DEF IInv, workerVars
<1>1. \A b \in Attempts \ {a} : handler'[b] = handler[b] /\ answer'[b] = answer[b]
  BY DEF HandlerStep, TypeOK
<1>2. handler'[a] = h /\ answer'[a] = result
  BY DEF HandlerStep, TypeOK
<1>3. \A m : RowsOf(m) # {} => RowsOf(m)' # {}
  BY DEF RowsOf
<1>4. Stages'
  <2>. SUFFICES ASSUME NEW b \in Attempts
                PROVE  /\ edge[b] \in {"idle", "built"} => handler'[b] = "none"
                       /\ edge[b] = "idle" => b \notin raw
                       /\ handler'[b] = "resolved" => resolved'[b] \in Targets
                       /\ handler'[b] \in {"failing", "done"} => answer'[b] # "none"
                       /\ edge[b] = "accepted" => answer'[b] = "ok" /\ handler'[b] = "done"
                       /\ answer'[b] = "ok" => RowsOf(mailOf[b])' # {}
                       /\ b \in deletes => answer'[b] = "refused" /\ handler'[b] = "done"
    BY DEF Stages
  <2>1. CASE b = a
    BY <1>2, <2>1 DEF Stages
  <2>2. CASE b # a
    BY <1>1, <1>3, <2>2 DEF Stages
  <2>. QED BY <2>1, <2>2
<1>5. GoneByRefusal'
  <2>1. \A b \in raw : RefusedForGood(b) => RefusedForGood(b)'
    BY <1>1 DEF RefusedForGood, TypeOK
  <2>. QED BY <2>1 DEF GoneByRefusal
<1>. QED BY <1>4, <1>5

\* A step that writes no row keeps the tables.
LEMMA NoRowWritten ==
  ASSUME IInv, UNCHANGED <<dbVars, workerVars>>
  PROVE  StoredOnce' /\ RowsNameTheirOwn' /\ messages \subseteq messages'
BY TablesKept DEF IInv, RowsNameTheirOwn, workerVars, dbVars

LEMMA ReserveInv ==
  ASSUME IInv, NEW a \in Attempts, Reserve(a)
  PROVE  IInv'
<1>. USE DEF IInv
<1>1. /\ handler[a] = "arrived"
      /\ UNCHANGED <<settings, workerVars, resolved, dbVars, bucket>>
  BY DEF Reserve
<1>2. PICK h \in {"reserved", "done"}, result \in {"none", "refused", "replay", "failed", "ok"} :
        /\ HandlerStep(a, h, result)
        /\ result = "ok" => answer[a] = "ok"
        /\ h = "done" => result # "none"
        /\ reserved' = reserved \/ (/\ reserved' = [reserved EXCEPT ![mailOf[a]] = a]
                                    /\ h = "reserved" \/ a \in leaked')
        /\ leaked' = leaked \/ leaked' = leaked \cup {a}
        /\ faults' = faults \/ (faults < MaxFaults /\ faults' = faults + 1)
  <2>1. answer[a] \in {"none", "ok", "replay", "refused", "failed"}
    BY DEF TypeOK
  <2>2. answer = [answer EXCEPT ![a] = answer[a]]
    BY DEF TypeOK
  <2>3. CASE /\ reserved' = [reserved EXCEPT ![mailOf[a]] = a]
             /\ handler' = [handler EXCEPT ![a] = "reserved"]
             /\ UNCHANGED <<answer, faults, leaked>>
    BY <2>1, <2>2, <2>3 DEF HandlerStep
  <2>4. CASE (Finish(a, "refused") \/ Finish(a, "replay")) /\ UNCHANGED <<reserved, faults, leaked>>
    BY <2>4 DEF HandlerStep, Finish
  <2>5. CASE /\ Fault /\ Finish(a, "failed")
             /\ \/ UNCHANGED <<reserved, leaked>>
                \/ /\ reserved' = [reserved EXCEPT ![mailOf[a]] = a]
                   /\ leaked' = leaked \cup {a}
    BY <2>5 DEF HandlerStep, Finish, Fault
  <2>. QED BY <2>3, <2>4, <2>5 DEF Reserve
<1>3. mailOf[a] \in Mails
  BY DEF TypeOK
<1>4. TypeOK'
  BY <1>1, <1>2, <1>3 DEF TypeOK, HandlerStep, settings, workerVars, dbVars
<1>5. StoredOnce' /\ RowsNameTheirOwn' /\ messages \subseteq messages'
  BY <1>1, NoRowWritten
<1>6. \A m : RowsOf(m)' = RowsOf(m)
  BY <1>1, TablesKept
<1>7. Stages' /\ GoneByRefusal'
  <2>1. result = "ok" => RowsOf(mailOf[a])' # {}
    BY <1>1, <1>2, <1>6 DEF Stages, workerVars
  <2>. QED BY <1>1, <1>2, <1>5, <2>1, FinalAnswers
<1>8. ReservationHasReason'
  <2>. SUFFICES ASSUME NEW b \in Attempts, reserved'[mailOf[b]] = b
                PROVE  \/ handler'[b] \in {"reserved", "resolved", "failing"}
                       \/ RowsOf(mailOf[b])' # {}
                       \/ b \in leaked'
    BY <1>1 DEF ReservationHasReason, workerVars
  <2>1. CASE b = a
    BY <1>1, <1>2, <1>6, <2>1 DEF ReservationHasReason, HandlerStep, TypeOK, workerVars
  <2>2. CASE b # a
    BY <1>1, <1>2, <1>3, <1>6, <2>2 DEF ReservationHasReason, HandlerStep, TypeOK, workerVars
  <2>. QED BY <2>1, <2>2
<1>. QED BY <1>4, <1>5, <1>7, <1>8

\* The later steps of a request that has reserved its key.
LEMMA WorkingInv ==
  ASSUME IInv, NEW a \in Attempts, handler[a] \in {"reserved", "resolved"},
         NEW h \in {"resolved", "failing", "done"},
         HandlerStep(a, h, answer'[a]), UNCHANGED <<reserved, leaked, workerVars>>,
         messages \subseteq messages',
         h = "done" => RowsOf(mailOf[a])' # {}
  PROVE  ReservationHasReason'
<1>. USE DEF IInv
<1>1. \A m : RowsOf(m) # {} => RowsOf(m)' # {}
  BY DEF RowsOf
<1>2. handler'[a] = h /\ \A b \in Attempts \ {a} : handler'[b] = handler[b]
  BY DEF HandlerStep, TypeOK
<1>. QED BY <1>1, <1>2 DEF ReservationHasReason, workerVars

LEMMA ResolveInv ==
  ASSUME IInv, NEW a \in Attempts, Resolve(a)
  PROVE  IInv'
<1>. USE DEF IInv
<1>1. /\ handler[a] = "reserved"
      /\ UNCHANGED <<settings, workerVars, reserved, dbVars, bucket, leaked>>
  BY DEF Resolve
<1>2. target[mailOf[a]] \in Targets \cup {Refused}
  BY DEF TypeOK
<1>3. PICK h \in {"resolved", "failing"}, result \in {"none", "ok", "replay", "refused", "failed"} :
        /\ HandlerStep(a, h, result)
        /\ result = "ok" => answer[a] = "ok"
        /\ h = "failing" => result # "none"
        /\ \/ h = "resolved" /\ resolved' = [resolved EXCEPT ![a] = target[mailOf[a]]]
              /\ target[mailOf[a]] \in Targets
           \/ h = "failing" /\ resolved' = resolved
        /\ faults' = faults \/ (faults < MaxFaults /\ faults' = faults + 1)
  <2>1. answer[a] \in {"none", "ok", "replay", "refused", "failed"}
    BY DEF TypeOK
  <2>2. answer = [answer EXCEPT ![a] = answer[a]]
    BY DEF TypeOK
  <2>3. CASE handler' = [handler EXCEPT ![a] = "resolved"]
             /\ target[mailOf[a]] # Refused
             /\ resolved' = [resolved EXCEPT ![a] = target[mailOf[a]]]
             /\ UNCHANGED <<answer, faults>>
    BY <1>2, <2>1, <2>2, <2>3 DEF HandlerStep
  <2>4. CASE handler' = [handler EXCEPT ![a] = "failing"]
             /\ answer' = [answer EXCEPT ![a] = "refused"] /\ UNCHANGED <<resolved, faults>>
    BY <2>4 DEF HandlerStep
  <2>5. CASE handler' = [handler EXCEPT ![a] = "failing"] /\ Fault
             /\ answer' = [answer EXCEPT ![a] = "failed"] /\ UNCHANGED resolved
    BY <2>5 DEF HandlerStep, Fault
  <2>. QED BY <2>3, <2>4, <2>5 DEF Resolve
<1>4. TypeOK'
  BY <1>1, <1>2, <1>3 DEF TypeOK, HandlerStep, settings, workerVars, dbVars
<1>5. StoredOnce' /\ RowsNameTheirOwn' /\ messages \subseteq messages'
  BY <1>1, NoRowWritten
<1>6. \A m : RowsOf(m)' = RowsOf(m)
  BY <1>1, TablesKept
<1>7. Stages' /\ GoneByRefusal'
  <2>1. h = "resolved" => resolved'[a] \in Targets
    BY <1>3 DEF TypeOK
  <2>2. \A b \in Attempts \ {a} : resolved'[b] = resolved[b]
    BY <1>3 DEF TypeOK
  <2>3. result = "ok" => RowsOf(mailOf[a])' # {}
    BY <1>1, <1>3, <1>6 DEF Stages, workerVars
  <2>. QED BY <1>1, <1>3, <1>5, <2>1, <2>2, <2>3, FinalAnswers
<1>8. ReservationHasReason'
  <2>1. answer'[a] = result
    BY <1>3 DEF HandlerStep, TypeOK
  <2>. QED BY <1>1, <1>3, <1>5, <2>1, WorkingInv
<1>. QED BY <1>4, <1>5, <1>7, <1>8

LEMMA StoreInv ==
  ASSUME IInv, NEW a \in Attempts, Store(a)
  PROVE  IInv'
<1>. USE DEF IInv
<1>1. /\ handler[a] = "resolved" /\ resolved[a] \in Targets /\ mailOf[a] \in Mails
      /\ UNCHANGED <<settings, workerVars, resolved, reserved, bucket, leaked>>
  BY DEF Store, Stages, TypeOK
<1>2. \/ messages' = messages \cup Inserted(a) /\ jobs' = jobs \cup InsertedJobs(a)
      \/ UNCHANGED dbVars
  BY DEF Store
<1>3. PICK h \in {"failing", "done"}, result \in {"ok", "failed"} :
        /\ HandlerStep(a, h, result)
        /\ result = "ok" \/ h = "done" =>
             messages' = messages \cup Inserted(a) /\ jobs' = jobs \cup InsertedJobs(a)
        /\ faults' = faults \/ (faults < MaxFaults /\ faults' = faults + 1)
  BY DEF Store, HandlerStep, Finish, Fault
<1>4. RowsOf(mailOf[a]) = {} =>
        Inserted(a) = {[mail |-> mailOf[a], target |-> resolved[a], by |-> a, raw |-> a \in raw]}
  BY DEF Inserted
<1>5. Inserted(a) \subseteq Row /\ InsertedJobs(a) \subseteq Mails
  <2>1. (a \in raw) \in BOOLEAN
    OBVIOUS
  <2>2. [mail |-> mailOf[a], target |-> resolved[a], by |-> a, raw |-> a \in raw] \in Row
    BY <1>1, <2>1, Zenon DEF Row
  <2>3. Inserted(a) \subseteq Row
    BY <2>2, Zenon DEF Inserted
  <2>. QED BY <1>1, <2>3 DEF InsertedJobs
<1>6. TypeOK'
  BY <1>1, <1>2, <1>3, <1>5 DEF TypeOK, HandlerStep, settings, workerVars, dbVars
<1>7. messages \subseteq messages'
  BY <1>2 DEF dbVars
<1>8. StoredOnce'
  <2>1. CASE UNCHANGED dbVars
    BY <2>1, TablesKept
  <2>2. CASE /\ messages' = messages \cup Inserted(a) /\ jobs' = jobs \cup InsertedJobs(a)
             /\ RowsOf(mailOf[a]) # {}
    <3>1. UNCHANGED dbVars
      BY <2>2 DEF Inserted, InsertedJobs, dbVars
    <3>. QED BY <3>1, TablesKept
  <2>3. CASE /\ messages' = messages \cup Inserted(a) /\ jobs' = jobs \cup InsertedJobs(a)
             /\ RowsOf(mailOf[a]) = {}
    <3>. DEFINE row == [mail |-> mailOf[a], target |-> resolved[a], by |-> a, raw |-> a \in raw]
    <3>1. messages' = messages \cup {row}
      BY <1>4, <2>3
    <3>2. \A r \in messages : r.mail # mailOf[a]
      BY <2>3 DEF RowsOf
    <3>3. \A r, s \in messages' : r.mail = s.mail => r = s
      BY <3>1, <3>2 DEF StoredOnce
    <3>4. mailOf[a] \notin jobs
      BY <1>1, <2>3 DEF StoredOnce
    <3>5. jobs' = IF resolved[a] \in ForwardTargets THEN jobs \cup {mailOf[a]} ELSE jobs
      BY <2>3 DEF InsertedJobs
    <3>6. \A m \in Mails : m # mailOf[a] => RowsOf(m)' = RowsOf(m)
      BY <3>1 DEF RowsOf
    <3>7. \A m \in Mails : m = mailOf[a] => RowsOf(m)' = {row}
      BY <3>1, <3>2 DEF RowsOf
    <3>8. ASSUME NEW m \in Mails
          PROVE  m \in jobs' <=> \E r \in RowsOf(m)' : r.target \in ForwardTargets
      <4>1. CASE m = mailOf[a]
        <5>1. row.target = resolved[a]
          OBVIOUS
        <5>. HIDE DEF row
        <5>2. (\E r \in RowsOf(m)' : r.target \in ForwardTargets) <=> resolved[a] \in ForwardTargets
          BY <3>7, <4>1, <5>1
        <5>. QED BY <3>4, <3>5, <4>1, <5>2
      <4>2. CASE m # mailOf[a]
        BY <3>5, <3>6, <4>2 DEF StoredOnce
      <4>. QED BY <4>1, <4>2
    <3>. QED BY <3>3, <3>8 DEF StoredOnce
  <2>. QED BY <1>2, <2>1, <2>2, <2>3
<1>9. RowsNameTheirOwn'
  <2>1. \A r \in Inserted(a) : r.raw => r.by \in raw /\ mailOf[r.by] = r.mail
    <3>1. \A r \in Inserted(a) : r.by = a /\ r.mail = mailOf[a]
      BY DEF Inserted
    <3>. DEFINE row == [mail |-> mailOf[a], target |-> resolved[a], by |-> a, raw |-> a \in raw]
    <3>2. \A r \in Inserted(a) : r.raw => a \in raw
      <4>1. \A r \in Inserted(a) : r = row
        BY Zenon DEF Inserted
      <4>2. row.raw = (a \in raw)
        BY Zenon
      <4>. QED BY <4>1, <4>2, Zenon
    <3>. QED BY <3>1, <3>2
  <2>. QED BY <1>1, <1>2, <2>1 DEF RowsNameTheirOwn, workerVars, dbVars
<1>10. result = "ok" \/ h = "done" => RowsOf(mailOf[a])' # {}
  <2>1. Inserted(a) # {} => \E r \in Inserted(a) : r.mail = mailOf[a]
    BY <1>4 DEF Inserted
  <2>2. RowsOf(mailOf[a]) # {} \/ Inserted(a) # {}
    BY <1>4
  <2>3. mailOf' = mailOf
    BY <1>1 DEF workerVars
  <2>. QED BY <1>3, <2>1, <2>2, <2>3 DEF RowsOf
<1>11. Stages' /\ GoneByRefusal'
  BY <1>1, <1>3, <1>7, <1>10, FinalAnswers
<1>12. ReservationHasReason'
  <2>1. answer'[a] = result
    BY <1>3 DEF HandlerStep, TypeOK
  <2>. QED BY <1>1, <1>3, <1>7, <1>10, <2>1, WorkingInv
<1>. QED BY <1>6, <1>8, <1>9, <1>11, <1>12

LEMMA EndInv ==
  ASSUME IInv, NEW a \in Attempts, ReleaseReservation(a) \/ HandlerDies(a)
  PROVE  IInv'
<1>. USE DEF IInv
<1>1. /\ handler[a] \in {"arrived", "reserved", "resolved", "failing"}
      /\ UNCHANGED <<settings, workerVars, resolved, dbVars, bucket>>
  BY DEF ReleaseReservation, HandlerDies
<1>2. PICK result \in {"none", "ok", "replay", "refused", "failed"} :
        /\ HandlerStep(a, "done", result)
        /\ result = "ok" => answer[a] = "ok"
        /\ result # "none"
        /\ \/ reserved' = Freed(a) /\ leaked' = leaked
           \/ reserved' = reserved /\ leaked' = leaked \cup {a}
        /\ faults' = faults \/ (faults < MaxFaults /\ faults' = faults + 1)
  <2>1. answer[a] \in {"none", "ok", "replay", "refused", "failed"}
    BY DEF TypeOK
  <2>2. answer = [answer EXCEPT ![a] = answer[a]]
    BY DEF TypeOK
  <2>3. CASE ReleaseReservation(a)
    BY <2>1, <2>2, <2>3 DEF ReleaseReservation, HandlerStep, Fault, Stages
  <2>4. CASE HandlerDies(a)
    BY <2>4 DEF HandlerDies, HandlerStep, Finish, Fault
  <2>. QED BY <2>3, <2>4
<1>3. Freed(a) \in [Mails -> Attempts \cup {NoAttempt}]
  BY DEF Freed, TypeOK
<1>4. TypeOK'
  BY <1>1, <1>2, <1>3 DEF TypeOK, HandlerStep, settings, workerVars, dbVars
<1>5. StoredOnce' /\ RowsNameTheirOwn' /\ messages \subseteq messages'
  BY <1>1, NoRowWritten
<1>6. \A m : RowsOf(m)' = RowsOf(m)
  BY <1>1, TablesKept
<1>7. Stages' /\ GoneByRefusal'
  BY <1>1, <1>2, <1>5, <1>6, FinalAnswers DEF Stages, workerVars
<1>8. ReservationHasReason'
  <2>1. \A b \in Attempts \ {a} : handler'[b] = handler[b]
    BY <1>2 DEF HandlerStep, TypeOK
  <2>2. mailOf[a] \in Mails /\ reserved \in [Mails -> Attempts \cup {NoAttempt}]
    BY DEF TypeOK
  <2>3. \A b \in Attempts : reserved'[mailOf[b]] = b => reserved[mailOf[b]] = b
    BY <1>2, <2>2 DEF Freed, TypeOK
  <2>4. reserved'[mailOf[a]] = a => a \in leaked'
    BY <1>2, <2>2 DEF Freed
  <2>. QED BY <1>1, <1>2, <1>6, <2>1, <2>3, <2>4 DEF ReservationHasReason, workerVars
<1>. QED BY <1>4, <1>5, <1>7, <1>8

-----------------------------------------------------------------------------
(* Time and the administrator. *)

LEMMA RestInv ==
  ASSUME IInv, (\E m \in Mails : Expire(m)) \/ Administer
  PROVE  IInv'
<1>. USE DEF IInv
<1>1. /\ UNCHANGED <<workerVars, handler, resolved, answer, dbVars, bucket, faults, leaked>>
      /\ endpoint' \in BOOLEAN /\ target' \in [Mails -> Targets \cup {Refused}]
      /\ reserved' = reserved \/ \E m \in Mails : reserved' = [reserved EXCEPT ![m] = NoAttempt]
  <2>1. CASE \E m \in Mails : Expire(m)
    BY <2>1 DEF Expire, settings, TypeOK
  <2>2. CASE ChangeEndpoint
    BY <2>2 DEF ChangeEndpoint, TypeOK
  <2>3. CASE \E m \in Mails : ChangeTarget(m)
    BY <2>3 DEF ChangeTarget, TypeOK
  <2>. QED BY <2>1, <2>2, <2>3 DEF Administer
<1>2. TypeOK'
  BY <1>1 DEF TypeOK, workerVars, dbVars
<1>3. StoredOnce' /\ RowsNameTheirOwn' /\ Stages' /\ GoneByRefusal'
  BY <1>1, TablesKept DEF RowsNameTheirOwn, Stages, GoneByRefusal, RefusedForGood,
                          workerVars, dbVars
<1>4. ReservationHasReason'
  <2>1. \A b \in Attempts : reserved'[mailOf[b]] = b => reserved[mailOf[b]] = b
    BY <1>1 DEF TypeOK
  <2>. QED BY <1>1, <2>1, TablesKept DEF ReservationHasReason, workerVars
<1>. QED BY <1>2, <1>3, <1>4

LEMMA NextInv == IInv /\ [Next]_vars => IInv'
<1>. SUFFICES ASSUME IInv, [Next]_vars PROVE IInv'
  OBVIOUS
<1>1. CASE UNCHANGED vars
  BY <1>1, TablesKept DEF vars, settings, workerVars, dbVars, IInv, TypeOK, Stages,
     RowsNameTheirOwn, GoneByRefusal, RefusedForGood, ReservationHasReason
<1>2. ASSUME NEW a \in Attempts, Deliver(a) PROVE IInv'
  BY <1>2, StoreRawEmailInv, DispatchIngressInv, HandleAnswerInv, GiveUpInv, CompensateInv,
     ReserveInv, ResolveInv, StoreInv, EndInv DEF Deliver
<1>. QED BY <1>1, <1>2, RestInv DEF Next, SteadyNext

LEMMA Invariance == Spec => []IInv
BY InitInv, NextInv, PTL DEF Spec

-----------------------------------------------------------------------------
\* The state keeps its type: above all an object is deleted only by an attempt that
\* wrote one (shouldCompensateRawStorage).
THEOREM TypeCorrect == Spec => []TypeOK
BY Invariance, PTL DEF IInv

\* However often and however concurrently a mail is delivered, it has one row, with
\* the job its target asked for (ON CONFLICT DO NOTHING in ReceiveIngress).
THEOREM MailIsStoredOnce == Spec => []StoredOnce
BY Invariance, PTL DEF IInv

\* Whoever was told that a mail is stored will find it (the answer of receiveIngress).
THEOREM AcceptedMailIsStored == Spec => []AcceptedIsStored
<1>1. IInv => AcceptedIsStored
  BY DEF IInv, Stages, AcceptedIsStored
<1>. QED BY <1>1, Invariance, PTL

\* No delivery key is kept by a request that failed, unless Redis or its process
\* failed with it (the deferred Release).
THEOREM NoIdleReservation == Spec => []ReservationHasReason
BY Invariance, PTL DEF IInv

\* Only a permanent refusal of the same mail takes a stored message's raw object.
THEOREM OnlyRefusalsCompensate == Spec => []RawObjectGoesByRefusal
<1>1. IInv => RawObjectGoesByRefusal
  BY DEF IInv, TypeOK, Row, RowsNameTheirOwn, GoneByRefusal, RefusedForGood, RawObjectGoesByRefusal
<1>. QED BY <1>1, Invariance, PTL

\* A slow request frees no reservation but its own (replayReleaseScript).
THEOREM OnlyOwnIsReleased == Spec => ReleasesOnlyOwn
<1>1. ASSUME TypeOK, [Next]_vars, NEW m \in Mails, NEW a \in Attempts,
             reserved[m] = a, reserved'[m] # a
      PROVE  \/ handler[a] = "failing" /\ handler'[a] = "done"
             \/ reserved'[m] = NoAttempt /\ handler' = handler
  <2>. USE <1>1
  <2>1. CASE UNCHANGED vars
    BY <2>1 DEF vars
  <2>2. ASSUME NEW b \in Attempts, Reserve(b) PROVE FALSE
    BY <2>2 DEF Reserve, TypeOK
  <2>3. CASE \E b \in Attempts : ReleaseReservation(b)
    <3>1. PICK b \in Attempts : ReleaseReservation(b)
      BY <2>3
    <3>2. mailOf[b] = m /\ b = a
      BY <3>1 DEF ReleaseReservation, Freed, TypeOK
    <3>. QED BY <3>1, <3>2 DEF ReleaseReservation, TypeOK
  <2>4. CASE \E k \in Mails : Expire(k)
    BY <2>4 DEF Expire, TypeOK
  <2>5. ASSUME NEW b \in Attempts, Deliver(b), ~Reserve(b), ~ReleaseReservation(b) PROVE FALSE
    BY <2>5 DEF Deliver, StoreRawEmail, DispatchIngress, HandleAnswer, GiveUp, Compensate,
                Resolve, Store, HandlerDies
  <2>6. CASE Administer
    BY <2>6 DEF Administer, ChangeEndpoint, ChangeTarget
  <2>. QED BY <2>1, <2>2, <2>3, <2>4, <2>5, <2>6 DEF Next, SteadyNext
<1>2. TypeOK /\ [Next]_vars =>
        [\A m \in Mails, a \in Attempts :
           (reserved[m] = a /\ reserved'[m] # a) =>
             \/ handler[a] = "failing" /\ handler'[a] = "done"
             \/ reserved'[m] = NoAttempt /\ handler' = handler]_vars
  BY <1>1
<1>3. IInv => TypeOK
  BY DEF IInv
<1>. QED BY <1>2, <1>3, Invariance, PTL DEF Spec, ReleasesOnlyOwn
===============================================================================
