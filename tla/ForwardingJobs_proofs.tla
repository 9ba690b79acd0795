------------------------ MODULE ForwardingJobs_proofs ------------------------
(* Theorems about ForwardingJobs, for every value of its constants. *)
EXTENDS ForwardingJobs, TLAPS

USE SentinelAssumption DEF Never

LEMMA FixedRows == {Absent, Queued, Erased} \subseteq Row
BY NumbersAssumption DEF Absent, Queued, Erased, RowOf, Row, Statuses

LEMMA DownIsRun == Down \in Run /\ Idle \in Run
BY NumbersAssumption DEF Down, Idle, NoClaims, Between, Run, Kept, Verdicts

LEMMA InitType == Init => TypeOK
BY FixedRows, DownIsRun, NumbersAssumption
   DEF Init, TypeOK, Fault, Routes

(* The retry delay is an instant or Never. *)
LEMMA RetryInIsTime ==
  ASSUME TypeOK, NEW w \in Workers
  PROVE  RetryIn(w) \in Nat \cup {Never}
<1>1. run[w].age \in Nat /\ run[w].seen \in Nat
  BY NumbersAssumption DEF TypeOK, Run
<1>2. Backoff(run[w].seen + 1) \in Nat
  <2>. DEFINE delay == InitialBackoff * 2^(run[w].seen + 1 - 1)
  <2>1. MaxBackoff \in Nat
    BY NumbersAssumption
  <2>2. delay \in 0..MaxBackoff => delay \in Nat
    BY <2>1
  <2>. QED BY <2>1, <2>2 DEF Backoff
<1>3. RetryAt(w) \in Nat
  BY <1>1, <1>2 DEF RetryAt
<1>. QED BY <1>3 DEF RetryIn

-----------------------------------------------------------------------------
(* The inductive invariant. TypeOK alone is not inductive: that attempts stay *)
(* within MaxAttempts rests on which jobs are open, on the count a worker     *)
(* read being the row's, and that in turn on who holds which token.           *)

\* A row carries a token exactly while it is RUNNING.
RowShape ==
  \A j \in Jobs : job[j].token # NoToken <=> job[j].status = "RUNNING"

\* A process has a token exactly while it has a run, and works on one of the
\* claims that remain.
WellFormed(r) ==
  /\ r.token = NoToken <=> r.pc \in {"down", "idle"}
  /\ r.token = NoToken => r.claims = NoClaims
  /\ r.cur \subseteq {j \in Jobs : r.claims[j] # "no"}
  /\ \A j, k \in r.cur : j = k
  /\ r.pc \notin {"await", "mark"} => r.cur = {}
  /\ r.pc = "await" => r.body \in Profiles

RunShape == \A w \in Workers : WellFormed(run[w])

TokensDistinct ==
  \A v, w \in Workers :
    (v # w /\ run[v].token = run[w].token) => run[v].token = NoToken

\* A result is only ever read from a provider that has accepted the job's mail.
ResultsAreReal ==
  \A w \in Workers : \A j \in run[w].cur :
    run[w].verdict = "sent" => accepted[j] # NoProfile

IInv ==
  /\ TypeOK /\ RowShape /\ RunShape /\ TokensDistinct
  /\ OpenJobsStayClaimable /\ LoadedCountIsCurrent
  /\ ResultsAreReal /\ SentWasAccepted /\ HiddenWhenMoved

LEMMA InitInv == Init => IInv
<1>. SUFFICES ASSUME Init PROVE IInv
  OBVIOUS
<1>1. TypeOK
  BY InitType
<1>2. RowShape /\ OpenJobsStayClaimable /\ SentWasAccepted /\ HiddenWhenMoved
  BY DEF Init, RowShape, OpenJobsStayClaimable, SentWasAccepted, HiddenWhenMoved,
         Absent, RowOf
<1>3. RunShape /\ TokensDistinct /\ LoadedCountIsCurrent /\ ResultsAreReal
  BY DEF Init, RunShape, WellFormed, TokensDistinct, LoadedCountIsCurrent, ResultsAreReal,
         Down, NoClaims, Between, Remaining
<1>. QED BY <1>1, <1>2, <1>3 DEF IInv

-----------------------------------------------------------------------------
(* The values the actions write are rows and runs. *)

LEMMA EndingIsRun ==
  ASSUME TypeOK, NEW w \in Workers
  PROVE  Ending(w) \in Run
BY NumbersAssumption DEF Ending, Between, TypeOK, Run, Verdicts

LEMMA DroppedIsRun ==
  ASSUME TypeOK, NEW w \in Workers, NEW j \in Jobs
  PROVE  Dropped(w, j) \in Run
BY NumbersAssumption DEF Dropped, Idle, NoClaims, Between, TypeOK, Run, Verdicts, Kept

LEMMA ClaimedIsRow ==
  ASSUME TypeOK, NEW j \in Jobs, NEW t \in Tokens
  PROVE  ClaimedRow(j, t) \in Row
BY NumbersAssumption DEF ClaimedRow, RowOf, TypeOK, Row, Statuses

LEMMA ReleasedIsRow ==
  ASSUME TypeOK, NEW w \in Workers, NEW j \in Remaining(w)
  PROVE  ReleasedRow(w, j) \in Row
BY DEF ReleasedRow, RowOf, TypeOK, Row, Run, Kept, Remaining, Statuses

LEMMA SettledIsRow ==
  ASSUME TypeOK, OpenJobsStayClaimable,
         NEW w \in Workers, NEW j \in Jobs, Holds(w, j)
  PROVE  SettledRow(w, j) \in Row
<1>1. job[j].attempts \in 0..MaxAttempts /\ job[j].attempts < MaxAttempts
  BY DEF Holds, TypeOK, Row, OpenJobsStayClaimable
<1>2. RetryIn(w) \in Nat \cup {Never}
  BY RetryInIsTime
<1>3. StatusFor(run[w].verdict) \in Statuses
  BY DEF StatusFor, Statuses
<1>. QED
  BY <1>1, <1>2, <1>3, NumbersAssumption DEF SettledRow, RowOf, Row

-----------------------------------------------------------------------------
(* Each action keeps the invariant. *)

\* CreateJob, RequeueForwardingJob and EraseJob write a row without a token,
\* which no process can then hold.
LEMMA FreshRowInv ==
  ASSUME IInv, NEW k \in Jobs, NEW r \in {Queued, Erased},
         job' = [job EXCEPT ![k] = r],
         hidden' = hidden \ {k},
         UNCHANGED <<route, owner, run, netVars, faults>>
  PROVE  IInv'
<1>. USE DEF IInv, netVars
<1>0. r \in Row /\ r.token = NoToken /\ r.status # "RUNNING" /\ r.status # "SENT"
  BY FixedRows DEF Queued, Erased, RowOf
<1>1. TypeOK'
  BY <1>0 DEF TypeOK
<1>2. RowShape'
  BY <1>0 DEF RowShape, TypeOK
<1>3. RunShape' /\ TokensDistinct' /\ ResultsAreReal'
  BY DEF RunShape, WellFormed, TokensDistinct, ResultsAreReal, Remaining
<1>4. OpenJobsStayClaimable'
  BY NumbersAssumption DEF OpenJobsStayClaimable, TypeOK, Queued, Erased, RowOf
<1>5. LoadedCountIsCurrent'
  BY <1>0 DEF LoadedCountIsCurrent, Holds, TypeOK
<1>6. SentWasAccepted' /\ HiddenWhenMoved'
  BY <1>0 DEF SentWasAccepted, HiddenWhenMoved, TypeOK
<1>. QED BY <1>1, <1>2, <1>3, <1>4, <1>5, <1>6

LEMMA EnvironmentInv ==
  ASSUME IInv, NEW k \in Jobs, Environment(k)
  PROVE  IInv'
<1>1. CASE CreateJob(k)
  <2>1. k \notin hidden
    BY <1>1 DEF CreateJob, IInv, HiddenWhenMoved
  <2>. QED BY <1>1, <2>1, FreshRowInv DEF CreateJob
<1>2. CASE RequeueForwardingJob(k)
  <2>1. k \notin hidden
    BY <1>2 DEF RequeueForwardingJob, IInv, HiddenWhenMoved
  <2>. QED BY <1>2, <2>1, FreshRowInv DEF RequeueForwardingJob
<1>3. CASE EraseJob(k)
  BY <1>3, FreshRowInv DEF EraseJob
<1>4. CASE ChangeSettings(k)
  <2>. USE <1>4 DEF ChangeSettings, dbVars, netVars, IInv
  <2>1. TypeOK' /\ RowShape' /\ SentWasAccepted' /\ HiddenWhenMoved'
    BY DEF TypeOK, RowShape, SentWasAccepted, HiddenWhenMoved
  <2>2. RunShape' /\ TokensDistinct' /\ ResultsAreReal'
    BY DEF RunShape, WellFormed, TokensDistinct, ResultsAreReal, Remaining
  <2>3. OpenJobsStayClaimable' /\ LoadedCountIsCurrent'
    BY DEF OpenJobsStayClaimable, LoadedCountIsCurrent, Holds
  <2>. QED BY <2>1, <2>2, <2>3
<1>. QED BY <1>1, <1>2, <1>3, <1>4 DEF Environment

\* Start, Stop, Crash, Abort and LoseLock leave the tables alone and let a
\* process drop its run or what it had loaded.
LEMMA ForgettingInv ==
  ASSUME IInv, NEW w \in Workers, NEW r,
         r \in {Down, Idle} \/ (r = Ending(w) /\ run[w].pc \in {"load", "await", "mark"}),
         run' = [run EXCEPT ![w] = r],
         owner' \in Workers \cup {NoWorker},
         faults' \in 0..MaxFaults,
         UNCHANGED <<dbVars, route, netVars>>
  PROVE  IInv'
<1>. USE DEF IInv, dbVars, netVars
<1>0. /\ r \in Run /\ r.cur = {}
      /\ r.token = NoToken <=> r.pc \in {"down", "idle"}
      /\ r.pc \notin {"await", "mark"}
      /\ r.token \in {NoToken, run[w].token}
      /\ r.token = NoToken => r.claims = NoClaims
  <2>1. CASE r \in {Down, Idle}
    BY <2>1, DownIsRun DEF Down, Idle, Between
  <2>2. CASE r = Ending(w) /\ run[w].pc \in {"load", "await", "mark"}
    BY <2>2, EndingIsRun DEF RunShape, WellFormed, Ending, Between
  <2>. QED BY <2>1, <2>2
<1>1. TypeOK'
  BY <1>0 DEF TypeOK
<1>2. RowShape' /\ OpenJobsStayClaimable' /\ SentWasAccepted' /\ HiddenWhenMoved'
  BY DEF RowShape, OpenJobsStayClaimable, SentWasAccepted, HiddenWhenMoved
<1>3. RunShape'
  BY <1>0 DEF RunShape, WellFormed, TypeOK, Remaining, NoClaims
<1>4. TokensDistinct'
  BY <1>0 DEF TokensDistinct, TypeOK
<1>5. LoadedCountIsCurrent' /\ ResultsAreReal'
  BY <1>0 DEF LoadedCountIsCurrent, ResultsAreReal, Holds, TypeOK
<1>. QED BY <1>1, <1>2, <1>3, <1>4, <1>5

LEMMA ProcessControlInv ==
  ASSUME IInv, NEW w \in Workers,
         Start(w) \/ Stop(w) \/ Crash(w) \/ Abort(w)
  PROVE  IInv'
<1>1. owner' \in Workers \cup {NoWorker}
  BY DEF IInv, TypeOK, Start, Stop, Crash, Abort, Unlock
<1>2. faults' \in 0..MaxFaults
  BY NumbersAssumption DEF IInv, TypeOK, Start, Stop, Crash, Abort, Fault
<1>3. UNCHANGED <<dbVars, route, netVars>>
  BY DEF Start, Stop, Crash, Abort
<1>4. CASE run' = [run EXCEPT ![w] = Idle]
  BY <1>1, <1>2, <1>3, <1>4, ForgettingInv
<1>5. CASE run' = [run EXCEPT ![w] = Down]
  BY <1>1, <1>2, <1>3, <1>5, ForgettingInv
<1>6. CASE Abort(w)
  <2>1. run' = [run EXCEPT ![w] = Ending(w)] /\ run[w].pc \in {"load", "await", "mark"}
    BY <1>6 DEF Abort
  <2>. QED BY <1>1, <1>2, <1>3, <2>1, ForgettingInv
<1>. QED BY <1>4, <1>5, <1>6 DEF Start, Stop, Crash

\* A new token is held by no process and written in no row.
LEMMA ClaimInv ==
  ASSUME IInv, NEW w \in Workers, Claim(w)
  PROVE  IInv'
<1>. USE DEF IInv
<1>1. PICK S \in SUBSET Claimable, t \in FreshTokens :
         /\ job' = [j \in Jobs |-> IF j \in S THEN ClaimedRow(j, t) ELSE job[j]]
         /\ \/ /\ run' = [run EXCEPT ![w] =
                    Between("load", t, [j \in Jobs |->
                       IF j \in S THEN PreviousStatus(j) ELSE "no"], 0)]
               /\ UNCHANGED faults
            \/ Fault /\ UNCHANGED run
  BY DEF Claim
<1>. UNCHANGED <<hidden, route, owner, wire, accepted>> /\ run[w].pc = "idle"
  BY DEF Claim, netVars
<1>. DEFINE claims == [j \in Jobs |-> IF j \in S THEN PreviousStatus(j) ELSE "no"]
            r == Between("load", t, claims, 0)
<1>2. /\ t \in Tokens /\ t # NoToken
      /\ \A j \in Jobs : job[j].token # t
      /\ \A v \in Workers : run[v].token # t
  BY DEF FreshTokens
<1>3. \A j \in S : j \in Jobs /\ job[j].status \in {"PENDING", "FAILED", "RUNNING"}
                 /\ job[j].next # Never
  BY DEF Claimable, Due, OpenJobsStayClaimable
<1>4. claims \in [Jobs -> Kept]
  BY <1>3 DEF PreviousStatus, Kept
<1>5. r \in Run /\ r.pc = "load" /\ r.token = t /\ r.cur = {} /\ r.verdict = "none"
  BY <1>2, <1>4, NumbersAssumption DEF Between, Run, Verdicts
<1>6. \A j \in S : /\ job'[j].status = "RUNNING" /\ job'[j].token = t
                  /\ job'[j].next = job[j].next
                  /\ job'[j].attempts = job[j].attempts
  BY <1>1, <1>3 DEF ClaimedRow, RowOf
<1>7. \A j \in Jobs \ S : job'[j] = job[j]
  BY <1>1
<1>8. run' = run \/ run' = [run EXCEPT ![w] = r]
  BY <1>1
<1>9. TypeOK'
  <2>1. \A j \in Jobs : job'[j] \in Row
    BY <1>1, <1>2, <1>7, ClaimedIsRow DEF TypeOK
  <2>2. job' \in [Jobs -> Row]
    BY <1>1, <2>1
  <2>3. run' \in [Workers -> Run]
    BY <1>5, <1>8 DEF TypeOK
  <2>4. faults' \in 0..MaxFaults
    BY <1>1, NumbersAssumption DEF Fault, TypeOK
  <2>. QED BY <2>2, <2>3, <2>4 DEF TypeOK
<1>10. RowShape'
  BY <1>2, <1>6, <1>7 DEF RowShape
<1>11. RunShape'
  BY <1>2, <1>5, <1>8 DEF RunShape, WellFormed, TypeOK, Remaining
<1>12. TokensDistinct'
  BY <1>2, <1>5, <1>8 DEF TokensDistinct, TypeOK
<1>13. OpenJobsStayClaimable'
  BY <1>3, <1>6, <1>7 DEF OpenJobsStayClaimable
<1>14. LoadedCountIsCurrent' /\ ResultsAreReal'
  BY <1>2, <1>5, <1>6, <1>7, <1>8
     DEF LoadedCountIsCurrent, ResultsAreReal, Holds, TypeOK, RunShape, WellFormed, Remaining
<1>15. SentWasAccepted' /\ HiddenWhenMoved'
  BY <1>3, <1>6, <1>7 DEF SentWasAccepted, HiddenWhenMoved
<1>. QED BY <1>9, <1>10, <1>11, <1>12, <1>13, <1>14, <1>15

LEMMA LoseLockInv ==
  ASSUME IInv, NEW w \in Workers, LoseLock(w)
  PROVE  IInv'
<1>. USE DEF IInv, LoseLock, dbVars, netVars
<1>1. TypeOK'
  BY NumbersAssumption DEF TypeOK, Fault
<1>2. RowShape' /\ OpenJobsStayClaimable' /\ SentWasAccepted' /\ HiddenWhenMoved'
  BY DEF RowShape, OpenJobsStayClaimable, SentWasAccepted, HiddenWhenMoved
<1>3. RunShape' /\ TokensDistinct' /\ LoadedCountIsCurrent' /\ ResultsAreReal'
  BY DEF RunShape, WellFormed, TokensDistinct, LoadedCountIsCurrent, ResultsAreReal, Remaining,
         Holds
<1>. QED BY <1>1, <1>2, <1>3

\* What a process does with its own run state, keeping its token or its end.
\* r is the new state of process w.
LEMMA RunStepInv ==
  ASSUME IInv, NEW w \in Workers, NEW r \in Run,
         run' = [run EXCEPT ![w] = r],
         r.token \in {NoToken, run[w].token},
         WellFormed(r),
         \A j \in r.cur : job[j].status = "RUNNING" /\ job[j].token = r.token
                          => r.seen = job[j].attempts,
         \A j \in r.cur : r.verdict = "sent" => accepted[j] # NoProfile,
         wire' \subseteq Jobs \X Profiles,
         UNCHANGED <<dbVars, route, owner, accepted, faults>>
  PROVE  IInv'
<1>. USE DEF IInv, dbVars
<1>1. TypeOK'
  BY DEF TypeOK
<1>2. RowShape' /\ OpenJobsStayClaimable' /\ SentWasAccepted' /\ HiddenWhenMoved'
  BY DEF RowShape, OpenJobsStayClaimable, SentWasAccepted, HiddenWhenMoved
<1>3. RunShape'
  BY DEF RunShape, WellFormed, TypeOK, Remaining, NoClaims
<1>4. TokensDistinct'
  BY DEF TokensDistinct, TypeOK
<1>5. LoadedCountIsCurrent' /\ ResultsAreReal'
  BY DEF LoadedCountIsCurrent, ResultsAreReal, Holds, TypeOK
<1>. QED BY <1>1, <1>2, <1>3, <1>4, <1>5

LEMMA DroppedShape ==
  ASSUME IInv, NEW w \in Workers, NEW j \in Jobs, run[w].token # NoToken
  PROVE  /\ Dropped(w, j) \in Run
         /\ Dropped(w, j).token \in {NoToken, run[w].token}
         /\ Dropped(w, j).cur = {} /\ WellFormed(Dropped(w, j))
BY DroppedIsRun DEF IInv, Dropped, Idle, Between, WellFormed

LEMMA LoadInv ==
  ASSUME IInv, NEW w \in Workers, Load(w)
  PROVE  IInv'
<1>. USE DEF IInv
<1>1. PICK j \in Remaining(w) :
         \/ run' = [run EXCEPT ![w] = Dropped(w, j)] /\ UNCHANGED wire
         \/ /\ run' = [run EXCEPT ![w] = Loaded(w, j, "mark", NoProfile, Refusal(j))]
            /\ UNCHANGED wire
         \/ /\ run' = [run EXCEPT ![w] = Loaded(w, j, "await", route[j], "none")]
            /\ route[j] \in Profiles
            /\ wire' = wire \cup {<<j, route[j]>>}
  BY DEF Load
<1>2. /\ run[w].pc = "load" /\ j \in Jobs
      /\ UNCHANGED <<dbVars, route, owner, accepted, faults>>
      /\ run[w] \in Run /\ job[j] \in Row
      /\ run[w].token # NoToken
  BY DEF Load, Remaining, TypeOK, RunShape, WellFormed
<1>3. CASE run' = [run EXCEPT ![w] = Dropped(w, j)] /\ UNCHANGED wire
  <2>1. wire' \subseteq Jobs \X Profiles
    BY <1>3 DEF TypeOK
  <2>. QED BY <1>2, <1>3, <2>1, DroppedShape, RunStepInv
<1>4. ASSUME NEW pc \in {"await", "mark"}, NEW body \in Profiles \cup {NoProfile},
             NEW v \in Verdicts \ {"sent"},
             run' = [run EXCEPT ![w] = Loaded(w, j, pc, body, v)],
             pc = "await" => body \in Profiles,
             wire' \subseteq Jobs \X Profiles
      PROVE  IInv'
  <2>. DEFINE r == Loaded(w, j, pc, body, v)
  <2>1. /\ r \in Run /\ r.token = run[w].token /\ r.claims = run[w].claims
        /\ r.pc = pc /\ r.body = body /\ r.cur = {j}
        /\ r.seen = job[j].attempts /\ r.verdict = v
    BY <1>2 DEF Run, Row, Loaded
  <2>2. run' = [run EXCEPT ![w] = r]
    BY <1>4
  <2>. HIDE DEF r
  <2>3. WellFormed(r)
    BY <1>1, <1>2, <1>4, <2>1 DEF WellFormed, Remaining
  <2>. QED BY <1>2, <1>4, <2>1, <2>2, <2>3, RunStepInv
<1>5. Refusal(j) \in Verdicts \ {"sent"} /\ "none" \in Verdicts \ {"sent"}
  BY DEF Refusal, Verdicts
<1>6. wire' \subseteq Jobs \X Profiles
  BY <1>1, <1>2 DEF TypeOK
<1>. QED BY <1>1, <1>3, <1>4, <1>5, <1>6

LEMMA AnswerInv ==
  ASSUME IInv, NEW w \in Workers, Answer(w)
  PROVE  IInv'
<1>. USE DEF IInv
<1>1. PICK j \in run[w].cur, v \in {"sent", "reject", "retry"} :
         /\ v = "sent" => accepted[j] = run[w].body
         /\ run' = [run EXCEPT ![w] =
              [@ EXCEPT !.pc = "mark", !.body = NoProfile, !.verdict = v]]
  BY DEF Answer
<1>2. /\ run[w].pc = "await"
      /\ UNCHANGED <<dbVars, route, owner, wire, accepted, faults>>
      /\ run[w] \in Run /\ run[w].body \in Profiles /\ run[w].token # NoToken
  BY DEF Answer, netVars, TypeOK, RunShape, WellFormed
<1>. DEFINE r == [run[w] EXCEPT !.pc = "mark", !.body = NoProfile, !.verdict = v]
<1>3. /\ r \in Run /\ r.token = run[w].token /\ r.claims = run[w].claims
      /\ r.pc = "mark" /\ r.cur = run[w].cur /\ r.seen = run[w].seen
      /\ r.verdict = v
  BY <1>2 DEF Run, Verdicts
<1>4. run' = [run EXCEPT ![w] = r]
  BY <1>1
<1>. HIDE DEF r
<1>5. \A k \in r.cur : r.verdict = "sent" => accepted[k] # NoProfile
  <2>1. \A k \in run[w].cur : k = j
    BY DEF RunShape, WellFormed
  <2>. QED BY <1>1, <1>2, <1>3, <2>1
<1>6. \A k \in r.cur : job[k].status = "RUNNING" /\ job[k].token = r.token
                       => r.seen = job[k].attempts
  BY <1>3 DEF LoadedCountIsCurrent, Holds
<1>7. wire' \subseteq Jobs \X Profiles
  BY <1>2 DEF TypeOK
<1>8. WellFormed(r)
  BY <1>2, <1>3 DEF WellFormed, RunShape
<1>. QED BY <1>2, <1>3, <1>4, <1>5, <1>6, <1>7, <1>8, RunStepInv

LEMMA EndingShape ==
  ASSUME IInv, NEW w \in Workers, run[w].token # NoToken
  PROVE  /\ Ending(w) \in Run /\ Ending(w).token \in {NoToken, run[w].token}
         /\ Ending(w).cur = {} /\ WellFormed(Ending(w))
BY EndingIsRun DEF IInv, Ending, Between, WellFormed

LEMMA MarkInv ==
  ASSUME IInv, NEW w \in Workers, Mark(w)
  PROVE  IInv'
<1>. USE DEF IInv
<1>0. /\ run[w].pc = "mark" /\ run[w].token # NoToken /\ run[w].cur \subseteq Jobs
      /\ UNCHANGED <<route, owner, wire, accepted>>
  BY DEF Mark, netVars, RunShape, WellFormed, TypeOK, Run
<1>1. CASE \E j \in run[w].cur :
             /\ ~Holds(w, j)
             /\ run' = [run EXCEPT ![w] = Dropped(w, j)]
             /\ UNCHANGED <<dbVars, faults>>
  <2>1. wire' \subseteq Jobs \X Profiles
    BY <1>0 DEF TypeOK
  <2>. QED BY <1>0, <1>1, <2>1, DroppedShape, RunStepInv
<1>2. ASSUME NEW j \in run[w].cur,
             NEW r \in {Dropped(w, j), Ending(w)},
             Holds(w, j),
             job' = [job EXCEPT ![j] = SettledRow(w, j)],
             hidden' = IF Hides(w, j) THEN hidden \cup {j} ELSE hidden,
             run' = [run EXCEPT ![w] = r],
             faults' \in 0..MaxFaults
      PROVE  IInv'
  <2>1. /\ r \in Run /\ r.token \in {NoToken, run[w].token}
        /\ r.cur = {} /\ WellFormed(r)
    BY <1>0, <1>2, DroppedShape, EndingShape
  <2>2. /\ j \in Jobs /\ job[j].status = "RUNNING" /\ job[j].attempts = run[w].seen
        /\ job[j].attempts \in Nat
    BY <1>0, <1>2 DEF Holds, LoadedCountIsCurrent, TypeOK, Row
  <2>. DEFINE s == SettledRow(w, j)
  <2>3. /\ s \in Row /\ s.token = NoToken
        /\ s.status \in {"SENT", "FAILED", "SKIPPED"}
        /\ s.status = "SENT" <=> run[w].verdict = "sent"
        /\ s.next # Never => s.status = "FAILED" /\ s.attempts < MaxAttempts
    <3>1. s \in Row
      BY <1>2, <2>2, SettledIsRow
    <3>2. /\ s.token = NoToken /\ s.status = StatusFor(run[w].verdict)
          /\ s.next = RetryIn(w)
          /\ run[w].verdict = "retry" => s.attempts = run[w].seen + 1
      BY <2>2 DEF SettledRow, RowOf
    <3>. QED BY <3>1, <3>2 DEF StatusFor, RetryIn
  <2>. HIDE DEF s
  <2>4. job' = [job EXCEPT ![j] = s] /\ job \in [Jobs -> Row]
    BY <1>2 DEF TypeOK, s
  <2>5. TypeOK'
    BY <1>0, <1>2, <2>1, <2>2, <2>3, <2>4 DEF TypeOK
  <2>6. RowShape'
    BY <2>3, <2>4 DEF RowShape
  <2>7. RunShape' /\ TokensDistinct'
    BY <1>2, <2>1 DEF RunShape, TokensDistinct, TypeOK
  <2>8. OpenJobsStayClaimable'
    BY <2>3, <2>4 DEF OpenJobsStayClaimable
  <2>9. LoadedCountIsCurrent' /\ ResultsAreReal'
    BY <1>0, <1>2, <2>1, <2>2, <2>3, <2>4
       DEF LoadedCountIsCurrent, ResultsAreReal, Holds, TypeOK
  <2>10. SentWasAccepted' /\ HiddenWhenMoved'
    BY <1>0, <1>2, <2>2, <2>3, <2>4
       DEF SentWasAccepted, HiddenWhenMoved, ResultsAreReal, Hides
  <2>. QED BY <2>5, <2>6, <2>7, <2>8, <2>9, <2>10
<1>3. Fault => faults' \in 0..MaxFaults
  BY NumbersAssumption DEF Fault, TypeOK
<1>4. UNCHANGED faults => faults' \in 0..MaxFaults
  BY DEF TypeOK
<1>. QED BY <1>1, <1>2, <1>3, <1>4 DEF Mark

LEMMA ReleaseInv ==
  ASSUME IInv, NEW w \in Workers, Release(w)
  PROVE  IInv'
<1>. USE DEF IInv
<1>0. /\ run[w].pc = "release" /\ run' = [run EXCEPT ![w] = Idle]
      /\ UNCHANGED <<hidden, route, owner, wire, accepted>>
  BY DEF Release, netVars
<1>1. faults' \in 0..MaxFaults
  BY NumbersAssumption DEF Release, Fault, TypeOK
<1>2. \A j \in Jobs :
        \/ job'[j] = job[j]
        \/ /\ job[j].status = "RUNNING" /\ job'[j] \in Row
           /\ job'[j].token = NoToken /\ job'[j].status \in {"PENDING", "FAILED"}
           /\ job'[j].next = job[j].next /\ job'[j].attempts = job[j].attempts
  <2>. SUFFICES ASSUME NEW j \in Remaining(w), Holds(w, j),
                       job'[j] = ReleasedRow(w, j)
                PROVE  /\ job[j].status = "RUNNING" /\ job'[j] \in Row
                       /\ job'[j].token = NoToken
                       /\ job'[j].status \in {"PENDING", "FAILED"}
                       /\ job'[j].next = job[j].next
                       /\ job'[j].attempts = job[j].attempts
    BY DEF Release
  <2>1. run[w].claims[j] \in {"PENDING", "FAILED"}
    BY DEF Remaining, TypeOK, Run, Kept
  <2>. QED BY <2>1, ReleasedIsRow DEF ReleasedRow, RowOf, Holds
<1>3. job' \in [Jobs -> Row]
  BY <1>2 DEF Release, TypeOK
<1>4. Idle \in Run /\ Idle.cur = {} /\ Idle.token = NoToken /\ WellFormed(Idle)
  BY DownIsRun DEF Idle, Between, WellFormed
<1>5. TypeOK'
  BY <1>0, <1>1, <1>3, <1>4 DEF TypeOK
<1>6. RowShape' /\ OpenJobsStayClaimable'
  BY <1>2 DEF RowShape, OpenJobsStayClaimable
<1>7. RunShape' /\ TokensDistinct'
  BY <1>0, <1>4 DEF RunShape, TokensDistinct, TypeOK
<1>8. LoadedCountIsCurrent' /\ ResultsAreReal'
  <2>1. \A v \in Workers : run'[v].cur = {} \/ run'[v] = run[v]
    BY <1>0, <1>4 DEF TypeOK
  <2>2. \A v \in Workers : run[v].cur \subseteq Jobs
    BY DEF TypeOK, Run
  <2>3. ResultsAreReal'
    BY <1>0, <2>1 DEF ResultsAreReal
  <2>4. LoadedCountIsCurrent'
    BY <1>2, <2>1, <2>2 DEF LoadedCountIsCurrent, Holds
  <2>. QED BY <2>3, <2>4
<1>9. SentWasAccepted' /\ HiddenWhenMoved'
  BY <1>0, <1>2 DEF SentWasAccepted, HiddenWhenMoved
<1>. QED BY <1>5, <1>6, <1>7, <1>8, <1>9

LEMMA ProviderInv ==
  ASSUME IInv, NEW q \in Jobs \X Profiles, ProviderTakes(q)
  PROVE  IInv'
<1>. USE DEF IInv, ProviderTakes, dbVars
<1>1. \A j \in Jobs : accepted[j] # NoProfile => accepted'[j] = accepted[j]
  BY DEF TypeOK
<1>2. TypeOK'
  BY DEF TypeOK
<1>3. RowShape' /\ OpenJobsStayClaimable' /\ HiddenWhenMoved'
  BY DEF RowShape, OpenJobsStayClaimable, HiddenWhenMoved
<1>4. RunShape' /\ TokensDistinct' /\ LoadedCountIsCurrent'
  BY DEF RunShape, TokensDistinct, LoadedCountIsCurrent, Holds
<1>5. SentWasAccepted' /\ ResultsAreReal'
  BY <1>1 DEF SentWasAccepted, ResultsAreReal, TypeOK, Run
<1>. QED BY <1>2, <1>3, <1>4, <1>5

LEMMA TickInv ==
  ASSUME IInv, Tick
  PROVE  IInv'
<1>. USE DEF IInv
<1>0. UNCHANGED <<hidden, route, owner, wire, accepted, faults>>
  BY DEF Tick, netVars
<1>1. \A j \in Jobs :
        /\ job'[j] \in Row
        /\ job'[j].status = job[j].status /\ job'[j].attempts = job[j].attempts
        /\ job'[j].token = job[j].token
        /\ job'[j].next = Never <=> job[j].next = Never
  BY DEF Tick, TypeOK, Row, RowOf, CountDown
<1>2. \A w \in Workers :
        /\ run'[w] \in Run /\ run'[w].pc = run[w].pc
        /\ run'[w].token = run[w].token /\ run'[w].claims = run[w].claims
        /\ run'[w].cur = run[w].cur /\ run'[w].seen = run[w].seen
        /\ run'[w].body = run[w].body /\ run'[w].verdict = run[w].verdict
  <2>. TAKE w \in Workers
  <2>1. run[w] \in Run /\ run[w].age + 1 \in Nat
    BY DEF TypeOK, Run
  <2>2. run'[w] = run[w] \/ run'[w] = [run[w] EXCEPT !.age = run[w].age + 1]
    BY DEF Tick
  <2>. QED BY <2>1, <2>2 DEF Run
<1>3. job' \in [Jobs -> Row] /\ run' \in [Workers -> Run]
  BY <1>1, <1>2 DEF Tick
<1>4. TypeOK'
  BY <1>0, <1>3 DEF TypeOK
<1>5. RowShape' /\ OpenJobsStayClaimable'
  BY <1>1 DEF RowShape, OpenJobsStayClaimable
<1>6. RunShape' /\ TokensDistinct'
  BY <1>2 DEF RunShape, WellFormed, TokensDistinct
<1>7. LoadedCountIsCurrent' /\ ResultsAreReal'
  <2>1. \A w \in Workers : run[w].cur \subseteq Jobs
    BY DEF TypeOK, Run
  <2>. QED BY <1>0, <1>1, <1>2, <2>1 DEF LoadedCountIsCurrent, ResultsAreReal, Holds
<1>8. SentWasAccepted' /\ HiddenWhenMoved'
  BY <1>0, <1>1 DEF SentWasAccepted, HiddenWhenMoved
<1>. QED BY <1>4, <1>5, <1>6, <1>7, <1>8

LEMMA NextInv ==
  ASSUME IInv, [Next]_vars
  PROVE  IInv'
<1>1. CASE UNCHANGED vars
  <2>. USE <1>1 DEF vars, IInv
  <2>1. TypeOK' /\ RowShape' /\ RunShape' /\ TokensDistinct'
    BY DEF TypeOK, RowShape, RunShape, TokensDistinct
  <2>2. OpenJobsStayClaimable' /\ LoadedCountIsCurrent' /\ ResultsAreReal'
    BY DEF OpenJobsStayClaimable, LoadedCountIsCurrent, ResultsAreReal, Holds
  <2>3. SentWasAccepted' /\ HiddenWhenMoved'
    BY DEF SentWasAccepted, HiddenWhenMoved
  <2>. QED BY <2>1, <2>2, <2>3
<1>2. ASSUME NEW w \in Workers, Process(w)
      PROVE  IInv'
  BY <1>2, ProcessControlInv, LoseLockInv, ClaimInv, LoadInv, AnswerInv, MarkInv,
     ReleaseInv DEF Process, Step
<1>3. CASE Tick
  BY <1>3, TickInv
<1>. QED BY <1>1, <1>2, <1>3, EnvironmentInv, ProviderInv DEF Next, Acts

-----------------------------------------------------------------------------
(* The theorems. *)

LEMMA Invariance == Spec => []IInv
<1>1. Init => IInv
  BY InitInv
<1>2. IInv /\ [Next]_vars => IInv'
  BY NextInv
<1>. QED BY <1>1, <1>2, PTL DEF Spec

\* Every value the tables and the processes hold keeps its type; above all the
\* attempts of a job never pass MaxAttempts (fail() in forwarding.go).
THEOREM TypeCorrect == Spec => []TypeOK
<1>1. IInv => TypeOK
  BY DEF IInv
<1>. QED BY <1>1, Invariance, PTL

\* The token fence: however many leases ran out under live processes, no two
\* can settle or release the same job (the claim_token guard of Load, Mark* and
\* Release in forwarding_store.go).
THEOREM Fencing == Spec => []OneHolder
<1>1. IInv => OneHolder
  BY DEF IInv, OneHolder, TokensDistinct, RowShape, Holds, Remaining
<1>. QED BY <1>1, Invariance, PTL

\* No sequence of claims, releases, failures, crashes and requeues strands a job.
THEOREM NoStrandedJob == Spec => []OpenJobsStayClaimable
<1>1. IInv => OpenJobsStayClaimable
  BY DEF IInv
<1>. QED BY <1>1, Invariance, PTL

\* The retry limit counts every attempt: a worker that may settle a job has its
\* current attempt count.
THEOREM CountIsCurrent == Spec => []LoadedCountIsCurrent
<1>1. IInv => LoadedCountIsCurrent
  BY DEF IInv
<1>. QED BY <1>1, Invariance, PTL

\* MarkSent is never written for a mail the provider did not take.
THEOREM SentIsReal == Spec => []SentWasAccepted
<1>1. IInv => SentWasAccepted
  BY DEF IInv
<1>. QED BY <1>1, Invariance, PTL

\* The portal hides exactly the messages of MOVE jobs that are SENT.
THEOREM HiddenIsMoved == Spec => []HiddenWhenMoved
<1>1. IInv => HiddenWhenMoved
  BY DEF IInv
<1>. QED BY <1>1, Invariance, PTL

-----------------------------------------------------------------------------
(* While every deadline is kept, a lease outlives the run it was taken for.     *)

\* A run that still works on its claims.
Live(w) == run[w].pc \in {"load", "await", "mark"}

\* The claim of w on job j stands, and what is left of the lease and the age of
\* the run make up the whole lease; or the job is gone.
Covered(w, j) ==
  \/ job[j].status = "ERASED"
  \/ Holds(w, j) /\ job[j].lease + run[w].age >= Lease

\* LiveClaimsHold is not inductive: that no other process may take the job rests
\* on how much of the lease is left at each age of the run.
LeasesCover ==
  \A w \in Workers : Live(w) =>
    /\ run[w].age <= RunTimeout
    /\ \A j \in Remaining(w) : Covered(w, j)

\* A process writes a row it claims, or one whose claim it holds.
LEMMA WritesOfProcess ==
  ASSUME IInv, NEW v \in Workers, Process(v), NEW j \in Jobs
  PROVE  \/ job'[j] = job[j]
         \/ Claim(v) /\ Due(j)
         \/ Holds(v, j)
<1>1. CASE Start(v) \/ Stop(v) \/ Crash(v) \/ LoseLock(v) \/ Abort(v) \/ Load(v) \/ Answer(v)
  BY <1>1 DEF Start, Stop, Crash, LoseLock, Abort, Load, Answer, dbVars
<1>2. CASE Claim(v)
  <2>1. PICK S \in SUBSET Claimable, t \in FreshTokens :
          job' = [k \in Jobs |-> IF k \in S THEN ClaimedRow(k, t) ELSE job[k]]
    BY <1>2 DEF Claim
  <2>. QED BY <1>2, <2>1 DEF Claimable
<1>3. CASE Mark(v)
  <2>1. PICK k \in run[v].cur :
          \/ Holds(v, k) /\ job' = [job EXCEPT ![k] = SettledRow(v, k)]
          \/ job' = job
    BY <1>3 DEF Mark, dbVars
  <2>. QED BY <2>1 DEF IInv, TypeOK
<1>4. CASE Release(v)
  <2>1. \/ job' = [k \in Jobs |->
              IF k \in Remaining(v) /\ Holds(v, k) THEN ReleasedRow(v, k) ELSE job[k]]
        \/ job' = job
    BY <1>4 DEF Release
  <2>. QED BY <2>1
<1>. QED BY <1>1, <1>2, <1>3, <1>4 DEF Process, Step

\* A claim that is covered, within its deadline, is out of everyone else's reach.
LEMMA CoveredIsExclusive ==
  ASSUME Grace # 0, IInv, NEW w \in Workers, NEW j \in Remaining(w), Covered(w, j),
         run[w].age <= RunTimeout
  PROVE  /\ ~Due(j)
         /\ \A v \in Workers \ {w} : ~Holds(v, j)
<1>1. j \in Jobs /\ job[j] \in Row /\ run[w] \in Run
  BY DEF Remaining, IInv, TypeOK
<1>2. CASE job[j].status = "ERASED"
  BY <1>2 DEF Due, Holds
<1>3. CASE Holds(w, j) /\ job[j].lease + run[w].age >= Lease
  <2>1. job[j].lease \in Nat /\ run[w].age \in Nat /\ RunTimeout \in Nat /\ Lease \in Nat
    BY <1>1, NumbersAssumption DEF Row, Run
  <2>2. job[j].lease # 0
    BY <1>3, <2>1, NumbersAssumption, LeaseAssumption
  <2>3. ~Due(j)
    BY <1>3, <2>2 DEF Due, Holds
  <2>4. run[w].token = job[j].token /\ job[j].token # NoToken
    BY <1>1, <1>3 DEF Holds, IInv, RowShape
  <2>. QED BY <2>3, <2>4 DEF Holds, IInv, TokensDistinct
<1>. QED BY <1>2, <1>3 DEF Covered

\* A step that leaves a run's token, age and row alone leaves its claim covered.
LEMMA StaysCovered ==
  ASSUME NEW w \in Workers, NEW j \in Jobs, Covered(w, j),
         run'[w].token = run[w].token, run'[w].age = run[w].age,
         job'[j] = job[j] \/ job'[j].status = "ERASED"
  PROVE  Covered(w, j)'
BY DEF Covered, Holds

LEMMA OwnStepCovers ==
  ASSUME Grace # 0, IInv, LeasesCover, NEW w \in Workers, Process(w), Live(w)'
  PROVE  /\ run'[w].age <= RunTimeout
         /\ \A j \in Remaining(w)' : Covered(w, j)'
<1>0. job \in [Jobs -> Row] /\ run \in [Workers -> Run]
  BY DEF IInv, TypeOK
<1>1. CASE Start(w) \/ Stop(w) \/ Crash(w) \/ Abort(w) \/ Release(w)
  <2>1. run'[w].pc \in {"idle", "down", "release"}
    BY <1>0, <1>1 DEF Start, Stop, Crash, Abort, Release, Idle, Down, Ending, Between
  <2>. QED BY <2>1 DEF Live
<1>2. CASE LoseLock(w)
  <2>1. UNCHANGED <<job, run>>
    BY <1>2 DEF LoseLock, dbVars
  <2>. QED BY <2>1, StaysCovered DEF LeasesCover, Live, Remaining
<1>3. CASE Load(w)
  <2>1. UNCHANGED job
    BY <1>3 DEF Load, dbVars
  <2>2. PICK j \in Remaining(w) :
          \/ run' = [run EXCEPT ![w] = Dropped(w, j)]
          \/ run' = [run EXCEPT ![w] = Loaded(w, j, "mark", NoProfile, Refusal(j))]
          \/ run' = [run EXCEPT ![w] = Loaded(w, j, "await", route[j], "none")]
    BY <1>3 DEF Load
  <2>3. run'[w].pc # "idle" =>
          /\ run'[w].token = run[w].token /\ run'[w].age = run[w].age
          /\ Remaining(w)' \subseteq Remaining(w)
    <3>1. CASE run' = [run EXCEPT ![w] = Dropped(w, j)]
      BY <1>0, <3>1 DEF Dropped, Idle, Between, Remaining, Run
    <3>2. CASE run' # [run EXCEPT ![w] = Dropped(w, j)]
      BY <1>0, <2>2, <3>2 DEF Loaded, Remaining
    <3>. QED BY <3>1, <3>2
  <2>4. Live(w) /\ run'[w].pc # "idle"
    BY <1>3 DEF Load, Live
  <2>. QED BY <2>1, <2>3, <2>4, StaysCovered DEF LeasesCover, Remaining
<1>4. CASE Answer(w)
  <2>1. PICK v \in {"sent", "reject", "retry"} :
          run' = [run EXCEPT ![w] = [@ EXCEPT !.pc = "mark", !.body = NoProfile, !.verdict = v]]
    BY <1>4 DEF Answer
  <2>2. /\ run'[w].token = run[w].token /\ run'[w].age = run[w].age
        /\ run'[w].claims = run[w].claims
    BY <1>0, <2>1 DEF Run
  <2>3. Live(w) /\ UNCHANGED job
    BY <1>4 DEF Answer, Live, dbVars
  <2>. QED BY <2>2, <2>3, StaysCovered DEF LeasesCover, Remaining
<1>5. CASE Mark(w)
  <2>1. PICK j \in run[w].cur :
          \/ run' = [run EXCEPT ![w] = Ending(w)]
          \/ /\ run' = [run EXCEPT ![w] = Dropped(w, j)]
             /\ job' = [job EXCEPT ![j] = SettledRow(w, j)] \/ UNCHANGED job
    BY <1>5 DEF Mark, dbVars
  <2>2. run' = [run EXCEPT ![w] = Dropped(w, j)]
    BY <1>0, <2>1 DEF Live, Ending, Between
  <2>3. run'[w] # Idle
    BY DEF Live, Idle, Between
  <2>4. /\ run'[w].token = run[w].token /\ run'[w].age = run[w].age
        /\ Remaining(w)' \subseteq Remaining(w) \ {j}
    BY <1>0, <2>2, <2>3 DEF Dropped, Between, Remaining, Run
  <2>5. \A k \in Remaining(w)' : job'[k] = job[k]
    BY <1>0, <2>1, <2>2, <2>4, <2>3 DEF Remaining, Live, Ending, Between
  <2>6. Live(w)
    BY <1>5 DEF Mark, Live
  <2>. QED BY <2>4, <2>5, <2>6, StaysCovered DEF LeasesCover, Remaining
<1>6. CASE Claim(w)
  <2>1. PICK S \in SUBSET Claimable, t \in FreshTokens :
          /\ job' = [k \in Jobs |-> IF k \in S THEN ClaimedRow(k, t) ELSE job[k]]
          /\ \/ run' = [run EXCEPT ![w] =
                  Between("load", t, [k \in Jobs |->
                     IF k \in S THEN PreviousStatus(k) ELSE "no"], 0)]
             \/ UNCHANGED run
    BY <1>6 DEF Claim
  <2>2. run' = [run EXCEPT ![w] =
                  Between("load", t, [k \in Jobs |->
                     IF k \in S THEN PreviousStatus(k) ELSE "no"], 0)]
    BY <1>6, <2>1 DEF Claim, Live
  <2>3. /\ run'[w].token = t /\ run'[w].age = 0
        /\ Remaining(w)' \subseteq S
    BY <1>0, <2>2 DEF Between, Remaining
  <2>4. \A j \in S : /\ job'[j].status = "RUNNING" /\ job'[j].token = t
                     /\ job'[j].lease = Lease
    BY <2>1 DEF ClaimedRow, RowOf, Claimable
  <2>. QED BY <2>3, <2>4, NumbersAssumption DEF Covered, Holds
<1>. QED BY <1>1, <1>2, <1>3, <1>4, <1>5, <1>6 DEF Process, Step

LEMMA OtherStepCovers ==
  ASSUME Grace # 0, IInv, LeasesCover, NEW w \in Workers, NEW v \in Workers \ {w},
         Process(v), Live(w)'
  PROVE  /\ run'[w].age <= RunTimeout
         /\ \A j \in Remaining(w)' : Covered(w, j)'
<1>1. run'[w] = run[w]
  BY DEF IInv, TypeOK, Process, Step, Start, Stop, Crash, LoseLock, Abort, Claim, Load,
         Answer, Mark, Release
<1>2. /\ Live(w) /\ run[w].age <= RunTimeout /\ Remaining(w)' = Remaining(w)
      /\ \A j \in Remaining(w) : j \in Jobs /\ Covered(w, j)
  BY <1>1 DEF Live, Remaining, LeasesCover
<1>3. \A j \in Remaining(w) : job'[j] = job[j]
  BY <1>2, CoveredIsExclusive, WritesOfProcess
<1>. QED BY <1>1, <1>2, <1>3, StaysCovered

LEMMA TickCovers ==
  ASSUME IInv, LeasesCover, Prompt, Tick
  PROVE  LeasesCover'
<1>. SUFFICES ASSUME NEW w \in Workers, Live(w)'
              PROVE  /\ run'[w].age <= RunTimeout
                     /\ \A j \in Remaining(w)' : Covered(w, j)'
  BY DEF LeasesCover
<1>1. run[w] \in Run /\ run[w].age \in Nat
  BY DEF IInv, TypeOK, Run
<1>2. run'[w] = run[w] \/ run'[w] = [run[w] EXCEPT !.age = run[w].age + 1]
  BY DEF Tick
<1>3. /\ run'[w].pc = run[w].pc /\ run'[w].token = run[w].token
      /\ run'[w].claims = run[w].claims
  BY <1>1, <1>2 DEF Run
<1>4. Live(w) /\ run[w].age < RunTimeout /\ Remaining(w)' = Remaining(w)
  BY <1>3 DEF Live, Prompt, Remaining
<1>5. run'[w].age = run[w].age + 1
  <2>1. run[w].age < AgeCap
    BY <1>1, <1>4, NumbersAssumption, LeaseAssumption DEF AgeCap
  <2>2. run'[w] = [run[w] EXCEPT !.age = run[w].age + 1]
    BY <1>1, <1>4, <2>1, NumbersAssumption, LeaseAssumption DEF Tick, Live, AgeCap
  <2>. QED BY <1>1, <2>2 DEF Run
<1>6. ASSUME NEW j \in Remaining(w) PROVE Covered(w, j)'
  <2>1. j \in Jobs /\ Covered(w, j) /\ job[j].lease \in Nat
    BY <1>4, <1>6 DEF LeasesCover, Remaining, IInv, TypeOK, Row
  <2>2. /\ job'[j].status = job[j].status /\ job'[j].token = job[j].token
        /\ job'[j].lease = CountDown(job[j].lease)
    BY <2>1 DEF Tick, RowOf
  <2>3. job[j].lease + run[w].age >= Lease =>
          CountDown(job[j].lease) + (run[w].age + 1) >= Lease
    BY <1>1, <1>4, <2>1, NumbersAssumption, LeaseAssumption DEF CountDown
  <2>. QED BY <1>3, <1>5, <2>1, <2>2, <2>3 DEF Covered, Holds
<1>. QED BY <1>1, <1>4, <1>5, <1>6, NumbersAssumption

LEMMA LeasesCoverInv ==
  ASSUME Grace # 0, IInv, LeasesCover, [TimedNext]_vars
  PROVE  LeasesCover'
<1>1. CASE UNCHANGED <<job, run>>
  BY <1>1 DEF LeasesCover, Live, Remaining, Covered, Holds
<1>2. ASSUME NEW v \in Workers, Process(v)
      PROVE  LeasesCover'
  BY <1>2, OwnStepCovers, OtherStepCovers DEF LeasesCover
<1>3. ASSUME NEW k \in Jobs, Environment(k)
      PROVE  LeasesCover'
  <2>1. UNCHANGED run
    BY <1>3 DEF Environment, CreateJob, RequeueForwardingJob, ChangeSettings, EraseJob
  <2>2. \A j \in Jobs :
          \/ job'[j] = job[j] \/ job'[j].status = "ERASED"
          \/ job[j].status \in {"NONE", "FAILED", "SKIPPED"}
    BY <1>3 DEF Environment, CreateJob, RequeueForwardingJob, ChangeSettings, EraseJob,
                IInv, TypeOK, Erased, RowOf, dbVars
  <2>3. ASSUME NEW w \in Workers, Live(w), NEW j \in Remaining(w)
        PROVE  Covered(w, j)'
    <3>1. j \in Jobs /\ Covered(w, j)
      BY <2>3 DEF LeasesCover, Remaining
    <3>2. job[j].status \notin {"NONE", "FAILED", "SKIPPED"}
      BY <3>1 DEF Covered, Holds
    <3>. QED BY <2>1, <2>2, <3>1, <3>2, StaysCovered
  <2>. QED BY <2>1, <2>3 DEF LeasesCover, Live, Remaining
<1>4. CASE Prompt /\ Tick
  BY <1>4, TickCovers
<1>5. ASSUME NEW r \in Jobs \X Profiles, ProviderTakes(r)
      PROVE  UNCHANGED <<job, run>>
  BY <1>5 DEF ProviderTakes, dbVars
<1>. QED BY <1>1, <1>2, <1>3, <1>4, <1>5 DEF TimedNext, Acts, vars, dbVars

\* While deadlines are kept no run within its time loses a claim: errClaimLost
\* never happens to it, and no two processes ask the provider for one job at
\* once, even after the owner lock is lost (LoadForwarding's minimum lease,
\* whose shutdown timeout and heartbeat interval are positive: Grace # 0).
THEOREM LiveClaims ==
  ASSUME Grace # 0
  PROVE  TimedSpec => []LiveClaimsHold
<1>1. Init => IInv /\ LeasesCover
  BY InitInv DEF Init, LeasesCover, Live, Down, Between
<1>2. IInv /\ LeasesCover /\ [TimedNext]_vars => IInv' /\ LeasesCover'
  BY NextInv, LeasesCoverInv DEF TimedNext, Next
<1>3. IInv /\ LeasesCover => LiveClaimsHold
  BY DEF LeasesCover, LiveClaimsHold, Live, Covered
<1>. QED BY <1>1, <1>2, <1>3, PTL DEF TimedSpec

-----------------------------------------------------------------------------
(* Every way a row changes.                                                    *)

Reopens(j) == job[j].status \in {"NONE", "FAILED", "SKIPPED"} /\ job'[j] = Queued
Claims(j) == Due(j) /\ \E t \in Tokens : job'[j] = ClaimedRow(j, t)
Settles(w, j) ==
  /\ run[w].pc = "mark" /\ j \in run[w].cur /\ Holds(w, j)
  /\ job'[j] = SettledRow(w, j)
Releases(w, j) ==
  /\ run[w].pc = "release" /\ j \in Remaining(w) /\ Holds(w, j)
  /\ job'[j] = ReleasedRow(w, j)
Ages(j) ==
  job'[j] = RowOf(job[j].status, job[j].attempts, CountDown(job[j].next),
                  job[j].token, CountDown(job[j].lease))

RowStep(j) ==
  \/ job'[j] = job[j] \/ Reopens(j) \/ job'[j] = Erased \/ Claims(j) \/ Ages(j)
  \/ \E w \in Workers : Settles(w, j) \/ Releases(w, j)

LEMMA RowSteps ==
  ASSUME IInv, [Next]_vars, NEW j \in Jobs
  PROVE  RowStep(j)
<1>. USE DEF RowStep, IInv
<1>1. CASE UNCHANGED vars
  BY <1>1 DEF vars, dbVars
<1>2. ASSUME NEW w \in Workers, Process(w)
      PROVE  RowStep(j)
  <2>1. CASE Start(w) \/ Stop(w) \/ Crash(w) \/ LoseLock(w) \/ Abort(w) \/ Load(w) \/ Answer(w)
    BY <2>1 DEF Start, Stop, Crash, LoseLock, Abort, Load, Answer, dbVars
  <2>2. CASE Claim(w)
    <3>1. PICK S \in SUBSET Claimable, t \in FreshTokens :
            job' = [k \in Jobs |-> IF k \in S THEN ClaimedRow(k, t) ELSE job[k]]
      BY <2>2 DEF Claim
    <3>. QED BY <3>1 DEF Claims, Claimable, FreshTokens
  <2>3. CASE Mark(w)
    <3>1. PICK k \in run[w].cur :
            \/ Holds(w, k) /\ job' = [job EXCEPT ![k] = SettledRow(w, k)]
            \/ job' = job
      BY <2>3 DEF Mark, dbVars
    <3>2. run[w].pc = "mark"
      BY <2>3 DEF Mark
    <3>. QED BY <3>1, <3>2 DEF Settles, TypeOK
  <2>4. CASE Release(w)
    <3>1. \/ job' = [k \in Jobs |->
                IF k \in Remaining(w) /\ Holds(w, k) THEN ReleasedRow(w, k) ELSE job[k]]
          \/ job' = job
      BY <2>4 DEF Release
    <3>2. run[w].pc = "release"
      BY <2>4 DEF Release
    <3>. QED BY <3>1, <3>2 DEF Releases
  <2>. QED BY <1>2, <2>1, <2>2, <2>3, <2>4 DEF Process, Step
<1>3. ASSUME NEW k \in Jobs, Environment(k)
      PROVE  RowStep(j)
  BY <1>3 DEF Environment, CreateJob, RequeueForwardingJob, ChangeSettings, EraseJob,
              Reopens, TypeOK, dbVars
<1>4. ASSUME NEW r \in Jobs \X Profiles, ProviderTakes(r)
      PROVE  RowStep(j)
  BY <1>4 DEF ProviderTakes, dbVars
<1>5. CASE Tick
  BY <1>5 DEF Tick, Ages
<1>. QED BY <1>1, <1>2, <1>3, <1>4, <1>5 DEF Next, Acts

-----------------------------------------------------------------------------
(* Two facts more, for what is settled and for what is on its way.             *)

\* Only a RUNNING row has a lease that counts down.
LeaseShape == \A j \in Jobs : job[j].status # "RUNNING" => job[j].lease = 0

\* The provider is asked for jobs that are, or were, there.
WireShape == \A r \in wire : job[r[1]].status # "NONE"

(* No row goes back to before its message came. *)
LEMMA NeverUnmade ==
  ASSUME IInv, NEW j \in Jobs, RowStep(j), job[j].status # "NONE"
  PROVE  job'[j].status # "NONE"
<1>1. CASE \E w \in Workers : Settles(w, j)
  BY <1>1 DEF Settles, SettledRow, RowOf, StatusFor
<1>2. CASE \E w \in Workers : Releases(w, j)
  <2>1. PICK w \in Workers : Releases(w, j)
    BY <1>2
  <2>2. run[w].claims[j] \in Kept /\ job'[j].status = run[w].claims[j]
    BY <2>1 DEF Releases, ReleasedRow, RowOf, IInv, TypeOK, Run
  <2>. QED BY <2>2 DEF Kept
<1>3. CASE Claims(j)
  <2>1. PICK t \in Tokens : job'[j] = ClaimedRow(j, t)
    BY <1>3 DEF Claims
  <2>. QED BY <2>1 DEF ClaimedRow, RowOf
<1>4. CASE Ages(j)
  BY <1>4 DEF Ages, RowOf
<1>5. CASE job'[j] = job[j] \/ Reopens(j) \/ job'[j] = Erased
  BY <1>5 DEF Reopens, Queued, Erased, RowOf
<1>. QED BY <1>1, <1>2, <1>3, <1>4, <1>5 DEF RowStep

LEMMA ShapeInv ==
  ASSUME IInv, LeaseShape, WireShape, [Next]_vars
  PROVE  LeaseShape' /\ WireShape'
<1>1. \A j \in Jobs : RowStep(j)
  BY RowSteps
<1>2. LeaseShape'
  <2>. SUFFICES ASSUME NEW j \in Jobs, job'[j].status # "RUNNING"
                PROVE  job'[j].lease = 0
    BY DEF LeaseShape
  <2>1. CASE \E w \in Workers : Settles(w, j) \/ Releases(w, j)
    BY <2>1 DEF Settles, Releases, SettledRow, ReleasedRow, RowOf
  <2>2. CASE job'[j] = job[j]
    BY <2>2 DEF LeaseShape
  <2>4. CASE Reopens(j) \/ job'[j] = Erased
    BY <2>4 DEF Reopens, Queued, Erased, RowOf
  <2>5. CASE Claims(j)
    <3>1. PICK t \in Tokens : job'[j] = ClaimedRow(j, t)
      BY <2>5 DEF Claims
    <3>. QED BY <3>1 DEF ClaimedRow, RowOf
  <2>3. CASE Ages(j)
    BY <2>3 DEF LeaseShape, Ages, RowOf, CountDown
  <2>. QED BY <1>1, <2>1, <2>2, <2>3, <2>4, <2>5 DEF RowStep
<1>3. \A r \in wire' : r[1] \in Jobs /\ job[r[1]].status # "NONE"
  <2>1. \A r \in wire : r[1] \in Jobs /\ job[r[1]].status # "NONE"
    BY DEF WireShape, IInv, TypeOK
  <2>2. CASE wire' \subseteq wire
    BY <2>1, <2>2
  <2>3. ASSUME NEW w \in Workers, Load(w), ~(wire' \subseteq wire)
        PROVE  \A r \in wire' : r[1] \in Jobs /\ job[r[1]].status # "NONE"
    <3>1. PICK j \in Remaining(w) : Holds(w, j) /\ wire' = wire \cup {<<j, route[j]>>}
      BY <2>3 DEF Load
    <3>. QED BY <2>1, <3>1 DEF Holds, Remaining
  <2>4. wire' \subseteq wire \/ \E w \in Workers : Load(w)
    BY DEF Next, Acts, Process, Step, Environment, vars, netVars, Start, Stop, Crash,
           LoseLock, Abort, Claim, Answer, Mark, Release, CreateJob, RequeueForwardingJob,
           ChangeSettings, EraseJob, ProviderTakes, Tick
  <2>. QED BY <2>2, <2>3, <2>4
<1>. QED BY <1>1, <1>2, <1>3, NeverUnmade DEF WireShape

LEMMA Shapes == Spec => [](IInv /\ LeaseShape /\ WireShape)
<1>1. Init => LeaseShape /\ WireShape
  BY DEF Init, LeaseShape, WireShape, Absent, RowOf
<1>. QED BY <1>1, InitInv, NextInv, ShapeInv, PTL DEF Spec

-----------------------------------------------------------------------------
(* What a step may never do. *)

\* A settled job is taken up again by an administrator only, a SENT one never
\* (RequeueForwardingJob; the guards of Claim and of every Mark).
THEOREM SettledStays == Spec => SettledIsFinal
<1>1. ASSUME IInv, LeaseShape, [Next]_vars, NEW j \in Jobs, Settled(j), job'[j] # job[j]
      PROVE  \/ job'[j].status = "ERASED"
             \/ /\ job[j].status # "SENT"
                /\ job'[j].status = "PENDING" /\ job'[j].attempts = 0
  <2>1. job[j].status # "RUNNING" /\ ~Due(j)
    <3>2. CASE job[j].status \in {"SENT", "SKIPPED", "ERASED"}
      BY <3>2 DEF Due
    <3>3. CASE job[j].status = "FAILED" /\ job[j].next = Never
      BY <3>3 DEF Due
    <3>. QED BY <1>1, <3>2, <3>3 DEF Settled
  <2>2. ~Ages(j)
    <3>1. job[j].lease = 0
      BY <1>1, <2>1 DEF LeaseShape
    <3>2. job[j].next = Never
      <4>1. job[j].status \in {"SENT", "SKIPPED", "ERASED"} => job[j].next = Never
        BY <1>1 DEF IInv, OpenJobsStayClaimable
      <4>. QED BY <1>1, <4>1 DEF Settled
    <3>3. CountDown(job[j].next) = job[j].next /\ CountDown(job[j].lease) = job[j].lease
      BY <3>1, <3>2 DEF CountDown
    <3>4. job[j] = RowOf(job[j].status, job[j].attempts, job[j].next, job[j].token, job[j].lease)
      <4>1. job[j] \in Row
        BY <1>1 DEF IInv, TypeOK
      <4>. QED BY <4>1 DEF Row, RowOf
    <3>. QED BY <1>1, <3>3, <3>4 DEF Ages
  <2>3. Reopens(j) \/ job'[j] = Erased
    BY <1>1, <2>1, <2>2, RowSteps DEF RowStep, Claims, Settles, Releases, Holds
  <2>. QED BY <1>1, <2>1, <2>3 DEF Reopens, Queued, Erased, RowOf
<1>2. IInv /\ LeaseShape /\ [Next]_vars =>
        [\A j \in Jobs : Settled(j) /\ job'[j] # job[j] =>
           \/ job'[j].status = "ERASED"
           \/ /\ job[j].status # "SENT"
              /\ job'[j].status = "PENDING" /\ job'[j].attempts = 0]_vars
  BY <1>1
<1>. QED BY <1>2, Shapes, PTL DEF Spec, SettledIsFinal

\* A claim ends by its holder's hand or by its lease (claim_token and
\* lease_expires_at in the query of Claim).
THEOREM ClaimsAreExclusive == Spec => ClaimIsExclusive
<1>1. ASSUME IInv, [Next]_vars, NEW j \in Jobs,
             job[j].status = "RUNNING", job'[j].token # job[j].token
      PROVE  \/ job[j].lease = 0 /\ job'[j].status = "RUNNING"
             \/ job'[j].status = "ERASED"
             \/ \E w \in Workers : /\ Holds(w, j) /\ j \in Remaining(w)
                                   /\ run[w].pc \in {"mark", "release"}
  <2>1. ~Reopens(j) /\ ~Ages(j)
    BY <1>1 DEF Reopens, Ages, RowOf
  <2>2. ASSUME NEW w \in Workers, Settles(w, j) PROVE j \in Remaining(w)
    <3>1. WellFormed(run[w])
      BY <1>1 DEF IInv, RunShape
    <3>. QED BY <2>2, <3>1 DEF Settles, WellFormed, Remaining
  <2>3. CASE Claims(j)
    BY <1>1, <2>3 DEF Claims, Due, ClaimedRow, RowOf
  <2>4. CASE job'[j] = Erased
    BY <2>4 DEF Erased, RowOf
  <2>5. CASE \E w \in Workers : Settles(w, j) \/ Releases(w, j)
    BY <2>2, <2>5 DEF Settles, Releases
  <2>. QED BY <1>1, <2>1, <2>3, <2>4, <2>5, RowSteps DEF RowStep
<1>2. IInv /\ [Next]_vars =>
        [\A j \in Jobs :
           (job[j].status = "RUNNING" /\ job'[j].token # job[j].token) =>
             \/ job[j].lease = 0 /\ job'[j].status = "RUNNING"
             \/ job'[j].status = "ERASED"
             \/ \E w \in Workers : /\ Holds(w, j) /\ j \in Remaining(w)
                                   /\ run[w].pc \in {"mark", "release"}]_vars
  BY <1>1
<1>. QED BY <1>2, Invariance, PTL DEF Spec, ClaimIsExclusive
-----------------------------------------------------------------------------
(* The refinement: each action of the queue is one of the lifecycle, or none. *)

\* A row that is rewritten moves its job and no other.
LEMMA OneRowMoves ==
  ASSUME TypeOK, NEW j \in Jobs, NEW r, NEW from, NEW to,
         job' = [job EXCEPT ![j] = r], Phase(j) \in from, Phase(j)' = to
  PROVE  Lifecycle!Move(j, from, to, r.attempts)
<1>1. job'[j] = r /\ \A k \in Jobs \ {j} : job'[k] = job[k]
  BY DEF TypeOK
<1>2. \A k \in Jobs \ {j} : Phase(k)' = Phase(k)
  BY <1>1 DEF Phase
<1>3. [k \in Jobs |-> Phase(k)]' = [[k \in Jobs |-> Phase(k)] EXCEPT ![j] = to]
  BY <1>2
<1>4. [k \in Jobs |-> job[k].attempts]'
        = [[k \in Jobs |-> job[k].attempts] EXCEPT ![j] = r.attempts]
  <2>1. job'[j].attempts = r.attempts
    BY <1>1
  <2>2. \A k \in Jobs \ {j} : job'[k].attempts = job[k].attempts
    BY <1>1
  <2>. QED BY <2>1, <2>2
<1>. QED BY <1>3, <1>4 DEF Lifecycle!Move

\* Nothing the lifecycle shows has changed.
LEMMA NothingMoves ==
  ASSUME UNCHANGED <<hidden, accepted>>,
         \A j \in Jobs : Phase(j)' = Phase(j) /\ job'[j].attempts = job[j].attempts
  PROVE  UNCHANGED Lifecycle!vars
BY DEF Lifecycle!vars

LEMMA SameRowSamePhase ==
  ASSUME NEW j \in Jobs, job'[j] = job[j]
  PROVE  Phase(j)' = Phase(j) /\ job'[j].attempts = job[j].attempts
BY DEF Phase

LEMMA PhaseIsPhase ==
  ASSUME TypeOK, NEW j \in Jobs
  PROVE  Phase(j) \in Lifecycle!Phases
<1>1. job[j].status \in Statuses
  BY DEF TypeOK, Row
<1>. QED BY <1>1 DEF Phase, Statuses, Lifecycle!Phases

\* Claim and Release leave the attempts alone and take rows, or yield them.
LEMMA BatchMoves ==
  ASSUME TypeOK, TypeOK', UNCHANGED <<hidden, accepted>>,
         \A j \in Jobs : /\ job'[j].attempts = job[j].attempts
                         /\ Phase(j)' # Phase(j) =>
                              {Phase(j), Phase(j)'} = {"waiting", "working"}
  PROVE  Lifecycle!TakeOrYield
<1>1. \A j \in Jobs : Phase(j)' \in Lifecycle!Phases
  <2>. SUFFICES ASSUME NEW j \in Jobs PROVE Phase(j)' \in Lifecycle!Phases
    OBVIOUS
  <2>1. job'[j].status \in Statuses
    BY DEF TypeOK, Row
  <2>. QED BY <2>1 DEF Phase, Statuses, Lifecycle!Phases
<1>. QED BY <1>1 DEF Lifecycle!TakeOrYield

LEMMA EnvironmentMoves ==
  ASSUME TypeOK, NEW j \in Jobs, Environment(j)
  PROVE  Lifecycle!Next \/ UNCHANGED Lifecycle!vars
<1>0. job \in [Jobs -> Row]
  BY DEF TypeOK
<1>1. CASE CreateJob(j)
  <2>1. job' = [job EXCEPT ![j] = Queued] /\ UNCHANGED <<hidden, accepted>>
    BY <1>1 DEF CreateJob, netVars
  <2>2. Phase(j) = "none" /\ Phase(j)' = "waiting" /\ Queued.attempts = 0
    BY <1>0, <1>1, <2>1 DEF CreateJob, Phase, Queued, RowOf
  <2>3. Lifecycle!Open(j)
    BY <2>1, <2>2, OneRowMoves DEF Lifecycle!Open
  <2>. QED BY <2>3 DEF Lifecycle!Next
<1>2. CASE RequeueForwardingJob(j)
  <2>1. job' = [job EXCEPT ![j] = Queued] /\ UNCHANGED <<hidden, accepted>>
    BY <1>2 DEF RequeueForwardingJob, netVars
  <2>2. /\ Phase(j) \in {"waiting", "failed", "skipped"}
        /\ Phase(j)' = "waiting" /\ Queued.attempts = 0
    BY <1>0, <1>2, <2>1 DEF RequeueForwardingJob, Phase, Queued, RowOf
  <2>3. Lifecycle!Reopen(j)
    BY <2>1, <2>2, OneRowMoves DEF Lifecycle!Reopen
  <2>. QED BY <2>3 DEF Lifecycle!Next
<1>3. CASE EraseJob(j)
  <2>1. /\ job' = [job EXCEPT ![j] = Erased]
        /\ hidden' = hidden \ {j} /\ UNCHANGED accepted
    BY <1>3 DEF EraseJob, netVars
  <2>2. /\ Phase(j) \in Lifecycle!Phases \ {"none", "erased"}
        /\ Phase(j)' = "erased" /\ Erased.attempts = 0
    <3>1. job[j].status \in Statuses \ {"NONE", "ERASED"}
      BY <1>0, <1>3 DEF EraseJob, Row
    <3>2. Phase(j) \in Lifecycle!Phases \ {"none", "erased"}
      BY <3>1 DEF Phase, Statuses, Lifecycle!Phases
    <3>. QED BY <1>0, <2>1, <3>2 DEF Phase, Erased, RowOf
  <2>3. Lifecycle!Erase(j)
    BY <2>1, <2>2, OneRowMoves DEF Lifecycle!Erase
  <2>. QED BY <2>3 DEF Lifecycle!Next
<1>4. CASE ChangeSettings(j)
  BY <1>4, NothingMoves, SameRowSamePhase DEF ChangeSettings, dbVars, netVars
<1>. QED BY <1>1, <1>2, <1>3, <1>4 DEF Environment

LEMMA MarkMoves ==
  ASSUME IInv, NEW w \in Workers, Mark(w)
  PROVE  Lifecycle!Next \/ UNCHANGED Lifecycle!vars
<1>0. TypeOK /\ job \in [Jobs -> Row] /\ UNCHANGED accepted
  BY DEF IInv, TypeOK, Mark, netVars
<1>1. PICK j \in run[w].cur :
        \/ /\ Holds(w, j) /\ job' = [job EXCEPT ![j] = SettledRow(w, j)]
           /\ hidden' = IF Hides(w, j) THEN hidden \cup {j} ELSE hidden
        \/ UNCHANGED <<job, hidden>>
  BY DEF Mark, dbVars
<1>2. j \in Jobs /\ run[w].seen \in Nat /\ run[w].verdict \in Verdicts
  BY <1>0, NumbersAssumption DEF TypeOK, Run
<1>3. CASE UNCHANGED <<job, hidden>>
  BY <1>0, <1>3, NothingMoves, SameRowSamePhase
<1>4. CASE /\ Holds(w, j) /\ job' = [job EXCEPT ![j] = SettledRow(w, j)]
           /\ hidden' = IF Hides(w, j) THEN hidden \cup {j} ELSE hidden
  <2>1. Phase(j) \in {"working"} /\ job[j].attempts = run[w].seen
    BY <1>4 DEF Holds, Phase, IInv, LoadedCountIsCurrent
  <2>0. PICK r : r = SettledRow(w, j)
    OBVIOUS
  <2>2. job'[j] = SettledRow(w, j)
    BY <1>0, <1>2, <1>4
  <2>6. job' = [job EXCEPT ![j] = r]
    BY <1>4, <2>0
  <2>3. CASE run[w].verdict = "skip"
    <3>1. /\ Phase(j)' = "skipped" /\ SettledRow(w, j).attempts = job[j].attempts
          /\ UNCHANGED hidden
      BY <1>4, <2>2, <2>3 DEF Phase, SettledRow, StatusFor, RowOf, Hides
    <3>2. Lifecycle!Move(j, {"working"}, "skipped", r.attempts)
      BY <1>0, <1>2, <2>1, <2>6, <3>1, OneRowMoves
    <3>3. Lifecycle!Skip(j)
      BY <1>0, <1>2, <2>0, <3>1, <3>2 DEF Lifecycle!Skip, Lifecycle!Move
    <3>. QED BY <1>2, <3>3 DEF Lifecycle!Next
  <2>4. CASE run[w].verdict = "sent"
    <3>1. /\ Phase(j)' = "sent" /\ SettledRow(w, j).attempts = job[j].attempts + 1
          /\ hidden' = hidden \cup ({j} \cap MoveJobs)
      BY <1>4, <2>2, <2>4 DEF Phase, SettledRow, StatusFor, RowOf, Hides
    <3>2. accepted[j] # NoProfile
      BY <1>1, <2>4 DEF IInv, ResultsAreReal
    <3>3. Lifecycle!Move(j, {"working"}, "sent", r.attempts)
      BY <1>0, <1>2, <2>1, <2>6, <3>1, OneRowMoves
    <3>4. Lifecycle!Finish(j)
      BY <1>0, <1>2, <2>0, <3>1, <3>2, <3>3 DEF Lifecycle!Finish, Lifecycle!Move
    <3>. QED BY <1>2, <3>4 DEF Lifecycle!Next
  <2>5. CASE run[w].verdict \notin {"skip", "sent"}
    <3>1. /\ SettledRow(w, j).status = "FAILED" /\ SettledRow(w, j).next = RetryIn(w)
          /\ SettledRow(w, j).attempts = job[j].attempts + 1
          /\ UNCHANGED hidden
      BY <1>4, <2>5 DEF SettledRow, StatusFor, RowOf, Hides
    <3>2. \/ Phase(j)' = "failed"
          \/ Phase(j)' = "waiting" /\ job[j].attempts + 1 < MaxAttempts
      <4>1. RetryIn(w) # Never => run[w].seen + 1 < MaxAttempts
        BY DEF RetryIn
      <4>. QED BY <2>1, <2>2, <3>1, <4>1 DEF Phase
    <3>3. \A to \in Lifecycle!Phases : Phase(j)' = to =>
            Lifecycle!Move(j, {"working"}, to, r.attempts)
      BY <1>0, <1>2, <2>1, <2>6, OneRowMoves
    <3>4. Lifecycle!Fail(j)
      BY <1>0, <1>2, <2>0, <3>1, <3>2, <3>3 DEF Lifecycle!Fail, Lifecycle!Move, Lifecycle!Phases
    <3>. QED BY <1>2, <3>4 DEF Lifecycle!Next
  <2>. QED BY <2>3, <2>4, <2>5
<1>. QED BY <1>1, <1>3, <1>4

LEMMA ProcessMoves ==
  ASSUME IInv, TypeOK', NEW w \in Workers, Process(w)
  PROVE  Lifecycle!Next \/ UNCHANGED Lifecycle!vars
<1>0. TypeOK /\ job \in [Jobs -> Row]
  BY DEF IInv, TypeOK
<1>1. CASE Start(w) \/ Stop(w) \/ Crash(w) \/ LoseLock(w) \/ Abort(w) \/ Load(w) \/ Answer(w)
  <2>1. UNCHANGED <<job, hidden, accepted>>
    BY <1>1 DEF Start, Stop, Crash, LoseLock, Abort, Load, Answer, dbVars, netVars
  <2>. QED BY <2>1, NothingMoves, SameRowSamePhase
<1>2. CASE Claim(w)
  <2>1. PICK S \in SUBSET Claimable, t \in FreshTokens :
          job' = [k \in Jobs |-> IF k \in S THEN ClaimedRow(k, t) ELSE job[k]]
    BY <1>2 DEF Claim
  <2>2. ASSUME NEW j \in Jobs
        PROVE  /\ job'[j].attempts = job[j].attempts
               /\ Phase(j)' # Phase(j) => {Phase(j), Phase(j)'} = {"waiting", "working"}
    <3>1. CASE j \notin S
      BY <2>1, <3>1, SameRowSamePhase
    <3>2. CASE j \in S
      <4>1. job'[j] = ClaimedRow(j, t) /\ Due(j)
        BY <2>1, <3>2 DEF Claimable
      <4>2. job'[j].attempts = job[j].attempts /\ Phase(j)' = "working"
        BY <4>1 DEF ClaimedRow, RowOf, Phase
      <4>3. Phase(j) \in {"waiting", "working"}
        BY <4>1 DEF Due, Phase
      <4>. QED BY <4>2, <4>3
    <3>. QED BY <3>1, <3>2
  <2>3. UNCHANGED <<hidden, accepted>>
    BY <1>2 DEF Claim, netVars
  <2>. QED BY <1>0, <2>2, <2>3, BatchMoves DEF Lifecycle!Next
<1>3. CASE Mark(w)
  BY <1>3, MarkMoves
<1>4. CASE Release(w)
  <2>1. \/ job' = [k \in Jobs |->
              IF k \in Remaining(w) /\ Holds(w, k) THEN ReleasedRow(w, k) ELSE job[k]]
        \/ job' = job
    BY <1>4 DEF Release
  <2>2. ASSUME NEW j \in Jobs
        PROVE  /\ job'[j].attempts = job[j].attempts
               /\ Phase(j)' # Phase(j) => {Phase(j), Phase(j)'} = {"waiting", "working"}
    <3>1. CASE job'[j] = job[j]
      BY <3>1, SameRowSamePhase
    <3>2. CASE job'[j] # job[j]
      <4>1. j \in Remaining(w) /\ Holds(w, j) /\ job'[j] = ReleasedRow(w, j)
        BY <2>1, <3>2
      <4>2. job[j].status = "RUNNING" /\ job[j].next # Never /\ Phase(j) = "working"
        BY <4>1 DEF Holds, IInv, OpenJobsStayClaimable, Phase
      <4>3. run[w].claims[j] \in {"PENDING", "FAILED"}
        BY <1>0, <4>1 DEF TypeOK, Run, Kept, Remaining
      <4>4. job'[j].attempts = job[j].attempts /\ Phase(j)' = "waiting"
        BY <4>1, <4>2, <4>3 DEF ReleasedRow, RowOf, Phase
      <4>. QED BY <4>2, <4>4
    <3>. QED BY <3>1, <3>2
  <2>3. UNCHANGED <<hidden, accepted>>
    BY <1>4 DEF Release, netVars
  <2>. QED BY <1>0, <2>2, <2>3, BatchMoves DEF Lifecycle!Next
<1>. QED BY <1>1, <1>2, <1>3, <1>4 DEF Process, Step

LEMMA ProviderMoves ==
  ASSUME IInv, WireShape, NEW r \in Jobs \X Profiles, ProviderTakes(r)
  PROVE  Lifecycle!Next \/ UNCHANGED Lifecycle!vars
<1>1. UNCHANGED <<job, hidden>> /\ accepted \in [Jobs -> Profiles \cup {NoProfile}]
  BY DEF ProviderTakes, dbVars, IInv, TypeOK
<1>2. CASE UNCHANGED accepted
  BY <1>1, <1>2, NothingMoves, SameRowSamePhase
<1>3. CASE accepted' = [accepted EXCEPT ![r[1]] = IF @ = NoProfile THEN r[2] ELSE @]
  <2>1. r[1] \in Jobs /\ r[2] \in Profiles /\ Phase(r[1]) # "none"
    <3>1. r[1] \in Jobs /\ r[2] \in Profiles
      OBVIOUS
    <3>2. job[r[1]].status \in Statuses \ {"NONE"}
      BY <3>1 DEF ProviderTakes, WireShape, IInv, TypeOK, Row
    <3>. QED BY <3>1, <3>2 DEF Phase, Statuses
  <2>2. {j \in Jobs : accepted'[j] # NoProfile}
          = {j \in Jobs : accepted[j] # NoProfile} \cup {r[1]}
    BY <1>1, <1>3, <2>1
  <2>3. Lifecycle!Deliver(r[1])
    BY <1>1, <2>1, <2>2, SameRowSamePhase DEF Lifecycle!Deliver
  <2>. QED BY <2>1, <2>3 DEF Lifecycle!Next
<1>. QED BY <1>2, <1>3 DEF ProviderTakes

LEMMA TickMoves ==
  ASSUME TypeOK, Tick
  PROVE  UNCHANGED Lifecycle!vars
<1>1. UNCHANGED <<hidden, accepted>>
  BY DEF Tick, netVars
<1>2. ASSUME NEW j \in Jobs
      PROVE  Phase(j)' = Phase(j) /\ job'[j].attempts = job[j].attempts
  <2>1. job'[j] = RowOf(job[j].status, job[j].attempts, CountDown(job[j].next),
                        job[j].token, CountDown(job[j].lease))
    BY DEF Tick
  <2>2. CountDown(job[j].next) = Never <=> job[j].next = Never
    <3>1. job[j].next \in Nat \cup {Never}
      BY DEF TypeOK, Row
    <3>. QED BY <3>1 DEF CountDown
  <2>3. /\ job'[j].status = job[j].status /\ job'[j].attempts = job[j].attempts
        /\ job'[j].next = Never <=> job[j].next = Never
    BY <2>1, <2>2 DEF RowOf
  <2>. QED BY <2>3 DEF Phase
<1>. QED BY <1>1, <1>2, NothingMoves

\* Tokens, leases, retries and restarts are all invisible: what the
\* administrator's job list and the portal see of the queue is the lifecycle.
THEOREM Refinement == Spec => ImplementsLifecycle
<1>1. Init => Lifecycle!Init
  <2>. SUFFICES ASSUME Init PROVE Lifecycle!Init
    OBVIOUS
  <2>1. \A j \in Jobs : job[j] = Absent
    BY DEF Init
  <2>2. \A j \in Jobs : Phase(j) = "none" /\ job[j].attempts = 0
    BY <2>1 DEF Absent, RowOf, Phase
  <2>3. hidden = {} /\ \A j \in Jobs : accepted[j] = NoProfile
    BY DEF Init
  <2>. QED BY <2>2, <2>3 DEF Lifecycle!Init
<1>2. IInv /\ WireShape /\ IInv' /\ [Next]_vars => [Lifecycle!Next]_(Lifecycle!vars)
  <2>. SUFFICES ASSUME IInv, WireShape, IInv', [Next]_vars
                PROVE  Lifecycle!Next \/ UNCHANGED Lifecycle!vars
    OBVIOUS
  <2>1. TypeOK /\ TypeOK'
    BY DEF IInv
  <2>2. CASE UNCHANGED vars
    BY <2>2, NothingMoves, SameRowSamePhase DEF vars, dbVars, netVars
  <2>3. CASE Next
    BY <2>1, <2>3, EnvironmentMoves, ProcessMoves, ProviderMoves, TickMoves DEF Next, Acts
  <2>. QED BY <2>2, <2>3
<1>. QED BY <1>1, <1>2, Shapes, PTL DEF Spec, ImplementsLifecycle, Lifecycle!Spec
=============================================================================
