--------------------------- MODULE ForwardingJobs ---------------------------
(***************************************************************************)
(* The mailbox forwarding queue: rows of mailbox_forward_jobs, the         *)
(* worker-forwarding runtimes that claim, send and settle them             *)
(* (core/internal/jobs), the administrator's requeue and the settings a    *)
(* worker reads, and the mail provider behind an idempotency key.          *)
(*                                                                         *)
(* Instants are kept relative to the present: next counts down to          *)
(* next_attempt_at, lease to lease_expires_at, age counts up from the      *)
(* instant `now' a run began with, and Tick moves them together.           *)
(***************************************************************************)
EXTENDS Integers, FiniteSets

CONSTANTS
  Jobs,           \* rows of mailbox_forward_jobs, one per inbound message
  MoveJobs,       \* the jobs created in mode MOVE
  Workers,        \* worker-forwarding processes
  Tokens,         \* claim tokens
  NoToken,        \* claim_token IS NULL
  NoWorker,       \* the owner advisory lock is free
  Profiles,       \* sending configurations a request body may be built from
  NoProfile,      \* no request, or nothing accepted
  MaxAttempts,    \* forwardingMaxAttempts
  InitialBackoff, \* forwardingInitialBackoff, in ticks
  MaxBackoff,     \* forwardingMaxBackoff, in ticks
  BatchSize,      \* cfg.BatchSize
  RunTimeout,     \* cfg.RunTimeout, in ticks
  Grace,          \* cfg.ShutdownTimeout + cfg.HeartbeatInterval, in ticks
  Lease,          \* cfg.LeaseDuration, in ticks
  MaxFaults       \* bound on crashes, lost connections and failed calls

ASSUME JobsAssumption == MoveJobs \subseteq Jobs
ASSUME SentinelAssumption ==
  /\ NoToken \notin Tokens
  /\ NoWorker \notin Workers
  /\ NoProfile \notin Profiles
  /\ {"blocked", "changed", "sealed"} \cap Profiles = {}
ASSUME NumbersAssumption ==
  /\ MaxAttempts \in Nat \ {0}
  /\ {InitialBackoff, MaxBackoff, RunTimeout, BatchSize} \subseteq Nat \ {0}
  /\ Grace \in Nat
  /\ Lease \in Nat
  /\ MaxFaults \in Nat
\* LoadForwarding refuses a lease shorter than this.
ASSUME LeaseAssumption == Lease >= RunTimeout + Grace

VARIABLES
  job,      \* the table: a row per job
  hidden,   \* the inbound messages whose portal_state is FORWARDED_HIDDEN
  route,    \* what the mailbox, domain and sending settings say of each job
  owner,    \* the session that holds the owner advisory lock
  run,      \* the volatile state of each process
  wire,     \* requests on their way to the provider
  accepted, \* the body the provider accepted under each idempotency key
  faults

dbVars == <<job, hidden>>
netVars == <<wire, accepted>>
vars == <<job, hidden, route, owner, run, wire, accepted, faults>>

Never == -1
Statuses == {"NONE", "PENDING", "RUNNING", "SENT", "FAILED", "SKIPPED", "ERASED"}
Routes == {"blocked", "changed", "sealed"} \cup Profiles
Verdicts == {"none", "skip", "reject", "retry", "sent"}
Row == [status : Statuses, attempts : 0..MaxAttempts,
        next : Nat \cup {Never}, token : Tokens \cup {NoToken}, lease : Nat]
Kept == {"no", "PENDING", "FAILED"}
Run == [pc : {"down", "idle", "load", "await", "mark", "release"},
        token : Tokens \cup {NoToken},
        claims : [Jobs -> Kept],        \* previous status of each remaining claim
        age : Nat,
        cur : SUBSET Jobs,              \* the job loaded, at most one
        seen : 0..MaxAttempts,          \* AttemptCount as loaded
        body : Profiles \cup {NoProfile},
        verdict : Verdicts]

RowOf(status, attempts, next, token, lease) ==
  [status |-> status, attempts |-> attempts, next |-> next,
   token |-> token, lease |-> lease]
Absent == RowOf("NONE", 0, Never, NoToken, 0)
Queued == RowOf("PENDING", 0, 0, NoToken, 0)
Erased == RowOf("ERASED", 0, Never, NoToken, 0)

NoClaims == [j \in Jobs |-> "no"]
\* A process with no job loaded.
Between(pc, token, claims, age) ==
  [pc |-> pc, token |-> token, claims |-> claims, age |-> age,
   cur |-> {}, seen |-> 0, body |-> NoProfile, verdict |-> "none"]
Down == Between("down", NoToken, NoClaims, 0)
Idle == Between("idle", NoToken, NoClaims, 0)

Init ==
  /\ job = [j \in Jobs |-> Absent]
  /\ hidden = {}
  /\ route \in [Jobs -> Routes]
  /\ owner = NoWorker
  /\ run = [w \in Workers |-> Down]
  /\ wire = {}
  /\ accepted = [j \in Jobs |-> NoProfile]
  /\ faults = 0

Fault == faults < MaxFaults /\ faults' = faults + 1

-----------------------------------------------------------------------------
(* The other services: ingress, the administrator, and settings.           *)

\* ReceiveIngress inserts the job in the transaction of its message.
CreateJob(j) ==
  /\ job[j].status = "NONE"
  /\ job' = [job EXCEPT ![j] = Queued]
  /\ UNCHANGED <<hidden, route, owner, run, netVars, faults>>

RequeueForwardingJob(j) ==
  /\ job[j].status \in {"FAILED", "SKIPPED"}
  /\ job' = [job EXCEPT ![j] = Queued]
  /\ UNCHANGED <<hidden, route, owner, run, netVars, faults>>

\* The settings that process() consults, as one value per job: "blocked" when
\* the mailbox or domain is inactive, the domain cannot send, no key is
\* configured or the target is no address; "changed" when forwarding is
\* disabled or goes elsewhere now; "sealed" when the key does not decrypt;
\* otherwise the profile the request body is built from.
ChangeSettings(j) ==
  /\ \E r \in Routes \ {route[j]} : route' = [route EXCEPT ![j] = r]
  /\ UNCHANGED <<dbVars, owner, run, netVars, faults>>

\* DeleteDomain, once the mailboxes are gone and the messages are in the bin:
\* the row follows its message by the foreign key's ON DELETE CASCADE.
EraseJob(j) ==
  /\ job[j].status \notin {"NONE", "ERASED"}
  /\ route[j] = "blocked"
  /\ job' = [job EXCEPT ![j] = Erased]
  /\ hidden' = hidden \ {j}
  /\ UNCHANGED <<route, owner, run, netVars, faults>>

-----------------------------------------------------------------------------
(* The process and its owner lock.                                         *)

Start(w) ==
  /\ run[w].pc = "down"
  /\ owner = NoWorker
  /\ owner' = w
  /\ run' = [run EXCEPT ![w] = Idle]
  /\ UNCHANGED <<dbVars, route, netVars, faults>>

Unlock(w) == owner' = IF owner = w THEN NoWorker ELSE owner

\* A graceful stop between runs: the health check found the lock's connection
\* dead, or a signal (a fault) cancelled the context.
Stop(w) ==
  /\ run[w].pc = "idle"
  /\ \/ owner # w /\ UNCHANGED faults
     \/ owner = w /\ Fault
  /\ Unlock(w)
  /\ run' = [run EXCEPT ![w] = Down]
  /\ UNCHANGED <<dbVars, route, netVars>>

\* The process dies at any point, or leaves a run behind at the shutdown timeout.
Crash(w) ==
  /\ run[w].pc # "down"
  /\ Fault
  /\ Unlock(w)
  /\ run' = [run EXCEPT ![w] = Down]
  /\ UNCHANGED <<dbVars, route, netVars>>

\* The dedicated connection drops; the process learns of it at a health tick.
LoseLock(w) ==
  /\ owner = w
  /\ Fault
  /\ owner' = NoWorker
  /\ UNCHANGED <<dbVars, route, run, netVars>>

-----------------------------------------------------------------------------
(* runOnce: claim a batch, settle the claims one by one, release the rest. *)

\* Mutants: a claim query that takes running rows whatever their lease, or never.
DueIgnoringLease(j) ==
  \/ job[j].status \in {"PENDING", "FAILED"} /\ job[j].next = 0
  \/ job[j].status = "RUNNING"
DueUnlessRunning(j) ==
  job[j].status \in {"PENDING", "FAILED"} /\ job[j].next = 0

Due(j) ==
  \/ job[j].status \in {"PENDING", "FAILED"} /\ job[j].next = 0
  \/ job[j].status = "RUNNING" /\ job[j].lease = 0
Claimable == {j \in Jobs : Due(j)}

PreviousStatus(j) ==
  IF job[j].status = "RUNNING" THEN "FAILED" ELSE job[j].status

\* Mutant: a token that an earlier claim used.
ReusedTokens == Tokens

FreshTokens ==
  Tokens \ ({job[j].token : j \in Jobs} \cup {run[w].token : w \in Workers})

\* Mutant: a lease that covers the run's deadline and not what follows it.
ShortLeaseRow(j, t) ==
  RowOf("RUNNING", job[j].attempts, job[j].next, t, RunTimeout)

ClaimedRow(j, t) ==
  RowOf("RUNNING", job[j].attempts, job[j].next, t, Lease)

\* One statement claims up to BatchSize due rows under one new token. Which due
\* rows a smaller batch takes is left open. If the answer is lost the rows are
\* claimed and the process does not know.
Claim(w) ==
  /\ run[w].pc = "idle"
  /\ \E S \in SUBSET Claimable, t \in FreshTokens :
       /\ S # {}
       /\ Cardinality(S) <= BatchSize
       /\ S = Claimable \/ Cardinality(S) = BatchSize
       /\ job' = [j \in Jobs |-> IF j \in S THEN ClaimedRow(j, t) ELSE job[j]]
       /\ \/ /\ run' = [run EXCEPT ![w] =
                  Between("load", t, [j \in Jobs |->
                     IF j \in S THEN PreviousStatus(j) ELSE "no"], 0)]
             /\ UNCHANGED faults
          \/ Fault /\ UNCHANGED run
  /\ UNCHANGED <<hidden, route, owner, netVars>>

Remaining(w) == {j \in Jobs : run[w].claims[j] # "no"}

\* Mutants: updates guarded by the status alone, and by the id alone.
HoldsByStatus(w, j) == job[j].status = "RUNNING"
HoldsById(w, j) == TRUE

Holds(w, j) ==
  /\ job[j].status = "RUNNING"
  /\ job[j].token = run[w].token

\* remaining = remaining[1:]; the run ends with its last claim.
Dropped(w, j) ==
  IF Remaining(w) = {j}
  THEN Idle
  ELSE Between("load", run[w].token,
               [run[w].claims EXCEPT ![j] = "no"], run[w].age)

\* The run returns an error: only its remaining claims matter from here on.
Ending(w) ==
  Between("release", run[w].token, run[w].claims, run[w].age)

\* The run with job j loaded.
Loaded(w, j, pc, body, verdict) ==
  [pc |-> pc, token |-> run[w].token, claims |-> run[w].claims, age |-> run[w].age,
   cur |-> {j}, seen |-> job[j].attempts, body |-> body, verdict |-> verdict]

\* What process() makes of the settings before it asks the provider.
Refusal(j) ==
  CASE route[j] = "blocked" -> "reject"
    [] route[j] = "changed" -> "skip"
    [] route[j] = "sealed" -> "retry"
    [] OTHER -> "none"

\* Load, and process() up to its first effect: what Load reads decides.
Load(w) ==
  /\ run[w].pc = "load"
  /\ \E j \in Remaining(w) :
       \/ /\ ~Holds(w, j)
          /\ run' = [run EXCEPT ![w] = Dropped(w, j)]
          /\ UNCHANGED wire
       \/ /\ Holds(w, j) /\ route[j] \notin Profiles
          /\ run' = [run EXCEPT ![w] = Loaded(w, j, "mark", NoProfile, Refusal(j))]
          /\ UNCHANGED wire
       \/ /\ Holds(w, j) /\ route[j] \in Profiles
          /\ run' = [run EXCEPT ![w] = Loaded(w, j, "await", route[j], "none")]
          /\ wire' = wire \cup {<<j, route[j]>>}
  /\ UNCHANGED <<dbVars, route, owner, accepted, faults>>

\* The provider's reply to job j: a result when it has accepted this very body,
\* a permanent refusal (4xx; 409 when the key carries another body), or a
\* retryable error (408, 429, 5xx, a time-out, an unreadable result), after
\* which the request may still arrive.
Answer(w) ==
  /\ run[w].pc = "await"
  /\ \E j \in run[w].cur, v \in {"sent", "reject", "retry"} :
       /\ v # "retry" => <<j, run[w].body>> \notin wire
       /\ v = "sent" => accepted[j] = run[w].body
       /\ run' = [run EXCEPT ![w] =
            [@ EXCEPT !.pc = "mark", !.body = NoProfile, !.verdict = v]]
  /\ UNCHANGED <<dbVars, route, owner, netVars, faults>>

\* fail(): the delay doubles from InitialBackoff to MaxBackoff, counted from the
\* instant the run began; no retry once the attempts are used up.
Backoff(n) ==
  LET delay == InitialBackoff * 2^(n - 1)
  IN IF delay \in 0..MaxBackoff THEN delay ELSE MaxBackoff

RetryAt(w) ==
  LET left == Backoff(run[w].seen + 1) - run[w].age
  IN IF left > 0 THEN left ELSE 0

\* Mutant: one attempt too many.
RetryOnceMore(w) ==
  IF run[w].verdict = "retry" /\ run[w].seen < MaxAttempts THEN RetryAt(w) ELSE Never

RetryIn(w) ==
  IF run[w].verdict = "retry" /\ run[w].seen + 1 < MaxAttempts
  THEN RetryAt(w) ELSE Never

\* Mutant: a refusal taken for a result.
StatusIfAnswered(verdict) ==
  IF verdict = "skip" THEN "SKIPPED"
  ELSE IF verdict \in {"sent", "reject"} THEN "SENT" ELSE "FAILED"

StatusFor(verdict) ==
  IF verdict = "skip" THEN "SKIPPED"
  ELSE IF verdict = "sent" THEN "SENT" ELSE "FAILED"

\* MarkSkipped, MarkFailed, MarkSent.
SettledRow(w, j) ==
  RowOf(StatusFor(run[w].verdict),
        IF run[w].verdict = "skip" THEN job[j].attempts ELSE job[j].attempts + 1,
        RetryIn(w), NoToken, 0)

\* Mutants: a message hidden whatever the outcome, and whatever the mode.
HidesOnFailure(w, j) == j \in MoveJobs
HidesCopies(w, j) == run[w].verdict = "sent"

Hides(w, j) == run[w].verdict = "sent" /\ j \in MoveJobs

\* The statement is guarded by the token, in one transaction with the message's
\* portal state; a lost answer after the commit looks like a failed call.
Mark(w) ==
  /\ run[w].pc = "mark"
  /\ \E j \in run[w].cur :
       \/ /\ Holds(w, j)
          /\ job' = [job EXCEPT ![j] = SettledRow(w, j)]
          /\ hidden' = IF Hides(w, j) THEN hidden \cup {j} ELSE hidden
          /\ \/ run' = [run EXCEPT ![w] = Dropped(w, j)] /\ UNCHANGED faults
             \/ run' = [run EXCEPT ![w] = Ending(w)] /\ Fault
       \/ /\ ~Holds(w, j)
          /\ run' = [run EXCEPT ![w] = Dropped(w, j)]
          /\ UNCHANGED <<dbVars, faults>>
  /\ UNCHANGED <<route, owner, netVars>>

\* A call of the run fails without effect: the database is away, or the run's
\* context is cancelled or past its deadline.
Abort(w) ==
  /\ run[w].pc \in {"load", "await", "mark"}
  /\ Fault
  /\ run' = [run EXCEPT ![w] = Ending(w)]
  /\ UNCHANGED <<dbVars, route, owner, netVars>>

\* Mutant: a release that also clears the schedule.
UnscheduledRow(w, j) ==
  RowOf(run[w].claims[j], job[j].attempts, Never, NoToken, 0)

ReleasedRow(w, j) ==
  RowOf(run[w].claims[j], job[j].attempts, job[j].next, NoToken, 0)

\* The deferred Release of every remaining claim, the current one included.
Release(w) ==
  /\ run[w].pc = "release"
  /\ \/ /\ job' = [j \in Jobs |->
             IF j \in Remaining(w) /\ Holds(w, j) THEN ReleasedRow(w, j) ELSE job[j]]
        /\ UNCHANGED faults
     \/ Fault /\ UNCHANGED job
  /\ run' = [run EXCEPT ![w] = Idle]
  /\ UNCHANGED <<hidden, route, owner, netVars>>

-----------------------------------------------------------------------------
(* The provider (external): the first body under a key is the mail sent.   *)

ProviderTakes(r) ==
  /\ r \in wire
  /\ wire' = wire \ {r}
  /\ \/ accepted' = [accepted EXCEPT ![r[1]] = IF @ = NoProfile THEN r[2] ELSE @]
     \/ UNCHANGED accepted      \* refused, or lost on the way
  /\ UNCHANGED <<dbVars, route, owner, run, faults>>

-----------------------------------------------------------------------------
(* Time.                                                                   *)

CountDown(n) == IF n > 0 THEN n - 1 ELSE n

\* age is compared with no duration longer than these.
AgeCap == IF Lease > MaxBackoff THEN Lease ELSE MaxBackoff

Tick ==
  /\ job' = [j \in Jobs |->
       RowOf(job[j].status, job[j].attempts, CountDown(job[j].next),
             job[j].token, CountDown(job[j].lease))]
  /\ run' = [w \in Workers |->
       IF run[w].pc \in {"down", "idle"} \/ run[w].age >= AgeCap
       THEN run[w] ELSE [run[w] EXCEPT !.age = @ + 1]]
  /\ UNCHANGED <<hidden, route, owner, netVars, faults>>

\* Go cancels the calls of a run at its deadline, and the process does not
\* outlive the shutdown timeout after that: a run past its time stands still
\* only if its process does.
Prompt ==
  \A w \in Workers :
    /\ run[w].pc \in {"load", "await", "mark"} => run[w].age < RunTimeout
    /\ run[w].pc = "release" => run[w].age < RunTimeout + Grace

-----------------------------------------------------------------------------
Step(w) == Claim(w) \/ Load(w) \/ Answer(w) \/ Mark(w) \/ Release(w)

Process(w) == Start(w) \/ Stop(w) \/ Crash(w) \/ LoseLock(w) \/ Abort(w) \/ Step(w)

Environment(j) ==
  \/ CreateJob(j) \/ RequeueForwardingJob(j)
  \/ ChangeSettings(j) \/ EraseJob(j)

Acts ==
  \/ \E w \in Workers : Process(w)
  \/ \E j \in Jobs : Environment(j)
  \/ \E r \in Jobs \X Profiles : ProviderTakes(r)

\* Spec makes no assumption on how long a step takes, so a lease may run out
\* under a live worker; TimedSpec has every deadline kept.
Next == Acts \/ Tick
Spec == Init /\ [][Next]_vars

TimedNext == Acts \/ (Prompt /\ Tick)
TimedSpec == Init /\ [][TimedNext]_vars

-----------------------------------------------------------------------------
(* What the queue promises whatever the timing.                            *)

TypeOK ==
  /\ job \in [Jobs -> Row]
  /\ hidden \subseteq Jobs
  /\ route \in [Jobs -> Routes]
  /\ owner \in Workers \cup {NoWorker}
  /\ run \in [Workers -> Run]
  /\ wire \subseteq Jobs \X Profiles
  /\ accepted \in [Jobs -> Profiles \cup {NoProfile}]
  /\ faults \in 0..MaxFaults

\* However often leases run out under workers that go on, at most one process
\* can settle or release a job: no two hold its current token (the token fence
\* of MarkSkipped, MarkFailed, MarkSent, Load and Release).
OneHolder ==
  \A v, w \in Workers, j \in Jobs :
    (v # w /\ j \in Remaining(v) /\ j \in Remaining(w)) =>
      ~(Holds(v, j) /\ Holds(w, j))

\* No job is stranded: whatever claims, releases, lost leases and retries it
\* went through, a job that is not settled keeps an instant at which the claim
\* query takes it again, and an attempt to spend.
OpenJobsStayClaimable ==
  \A j \in Jobs :
    (job[j].status \in {"PENDING", "RUNNING"} \/ job[j].next # Never) =>
      /\ job[j].status \in {"PENDING", "RUNNING", "FAILED"}
      /\ job[j].next # Never
      /\ job[j].attempts < MaxAttempts

\* The attempt count a worker read with Load still is the row's when it decides
\* whether to retry, so the retry limit counts every attempt.
LoadedCountIsCurrent ==
  \A w \in Workers : \A j \in run[w].cur :
    Holds(w, j) => run[w].seen = job[j].attempts

\* A job is SENT only if the provider accepted a body under the job's key.
SentWasAccepted ==
  \A j \in Jobs : job[j].status = "SENT" => accepted[j] # NoProfile

\* A message leaves the portal exactly when its MOVE job is SENT: MarkSent
\* writes both in one transaction, and nothing else takes SENT back.
HiddenWhenMoved ==
  \A j \in Jobs : j \in hidden <=> (job[j].status = "SENT" /\ j \in MoveJobs)

Settled(j) ==
  \/ job[j].status \in {"SENT", "SKIPPED", "ERASED"}
  \/ job[j].status = "FAILED" /\ job[j].next = Never

\* A settled job stays as it is, however late a stale worker writes: only the
\* administrator reopens one (never a SENT one), with a clean count.
SettledIsFinal ==
  [][\A j \in Jobs : Settled(j) /\ job'[j] # job[j] =>
       \/ job'[j].status = "ERASED"
       \/ /\ job[j].status # "SENT"
          /\ job'[j].status = "PENDING" /\ job'[j].attempts = 0]_vars

\* A claim ends by its holder's hand or by its lease: no other process, and no
\* administrator, takes a job from RUNNING before that.
ClaimIsExclusive ==
  [][\A j \in Jobs :
       (job[j].status = "RUNNING" /\ job'[j].token # job[j].token) =>
         \/ job[j].lease = 0 /\ job'[j].status = "RUNNING"
         \/ job'[j].status = "ERASED"
         \/ \E w \in Workers : /\ Holds(w, j) /\ j \in Remaining(w)
                               /\ run[w].pc \in {"mark", "release"}]_vars

\* The queue implements the lifecycle an administrator sees, steps of every
\* actor in every order included.
Phase(j) ==
  CASE job[j].status = "NONE" -> "none"
    [] job[j].status = "PENDING" -> "waiting"
    [] job[j].status = "RUNNING" -> "working"
    [] job[j].status = "SENT" -> "sent"
    [] job[j].status = "SKIPPED" -> "skipped"
    [] job[j].status = "ERASED" -> "erased"
    [] job[j].status = "FAILED" -> IF job[j].next = Never THEN "failed" ELSE "waiting"

Lifecycle == INSTANCE ForwardingLifecycle WITH
  phase <- [j \in Jobs |-> Phase(j)],
  tries <- [j \in Jobs |-> job[j].attempts],
  mailed <- {j \in Jobs : accepted[j] # NoProfile}

ImplementsLifecycle == Lifecycle!Spec

-----------------------------------------------------------------------------
(* What it promises when deadlines are kept (TimedSpec).                   *)

\* errClaimLost never happens to a run that is within its deadline, for the
\* lease outlives the run: no two processes ask the provider for the same job
\* at once, even after the owner lock is lost.
LiveClaimsHold ==
  \A w \in Workers : run[w].pc \in {"load", "await", "mark"} =>
    \A j \in Remaining(w) : Holds(w, j) \/ job[j].status = "ERASED"

Fairness ==
  /\ WF_vars(Prompt /\ Tick)
  /\ \A w \in Workers : WF_vars(Start(w)) /\ WF_vars(Step(w))
FairSpec == TimedSpec /\ Fairness

\* Every job is settled in the end, by whichever process lives: crashes, lost
\* answers and lost locks, as long as they are not endless, only delay it. The
\* one exception is a job an administrator requeues for ever.
EveryJobSettles ==
  \A j \in Jobs :
    \/ []<><<RequeueForwardingJob(j)>>_vars
    \/ job[j].status # "NONE" ~> Settled(j)
=============================================================================
