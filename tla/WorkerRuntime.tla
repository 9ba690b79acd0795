---------------------------- MODULE WorkerRuntime ----------------------------
(***************************************************************************)
(* runWorker, the supervisor both workers live in (core/internal/jobs/      *)
(* runner.go): its select loop, the goroutine of the active run, the        *)
(* heartbeat file it publishes, and the doctor (core/internal/doctor) that  *)
(* judges the worker by that file alone. Durations are in ticks.            *)
(***************************************************************************)
EXTENDS Integers

CONSTANTS
  Interval,       \* cfg.interval, the pause after a run that succeeded
  Retry,          \* cfg.retry, the pause after one that failed
  RunTimeout,     \* cfg.runTimeout, which the doctor takes as the run limit
  Heartbeat,      \* cfg.heartbeatInterval, of heartbeats and health checks
  HealthTimeout,  \* cfg.healthTimeout
  Shutdown,       \* cfg.shutdownTimeout
  MaxAge,         \* HeartbeatMaxAge, the doctor's bound on the file's age
  Skew,           \* heartbeatFutureSkew
  NoFile,         \* there is no heartbeat file
  MaxFaults       \* bound on crashes, failed writes, lost connections, stuck runs

ASSUME DurationsAssumption ==
  /\ {Interval, Retry, RunTimeout, Heartbeat, HealthTimeout, Shutdown, MaxAge}
       \subseteq Nat \ {0}
  /\ Skew \in Nat
  /\ MaxFaults \in Nat
\* LoadForwarding and LoadRetention refuse less than two heartbeats.
ASSUME MaxAgeAssumption == MaxAge >= 2 * Heartbeat
\* Not validated. The defaults of both workers are 5 seconds for the health check,
\* 15 between heartbeats and 5 of skew.
ASSUME HealthAssumption == HealthTimeout < Heartbeat /\ HealthTimeout <= Skew

Never == -1
Ages == Nat \cup {Never}
Snapshots == [started : Ages, err : BOOLEAN, behind : BOOLEAN]
Heartbeats == [age : Nat, mine : BOOLEAN, snapshot : Snapshots]

ASSUME NoFileAssumption == NoFile \notin Heartbeats

VARIABLES
  loop,      \* where the supervisor is
  since,     \* ticks spent there, in a health check or waiting for the run
  signalled, \* ticks since the signal cancelled the context, or Never
  dead,      \* ticks since the connection the health check pings broke, or Never
  run,       \* the goroutine of the active run, or of the one given up
  timer,     \* ticks until the timer fires, or Never
  phase,     \* of the two tickers, which start together
  due,       \* the tickers with a tick in their channel
  state,     \* the snapshot in memory
  file,      \* the snapshot last published, its age, and whether this process wrote it
  faults,
  lastRun,   \* history: how the last finished run of this process ended
  missed     \* history: the last publication failed

place == <<loop, since>>
clocks == <<timer, phase, due>>
history == <<lastRun, missed>>
vars == <<place, signalled, dead, run, clocks, state, file, faults, history>>

Outcomes == {"ok", "failed", "canceled"}

Snapshot(started, err, behind) ==
  [started |-> started,  \* ticks since StartedAt, Never when not Running
   err |-> err,          \* LastError # ""
   behind |-> behind]    \* no LastSuccessAt, or LastCompletedAt is after it
Fresh == Snapshot(Never, FALSE, TRUE)

NoRun == [at |-> "none", age |-> 0, obeys |-> TRUE, canceled |-> FALSE, out |-> "ok"]

Init ==
  /\ loop = "off" /\ since = 0
  /\ signalled = Never /\ dead = Never
  /\ run = NoRun
  /\ timer = Never /\ phase = 0 /\ due = {}
  /\ state = Fresh
  /\ file = NoFile
  /\ faults = 0
  /\ lastRun = "none" /\ missed = FALSE

Fault == faults < MaxFaults /\ faults' = faults + 1

\* writeHeartbeat: the rename publishes the whole snapshot or nothing.
Publish(s) ==
  \/ /\ file' = [age |-> 0, mine |-> TRUE, snapshot |-> s]
     /\ missed' = FALSE
     /\ UNCHANGED faults
  \/ Fault /\ missed' = TRUE /\ UNCHANGED file

\* The process ends, and its goroutine with it; the file stays. A pid lives on
\* in the next process of the container.
Gone ==
  /\ loop' = "off" /\ since' = 0 /\ signalled' = Never /\ dead' = Never
  /\ run' = NoRun
  /\ timer' = Never /\ phase' = 0 /\ due' = {}
  /\ state' = Fresh
  /\ lastRun' = "none" /\ missed' = FALSE

-----------------------------------------------------------------------------
(* Start and end of the process.                                           *)

\* Mutant: the file of an earlier process is left in place.
PreparedKeeping == file

\* prepareWorkerState removes the file before anything that may take time.
Prepared == NoFile

Boot ==
  /\ loop = "off"
  /\ loop' = "boot"
  /\ file' = Prepared
  /\ UNCHANGED <<since, signalled, dead, run, clocks, state, faults, history>>

\* The owner lock and the pool are there: runWorker publishes the first
\* heartbeat, starts its timers and checks its health once.
Run ==
  /\ loop = "boot"
  /\ file' = [age |-> 0, mine |-> TRUE, snapshot |-> Fresh]
  /\ loop' = "check" /\ since' = 0
  /\ timer' = 0 /\ phase' = 0 /\ due' = {}
  /\ UNCHANGED <<signalled, dead, run, state, faults, history>>

\* The lock or the database is not there, or the first heartbeat fails.
BootFails ==
  /\ loop = "boot"
  /\ Fault
  /\ Gone
  /\ UNCHANGED file

Abandoned == IF file = NoFile THEN NoFile ELSE [file EXCEPT !.mine = FALSE]

Crash ==
  /\ loop # "off"
  /\ Fault
  /\ Gone
  /\ file' = Abandoned

\* runWorker returned, and the deferred closes follow. The pool's waits for the
\* connections in use: those of a run that was given up, if it has one, until the
\* run lets go of them.
CloseStore ==
  /\ loop = "quit"
  /\ loop' = "unlock"
  /\ UNCHANGED <<since, signalled, dead, run, clocks, state, file, faults, history>>

\* ownerLock.Close has no deadline, so on a broken connection it ends when TCP gives
\* up. (The retention worker has nothing to unlock.)
Exit ==
  /\ loop = "unlock"
  /\ Gone
  /\ file' = Abandoned
  /\ UNCHANGED faults

Signal ==
  /\ loop \notin {"off", "boot"} /\ signalled = Never
  /\ signalled' = 0
  /\ run' = [run EXCEPT !.canceled = @ \/ run.at = "work"]
  /\ UNCHANGED <<place, dead, clocks, state, file, faults, history>>

LoseConnection ==
  /\ loop \notin {"off", "boot"} /\ dead = Never
  /\ Fault
  /\ dead' = 0
  /\ UNCHANGED <<place, signalled, run, clocks, state, file, history>>

-----------------------------------------------------------------------------
(* The active run.                                                         *)

Running == run.at # "none"

\* startRun, when the timer fires. A run may ignore its context, and its start may not
\* be published; each is a fault.
StartRun ==
  /\ loop = "select" /\ timer = 0
  /\ timer' = Never
  /\ \/ Running /\ UNCHANGED <<run, state, file, faults, missed>>
     \/ /\ ~Running
        /\ state' = Snapshot(0, state.err, state.behind)
        /\ \E obeys, published \in BOOLEAN :
             /\ run' = [NoRun EXCEPT !.at = "work", !.obeys = obeys,
                                     !.canceled = signalled # Never]
             /\ faults' = faults + (IF obeys THEN 0 ELSE 1) + (IF published THEN 0 ELSE 1)
             /\ faults' <= MaxFaults
             /\ file' = IF published THEN [age |-> 0, mine |-> TRUE, snapshot |-> state'] ELSE file
             /\ missed' = ~published
  /\ UNCHANGED <<place, signalled, dead, phase, due, lastRun>>

\* The goroutine posts its outcome; "canceled" is context.Canceled, which a run
\* reports only once its context was cancelled before the deadline.
RunReturns ==
  /\ run.at = "work" /\ loop # "off"
  /\ \E out \in Outcomes :
       /\ out = "canceled" => run.canceled
       /\ run' = [run EXCEPT !.at = "done", !.out = out]
  /\ UNCHANGED <<place, signalled, dead, clocks, state, file, faults, history>>

\* markSucceeded, markFailed, markStopped.
Succeeded(s) == Snapshot(Never, FALSE, FALSE)
Failed(s) == Snapshot(Never, TRUE, TRUE)
Stopped(s) == Snapshot(Never, s.err, TRUE)

\* finishRun's choice of mark, for an outcome and whether a terminal error is
\* given.
Marked(out, terminal) ==
  CASE terminal -> Failed(state)
    [] ~terminal /\ out = "canceled" /\ signalled # Never -> Stopped(state)
    [] ~terminal /\ out = "ok" -> Succeeded(state)
    [] OTHER -> Failed(state)

\* Mutant: a failed run is not scheduled again.
NextDelayUnlessFailed(out) == IF out = "ok" THEN Interval ELSE Never

\* A stopped run is not scheduled again: the context is done.
NextDelay(out) ==
  IF out = "canceled" /\ signalled # Never THEN timer
  ELSE IF out = "ok" THEN Interval ELSE Retry

FinishRun(out, terminal) ==
  /\ state' = Marked(out, terminal)
  /\ Publish(state')
  /\ lastRun' = CASE terminal -> "failed"
                  [] ~terminal /\ out = "canceled" -> lastRun
                  [] OTHER -> out

\* case outcome := <-results
TakeResult ==
  /\ loop = "select" /\ run.at = "done"
  /\ run' = NoRun
  /\ FinishRun(run.out, FALSE)
  /\ timer' = NextDelay(run.out)
  /\ UNCHANGED <<place, signalled, dead, phase, due>>

-----------------------------------------------------------------------------
(* The other cases of the select.                                          *)

\* waitForActive: an active run is cancelled and waited for, in "failing" with a
\* terminal error to record, in "stopping" without.
AwaitActive(waiting) ==
  /\ Running
  /\ loop' = waiting /\ since' = 0
  /\ run' = [run EXCEPT !.canceled = TRUE]
  /\ UNCHANGED <<state, file, faults, history>>

ContextDone ==
  /\ loop = "select" /\ signalled # Never
  /\ \/ AwaitActive("stopping")
     \/ /\ ~Running
        /\ loop' = "quit" /\ since' = 0
        /\ UNCHANGED <<run, state, file, faults, history>>
  /\ UNCHANGED <<signalled, dead, clocks>>

\* Mutant: no health check while a run is active.
HealthTickWhenIdle ==
  /\ loop = "select" /\ "health" \in due
  /\ due' = due \ {"health"}
  /\ loop' = IF Running THEN "select" ELSE "check"
  /\ since' = 0
  /\ UNCHANGED <<signalled, dead, run, timer, phase, state, file, faults, history>>

HealthTick ==
  /\ loop = "select" /\ "health" \in due
  /\ due' = due \ {"health"}
  /\ loop' = "check" /\ since' = 0
  /\ UNCHANGED <<signalled, dead, run, timer, phase, state, file, faults, history>>

HealthOk ==
  /\ loop = "check" /\ dead = Never
  /\ loop' = "select" /\ since' = 0
  /\ UNCHANGED <<signalled, dead, run, clocks, state, file, faults, history>>

\* The connection is dead, or the signal cancelled the check's context.
HealthFails ==
  /\ loop = "check"
  /\ dead # Never \/ signalled # Never
  /\ \/ AwaitActive("failing")
     \/ /\ ~Running
        /\ loop' = "quit" /\ since' = 0
        /\ run' = NoRun
        /\ FinishRun("failed", TRUE)
  /\ UNCHANGED <<signalled, dead, clocks>>

\* Mutant: nothing is published between the runs.
HeartbeatTickWhenBusy ==
  /\ loop = "select" /\ "heartbeat" \in due
  /\ due' = due \ {"heartbeat"}
  /\ IF Running THEN Publish(state) ELSE UNCHANGED <<file, missed, faults>>
  /\ UNCHANGED <<place, signalled, dead, run, timer, phase, state, lastRun>>

HeartbeatTick ==
  /\ loop = "select" /\ "heartbeat" \in due
  /\ due' = due \ {"heartbeat"}
  /\ Publish(state)
  /\ UNCHANGED <<place, signalled, dead, run, timer, phase, state, lastRun>>

\* The run returned; or it is given up, and its goroutine is left behind.
WaitEnds ==
  /\ loop \in {"stopping", "failing"}
  /\ \/ run.at = "done" /\ run' = NoRun /\ FinishRun(run.out, loop = "failing")
     \/ since >= Shutdown /\ UNCHANGED run /\ FinishRun("failed", TRUE)
  /\ loop' = "quit" /\ since' = 0
  /\ UNCHANGED <<signalled, dead, clocks>>

-----------------------------------------------------------------------------
(* Time. The loop serves what is ready before a tick passes, except in a      *)
(* health check and while it waits for the run, which have their own limits,  *)
(* and in the closes, which have none; a run that obeys its context returns    *)
(* by its deadline.                                                          *)

Prompt ==
  /\ loop = "quit" => run.at = "work"
  /\ loop = "unlock" => dead # Never
  /\ loop = "select" =>
       timer # 0 /\ due = {} /\ signalled = Never /\ run.at # "done"
  /\ loop = "check" => since < HealthTimeout /\ signalled = Never
  /\ loop \in {"stopping", "failing"} => since < Shutdown /\ run.at # "done"
  /\ run.at = "work" /\ run.obeys => ~run.canceled /\ run.age < RunTimeout

\* No age is compared with more than this.
AgeCap == RunTimeout + Skew + MaxAge + Heartbeat + HealthTimeout + Shutdown
Up(n) == IF n = Never \/ n >= AgeCap THEN n ELSE n + 1
Older(s) == Snapshot(Up(s.started), s.err, s.behind)

Tick ==
  /\ Prompt
  /\ since' = IF loop \in {"check", "stopping", "failing"} THEN since + 1 ELSE since
  /\ signalled' = Up(signalled) /\ dead' = Up(dead)
  /\ run' = IF Running THEN [run EXCEPT !.age = Up(@)] ELSE run
  /\ timer' = IF timer > 0 THEN timer - 1 ELSE timer
  /\ IF loop \in {"off", "boot"}
     THEN UNCHANGED <<phase, due>>
     ELSE /\ phase' = (phase + 1) % Heartbeat
          /\ due' = IF phase' = 0 THEN {"heartbeat", "health"} ELSE due
  /\ state' = Older(state)
  /\ file' = IF file = NoFile THEN NoFile
             ELSE [file EXCEPT !.age = Up(@), !.snapshot = Older(@)]
  /\ UNCHANGED <<loop, faults, history>>

Serve == TakeResult \/ StartRun \/ ContextDone \/ HealthTick \/ HeartbeatTick
         \/ HealthOk \/ HealthFails \/ WaitEnds \/ Exit

Next ==
  \/ Boot \/ Run \/ BootFails \/ Crash \/ Signal \/ LoseConnection
  \/ RunReturns \/ Serve \/ CloseStore \/ Tick

Spec == Init /\ [][Next]_vars

\* The close of the pool may wait for ever for a run that was given up.
Fairness ==
  /\ WF_vars(Boot) /\ WF_vars(Run) /\ WF_vars(Serve) /\ WF_vars(Tick)
  /\ WF_vars(run.obeys /\ RunReturns) /\ WF_vars(run.at # "work" /\ CloseStore)
FairSpec == Spec /\ Fairness

-----------------------------------------------------------------------------
(* The doctor.                                                             *)

\* Mutant: a doctor that looks at the file's age and last error only.
DoctorOfAge ==
  /\ loop # "off" /\ file # NoFile
  /\ file.age <= MaxAge
  /\ ~(file.snapshot.err /\ file.snapshot.behind)

Doctor ==
  /\ loop # "off" /\ file # NoFile
  /\ file.age <= MaxAge
  /\ file.snapshot.started <= RunTimeout + Skew
  /\ ~(file.snapshot.err /\ file.snapshot.behind)

\* What the doctor should say of a process in service: its last run did not
\* fail, and none has ignored its deadline.
Sound ==
  /\ lastRun # "failed"
  /\ ~(Running /\ ~run.obeys /\ run.age > RunTimeout + Skew)

\* The doctor is right about a worker in service, with no false alarm while a
\* slow run or a health check holds the loop up, as long as heartbeats can be
\* written.
DoctorIsRight ==
  loop \in {"select", "check"} /\ ~missed => (Doctor <=> Sound)

\* A run that ignores its deadline is reported, even if its start could not be
\* published: by its start or, where the file knows of none, by the file's age. (The
\* limit on the age is the later of the two by default for the retention worker, and
\* the earlier for forwarding.)
OverdueRunIsReported ==
  run.at = "work" /\ run.age > RunTimeout + Skew /\ run.age > MaxAge => ~Doctor

\* The doctor never takes the file of an earlier process, with the same pid, for
\* a sign of life of this one.
OwnFileVouches == Doctor => file.mine

\* From the signal, and from the loss of the connection (the owner lock's), the
\* supervisor returns within its timeouts, whatever its run does. What holds the
\* process up after that has no limit (a run that was given up and keeps a pool
\* connection, a broken owner connection), but the doctor does not vouch for it
\* longer than the file's age allows.
QuitsInTime ==
  /\ signalled > Shutdown \/ dead > Heartbeat + HealthTimeout + Shutdown
       => loop \in {"quit", "unlock"}
  /\ signalled > Shutdown + MaxAge \/ dead > Heartbeat + HealthTimeout + Shutdown + MaxAge
       => ~Doctor

\* A process that has lost its owner lock starts a run no later than the health
\* tick that finds out.
LateStartsAreBounded ==
  [][run.at = "none" /\ run'.at = "work" => dead <= Heartbeat]_vars

\* Runs recur for as long as the process lives, through failures and deadlines.
RunsRecur == (loop # "off" /\ ~Running) ~> (Running \/ loop = "off")
=============================================================================
