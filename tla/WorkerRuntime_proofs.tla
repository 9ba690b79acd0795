-------------------------- MODULE WorkerRuntime_proofs --------------------------
(***************************************************************************)
(* The safety of WorkerRuntime for all durations that keep its assumptions:   *)
(* whose file the doctor reads, when the loop ends, how late a run may         *)
(* start, that a run past its deadline is reported, and that the doctor is    *)
(* right.                                                                    *)
(***************************************************************************)
EXTENDS WorkerRuntime, TLAPS

Places == {"off", "boot", "select", "check", "stopping", "failing", "quit", "unlock"}
Tickers == {"heartbeat", "health"}

Runs == [at : {"none", "work", "done"}, age : Nat, obeys : BOOLEAN,
         canceled : BOOLEAN, out : Outcomes]

TypeOK ==
  /\ loop \in Places /\ since \in Nat
  /\ signalled \in Ages /\ dead \in Ages
  /\ run \in Runs
  /\ phase \in 0..(Heartbeat - 1)
  /\ due \subseteq Tickers
  /\ state \in Snapshots
  /\ file \in Heartbeats \cup {NoFile}
  /\ lastRun \in {"none", "ok", "failed"} /\ missed \in BOOLEAN

-----------------------------------------------------------------------------
(* Arithmetic of the clocks.                                                *)

LEMMA Durations ==
  /\ RunTimeout \in Nat \ {0} /\ Heartbeat \in Nat \ {0} /\ HealthTimeout \in Nat \ {0}
  /\ Shutdown \in Nat \ {0} /\ MaxAge \in Nat \ {0} /\ Skew \in Nat
BY DurationsAssumption

LEMMA CapIsPositive == AgeCap \in Nat \ {0}
BY Durations DEF AgeCap

\* An age grows by one, or has reached the cap.
LEMMA UpIsAge ==
  ASSUME NEW n \in Ages
  PROVE  /\ Up(n) \in Ages /\ n <= Up(n) /\ Up(n) <= n + 1
         /\ n = Never <=> Up(n) = Never
         /\ n \in Nat => Up(n) \in Nat
BY CapIsPositive DEF Up, Ages, Never

\* Of two ages the greater stays so.
LEMMA UpKeepsOrder ==
  ASSUME NEW m \in Nat, NEW n \in Nat, m <= n
  PROVE  Up(m) <= Up(n)
BY CapIsPositive DEF Up, Never

\* The tickers' phase wraps at Heartbeat.
LEMMA NextPhase ==
  ASSUME NEW p \in 0..(Heartbeat - 1)
  PROVE  (p + 1) % Heartbeat = IF p + 1 = Heartbeat THEN 0 ELSE p + 1
<1>1. CASE p + 1 = Heartbeat
  BY <1>1, Durations
<1>2. CASE p + 1 < Heartbeat
  BY <1>2, Durations
<1> QED
  BY <1>1, <1>2, Durations

-----------------------------------------------------------------------------
(* The records: what they hold, and what an update leaves.                  *)

LEMMA RunFields ==
  ASSUME NEW r \in Runs
  PROVE  /\ r.at \in {"none", "work", "done"} /\ r.age \in Nat /\ r.obeys \in BOOLEAN
         /\ r.canceled \in BOOLEAN /\ r.out \in Outcomes
BY DEF Runs

LEMMA NoRunFields ==
  NoRun \in Runs /\ NoRun.at = "none" /\ ~NoRun.canceled
BY DEF NoRun, Runs, Outcomes

LEMMA RunAged ==
  ASSUME NEW r \in Runs, NEW n \in Nat, NEW q, q = [r EXCEPT !.age = n]
  PROVE  /\ q \in Runs /\ q.age = n
         /\ q.at = r.at /\ q.obeys = r.obeys /\ q.canceled = r.canceled /\ q.out = r.out
BY DEF Runs

LEMMA RunCanceled ==
  ASSUME NEW r \in Runs, NEW c \in BOOLEAN, NEW q, q = [r EXCEPT !.canceled = c]
  PROVE  /\ q \in Runs /\ q.canceled = c
         /\ q.at = r.at /\ q.age = r.age /\ q.obeys = r.obeys /\ q.out = r.out
BY DEF Runs

LEMMA RunReturned ==
  ASSUME NEW r \in Runs, NEW out \in Outcomes, NEW q, q = [r EXCEPT !.at = "done", !.out = out]
  PROVE  /\ q \in Runs /\ q.at = "done" /\ q.out = out
         /\ q.age = r.age /\ q.obeys = r.obeys /\ q.canceled = r.canceled
BY DEF Runs

LEMMA SnapshotFields ==
  ASSUME NEW s \in Snapshots
  PROVE  s.started \in Ages /\ s.err \in BOOLEAN /\ s.behind \in BOOLEAN
BY DEF Snapshots

LEMMA FreshFields ==
  Fresh \in Snapshots /\ Fresh.started = Never /\ ~Fresh.err /\ Fresh.behind
BY DEF Fresh, Snapshot, Snapshots, Ages

LEMMA OlderFields ==
  ASSUME NEW s \in Snapshots
  PROVE  /\ Older(s) \in Snapshots /\ Older(s).started = Up(s.started)
         /\ Older(s).err = s.err /\ Older(s).behind = s.behind
<1>1. Up(s.started) \in Ages /\ s.err \in BOOLEAN /\ s.behind \in BOOLEAN
  BY SnapshotFields, UpIsAge
<1> QED
  BY <1>1 DEF Older, Snapshot, Snapshots

LEMMA FreshStays == Older(Fresh) = Fresh
BY DEF Older, Up, Fresh, Snapshot

LEMMA FileFields ==
  ASSUME NEW f \in Heartbeats
  PROVE  f.age \in Nat /\ f.mine \in BOOLEAN /\ f.snapshot \in Snapshots /\ f # NoFile
<1>1. f # NoFile
  BY NoFileAssumption
<1> QED
  BY <1>1 DEF Heartbeats

LEMMA FileWritten ==
  ASSUME NEW s \in Snapshots, NEW f, f = [age |-> 0, mine |-> TRUE, snapshot |-> s]
  PROVE  f \in Heartbeats /\ f # NoFile /\ f.age = 0 /\ f.mine /\ f.snapshot = s
<1>1. f \in Heartbeats /\ f.age = 0 /\ f.mine /\ f.snapshot = s
  BY DEF Heartbeats
<1> QED
  BY <1>1, FileFields

-----------------------------------------------------------------------------
(* What the parts of the actions do to the records.                         *)

Files == Heartbeats \cup {NoFile}

\* The file holds s, or the publication failed and the file is as it was.
HoldsOrMissed(s) ==
  \/ /\ file' \in Heartbeats /\ file'.age = 0 /\ file'.mine
     /\ file'.snapshot = s /\ missed' = FALSE
  \/ file' = file /\ missed' = TRUE

LEMMA Published ==
  ASSUME NEW s \in Snapshots, Publish(s)
  PROVE  HoldsOrMissed(s)
<1>1. CASE file' = [age |-> 0, mine |-> TRUE, snapshot |-> s] /\ missed' = FALSE
  <2>1. /\ file' \in Heartbeats /\ file'.age = 0 /\ file'.mine /\ file'.snapshot = s
    BY <1>1, FileWritten
  <2> QED
    BY <1>1, <2>1 DEF HoldsOrMissed
<1>2. CASE missed' = TRUE /\ file' = file
  BY <1>2 DEF HoldsOrMissed
<1> QED
  BY <1>1, <1>2 DEF Publish

LEMMA MarkedFields ==
  ASSUME TypeOK, NEW out \in Outcomes, NEW terminal \in BOOLEAN
  PROVE  /\ Marked(out, terminal) \in Snapshots
         /\ Marked(out, terminal).started = Never
         /\ Marked(out, terminal).err <=>
              \/ terminal \/ out = "failed"
              \/ out = "canceled" /\ (signalled = Never \/ state.err)
         /\ Marked(out, terminal).behind <=> terminal \/ out # "ok"
<1> DEFINE m == Marked(out, terminal)
<1>1. Failed(state) \in Snapshots /\ Failed(state).started = Never
      /\ Failed(state).err /\ Failed(state).behind
  BY DEF Failed, Snapshot, Snapshots, Ages
<1>2. Succeeded(state) \in Snapshots /\ Succeeded(state).started = Never
      /\ ~Succeeded(state).err /\ ~Succeeded(state).behind
  BY DEF Succeeded, Snapshot, Snapshots, Ages
<1>3. state.err \in BOOLEAN
  BY SnapshotFields DEF TypeOK
<1>4. Stopped(state) \in Snapshots /\ Stopped(state).started = Never
      /\ (Stopped(state).err <=> state.err) /\ Stopped(state).behind
  BY <1>3 DEF Stopped, Snapshot, Snapshots, Ages
<1>5. CASE terminal
  <2>1. m = Failed(state)
    BY <1>5 DEF Marked
  <2> QED
    BY <1>1, <1>5, <2>1
<1>6. CASE ~terminal /\ out = "canceled" /\ signalled # Never
  <2>1. m = Stopped(state)
    BY <1>6 DEF Marked
  <2> QED
    BY <1>4, <1>6, <2>1
<1>7. CASE ~terminal /\ out = "ok"
  <2>1. m = Succeeded(state)
    BY <1>7 DEF Marked
  <2> QED
    BY <1>2, <1>7, <2>1
<1>8. CASE ~terminal /\ out # "ok" /\ ~(out = "canceled" /\ signalled # Never)
  <2>1. m = Failed(state)
    BY <1>8 DEF Marked
  <2> QED
    BY <1>1, <1>8, <2>1 DEF Outcomes
<1> QED
  BY <1>5, <1>6, <1>7, <1>8

\* FinishRun leaves a snapshot that is not running, and the outcome in its error.
IsFinished(out, terminal) ==
  /\ state' \in Snapshots /\ state'.started = Never
  /\ state'.err <=> \/ terminal \/ out = "failed"
                    \/ out = "canceled" /\ (signalled = Never \/ state.err)
  /\ state'.err => state'.behind
  /\ HoldsOrMissed(state')
  /\ lastRun' = IF terminal THEN "failed" ELSE IF out = "canceled" THEN lastRun ELSE out

LEMMA Finished ==
  ASSUME TypeOK, NEW out \in Outcomes, NEW terminal \in BOOLEAN, FinishRun(out, terminal)
  PROVE  IsFinished(out, terminal)
<1>1. state' = Marked(out, terminal) /\ Publish(state')
  BY DEF FinishRun
<1>2. lastRun' = IF terminal THEN "failed" ELSE IF out = "canceled" THEN lastRun ELSE out
  <2>1. CASE terminal
    BY <2>1 DEF FinishRun
  <2>2. CASE ~terminal /\ out = "canceled"
    BY <2>2 DEF FinishRun
  <2>3. CASE ~terminal /\ out # "canceled"
    BY <2>3 DEF FinishRun
  <2> QED
    BY <2>1, <2>2, <2>3
<1>3. state' \in Snapshots /\ HoldsOrMissed(state')
  BY <1>1, MarkedFields, Published
<1> QED
  BY <1>1, <1>2, <1>3, MarkedFields DEF IsFinished, Outcomes

\* StartRun makes a run of age 0, and a snapshot that says so.
IsStarted ==
  /\ run' \in Runs /\ run'.at = "work" /\ run'.age = 0
  /\ run'.canceled <=> signalled # Never
  /\ state' \in Snapshots /\ state'.started = 0
  /\ state'.err <=> state.err
  /\ state'.behind <=> state.behind
  /\ HoldsOrMissed(state')

LEMMA Started ==
  ASSUME TypeOK, StartRun, ~Running
  PROVE  IsStarted
<1>1. state.err \in BOOLEAN /\ state.behind \in BOOLEAN
  BY SnapshotFields DEF TypeOK
<1>2. state' = Snapshot(0, state.err, state.behind)
  BY DEF StartRun
<1>3. /\ state' \in Snapshots /\ state'.started = 0
      /\ state'.err <=> state.err
      /\ state'.behind <=> state.behind
  BY <1>1, <1>2 DEF Snapshot, Snapshots, Ages
<1>4. PICK obeys \in BOOLEAN, published \in BOOLEAN :
        /\ run' = [NoRun EXCEPT !.at = "work", !.obeys = obeys,
                                !.canceled = signalled # Never]
        /\ file' = IF published THEN [age |-> 0, mine |-> TRUE, snapshot |-> state'] ELSE file
        /\ missed' = ~published
  BY DEF StartRun
<1>5. /\ run' \in Runs /\ run'.at = "work" /\ run'.age = 0
      /\ run'.canceled <=> signalled # Never
  BY <1>4 DEF NoRun, Runs, Outcomes
<1>6. HoldsOrMissed(state')
  <2>1. CASE published
    <3>1. file' = [age |-> 0, mine |-> TRUE, snapshot |-> state'] /\ missed' = FALSE
      BY <1>4, <2>1
    <3> QED
      BY <1>3, <3>1, FileWritten DEF HoldsOrMissed
  <2>2. CASE ~published
    BY <1>4, <2>2 DEF HoldsOrMissed
  <2> QED
    BY <2>1, <2>2
<1> QED
  BY <1>3, <1>5, <1>6 DEF IsStarted

\* A tick ages the run, the snapshot and the file, and nothing else in them.
IsOlder ==
  /\ run' \in Runs /\ run'.at = run.at /\ run'.obeys = run.obeys
  /\ run'.canceled = run.canceled /\ run'.out = run.out
  /\ run'.age = IF Running THEN Up(run.age) ELSE run.age
  /\ state' = Older(state)
  /\ file = NoFile => file' = NoFile
  /\ file # NoFile => /\ file' \in Heartbeats /\ file'.age = Up(file.age)
                      /\ file'.mine = file.mine /\ file'.snapshot = Older(file.snapshot)

LEMMA Aged ==
  ASSUME TypeOK, Tick
  PROVE  IsOlder
<1>1. run \in Runs /\ run.age \in Nat /\ Up(run.age) \in Nat
  BY RunFields, UpIsAge DEF TypeOK, Ages
<1>2. /\ run' \in Runs /\ run'.at = run.at /\ run'.obeys = run.obeys
      /\ run'.canceled = run.canceled /\ run'.out = run.out
      /\ run'.age = IF Running THEN Up(run.age) ELSE run.age
  <2>1. CASE Running
    BY <1>1, <2>1, RunAged DEF Tick
  <2>2. CASE ~Running
    BY <1>1, <2>2 DEF Tick
  <2> QED
    BY <2>1, <2>2
<1>3. ASSUME file # NoFile
      PROVE  /\ file' \in Heartbeats /\ file'.age = Up(file.age)
             /\ file'.mine = file.mine /\ file'.snapshot = Older(file.snapshot)
  <2>1. file \in Heartbeats /\ Up(file.age) \in Nat /\ Older(file.snapshot) \in Snapshots
    BY <1>3, FileFields, UpIsAge, OlderFields DEF TypeOK, Ages
  <2>2. file' = [file EXCEPT !.age = Up(file.age), !.snapshot = Older(file.snapshot)]
    BY <1>3 DEF Tick
  <2> QED
    BY <2>1, <2>2 DEF Heartbeats
<1>4. state' = Older(state) /\ (file = NoFile => file' = NoFile)
  BY DEF Tick
<1> QED
  BY <1>2, <1>3, <1>4 DEF IsOlder

-----------------------------------------------------------------------------
(* The type.                                                                *)

LEMMA InitType == Init => TypeOK
<1> SUFFICES ASSUME Init PROVE TypeOK
  OBVIOUS
<1>1. run \in Runs /\ state \in Snapshots
  BY NoRunFields, FreshFields DEF Init
<1>2. phase \in 0..(Heartbeat - 1)
  BY Durations DEF Init
<1> QED
  BY <1>1, <1>2 DEF Init, TypeOK, Places, Ages

\* The process is gone: nothing of it is left but the file.
LEMMA GoneType ==
  ASSUME TypeOK, Gone, file' \in Files
  PROVE  TypeOK'
<1>1. run' \in Runs /\ state' \in Snapshots
  BY NoRunFields, FreshFields DEF Gone
<1>2. phase' \in 0..(Heartbeat - 1)
  BY Durations DEF Gone
<1> QED
  BY <1>1, <1>2 DEF Gone, TypeOK, Places, Ages, Files

LEMMA AbandonedFile ==
  ASSUME TypeOK
  PROVE  Abandoned \in Files
<1>1. CASE file = NoFile
  BY <1>1 DEF Abandoned, Files
<1>2. CASE file # NoFile
  <2>1. [file EXCEPT !.mine = FALSE] \in Heartbeats
    BY <1>2 DEF TypeOK, Heartbeats
  <2> QED
    BY <1>2, <2>1 DEF Abandoned, Files
<1> QED
  BY <1>1, <1>2

LEMMA StepType == TypeOK /\ [Next]_vars => TypeOK'
<1> SUFFICES ASSUME TypeOK, [Next]_vars PROVE TypeOK'
  OBVIOUS
<1> USE DEF place, clocks, history
<1>1. CASE Boot
  BY <1>1 DEF Boot, Prepared, TypeOK, Places
<1>2. CASE Run
  <2>1. file' \in Heartbeats
    BY <1>2, FreshFields, FileWritten DEF Run
  <2>2. phase' \in 0..(Heartbeat - 1)
    BY <1>2, Durations DEF Run
  <2> QED
    BY <1>2, <2>1, <2>2 DEF Run, TypeOK, Places
<1>3. CASE BootFails \/ Crash \/ Exit
  <2>1. Gone /\ file' \in Files
    BY <1>3, AbandonedFile DEF BootFails, Crash, Exit, TypeOK, Files
  <2> QED
    BY <2>1, GoneType
<1>4. CASE Signal
  <2>1. run' \in Runs
    BY <1>4, RunCanceled DEF Signal, TypeOK
  <2> QED
    BY <1>4, <2>1 DEF Signal, TypeOK, Ages
<1>5. CASE LoseConnection
  BY <1>5 DEF LoseConnection, TypeOK, Ages
<1>6. CASE RunReturns
  <2>1. run' \in Runs
    BY <1>6, RunReturned DEF RunReturns, TypeOK
  <2> QED
    BY <1>6, <2>1 DEF RunReturns, TypeOK
<1>7. CASE StartRun
  <2>1. CASE Running
    BY <1>7, <2>1 DEF StartRun, TypeOK
  <2>2. CASE ~Running
    <3>1. IsStarted
      BY <1>7, <2>2, Started
    <3> QED
      BY <1>7, <3>1 DEF StartRun, IsStarted, HoldsOrMissed, TypeOK
  <2> QED
    BY <2>1, <2>2
<1>8. CASE TakeResult
  <2>1. IsFinished(run.out, FALSE) /\ run.out \in Outcomes
    BY <1>8, RunFields, Finished DEF TakeResult, TypeOK
  <2> QED
    BY <1>8, <2>1, NoRunFields DEF TakeResult, IsFinished, HoldsOrMissed, TypeOK, Outcomes
<1>9. CASE ContextDone
  <2>1. run' \in Runs
    BY <1>9, RunCanceled DEF ContextDone, AwaitActive, TypeOK
  <2> QED
    BY <1>9, <2>1 DEF ContextDone, AwaitActive, TypeOK, Places
<1>10. CASE HealthTick
  BY <1>10 DEF HealthTick, TypeOK, Places
<1>11. CASE HealthOk
  BY <1>11 DEF HealthOk, TypeOK, Places
<1>12. CASE HealthFails
  <2>1. CASE AwaitActive("failing")
    <3>1. run' \in Runs
      BY <2>1, RunCanceled DEF AwaitActive, TypeOK
    <3> QED
      BY <1>12, <2>1, <3>1 DEF HealthFails, AwaitActive, TypeOK, Places
  <2>2. CASE loop' = "quit" /\ since' = 0 /\ run' = NoRun /\ FinishRun("failed", TRUE)
    <3>1. IsFinished("failed", TRUE)
      BY <2>2, Finished DEF Outcomes
    <3> QED
      BY <1>12, <2>2, <3>1, NoRunFields DEF HealthFails, IsFinished, HoldsOrMissed, TypeOK, Places
  <2> QED
    BY <1>12, <2>1, <2>2 DEF HealthFails
<1>13. CASE HeartbeatTick
  <2>1. HoldsOrMissed(state)
    BY <1>13, Published DEF HeartbeatTick, TypeOK
  <2> QED
    BY <1>13, <2>1 DEF HeartbeatTick, HoldsOrMissed, TypeOK
<1>14. CASE WaitEnds
  <2>1. PICK out \in Outcomes, terminal \in BOOLEAN : IsFinished(out, terminal)
    BY <1>14, RunFields, Finished DEF WaitEnds, TypeOK, Outcomes
  <2> QED
    BY <1>14, <2>1, NoRunFields DEF WaitEnds, IsFinished, HoldsOrMissed, TypeOK, Places, Outcomes
<1>15. CASE Tick
  <2>1. IsOlder
    BY <1>15, Aged
  <2>2. since' \in Nat /\ loop' \in Places
    BY <1>15 DEF Tick, TypeOK
  <2>3. signalled' \in Ages /\ dead' \in Ages
    BY <1>15, UpIsAge DEF Tick, TypeOK
  <2>4. phase' \in 0..(Heartbeat - 1) /\ due' \subseteq Tickers
    BY <1>15, NextPhase, Durations DEF Tick, TypeOK, Tickers
  <2>5. run' \in Runs /\ state' \in Snapshots /\ file' \in Heartbeats \cup {NoFile}
    BY <2>1, OlderFields DEF IsOlder, TypeOK
  <2> QED
    BY <1>15, <2>2, <2>3, <2>4, <2>5 DEF Tick, TypeOK
<1>16. CASE UNCHANGED vars
  BY <1>16 DEF vars, TypeOK
<1>17. CASE CloseStore
  BY <1>17 DEF CloseStore, TypeOK, Places
<1> QED
  BY <1>1, <1>2, <1>3, <1>4, <1>5, <1>6, <1>7, <1>8, <1>9, <1>10, <1>11, <1>12, <1>13,
     <1>14, <1>15, <1>16, <1>17 DEF Next, Serve

-----------------------------------------------------------------------------
(* The invariant: what holds at each place of the loop.                      *)

InService == loop \in {"select", "check"}
Waiting == loop \in {"stopping", "failing"}
Closing == loop \in {"quit", "unlock"}

\* A process that has not published yet has no past.
ProcessIsFresh ==
  loop \in {"off", "boot"} =>
    /\ signalled = Never /\ dead = Never
    /\ run.at = "none" /\ ~run.canceled
    /\ state = Fresh /\ lastRun = "none"

\* While a process lives, the file is its own.
OwnFile == loop # "off" /\ file # NoFile => file.mine

\* A health check starts with the tickers' tick, and ends before the next.
CheckIsInPhase ==
  /\ loop = "check" => phase = since /\ since <= HealthTimeout /\ "health" \notin due
  /\ loop = "select" /\ "health" \in due => phase = 0

\* How long ago the signal came.
SignalIsServed ==
  /\ InService => signalled <= 0
  /\ Waiting => signalled <= since /\ since <= Shutdown
  /\ loop = "stopping" => signalled # Never

\* How long ago the connection broke.
LossIsFound ==
  /\ loop = "select" => dead <= Heartbeat /\ ("health" \notin due => dead <= phase)
  /\ loop = "check" => dead <= Heartbeat + since
  /\ Waiting => dead <= Heartbeat + HealthTimeout + since

\* Once the loop has ended, nothing is published: the file grows old with the signal
\* and the loss.
FileGrowsOld ==
  Closing =>
    /\ signalled <= Shutdown + file.age
    /\ dead <= Heartbeat + HealthTimeout + Shutdown + file.age

\* A run that obeys its context is not much older than its deadline.
RunIsInTime ==
  /\ run.obeys /\ run.at = "work" => run.age <= RunTimeout
  /\ run.obeys /\ Running /\ loop = "check" => run.age <= RunTimeout + since
  /\ run.obeys /\ Running /\ loop = "select" =>
       /\ run.age <= RunTimeout + HealthTimeout
       /\ "health" \in due => run.age <= RunTimeout

\* Only the signal cancels a run in service, and only then is it "canceled".
CancelHasSignal ==
  /\ InService /\ run.canceled => signalled # Never
  /\ run.at = "done" /\ run.out = "canceled" => run.canceled

\* The snapshot in memory tells the age of the run and the outcome of the last; a run
\* that was given up is a failure.
SnapshotIsTrue ==
  /\ state.started = IF Running /\ ~Closing THEN run.age ELSE Never
  /\ Closing /\ Running => state.err
  /\ state.err <=> lastRun = "failed"
  /\ state.err => state.behind

\* The file tells what the snapshot does, or its age tells that it does not.
FileIsTrue ==
  loop \notin {"off", "boot"} =>
    /\ file # NoFile
    /\ ~missed => file.snapshot = state
    /\ Running => \/ file.snapshot.started = run.age \/ run.age <= file.age
                  \/ Closing /\ file.snapshot.err /\ file.snapshot.behind
    /\ ~missed /\ InService =>
         file.age <= phase + (IF "heartbeat" \in due THEN Heartbeat ELSE 0)

-----------------------------------------------------------------------------

LEMMA StepFresh == TypeOK /\ ProcessIsFresh /\ [Next]_vars => ProcessIsFresh'
<1> SUFFICES ASSUME TypeOK, ProcessIsFresh, [Next]_vars PROVE ProcessIsFresh'
  OBVIOUS
<1> USE DEF place, clocks, history, ProcessIsFresh
<1>1. CASE Boot
  BY <1>1 DEF Boot
<1>2. CASE BootFails \/ Crash \/ Exit
  BY <1>2, NoRunFields DEF BootFails, Crash, Exit, Gone
<1>3. CASE Tick
  <2>1. IsOlder
    BY <1>3, Aged
  <2> QED
    BY <1>3, <2>1, FreshStays DEF Tick, IsOlder, Up, Running
<1>4. CASE UNCHANGED vars
  BY <1>4 DEF vars
<1>5. CASE loop' \notin {"off", "boot"}
  BY <1>5
<1>6. CASE Run \/ Signal \/ LoseConnection \/ RunReturns \/ Serve
  <2>1. CASE Run
    BY <2>1, <1>5 DEF Run
  <2>2. CASE Signal \/ LoseConnection
    BY <2>2, <1>5 DEF Signal, LoseConnection
  <2>3. CASE RunReturns
    BY <2>3 DEF RunReturns
  <2>4. CASE StartRun \/ TakeResult
    BY <2>4, <1>5 DEF StartRun, TakeResult
  <2>5. CASE ContextDone \/ HealthFails \/ WaitEnds
    BY <2>5, <1>5 DEF ContextDone, AwaitActive, HealthFails, WaitEnds
  <2>6. CASE HealthTick \/ HealthOk \/ HeartbeatTick
    BY <2>6, <1>5 DEF HealthTick, HealthOk, HeartbeatTick
  <2>7. CASE Exit
    BY <2>7, <1>2
  <2> QED
    BY <1>6, <2>1, <2>2, <2>3, <2>4, <2>5, <2>6, <2>7 DEF Serve
<1>7. CASE CloseStore
  BY <1>5, <1>7 DEF CloseStore
<1> QED
  BY <1>1, <1>2, <1>3, <1>4, <1>6, <1>7 DEF Next

LEMMA StepOwnFile == TypeOK /\ OwnFile /\ [Next]_vars => OwnFile'
<1> SUFFICES ASSUME TypeOK, OwnFile, [Next]_vars PROVE OwnFile'
  OBVIOUS
<1> USE DEF place, clocks, history, OwnFile
<1>1. CASE Boot
  BY <1>1 DEF Boot, Prepared
<1>2. CASE Run
  BY <1>2, FreshFields, FileWritten DEF Run
<1>3. CASE BootFails \/ Crash \/ Exit
  BY <1>3 DEF BootFails, Crash, Exit, Gone
<1>4. CASE Signal \/ LoseConnection \/ RunReturns
  BY <1>4 DEF Signal, LoseConnection, RunReturns
<1>5. CASE StartRun
  <2>1. CASE Running
    BY <1>5, <2>1 DEF StartRun
  <2>2. CASE ~Running
    BY <1>5, <2>2, Started DEF StartRun, IsStarted, HoldsOrMissed
  <2> QED
    BY <2>1, <2>2
<1>6. CASE TakeResult
  <2>1. IsFinished(run.out, FALSE)
    BY <1>6, RunFields, Finished DEF TakeResult, TypeOK
  <2> QED
    BY <1>6, <2>1 DEF TakeResult, IsFinished, HoldsOrMissed
<1>7. CASE ContextDone \/ CloseStore
  BY <1>7 DEF ContextDone, AwaitActive, CloseStore
<1>8. CASE HealthTick \/ HealthOk
  BY <1>8 DEF HealthTick, HealthOk
<1>9. CASE HealthFails
  <2>1. CASE AwaitActive("failing")
    BY <1>9, <2>1 DEF HealthFails, AwaitActive
  <2>2. CASE FinishRun("failed", TRUE)
    BY <1>9, <2>2, Finished DEF HealthFails, IsFinished, HoldsOrMissed, Outcomes
  <2> QED
    BY <1>9, <2>1, <2>2 DEF HealthFails
<1>10. CASE HeartbeatTick
  BY <1>10, Published DEF HeartbeatTick, HoldsOrMissed, TypeOK
<1>11. CASE WaitEnds
  <2>1. PICK out \in Outcomes, terminal \in BOOLEAN : IsFinished(out, terminal)
    BY <1>11, RunFields, Finished DEF WaitEnds, TypeOK, Outcomes
  <2> QED
    BY <1>11, <2>1 DEF WaitEnds, IsFinished, HoldsOrMissed
<1>12. CASE Tick
  BY <1>12, Aged DEF Tick, IsOlder
<1>13. CASE UNCHANGED vars
  BY <1>13 DEF vars
<1> QED
  BY <1>1, <1>2, <1>3, <1>4, <1>5, <1>6, <1>7, <1>8, <1>9, <1>10, <1>11, <1>12, <1>13
     DEF Next, Serve

LEMMA StepCheck == TypeOK /\ CheckIsInPhase /\ [Next]_vars => CheckIsInPhase'
<1> SUFFICES ASSUME TypeOK, CheckIsInPhase, [Next]_vars PROVE CheckIsInPhase'
  OBVIOUS
<1> USE DEF place, clocks, CheckIsInPhase
<1>1. CASE Boot
  BY <1>1 DEF Boot
<1>2. CASE Run
  BY <1>2, Durations DEF Run
<1>3. CASE BootFails \/ Crash \/ Exit
  BY <1>3 DEF BootFails, Crash, Exit, Gone
<1>4. CASE Signal \/ LoseConnection \/ RunReturns
  BY <1>4 DEF Signal, LoseConnection, RunReturns
<1>5. CASE StartRun \/ TakeResult
  BY <1>5 DEF StartRun, TakeResult
<1>6. CASE ContextDone \/ HealthFails \/ WaitEnds \/ CloseStore
  BY <1>6 DEF ContextDone, AwaitActive, HealthFails, WaitEnds, CloseStore
<1>7. CASE HealthTick
  BY <1>7, Durations DEF HealthTick
<1>8. CASE HealthOk
  BY <1>8 DEF HealthOk
<1>9. CASE HeartbeatTick
  BY <1>9 DEF HeartbeatTick
<1>10. CASE Tick
  <2>1. CASE loop = "check"
    <3>1. since < HealthTimeout /\ phase = since /\ "health" \notin due
      BY <1>10, <2>1 DEF Tick, Prompt
    <3>2. phase + 1 # Heartbeat
      BY <3>1, Durations, HealthAssumption DEF TypeOK
    <3>3. phase' = phase + 1 /\ due' = due /\ since' = since + 1
      BY <1>10, <2>1, <3>2, NextPhase, Durations DEF Tick, TypeOK
    <3> QED
      BY <1>10, <2>1, <3>1, <3>3, Durations DEF Tick, TypeOK
  <2>2. CASE loop = "select"
    <3>1. due = {} /\ due' = IF phase' = 0 THEN {"heartbeat", "health"} ELSE due
      BY <1>10, <2>2 DEF Tick, Prompt
    <3> QED
      BY <1>10, <2>2, <3>1 DEF Tick
  <2> QED
    BY <1>10, <2>1, <2>2 DEF Tick
<1>11. CASE UNCHANGED vars
  BY <1>11 DEF vars
<1> QED
  BY <1>1, <1>2, <1>3, <1>4, <1>5, <1>6, <1>7, <1>8, <1>9, <1>10, <1>11 DEF Next, Serve

LEMMA StepSignal ==
  TypeOK /\ ProcessIsFresh /\ SignalIsServed /\ [Next]_vars => SignalIsServed'
<1> SUFFICES ASSUME TypeOK, ProcessIsFresh, SignalIsServed, [Next]_vars PROVE SignalIsServed'
  OBVIOUS
<1> USE DEF place, clocks, InService, Waiting, SignalIsServed
<1>1. CASE Boot
  BY <1>1 DEF Boot
<1>2. CASE Run
  BY <1>2 DEF Run, ProcessIsFresh, Never
<1>3. CASE BootFails \/ Crash \/ Exit
  BY <1>3 DEF BootFails, Crash, Exit, Gone
<1>4. CASE Signal
  BY <1>4, Durations DEF Signal, TypeOK, Never
<1>5. CASE LoseConnection \/ RunReturns
  BY <1>5 DEF LoseConnection, RunReturns
<1>6. CASE StartRun \/ TakeResult \/ HeartbeatTick
  BY <1>6 DEF StartRun, TakeResult, HeartbeatTick
<1>7. CASE ContextDone \/ HealthFails
  <2>1. /\ loop \in {"select", "check"} /\ loop' \in {"stopping", "failing", "quit"}
        /\ since' = 0 /\ signalled' = signalled
        /\ loop' = "stopping" => signalled # Never
    BY <1>7 DEF ContextDone, HealthFails, AwaitActive
  <2>2. signalled <= 0 /\ signalled \in Ages
    BY <2>1 DEF TypeOK
  <2> QED
    BY <2>1, <2>2, Durations DEF Ages, Never
<1>8. CASE HealthTick \/ HealthOk
  BY <1>8 DEF HealthTick, HealthOk
<1>9. CASE WaitEnds \/ CloseStore
  BY <1>9 DEF WaitEnds, CloseStore
<1>10. CASE Tick
  <2>1. signalled' <= signalled + 1 /\ signalled \in Ages /\ signalled' \in Ages
        /\ (signalled = Never <=> signalled' = Never)
    BY <1>10, UpIsAge DEF Tick, TypeOK
  <2>2. CASE InService
    BY <1>10, <2>1, <2>2 DEF Tick, Prompt, Never
  <2>3. CASE Waiting
    <3>1. since < Shutdown /\ since' = since + 1
      BY <1>10, <2>3 DEF Tick, Prompt
    <3> QED
      BY <1>10, <2>1, <2>3, <3>1, Durations DEF Tick, TypeOK, Ages, Never
  <2>4. CASE loop \notin {"select", "check", "stopping", "failing"}
    BY <1>10, <2>4 DEF Tick
  <2> QED
    BY <2>2, <2>3, <2>4
<1>11. CASE UNCHANGED vars
  BY <1>11 DEF vars
<1> QED
  BY <1>1, <1>2, <1>3, <1>4, <1>5, <1>6, <1>7, <1>8, <1>9, <1>10, <1>11 DEF Next, Serve

LEMMA StepLoss ==
  TypeOK /\ ProcessIsFresh /\ CheckIsInPhase /\ SignalIsServed /\ LossIsFound /\ [Next]_vars
    => LossIsFound'
<1> SUFFICES ASSUME TypeOK, ProcessIsFresh, CheckIsInPhase, SignalIsServed, LossIsFound, [Next]_vars
             PROVE  LossIsFound'
  OBVIOUS
<1> USE DEF place, clocks, Waiting, LossIsFound
<1>0. dead \in Ages /\ since \in Nat /\ phase \in 0..(Heartbeat - 1)
  BY DEF TypeOK
<1>1. CASE Boot
  BY <1>1 DEF Boot
<1>2. CASE Run
  BY <1>2, Durations DEF Run, ProcessIsFresh, Never
<1>3. CASE BootFails \/ Crash \/ Exit
  BY <1>3 DEF BootFails, Crash, Exit, Gone
<1>4. CASE Signal \/ RunReturns
  BY <1>4 DEF Signal, RunReturns
<1>5. CASE LoseConnection
  BY <1>0, <1>5, Durations DEF LoseConnection
<1>6. CASE StartRun \/ TakeResult
  BY <1>6 DEF StartRun, TakeResult
<1>7. CASE HeartbeatTick
  BY <1>7 DEF HeartbeatTick
<1>8. CASE ContextDone
  BY <1>0, <1>8, Durations DEF ContextDone, AwaitActive, Ages, Never
<1>9. CASE HealthTick
  BY <1>0, <1>9, Durations DEF HealthTick, Ages, Never
<1>10. CASE HealthOk
  BY <1>0, <1>10, Durations DEF HealthOk, Never
<1>11. CASE HealthFails
  <2>1. /\ loop = "check" /\ loop' \in {"failing", "quit"}
        /\ since' = 0 /\ dead' = dead
    BY <1>11 DEF HealthFails, AwaitActive
  <2>2. dead <= Heartbeat + since /\ since <= HealthTimeout
    BY <2>1 DEF CheckIsInPhase
  <2> QED
    BY <1>0, <2>1, <2>2, Durations DEF Ages, Never
<1>12. CASE WaitEnds \/ CloseStore
  BY <1>12 DEF WaitEnds, CloseStore
<1>13. CASE Tick
  <2>1. dead' \in Ages /\ dead' <= dead + 1
    BY <1>0, <1>13, UpIsAge DEF Tick
  <2>2. CASE loop = "select"
    <3>1. due = {} /\ dead <= phase /\ loop' = loop
      BY <1>13, <2>2 DEF Tick, Prompt
    <3>2. phase' = (phase + 1) % Heartbeat /\ due' = IF phase' = 0 THEN {"heartbeat", "health"} ELSE due
      BY <1>13, <2>2 DEF Tick
    <3>3. CASE phase + 1 = Heartbeat
      <4>1. phase' = 0 /\ "health" \in due'
        BY <1>0, <3>2, <3>3, NextPhase
      <4> QED
        BY <1>0, <2>1, <2>2, <3>1, <3>3, <4>1, Durations DEF Ages, Never
    <3>4. CASE phase + 1 # Heartbeat
      <4>1. phase' = phase + 1
        BY <1>0, <3>2, <3>4, NextPhase
      <4> QED
        BY <1>0, <2>1, <2>2, <3>1, <4>1, Durations DEF Ages, Never
    <3> QED
      BY <3>3, <3>4
  <2>3. CASE loop \in {"check", "stopping", "failing"}
    BY <1>0, <1>13, <2>1, <2>3, Durations DEF Tick, Ages, Never
  <2>4. CASE loop \in {"off", "boot", "quit", "unlock"}
    BY <1>13, <2>4 DEF Tick
  <2> QED
    BY <2>2, <2>3, <2>4 DEF TypeOK, Places
<1>14. CASE UNCHANGED vars
  BY <1>14 DEF vars
<1> QED
  BY <1>1, <1>2, <1>3, <1>4, <1>5, <1>6, <1>7, <1>8, <1>9, <1>10, <1>11, <1>12, <1>13, <1>14
     DEF Next, Serve

LEMMA StepRunTime ==
  TypeOK /\ ProcessIsFresh /\ CheckIsInPhase /\ RunIsInTime /\ [Next]_vars => RunIsInTime'
<1> SUFFICES ASSUME TypeOK, ProcessIsFresh, CheckIsInPhase, RunIsInTime, [Next]_vars
             PROVE  RunIsInTime'
  OBVIOUS
<1> USE DEF place, clocks, Running, RunIsInTime
<1>0. run \in Runs /\ run.age \in Nat /\ since \in Nat
  BY RunFields DEF TypeOK
<1>1. CASE Boot
  BY <1>1 DEF Boot
<1>2. CASE Run
  BY <1>2 DEF Run, ProcessIsFresh
<1>3. CASE BootFails \/ Crash \/ Exit
  BY <1>3, NoRunFields DEF BootFails, Crash, Exit, Gone
<1>4. CASE Signal
  <2>1. /\ run'.at = run.at /\ run'.age = run.age /\ run'.obeys = run.obeys
    BY <1>0, <1>4, RunCanceled DEF Signal
  <2> QED
    BY <1>4, <2>1 DEF Signal
<1>5. CASE LoseConnection \/ HeartbeatTick \/ CloseStore
  BY <1>5 DEF LoseConnection, HeartbeatTick, CloseStore
<1>6. CASE RunReturns
  <2>1. PICK out \in Outcomes : run' = [run EXCEPT !.at = "done", !.out = out]
    BY <1>6 DEF RunReturns
  <2>2. /\ run.at = "work" /\ run'.age = run.age /\ run'.obeys = run.obeys /\ run'.at = "done"
    BY <1>0, <1>6, <2>1 DEF RunReturns, Runs
  <2> QED
    BY <1>0, <1>6, <2>2, Durations DEF RunReturns
<1>7. CASE StartRun
  <2>1. CASE Running
    BY <1>7, <2>1 DEF StartRun
  <2>2. CASE ~Running
    <3>1. run'.age = 0
      BY <1>7, <2>2, Started DEF IsStarted
    <3>2. loop' = "select"
      BY <1>7 DEF StartRun
    <3> QED
      BY <3>1, <3>2, Durations
  <2> QED
    BY <2>1, <2>2
<1>8. CASE run'.at = "none"
  BY <1>8
<1>9. CASE TakeResult
  BY <1>8, <1>9, NoRunFields DEF TakeResult
<1>10. CASE ContextDone \/ HealthFails \/ WaitEnds
  <2>1. loop' \notin {"check", "select"}
    BY <1>10 DEF ContextDone, HealthFails, AwaitActive, WaitEnds
  <2>2. CASE AwaitActive("stopping") \/ AwaitActive("failing")
    <3>1. run'.at = run.at /\ run'.age = run.age /\ run'.obeys = run.obeys
      BY <1>0, <2>2, RunCanceled DEF AwaitActive
    <3> QED
      BY <2>1, <3>1
  <2>3. CASE run' = run \/ run' = NoRun
    BY <2>1, <2>3, NoRunFields
  <2> QED
    BY <1>10, <2>2, <2>3 DEF ContextDone, HealthFails, WaitEnds
<1>11. CASE HealthTick
  <2>1. run' = run /\ loop = "select" /\ "health" \in due /\ loop' = "check" /\ since' = 0
    BY <1>11 DEF HealthTick
  <2> QED
    BY <1>0, <2>1, Durations
<1>12. CASE HealthOk
  BY <1>0, <1>12, Durations DEF HealthOk, CheckIsInPhase
<1>13. CASE Tick
  <2>1. IsOlder
    BY <1>13, Aged
  <2>2. run'.age <= run.age + 1 /\ run'.age \in Nat
    BY <1>0, <2>1, UpIsAge DEF IsOlder, Ages
  <2>3. ASSUME run'.obeys, run'.at = "work"
        PROVE  run'.age <= RunTimeout
    <3>1. run.obeys /\ run.at = "work" /\ run.age < RunTimeout
      BY <1>13, <2>1, <2>3 DEF Tick, Prompt, IsOlder
    <3> QED
      BY <1>0, <2>2, <3>1, Durations
  <2>4. ASSUME run'.obeys, Running', loop' = "check"
        PROVE  run'.age <= RunTimeout + since'
    <3>1. run.obeys /\ Running /\ loop = "check" /\ since' = since + 1
      BY <1>13, <2>1, <2>4 DEF Tick, IsOlder
    <3> QED
      BY <1>0, <2>2, <3>1, Durations
  <2>5. ASSUME run'.obeys, Running', loop' = "select"
        PROVE  run'.age <= RunTimeout
    <3>1. loop = "select" /\ run.at # "done"
      BY <1>13, <2>5 DEF Tick, Prompt
    <3>2. run'.at = "work"
      BY <1>0, <2>1, <2>5, <3>1, RunFields DEF IsOlder
    <3> QED
      BY <2>3, <2>5, <3>2
  <2> QED
    BY <2>2, <2>3, <2>4, <2>5, Durations
<1>14. CASE UNCHANGED vars
  BY <1>14 DEF vars
<1> QED
  BY <1>1, <1>2, <1>3, <1>4, <1>5, <1>6, <1>7, <1>9, <1>10, <1>11, <1>12, <1>13, <1>14
     DEF Next, Serve

LEMMA StepCancel ==
  TypeOK /\ ProcessIsFresh /\ CancelHasSignal /\ [Next]_vars => CancelHasSignal'
<1> SUFFICES ASSUME TypeOK, ProcessIsFresh, CancelHasSignal, [Next]_vars
             PROVE  CancelHasSignal'
  OBVIOUS
<1> USE DEF place, clocks, InService, CancelHasSignal
<1>0. run \in Runs
  BY DEF TypeOK
<1>1. CASE Boot
  BY <1>1 DEF Boot
<1>2. CASE Run
  BY <1>2 DEF Run, ProcessIsFresh
<1>3. CASE BootFails \/ Crash \/ Exit \/ TakeResult
  BY <1>3, NoRunFields DEF BootFails, Crash, Exit, Gone, TakeResult
<1>4. CASE Signal
  <2>1. run'.at = run.at /\ run'.out = run.out /\ (run.canceled => run'.canceled)
    BY <1>0, <1>4 DEF Signal, Runs
  <2> QED
    BY <1>4, <2>1 DEF Signal, Never
<1>5. CASE LoseConnection \/ HeartbeatTick \/ HealthTick \/ HealthOk \/ CloseStore
  BY <1>5 DEF LoseConnection, HeartbeatTick, HealthTick, HealthOk, CloseStore
<1>6. CASE RunReturns
  <2>1. PICK out \in Outcomes : /\ out = "canceled" => run.canceled
                                /\ run' = [run EXCEPT !.at = "done", !.out = out]
    BY <1>6 DEF RunReturns
  <2> QED
    <3>1. run'.out = out /\ run'.canceled = run.canceled
      BY <1>0, <2>1 DEF Runs
    <3> QED
      BY <1>6, <2>1, <3>1 DEF RunReturns
<1>7. CASE StartRun
  <2>1. CASE Running
    BY <1>7, <2>1 DEF StartRun
  <2>2. CASE ~Running
    BY <1>7, <2>2, Started DEF IsStarted, StartRun
  <2> QED
    BY <2>1, <2>2
<1>8. CASE ContextDone \/ HealthFails \/ WaitEnds
  <2>1. loop' \notin {"check", "select"}
    BY <1>8 DEF ContextDone, HealthFails, AwaitActive, WaitEnds
  <2>2. CASE AwaitActive("stopping") \/ AwaitActive("failing")
    BY <1>0, <2>1, <2>2, RunCanceled DEF AwaitActive
  <2>3. CASE run' = run \/ run' = NoRun
    BY <2>1, <2>3, NoRunFields
  <2> QED
    BY <1>8, <2>2, <2>3 DEF ContextDone, HealthFails, WaitEnds
<1>9. CASE Tick
  <2>1. signalled = Never <=> signalled' = Never
    BY <1>9, UpIsAge DEF Tick, TypeOK
  <2> QED
    BY <1>9, <2>1, Aged DEF Tick, IsOlder
<1>10. CASE UNCHANGED vars
  BY <1>10 DEF vars
<1> QED
  BY <1>1, <1>2, <1>3, <1>4, <1>5, <1>6, <1>7, <1>8, <1>9, <1>10 DEF Next, Serve

LEMMA StepSnapshot ==
  TypeOK /\ ProcessIsFresh /\ SignalIsServed /\ CancelHasSignal /\ SnapshotIsTrue /\ [Next]_vars
    => SnapshotIsTrue'
<1> SUFFICES ASSUME TypeOK, ProcessIsFresh, SignalIsServed, CancelHasSignal, SnapshotIsTrue,
                    [Next]_vars
             PROVE  SnapshotIsTrue'
  OBVIOUS
<1> USE DEF place, clocks, history, Running, Closing, SnapshotIsTrue
<1>0. run \in Runs /\ run.out \in Outcomes
  BY RunFields DEF TypeOK
<1>1. CASE Boot \/ Run \/ LoseConnection \/ HealthTick \/ HealthOk \/ HeartbeatTick \/ CloseStore
  BY <1>1 DEF Boot, Run, LoseConnection, HealthTick, HealthOk, HeartbeatTick, CloseStore
<1>2. CASE BootFails \/ Crash \/ Exit
  BY <1>2, NoRunFields, FreshFields DEF BootFails, Crash, Exit, Gone
<1>3. CASE Signal
  <2>1. run'.at = run.at /\ run'.age = run.age
    BY <1>0, <1>3 DEF Signal, Runs
  <2> QED
    BY <1>3, <2>1 DEF Signal
<1>4. CASE RunReturns
  <2>1. run.at = "work" /\ run'.at = "done" /\ run'.age = run.age
    BY <1>0, <1>4 DEF RunReturns, Runs
  <2> QED
    BY <1>4, <2>1 DEF RunReturns
<1>5. CASE StartRun
  <2>1. CASE Running
    BY <1>5, <2>1 DEF StartRun
  <2>2. CASE ~Running
    BY <1>5, <2>2, Started DEF StartRun, IsStarted
  <2> QED
    BY <2>1, <2>2
\* An outcome is "canceled" only after the signal, so the snapshot keeps its error.
<1>6. ASSUME NEW out \in Outcomes, NEW terminal \in BOOLEAN, IsFinished(out, terminal),
             ~terminal /\ out = "canceled" => signalled # Never,
             run' = NoRun \/ (terminal /\ loop' = "quit")
      PROVE  SnapshotIsTrue'
  <2>1. /\ state'.started = Never /\ (state'.err => state'.behind)
        /\ ~Running' \/ (Closing' /\ state'.err)
    BY <1>6, NoRunFields DEF IsFinished
  <2>2. CASE terminal
    BY <1>6, <2>1, <2>2 DEF IsFinished
  <2>3. CASE ~terminal /\ out = "canceled"
    BY <1>6, <2>1, <2>3 DEF IsFinished
  <2>4. CASE ~terminal /\ out # "canceled"
    <3>1. lastRun' = out /\ (state'.err <=> out = "failed")
      BY <1>6, <2>4 DEF IsFinished
    <3> QED
      BY <2>1, <3>1
  <2> QED
    BY <2>2, <2>3, <2>4
<1>7. CASE TakeResult
  <2>1. IsFinished(run.out, FALSE)
    BY <1>0, <1>7, Finished DEF TakeResult
  <2>2. run.out = "canceled" => signalled # Never
    BY <1>7 DEF TakeResult, CancelHasSignal, InService
  <2>3. run' = NoRun
    BY <1>7 DEF TakeResult
  <2> QED
    BY <1>0, <1>6, <2>1, <2>2, <2>3
<1>8. CASE ContextDone \/ HealthFails
  <2>1. CASE AwaitActive("stopping") \/ AwaitActive("failing")
    <3>1. run'.at = run.at /\ run'.age = run.age
      BY <1>0, <2>1 DEF AwaitActive, Runs
    <3>2. ~Closing /\ ~Closing'
      BY <1>8, <2>1 DEF AwaitActive, ContextDone, HealthFails
    <3> QED
      BY <2>1, <3>1, <3>2 DEF AwaitActive
  <2>2. CASE ~Running /\ run' = run /\ state' = state /\ lastRun' = lastRun
    BY <2>2
  <2>3. CASE run' = NoRun /\ FinishRun("failed", TRUE)
    BY <1>6, <2>3, Finished DEF Outcomes
  <2> QED
    BY <1>8, <2>1, <2>2, <2>3 DEF ContextDone, HealthFails
<1>9. CASE WaitEnds
  <2>1. CASE run' = NoRun /\ FinishRun(run.out, loop = "failing")
    <3>1. IsFinished(run.out, loop = "failing")
      BY <1>0, <2>1, Finished
    <3>2. loop # "failing" => signalled # Never
      BY <1>9 DEF WaitEnds, SignalIsServed
    <3> QED
      BY <1>0, <1>6, <2>1, <3>1, <3>2
  <2>2. CASE FinishRun("failed", TRUE)
    <3>1. loop' = "quit"
      BY <1>9 DEF WaitEnds
    <3> QED
      BY <1>6, <2>2, <3>1, Finished DEF Outcomes
  <2> QED
    BY <1>9, <2>1, <2>2 DEF WaitEnds
<1>10. CASE Tick
  <2>1. IsOlder
    BY <1>10, Aged
  <2>2. /\ state'.started = Up(state.started) /\ state'.err = state.err
        /\ state'.behind = state.behind
    BY <2>1, OlderFields DEF IsOlder, TypeOK
  <2>3. Up(Never) = Never
    BY DEF Up
  <2> QED
    BY <1>10, <2>1, <2>2, <2>3 DEF Tick, IsOlder
<1>11. CASE UNCHANGED vars
  BY <1>11 DEF vars
<1> QED
  BY <1>1, <1>2, <1>3, <1>4, <1>5, <1>7, <1>8, <1>9, <1>10, <1>11 DEF Next, Serve

LEMMA StepFile ==
  TypeOK /\ ProcessIsFresh /\ CheckIsInPhase /\ SnapshotIsTrue /\ FileIsTrue /\ [Next]_vars
    => FileIsTrue'
<1> SUFFICES ASSUME TypeOK, ProcessIsFresh, CheckIsInPhase, SnapshotIsTrue, FileIsTrue,
                    [Next]_vars
             PROVE  FileIsTrue'
  OBVIOUS
<1> USE DEF place, clocks, history, Running, InService, Closing, FileIsTrue
<1>0. /\ run \in Runs /\ run.age \in Nat /\ run.out \in Outcomes /\ state \in Snapshots
      /\ file # NoFile => file \in Heartbeats /\ file.age \in Nat
      /\ phase \in 0..(Heartbeat - 1) /\ Heartbeat \in Nat
  BY RunFields, FileFields, Durations DEF TypeOK
<1>1. CASE Boot
  BY <1>1 DEF Boot
<1>2. CASE Run
  <2>1. file' \in Heartbeats /\ file' # NoFile /\ file'.age = 0 /\ file'.snapshot = Fresh
    BY <1>2, FreshFields, FileWritten DEF Run
  <2> QED
    BY <1>2, <2>1 DEF Run, ProcessIsFresh
<1>3. CASE BootFails \/ Crash \/ Exit
  BY <1>3 DEF BootFails, Crash, Exit, Gone
<1>4. CASE LoseConnection \/ HealthTick \/ HealthOk \/ CloseStore
  BY <1>4 DEF LoseConnection, HealthTick, HealthOk, CloseStore
<1>5. CASE Signal
  <2>1. run'.at = run.at /\ run'.age = run.age
    BY <1>0, <1>5 DEF Signal, Runs
  <2> QED
    BY <1>5, <2>1 DEF Signal
<1>6. CASE RunReturns
  <2>1. run.at = "work" /\ run'.age = run.age
    BY <1>0, <1>6 DEF RunReturns, Runs
  <2> QED
    BY <1>6, <2>1 DEF RunReturns
<1>7. CASE StartRun
  <2>1. CASE Running
    BY <1>7, <2>1 DEF StartRun
  <2>2. CASE ~Running
    <3>1. IsStarted /\ loop = "select" /\ loop' = loop /\ phase' = phase /\ due' = due
      BY <1>7, <2>2, Started DEF StartRun
    <3>2. run'.age = 0 /\ state'.started = 0
      BY <3>1 DEF IsStarted
    <3>3. CASE missed' = FALSE
      <4>1. file' \in Heartbeats /\ file' # NoFile /\ file'.age = 0 /\ file'.snapshot = state'
        BY <3>1, <3>3, FileFields DEF IsStarted, HoldsOrMissed
      <4> QED
        BY <1>0, <3>1, <3>2, <4>1
    <3>4. CASE file' = file /\ missed' = TRUE
      BY <1>0, <3>1, <3>2, <3>4
    <3> QED
      BY <3>1, <3>3, <3>4 DEF IsStarted, HoldsOrMissed
  <2> QED
    BY <2>1, <2>2
\* What FinishRun publishes is the snapshot, and no run is active or one was given up.
<1>8. ASSUME NEW out \in Outcomes, NEW terminal \in BOOLEAN, IsFinished(out, terminal),
             loop \notin {"off", "boot"}, ~Closing, phase' = phase,
             run' = NoRun \/ (run' = run /\ terminal /\ loop' = "quit")
      PROVE  FileIsTrue'
  <2>1. /\ HoldsOrMissed(state')
        /\ run'.at = "none" \/ (run' = run /\ Closing' /\ state'.err /\ state'.behind)
    BY <1>8, NoRunFields DEF IsFinished
  <2>2. CASE missed' = FALSE
    <3>1. file' \in Heartbeats /\ file' # NoFile /\ file'.age = 0 /\ file'.snapshot = state'
      BY <2>1, <2>2, FileFields DEF HoldsOrMissed
    <3> QED
      BY <1>0, <1>8, <2>1, <3>1
  <2>3. CASE file' = file /\ missed' = TRUE
    BY <1>8, <2>1, <2>3
  <2> QED
    BY <2>1, <2>2, <2>3 DEF HoldsOrMissed
<1>9. CASE TakeResult
  BY <1>0, <1>8, <1>9, Finished DEF TakeResult
<1>10. CASE ContextDone \/ HealthFails
  <2>1. CASE AwaitActive("stopping") \/ AwaitActive("failing")
    <3>1. run'.at = run.at /\ run'.age = run.age
      BY <1>0, <2>1 DEF AwaitActive, Runs
    <3> QED
      BY <1>10, <2>1, <3>1 DEF AwaitActive, ContextDone, HealthFails
  <2>2. CASE ~Running /\ UNCHANGED <<run, state, file, missed>> /\ loop' = "quit"
    BY <1>10, <2>2 DEF ContextDone, HealthFails
  <2>3. CASE run' = NoRun /\ FinishRun("failed", TRUE) /\ HealthFails
    BY <1>8, <2>3, Finished DEF HealthFails, Outcomes
  <2> QED
    BY <1>10, <2>1, <2>2, <2>3 DEF ContextDone, HealthFails
<1>11. CASE HeartbeatTick
  <2>1. /\ HoldsOrMissed(state) /\ loop = "select" /\ loop' = loop /\ phase' = phase
        /\ run' = run /\ state' = state
    BY <1>0, <1>11, Published DEF HeartbeatTick
  <2>2. CASE missed' = FALSE
    <3>1. file' \in Heartbeats /\ file' # NoFile /\ file'.age = 0 /\ file'.snapshot = state
      BY <2>1, <2>2, FileFields DEF HoldsOrMissed
    <3> QED
      BY <1>0, <2>1, <3>1 DEF SnapshotIsTrue
  <2>3. CASE file' = file /\ missed' = TRUE
    BY <2>1, <2>3
  <2> QED
    BY <2>1, <2>2, <2>3 DEF HoldsOrMissed
<1>12. CASE WaitEnds
  <2>1. PICK out \in Outcomes, terminal \in BOOLEAN :
          IsFinished(out, terminal) /\ (run' = NoRun \/ (run' = run /\ terminal))
    BY <1>0, <1>12, Finished DEF WaitEnds, Outcomes
  <2> QED
    BY <1>8, <1>12, <2>1 DEF WaitEnds
<1>13. CASE Tick
  <2>1. IsOlder
    BY <1>13, Aged
  <2>2. CASE loop' \notin {"off", "boot"}
    <3>1. file # NoFile /\ loop \notin {"off", "boot"} /\ loop' = loop /\ missed' = missed
      BY <1>13, <2>2 DEF Tick
    <3>2. /\ file' \in Heartbeats /\ file' # NoFile /\ file'.age = Up(file.age)
          /\ file'.snapshot = Older(file.snapshot) /\ state' = Older(state)
      BY <2>1, <3>1, FileFields DEF IsOlder
    <3>3. ASSUME Running'
          PROVE  \/ file'.snapshot.started = run'.age \/ run'.age <= file'.age
                 \/ Closing' /\ file'.snapshot.err /\ file'.snapshot.behind
      <4>1. Running /\ run'.age = Up(run.age)
        BY <2>1, <3>3 DEF IsOlder
      <4>2. CASE file.snapshot.started = run.age
        BY <1>0, <3>1, <3>2, <4>1, <4>2, FileFields, OlderFields
      <4>3. CASE run.age <= file.age
        BY <1>0, <3>1, <3>2, <4>1, <4>3, UpKeepsOrder
      <4>4. CASE Closing /\ file.snapshot.err /\ file.snapshot.behind
        BY <1>0, <3>1, <3>2, <4>4, FileFields, OlderFields
      <4> QED
        BY <3>1, <4>1, <4>2, <4>3, <4>4
    <3>4. ASSUME ~missed', InService'
          PROVE  file'.age <= phase' + (IF "heartbeat" \in due' THEN Heartbeat ELSE 0)
      <4>1. file'.age <= file.age + 1 /\ file'.age \in Nat
        BY <1>0, <3>1, <3>2, UpIsAge DEF Ages
      <4>2. /\ phase' = (phase + 1) % Heartbeat
            /\ due' = IF phase' = 0 THEN {"heartbeat", "health"} ELSE due
        BY <1>13, <3>1 DEF Tick
      <4>3. CASE phase + 1 = Heartbeat
        <5>1. phase' = 0 /\ "heartbeat" \in due'
          BY <1>0, <4>2, <4>3, NextPhase
        <5>2. "heartbeat" \notin due
          <6>1. CASE loop = "select"
            BY <1>13, <6>1 DEF Tick, Prompt
          <6>2. CASE loop = "check"
            BY <1>0, <1>13, <4>3, <6>2, Durations, HealthAssumption
               DEF Tick, Prompt, CheckIsInPhase
          <6> QED
            BY <3>1, <3>4, <6>1, <6>2
        <5> QED
          BY <1>0, <3>1, <3>4, <4>1, <4>3, <5>1, <5>2
      <4>4. CASE phase + 1 # Heartbeat
        <5>1. phase' = phase + 1 /\ due' = due
          BY <1>0, <4>2, <4>4, NextPhase
        <5> QED
          BY <1>0, <3>1, <3>4, <4>1, <5>1
      <4> QED
        BY <4>3, <4>4
    <3> QED
      BY <3>1, <3>2, <3>3, <3>4
  <2> QED
    BY <2>2
<1>14. CASE UNCHANGED vars
  BY <1>14 DEF vars
<1> QED
  BY <1>1, <1>2, <1>3, <1>4, <1>5, <1>6, <1>7, <1>9, <1>10, <1>11, <1>12, <1>13, <1>14
     DEF Next, Serve

LEMMA StepOld ==
  ASSUME TypeOK, TypeOK', ProcessIsFresh, CheckIsInPhase, SignalIsServed, LossIsFound,
         FileIsTrue, FileIsTrue', FileGrowsOld, [Next]_vars
  PROVE  FileGrowsOld'
<1> USE DEF place, clocks, Closing, FileGrowsOld
<1>0. /\ dead \in Ages /\ signalled \in Ages /\ since \in Nat
      /\ loop' \notin {"off", "boot"} => file'.age \in Nat
      /\ loop \notin {"off", "boot"} => file \in Heartbeats /\ file.age \in Nat
  BY FileFields DEF TypeOK, FileIsTrue
<1>1. CASE ~Closing'
  BY <1>1
\* The loop ends within its timeouts.
<1>2. CASE ContextDone \/ HealthFails \/ WaitEnds
  <2>1. CASE Closing'
    <3>1. file'.age \in Nat /\ dead' = dead /\ signalled' = signalled
      BY <1>0, <1>2, <2>1 DEF ContextDone, HealthFails, WaitEnds
    <3>2. signalled <= Shutdown /\ dead <= Heartbeat + HealthTimeout + Shutdown
      <4>1. CASE ContextDone
        BY <1>0, <4>1, Durations
           DEF ContextDone, SignalIsServed, LossIsFound, InService, Ages, Never
      <4>2. CASE HealthFails
        BY <1>0, <4>2, Durations
           DEF HealthFails, CheckIsInPhase, SignalIsServed, LossIsFound, InService, Ages, Never
      <4>3. CASE WaitEnds
        BY <1>0, <4>3, Durations
           DEF WaitEnds, SignalIsServed, LossIsFound, Waiting, Ages, Never
      <4> QED
        BY <1>2, <4>1, <4>2, <4>3
    <3> QED
      BY <1>0, <3>1, <3>2, Durations DEF Ages, Never
  <2> QED
    BY <1>1, <2>1
<1>3. CASE Signal \/ LoseConnection
  <2>1. /\ loop' = loop /\ file' = file
        /\ signalled' \in {signalled, 0} /\ dead' \in {dead, 0}
    BY <1>3 DEF Signal, LoseConnection
  <2> QED
    BY <1>0, <2>1, Durations DEF Ages, Never
<1>4. CASE Tick
  <2>1. CASE Closing
    <3>1. file # NoFile /\ file'.age = Up(file.age)
      BY <1>4, <2>1, Aged DEF FileIsTrue, IsOlder
    <3>2. ASSUME NEW n \in Ages, NEW b \in Nat, n <= b + file.age
          PROVE  Up(n) <= b + Up(file.age)
      BY <1>0, <2>1, <3>2, CapIsPositive DEF Up, Ages, Never
    <3>3. signalled' = Up(signalled) /\ dead' = Up(dead)
      BY <1>4 DEF Tick
    <3>4. Shutdown \in Nat /\ Heartbeat + HealthTimeout + Shutdown \in Nat
      BY Durations
    <3> QED
      BY <1>0, <2>1, <3>1, <3>2, <3>3, <3>4
  <2>2. CASE ~Closing
    BY <1>1, <1>4, <2>2 DEF Tick
  <2> QED
    BY <2>1, <2>2
<1>5. CASE CloseStore \/ RunReturns \/ UNCHANGED vars
  BY <1>5 DEF CloseStore, RunReturns, vars
<1>6. CASE Boot \/ Run \/ BootFails \/ Crash \/ Exit
  BY <1>1, <1>6 DEF Boot, Run, BootFails, Crash, Exit, Gone
<1>7. CASE StartRun \/ TakeResult \/ HealthTick \/ HeartbeatTick \/ HealthOk
  BY <1>1, <1>7 DEF StartRun, TakeResult, HealthTick, HeartbeatTick, HealthOk
<1> QED
  BY <1>2, <1>3, <1>4, <1>5, <1>6, <1>7 DEF Next, Serve

-----------------------------------------------------------------------------
(* The theorems.                                                            *)

IInv ==
  /\ TypeOK
  /\ ProcessIsFresh /\ OwnFile
  /\ CheckIsInPhase /\ SignalIsServed /\ LossIsFound
  /\ RunIsInTime /\ CancelHasSignal
  /\ SnapshotIsTrue /\ FileIsTrue /\ FileGrowsOld

LEMMA InitInvariant == Init => IInv
<1> SUFFICES ASSUME Init PROVE IInv
  OBVIOUS
<1>1. run.at = "none" /\ ~run.canceled /\ state = Fresh
  BY NoRunFields DEF Init
<1>2. state.started = Never /\ ~state.err
  BY <1>1, FreshFields
<1> QED
  BY <1>1, <1>2, InitType
     DEF Init, IInv, ProcessIsFresh, OwnFile, CheckIsInPhase, SignalIsServed, LossIsFound,
         RunIsInTime, CancelHasSignal, SnapshotIsTrue, FileIsTrue, FileGrowsOld, InService,
         Waiting, Closing, Running

LEMMA Invariance == Spec => []IInv
<1>1. IInv /\ [Next]_vars => IInv'
  BY StepType, StepFresh, StepOwnFile, StepCheck, StepSignal, StepLoss, StepRunTime, StepCancel,
     StepSnapshot, StepFile, StepOld DEF IInv
<1> QED
  BY <1>1, InitInvariant, PTL DEF Spec

\* The doctor never vouches for a process by the file of an earlier one (runner.go
\* removes it before anything that may take time).
THEOREM NoForeignVoucher == Spec => []OwnFileVouches
<1>1. IInv => OwnFileVouches
  BY DEF IInv, OwnFile, OwnFileVouches, Doctor
<1> QED
  BY <1>1, Invariance, PTL

\* The supervisor returns within the shutdown timeout of the signal, and within a
\* heartbeat, a health check and the shutdown timeout of the loss of its connection,
\* whether or not its run obeys; however long the deferred closes hold the process up
\* after that, the doctor vouches for it no longer than the file's age allows.
THEOREM ShutdownIsBounded == Spec => []QuitsInTime
<1>1. IInv => QuitsInTime
  <2> SUFFICES ASSUME IInv PROVE QuitsInTime
    OBVIOUS
  <2>1. signalled \in Ages /\ dead \in Ages /\ loop \in Places /\ since \in Nat
        /\ phase \in 0..(Heartbeat - 1)
    BY DEF IInv, TypeOK
  <2>2. ASSUME ~Closing
        PROVE  signalled <= Shutdown /\ dead <= Heartbeat + HealthTimeout + Shutdown
    <3>1. CASE loop \in {"off", "boot"}
      BY <3>1, Durations DEF IInv, ProcessIsFresh, Never
    <3>2. CASE InService
      BY <2>1, <3>2, Durations
         DEF IInv, CheckIsInPhase, SignalIsServed, LossIsFound, InService, Ages, Never
    <3>3. CASE Waiting
      BY <2>1, <3>3, Durations DEF IInv, SignalIsServed, LossIsFound, Waiting, Ages, Never
    <3> QED
      BY <2>1, <2>2, <3>1, <3>2, <3>3 DEF Places, InService, Waiting, Closing
  <2>3. CASE ~Closing
    BY <2>1, <2>2, <2>3, Durations DEF QuitsInTime, Ages, Never
  <2>4. CASE Closing
    <3>1. file \in Heartbeats /\ file.age \in Nat
      BY <2>4, FileFields DEF IInv, FileIsTrue, TypeOK, Closing
    <3>2. /\ signalled <= Shutdown + file.age
          /\ dead <= Heartbeat + HealthTimeout + Shutdown + file.age
      BY <2>4 DEF IInv, FileGrowsOld
    <3>3. Doctor => file.age <= MaxAge
      BY DEF Doctor
    <3> QED
      BY <2>1, <2>4, <3>1, <3>2, <3>3, Durations DEF QuitsInTime, Closing, Ages, Never
  <2> QED
    BY <2>3, <2>4
<1> QED
  BY <1>1, Invariance, PTL

\* A process that lost its owner lock starts no run later than a heartbeat after:
\* the health tick that finds out is served before the timer's next run.
THEOREM NoLateStart == Spec => LateStartsAreBounded
<1>1. ASSUME IInv, [Next]_vars, run.at = "none", run'.at = "work"
      PROVE  dead <= Heartbeat
  <2>1. CASE StartRun
    BY <1>1, <2>1 DEF StartRun, IInv, LossIsFound
  <2>2. run \in Runs /\ TypeOK
    BY <1>1 DEF IInv, TypeOK
  <2>3. CASE BootFails \/ Crash \/ Exit \/ TakeResult
    BY <1>1, <2>3, NoRunFields DEF BootFails, Crash, Exit, Gone, TakeResult
  <2>4. CASE Signal
    BY <1>1, <2>2, <2>4 DEF Signal, Runs
  <2>5. CASE ContextDone \/ HealthFails \/ WaitEnds
    <3>1. run' = run \/ run' = NoRun
      BY <1>1, <2>5 DEF ContextDone, HealthFails, AwaitActive, WaitEnds, Running
    <3> QED
      BY <1>1, <3>1, NoRunFields
  <2>6. CASE Tick
    BY <1>1, <2>2, <2>6 DEF Tick, Running
  <2>7. CASE UNCHANGED run \/ RunReturns
    BY <1>1, <2>7 DEF RunReturns
  <2> QED
    BY <1>1, <2>1, <2>3, <2>4, <2>5, <2>6, <2>7
       DEF Next, Serve, vars, clocks, place, history, Boot, Run, LoseConnection, HealthTick,
           HealthOk, HeartbeatTick, CloseStore
<1>2. IInv /\ [Next]_vars => [run.at = "none" /\ run'.at = "work" => dead <= Heartbeat]_vars
  BY <1>1
<1> QED
  BY <1>2, Invariance, PTL DEF Spec, LateStartsAreBounded

\* The doctor reports a run past its limit and the file's, although the start may never
\* have been published: the file is then older than the run.
THEOREM OverdueRunsAreReported == Spec => []OverdueRunIsReported
<1>1. IInv => OverdueRunIsReported
  <2> SUFFICES ASSUME IInv, run.at = "work", run.age > RunTimeout + Skew, run.age > MaxAge, Doctor
               PROVE  FALSE
    BY DEF OverdueRunIsReported
  <2>1. /\ run.age \in Nat
        /\ file \in Heartbeats /\ file.age \in Nat
    BY RunFields, FileFields DEF IInv, TypeOK, Doctor
  <2>2. loop \notin {"off", "boot"}
    BY DEF IInv, ProcessIsFresh
  <2>3. CASE file.snapshot.started = run.age
    BY <2>1, <2>3, Durations DEF Doctor
  <2>4. CASE run.age <= file.age
    BY <2>1, <2>4, Durations DEF Doctor
  <2>5. CASE file.snapshot.err /\ file.snapshot.behind
    BY <2>5 DEF Doctor
  <2> QED
    BY <2>2, <2>3, <2>4, <2>5 DEF IInv, FileIsTrue, Running
<1> QED
  BY <1>1, Invariance, PTL

\* While heartbeats can be written, the doctor's verdict on a worker in service is
\* the truth about it, with no false alarm in a slow run or a slow health check.
THEOREM DoctorTellsTheTruth == Spec => []DoctorIsRight
<1>1. IInv => DoctorIsRight
  <2> SUFFICES ASSUME IInv, InService, ~missed PROVE Doctor <=> Sound
    BY DEF DoctorIsRight, InService
  <2>1. /\ run \in Runs /\ run.age \in Nat /\ run.obeys \in BOOLEAN /\ since \in Nat
        /\ file \in Heartbeats /\ file.age \in Nat /\ phase \in 0..(Heartbeat - 1)
    BY RunFields, FileFields DEF IInv, TypeOK, FileIsTrue, InService
  <2>2. loop # "off" /\ file # NoFile /\ file.snapshot = state
    BY DEF IInv, FileIsTrue, InService
  <2>3. file.age <= MaxAge
    <3>1. file.age <= phase + Heartbeat
      BY <2>1, Durations DEF IInv, FileIsTrue, InService
    <3> QED
      BY <2>1, <3>1, Durations, MaxAgeAssumption
  <2>4. state.err /\ state.behind <=> lastRun = "failed"
    BY DEF IInv, SnapshotIsTrue
  <2>5. Running /\ run.obeys => run.age <= RunTimeout + Skew
    BY <2>1, Durations, HealthAssumption DEF IInv, RunIsInTime, CheckIsInPhase, InService
  <2>6. state.started <= RunTimeout + Skew <=> ~(Running /\ run.age > RunTimeout + Skew)
    BY <2>1, Durations DEF IInv, SnapshotIsTrue, InService, Closing, Never
  <2>7. Running /\ ~run.obeys /\ run.age > RunTimeout + Skew
          <=> Running /\ run.age > RunTimeout + Skew
    BY <2>1, <2>5, Durations
  <2>8. Doctor <=> state.started <= RunTimeout + Skew /\ ~(state.err /\ state.behind)
    BY <2>2, <2>3, Zenon DEF Doctor
  <2> QED
    BY <2>4, <2>6, <2>7, <2>8, Zenon DEF Sound
<1> QED
  BY <1>1, Invariance, PTL

=============================================================================
