------------------------- MODULE ForwardingLifecycle -------------------------
(***************************************************************************)
(* What a forwarding job promises to the administrator's job list and to   *)
(* the mailbox portal, with no process, token, lease or clock in it.       *)
(* ForwardingJobs implements it.                                           *)
(***************************************************************************)
EXTENDS Naturals

CONSTANTS Jobs, MoveJobs, MaxAttempts

VARIABLES
  phase,   \* what is left to do for each job
  tries,   \* attempts spent since the job was opened or reopened
  mailed,  \* the jobs whose mail the provider has accepted
  hidden   \* the messages taken out of the portal

vars == <<phase, tries, mailed, hidden>>

Phases == {"none", "waiting", "working", "sent", "failed", "skipped", "erased"}

Init ==
  /\ phase = [j \in Jobs |-> "none"]
  /\ tries = [j \in Jobs |-> 0]
  /\ mailed = {}
  /\ hidden = {}

\* Job j goes from one of the phases `from' to `to', having spent n attempts.
Move(j, from, to, n) ==
  /\ phase[j] \in from
  /\ phase' = [phase EXCEPT ![j] = to]
  /\ tries' = [tries EXCEPT ![j] = n]

Open(j) == Move(j, {"none"}, "waiting", 0) /\ UNCHANGED <<mailed, hidden>>

Reopen(j) ==
  /\ Move(j, {"waiting", "failed", "skipped"}, "waiting", 0)
  /\ UNCHANGED <<mailed, hidden>>

Skip(j) == Move(j, {"working"}, "skipped", tries[j]) /\ UNCHANGED <<mailed, hidden>>

\* A failed attempt is followed by another only while attempts are left.
Fail(j) ==
  /\ \/ Move(j, {"working"}, "failed", tries[j] + 1)
     \/ tries[j] + 1 < MaxAttempts /\ Move(j, {"working"}, "waiting", tries[j] + 1)
  /\ UNCHANGED <<mailed, hidden>>

\* A job is sent only once its mail is with the provider; a moved message
\* leaves the portal in the same step.
Finish(j) ==
  /\ j \in mailed
  /\ Move(j, {"working"}, "sent", tries[j] + 1)
  /\ hidden' = hidden \cup ({j} \cap MoveJobs)
  /\ UNCHANGED mailed

Erase(j) ==
  /\ Move(j, Phases \ {"none", "erased"}, "erased", 0)
  /\ hidden' = hidden \ {j}
  /\ UNCHANGED mailed

\* A batch is taken or handed back in one statement.
TakeOrYield ==
  /\ phase' \in [Jobs -> Phases]
  /\ \A j \in Jobs :
       phase'[j] # phase[j] => {phase[j], phase'[j]} = {"waiting", "working"}
  /\ UNCHANGED <<tries, mailed, hidden>>

\* A request may reach the provider long after its job was settled.
Deliver(j) ==
  /\ phase[j] # "none"
  /\ mailed' = mailed \cup {j}
  /\ UNCHANGED <<phase, tries, hidden>>

Next ==
  \/ TakeOrYield
  \/ \E j \in Jobs : \/ Open(j) \/ Reopen(j) \/ Skip(j) \/ Fail(j)
                     \/ Finish(j) \/ Erase(j) \/ Deliver(j)

Spec == Init /\ [][Next]_vars
=============================================================================
