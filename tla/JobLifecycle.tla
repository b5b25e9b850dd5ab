---------------------------- MODULE JobLifecycle ----------------------------
(***************************************************************************)
(* What the research queue promises about each job, whoever works on it    *)
(* and whatever fails: a bounded number of attempts, one at a time, at     *)
(* most one result, and no result once a cancellation was accepted.        *)
(***************************************************************************)
EXTENDS Integers

CONSTANTS
  Job,          \* research jobs
  MaxAttempts   \* max_attempts

VARIABLES
  phase,    \* where the job is
  attempt,  \* attempts begun so far
  result    \* the attempt whose result was kept, 0 for none

vars == <<phase, attempt, result>>

Init ==
  /\ phase = [j \in Job |-> "absent"]
  /\ attempt = [j \in Job |-> 0]
  /\ result = [j \in Job |-> 0]

Same(j) == phase'[j] = phase[j] /\ attempt'[j] = attempt[j] /\ result'[j] = result[j]

To(j, p) == phase'[j] = p /\ attempt'[j] = attempt[j] /\ result'[j] = result[j]

Create(j) == phase[j] = "absent" /\ To(j, "waiting")

Begin(j) ==
  /\ phase[j] = "waiting" /\ attempt[j] < MaxAttempts
  /\ phase'[j] = "working"
  /\ attempt'[j] = attempt[j] + 1 /\ result'[j] = result[j]

Complete(j) ==
  /\ phase[j] = "working"
  /\ phase'[j] = "completed"
  /\ attempt'[j] = attempt[j] /\ result'[j] = attempt[j]

Retry(j) == phase[j] = "working" /\ attempt[j] < MaxAttempts /\ To(j, "waiting")

Fail(j) == phase[j] = "working" /\ To(j, "failed")

Cancel(j) ==
  \/ phase[j] = "waiting" /\ To(j, "cancelled")
  \/ phase[j] = "working" /\ To(j, "cancelling")

Confirm(j) == phase[j] = "cancelling" /\ To(j, "cancelled")

\* A recovery moves several jobs at once.
Next ==
  \A j \in Job :
    \/ Create(j) \/ Begin(j) \/ Complete(j) \/ Retry(j) \/ Fail(j)
    \/ Cancel(j) \/ Confirm(j) \/ Same(j)

Spec == Init /\ [][Next]_vars
=============================================================================
