---------------------------- MODULE ResearchQueue ----------------------------
(***************************************************************************)
(* The leased queue of research jobs on PostgreSQL and the workers that    *)
(* process it, external processes that come and go                         *)
(* (services/postgres_workers.py, services/research_jobs.py,               *)
(* data/journal_context_store.py).                                         *)
(*                                                                         *)
(* A worker goes through several database transactions for one job, and    *)
(* anything may happen between two of them. Every transaction is one step  *)
(* but a heartbeat, which checks the lease and renews it in two statements *)
(* with only the row locked: the lease may run out in between, and other   *)
(* jobs be claimed. Elsewhere a lease that runs out inside a transaction   *)
(* might as well have run out after it. The fencing token, a fresh uuid of *)
(* each claim, is the number of the attempt, which each claim increments.  *)
(***************************************************************************)
EXTENDS Integers, FiniteSets

CONSTANTS
  Job,          \* research jobs
  Worker,       \* worker processes
  NoJob,        \* what an idle worker works on
  MaxAttempts,  \* max_attempts of every job
  MaxActive     \* max_active of every worker

ASSUME ConstantsAssumption ==
  /\ IsFiniteSet(Job) /\ NoJob \notin Job
  /\ MaxAttempts \in Nat \ {0} /\ MaxActive \in Nat \ {0}

VARIABLES
  job,     \* research_jobs: status, attempt_number, whether the lease is unexpired;
           \* as history, whether that ran out inside a heartbeat when it last did
  result,  \* the attempt that wrote result_json and the validation run, or 0
  at       \* what each worker is about to do, with the claim it does it for

vars == <<job, result, at>>

JOB_TRANSITIONS == [
  NONE             |-> {"QUEUED"},
  QUEUED           |-> {"CLAIMED", "CANCELLED"},
  CLAIMED          |-> {"RUNNING", "CANCEL_REQUESTED", "INTERRUPTED", "FAILED"},
  RUNNING          |-> {"COMPLETED", "FAILED", "CANCEL_REQUESTED", "INTERRUPTED"},
  CANCEL_REQUESTED |-> {"CANCELLED"},
  INTERRUPTED      |-> {"RETRY_PENDING", "FAILED"},
  RETRY_PENDING    |-> {"CLAIMED", "CANCELLED"},
  FAILED           |-> {}, COMPLETED |-> {}, CANCELLED |-> {}]

Status == DOMAIN JOB_TRANSITIONS
ACTIVE == {"CLAIMED", "RUNNING", "CANCEL_REQUESTED"}

Idle == [pc |-> "idle", job |-> NoJob, token |-> 0]

Init ==
  /\ job = [j \in Job |->
       [status |-> "NONE", attempt |-> 0, leased |-> FALSE, overrun |-> FALSE]]
  /\ result = [j \in Job |-> 0]
  /\ at = [w \in Worker |-> Idle]

-----------------------------------------------------------------------------
(* The store. *)

Active == {j \in Job : job[j].status \in ACTIVE /\ job[j].leased}

\* Mutants of Expired: recovery passes over statuses it should look at.
ExpiredUncancelled == {j \in Job : job[j].status \in {"CLAIMED", "RUNNING"} /\ ~job[j].leased}
ExpiredRunning == {j \in Job : job[j].status = "RUNNING" /\ ~job[j].leased}

Expired == {j \in Job : job[j].status \in ACTIVE /\ ~job[j].leased}

\* Mutant of Owned: the fencing token is not looked at.
OwnedByAnyone(j, t) == job[j].leased

Owned(j, t) == job[j].attempt = t /\ job[j].leased

\* transition_research_job() with a token: what it accepts, and what it leaves.
May(j, t, to) ==
  /\ job[j].status \in ACTIVE => Owned(j, t)
  /\ to \in JOB_TRANSITIONS[job[j].status]
  /\ job[j].attempt = t

Moved(j, to) == [job[j] EXCEPT !.status = to, !.leased = @ /\ to \in ACTIVE,
                               !.overrun = @ /\ to \in ACTIVE]

\* A heartbeat has read the job FOR UPDATE and not committed yet.
RowLocked(j) == \E w \in Worker : at[w].pc = "renewing" /\ at[w].job = j

\* A job created again under its idempotency key is the one there is.
Create(j) ==
  /\ job[j].status = "NONE"
  /\ job' = [job EXCEPT ![j] = Moved(j, "QUEUED")]
  /\ UNCHANGED <<result, at>>

\* request_research_cancellation(): a user's, no lease is needed, but the row.
RequestCancellation(j) ==
  /\ ~RowLocked(j)
  /\ \/ /\ job[j].status \in {"QUEUED", "RETRY_PENDING"}
        /\ job' = [job EXCEPT ![j] = Moved(j, "CANCELLED")]
     \/ /\ job[j].status \in {"CLAIMED", "RUNNING"}
        /\ job' = [job EXCEPT ![j] = Moved(j, "CANCEL_REQUESTED")]
  /\ UNCHANGED <<result, at>>

\* No heartbeat for lease_seconds.
LeaseExpires(j) ==
  /\ j \in Active
  /\ job' = [job EXCEPT ![j].leased = FALSE, ![j].overrun = RowLocked(j)]
  /\ UNCHANGED <<result, at>>

\* Where an attempt that is given up goes.
Requeued(j) == IF job[j].attempt >= MaxAttempts THEN "FAILED" ELSE "RETRY_PENDING"

\* Mutant of Recovered: an accepted cancellation is forgotten, as on SQLite.
RecoveredForRetry(j) == Moved(j, Requeued(j))

Recovered(j) ==
  Moved(j, IF job[j].status = "CANCEL_REQUESTED" THEN "CANCELLED" ELSE Requeued(j))

\* recover_expired_research_jobs(), which a worker calls between jobs: in one
\* transaction, over the expired rows nobody has locked.
Recover(w) ==
  /\ at[w].pc = "idle"
  /\ \E S \in (SUBSET {j \in Expired : ~RowLocked(j)}) \ {{}} :
       job' = [j \in Job |-> IF j \in S THEN Recovered(j) ELSE job[j]]
  /\ UNCHANGED <<result, at>>

-----------------------------------------------------------------------------
(* A worker: claim, run, checkpoints, commit. *)

Goto(w, pc) == at' = [at EXCEPT ![w].pc = pc]
Done(w) == at' = [at EXCEPT ![w] = Idle]

\* Mutant of Claimable: expired jobs are claimed whatever their attempts, as on
\* SQLite.
ClaimableExpired(j) ==
  \/ job[j].status \in {"QUEUED", "RETRY_PENDING"} /\ job[j].attempt < MaxAttempts
  \/ j \in Expired

Claimable(j) ==
  job[j].status \in {"QUEUED", "RETRY_PENDING"} /\ job[j].attempt < MaxAttempts

\* Under the quota lock, which no heartbeat takes: it counts the leases that are
\* committed and unexpired, and takes the oldest claimable job that nobody has
\* locked, hence any. The claim may commit and its acknowledgement be lost; the claimed job
\* then has no worker.
Claim(w) ==
  /\ at[w].pc = "idle"
  /\ Cardinality(Active) < MaxActive
  /\ \E j \in Job :
       /\ Claimable(j)
       /\ job' = [job EXCEPT ![j] =
            [status |-> "CLAIMED", attempt |-> @.attempt + 1, leased |-> TRUE, overrun |-> FALSE]]
       /\ \/ at' = [at EXCEPT ![w] = [pc |-> "claimed", job |-> j, token |-> job[j].attempt + 1]]
          \/ UNCHANGED at
  /\ UNCHANGED result

\* A refused transition raises ValueError.
Start(w) ==
  LET j == at[w].job IN
  /\ at[w].pc = "claimed"
  /\ \/ /\ May(j, at[w].token, "RUNNING")
        /\ job' = [job EXCEPT ![j] = Moved(j, "RUNNING")]
        /\ Goto(w, "working")
     \/ ~May(j, at[w].token, "RUNNING") /\ Goto(w, "error") /\ UNCHANGED job
  /\ UNCHANGED result

\* Mutant of Renewable: a heartbeat revives an expired lease, as on SQLite.
RenewableExpired(j, t) == job[j].attempt = t /\ job[j].status \in {"CLAIMED", "RUNNING"}

Renewable(j, t) == Owned(j, t) /\ job[j].status \in {"CLAIMED", "RUNNING"}

\* checkpoint() begins with a heartbeat, which locks the row and checks the
\* lease against the clock.
Checkpoint(w) ==
  /\ at[w].pc = "working"
  /\ IF Renewable(at[w].job, at[w].token) THEN Goto(w, "renewing") ELSE Goto(w, "cancelled")
  /\ UNCHANGED <<job, result>>

\* It then renews the lease, whatever the clock says by now, and commits. After the
\* last checkpoint the worker goes on to commit; a job that has run for too long
\* raises TimeoutError.
Renews(w) ==
  /\ at[w].pc = "renewing"
  /\ job' = [job EXCEPT ![at[w].job].leased = TRUE]
  /\ \E pc \in {"working", "commit", "transient"} : Goto(w, pc)
  /\ UNCHANGED result

\* checkpoint() ends with a read of the job's status, in which it may find a
\* cancellation that came after the heartbeat.
ReadsCancellation(w) ==
  /\ at[w].pc \in {"working", "commit"} /\ job[at[w].job].status = "CANCEL_REQUESTED"
  /\ Goto(w, "cancelled")
  /\ UNCHANGED <<job, result>>

\* The stop event is set: ResearchInterrupted at the next checkpoint.
Interrupted(w) ==
  /\ at[w].pc = "working" /\ Goto(w, "interrupted")
  /\ UNCHANGED <<job, result>>

\* A timeout, a lost connection or an error of the simulation, whether or not
\* the transaction that raised has taken effect. It ends the transaction.
Raises(w) ==
  /\ at[w].pc \in {"claimed", "working", "renewing", "commit"}
  /\ Goto(w, "transient") \/ Goto(w, "error")
  /\ UNCHANGED <<job, result>>

\* commit_research_result(): the result, the validation run and the status in
\* one transaction, whose acknowledgement may be lost.
Commit(w) ==
  LET j == at[w].job IN
  /\ at[w].pc = "commit"
  /\ \/ /\ Owned(j, at[w].token) /\ job[j].status = "RUNNING"
        /\ job' = [job EXCEPT ![j] = Moved(j, "COMPLETED")]
        /\ result' = [result EXCEPT ![j] = at[w].token]
        /\ Done(w) \/ Goto(w, "transient") \/ Goto(w, "error")
     \/ /\ ~(Owned(j, at[w].token) /\ job[j].status = "RUNNING")
        /\ Goto(w, "error") /\ UNCHANGED <<job, result>>

-----------------------------------------------------------------------------
(* A worker's exception handlers: they read the job in one transaction and   *)
(* act on what they have read in another.                                    *)

HandlesInterruption(w) ==
  LET j == at[w].job IN
  /\ at[w].pc = "interrupted"
  /\ IF job[j].attempt # at[w].token THEN Done(w)
     ELSE Goto(w, IF job[j].status = "CANCEL_REQUESTED" THEN "confirm" ELSE "release")
  /\ UNCHANGED <<job, result>>

HandlesCancellation(w) ==
  /\ at[w].pc = "cancelled"
  /\ IF job[at[w].job].status = "CANCEL_REQUESTED" THEN Goto(w, "confirm") ELSE Done(w)
  /\ UNCHANGED <<job, result>>

\* A job that is completed had its acknowledgement lost.
HandlesError(w) ==
  LET j == at[w].job IN
  /\ at[w].pc \in {"transient", "error"}
  /\ IF job[j].attempt # at[w].token \/ job[j].status = "COMPLETED" THEN Done(w)
     ELSE Goto(w, IF at[w].pc = "transient" /\ job[j].attempt < MaxAttempts
                  THEN "release" ELSE "fail")
  /\ UNCHANGED <<job, result>>

\* A transition under the worker's token; refused, it ends the handler.
Moves(w, to, then) ==
  LET j == at[w].job IN
  IF May(j, at[w].token, to)
  THEN job' = [job EXCEPT ![j] = Moved(j, to)] /\ then
  ELSE UNCHANGED job /\ Done(w)

Confirms(w) == at[w].pc = "confirm" /\ Moves(w, "CANCELLED", Done(w)) /\ UNCHANGED result

Fails(w) == at[w].pc = "fail" /\ Moves(w, "FAILED", Done(w)) /\ UNCHANGED result

\* An attempt is given up in two transactions, the second without a token.
Releases(w) ==
  /\ at[w].pc = "release"
  /\ Moves(w, "INTERRUPTED", Goto(w, "requeue"))
  /\ UNCHANGED result

Requeues(w) ==
  LET j == at[w].job IN
  /\ at[w].pc = "requeue"
  /\ IF Requeued(j) \in JOB_TRANSITIONS[job[j].status]
     THEN job' = [job EXCEPT ![j] = Moved(j, Requeued(j))]
     ELSE UNCHANGED job
  /\ Done(w) /\ UNCHANGED result

\* The process dies, or the store fails inside a handler and the loop goes on.
Lost(w) ==
  /\ at[w].pc # "idle" /\ Done(w)
  /\ UNCHANGED <<job, result>>

Progress(w) ==
  \/ Start(w) \/ Checkpoint(w) \/ Renews(w) \/ ReadsCancellation(w) \/ Commit(w)
  \/ HandlesInterruption(w) \/ HandlesCancellation(w) \/ HandlesError(w)
  \/ Confirms(w) \/ Fails(w) \/ Releases(w) \/ Requeues(w)

Next ==
  \/ \E j \in Job : Create(j) \/ RequestCancellation(j) \/ LeaseExpires(j)
  \/ \E w \in Worker :
       Recover(w) \/ Claim(w) \/ Progress(w) \/ Interrupted(w) \/ Raises(w) \/ Lost(w)

Spec == Init /\ [][Next]_vars

\* A worker that is up goes on, and polls: it recovers and claims what there is.
\* The runtime limit of a job ends its checkpoints. A lease nobody renews expires.
Unattended(j) == \A w \in Worker : at[w].job = j => at[w].token # job[j].attempt

Fairness ==
  /\ \A w \in Worker : /\ WF_vars(Progress(w) \/ Recover(w) \/ Claim(w))
                       /\ SF_vars(Renews(w) /\ at'[w].pc # "working")
  /\ \A j \in Job : WF_vars(Unattended(j) /\ LeaseExpires(j))

FairSpec == Spec /\ Fairness

-----------------------------------------------------------------------------
(* Properties. *)

TypeOK ==
  /\ job \in [Job -> [status : Status, attempt : 0..MaxAttempts, leased : BOOLEAN,
                     overrun : BOOLEAN]]
  /\ result \in [Job -> 0..MaxAttempts]
  /\ at \in [Worker ->
       [pc : {"idle", "claimed", "working", "renewing", "commit", "interrupted", "cancelled",
              "transient", "error", "confirm", "release", "requeue", "fail"},
        job : Job \cup {NoJob}, token : 0..MaxAttempts]]

\* The quota, which a claim counts under its advisory lock: of the unexpired
\* leases at most max_active were never overrun. A heartbeat that finds its lease
\* expired renews nothing, so the quota is exceeded only by jobs whose lease ran
\* out between the check and the renewal of one heartbeat (postgres_workers.py:204
\* and :208), when another job may already have the place.
ActiveLimit == Cardinality({j \in Active : ~job[j].overrun}) <= MaxActive

\* STRATEGY_INTELLIGENCE_SPRINT46.md: "A stale worker therefore cannot commit
\* after lease takeover": no step of a worker whose claim was superseded changes
\* the job it once held.
StaleWorkersAreFenced ==
  [][\A w \in Worker : LET j == at[w].job IN
       /\ at[w].pc # "idle" /\ at'[w] # at[w]
       /\ job[j].attempt # at[w].token
       => job'[j] = job[j] /\ result'[j] = result[j]]_vars

\* An accepted cancellation is confirmed, by the worker or after its lease.
CancellationsAreConfirmed ==
  \A j \in Job : job[j].status = "CANCEL_REQUESTED" ~> job[j].status = "CANCELLED"

\* Every created job ends for good. The one exception is a worker lost between
\* the two transactions that give an attempt up: nothing recovers an INTERRUPTED
\* row.
JobsSettle ==
  \A j \in Job :
    <>[](job[j].status \in {"NONE", "COMPLETED", "FAILED", "CANCELLED", "INTERRUPTED"})

-----------------------------------------------------------------------------
(* The queue implements the life of its jobs. *)

PhaseOf(s) ==
  CASE s = "NONE" -> "absent"
    [] s \in {"QUEUED", "RETRY_PENDING"} -> "waiting"
    [] s \in {"CLAIMED", "RUNNING", "INTERRUPTED"} -> "working"
    [] s = "CANCEL_REQUESTED" -> "cancelling"
    [] s = "COMPLETED" -> "completed"
    [] s = "FAILED" -> "failed"
    [] s = "CANCELLED" -> "cancelled"

Lifecycle == INSTANCE JobLifecycle WITH
  phase <- [j \in Job |-> PhaseOf(job[j].status)],
  attempt <- [j \in Job |-> job[j].attempt]

\* Attempts are bounded and made one at a time, at most one result is kept, that
\* of the last attempt, and none after an accepted cancellation.
ImplementsLifecycle == Lifecycle!Spec
=============================================================================
