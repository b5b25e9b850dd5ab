----------------------------- MODULE WorkerLease -----------------------------
(***************************************************************************)
(* Exclusive execution ownership of Trading Instances across application   *)
(* processes: the instance_worker_leases table, the processes that claim,  *)
(* renew and release rows of it, and the worker threads those processes    *)
(* run (services/trading_instances.py, services/instance_supervisor.py).   *)
(*                                                                         *)
(* A worker_id names one process run (hostname:pid:uuid), so a process     *)
(* that has crashed or shut down never comes back under the same name.     *)
(* Time is kept as ages: a lease row carries the time since its heartbeat  *)
(* and a live worker the time since the supervisor last visited it, which  *)
(* keeps the state finite without a bound on the clock.                    *)
(***************************************************************************)
EXTENDS Integers, FiniteSets

CONSTANTS
  Worker,        \* worker_ids, one per process run
  Instance,      \* Trading Instances, all of mode "trading"
  NoWorker,      \* owner of an absent lease row
  TTL,           \* worker_lease_ttl_s
  SweepPeriod,   \* longest time between two supervisor visits to a live worker
  Outage,        \* oldest heartbeat at which a renewal may still raise
  JoinTimesOut,  \* whether engine.stop() may give up joining its thread
  PauseTimesOut, \* whether a pause may go unacknowledged
  MaxGone,       \* bound: how many process runs may end
  MaxFailures    \* bound: how many starts may fail after their claim

ASSUME ConstantsAssumption ==
  /\ NoWorker \notin Worker
  /\ TTL \in Nat \ {0} /\ SweepPeriod \in Nat \ {0} /\ Outage \in Nat
  /\ JoinTimesOut \in BOOLEAN /\ PauseTimesOut \in BOOLEAN
  /\ MaxGone \in Nat /\ MaxFailures \in Nat

VARIABLES
  proc,        \* process runs: not started, up, or gone for good
  desired,     \* rows whose durable desired_running is set
  wants,       \* each process's cached copy of desired_running
  restored,    \* rows restore_desired_instances() has already visited
  blocked,     \* rows whose cached state is "blocked"
  runtime,     \* keys of the process's _runtime dictionary
  live,        \* runtimes whose engine is running
  lingering,   \* engine threads that outlived the join in engine.stop()
  lease,       \* instance_worker_leases
  sinceSweep,  \* time since the supervisor last visited a live worker
  failures     \* starts that failed after their claim

vars == <<proc, desired, wants, restored, blocked, runtime, live, lingering,
          lease, sinceSweep, failures>>

NoLease == [owner |-> NoWorker, age |-> 0]

Expired(i) == lease[i].age > TTL

Init ==
  /\ proc = [w \in Worker |-> "new"]
  /\ desired \in SUBSET Instance
  /\ wants = [w \in Worker |-> {}]
  /\ restored = [w \in Worker |-> {}]
  /\ blocked = [w \in Worker |-> {}]
  /\ runtime = [w \in Worker |-> {}]
  /\ live = [w \in Worker |-> {}]
  /\ lingering = [w \in Worker |-> {}]
  /\ lease = [i \in Instance |-> NoLease]
  /\ sinceSweep = [w \in Worker |-> [i \in Instance |-> 0]]
  /\ failures = 0

-----------------------------------------------------------------------------
(* The three writes to the lease table. *)

\* Mutants of Claimable: an unconditional upsert, an off-by-one in the expiry
\* test, and no expiry test at all.
ClaimableAlways(w, i) == TRUE
ClaimableAtTTL(w, i) == lease[i].owner \in {NoWorker, w} \/ lease[i].age >= TTL
ClaimableIfUnheld(w, i) == lease[i].owner \in {NoWorker, w}

\* The predicate the INSERT .. ON CONFLICT DO UPDATE carries.
Claimable(w, i) == lease[i].owner \in {NoWorker, w} \/ Expired(i)

Claimed(w, i) == [lease EXCEPT ![i] = [owner |-> w, age |-> 0]]

\* renew_worker_lease matches on worker_id alone: an expired row nobody has
\* taken over is revived.
Renewed(w, i) == IF lease[i].owner = w THEN Claimed(w, i) ELSE lease

\* Mutants of Released: a row that keeps no heartbeat, and a DELETE that does
\* not look at the owner.
ReleasedWithoutHeartbeat(w, S) ==
  [i \in Instance |->
     IF i \in S /\ lease[i].owner = w THEN [owner |-> NoWorker] ELSE lease[i]]
ReleasedByAnyone(w, S) == [i \in Instance |-> IF i \in S THEN NoLease ELSE lease[i]]

\* The rows of S that w owns are deleted.
Released(w, S) ==
  [i \in Instance |-> IF i \in S /\ lease[i].owner = w THEN NoLease ELSE lease[i]]

-----------------------------------------------------------------------------
(* Process runs. *)

\* The manager's constructor caches every row.
Boot(w) ==
  /\ proc[w] = "new"
  /\ proc' = [proc EXCEPT ![w] = "up"]
  /\ wants' = [wants EXCEPT ![w] = desired]
  /\ UNCHANGED <<desired, restored, blocked, runtime, live, lingering, lease,
                 sinceSweep, failures>>

Gone == {w \in Worker : proc[w] = "gone"}

\* Everything a process run keeps in memory disappears with it.
Forget(w) ==
  /\ proc' = [proc EXCEPT ![w] = "gone"]
  /\ wants' = [wants EXCEPT ![w] = {}]
  /\ restored' = [restored EXCEPT ![w] = {}]
  /\ blocked' = [blocked EXCEPT ![w] = {}]
  /\ runtime' = [runtime EXCEPT ![w] = {}]
  /\ live' = [live EXCEPT ![w] = {}]
  /\ sinceSweep' = [sinceSweep EXCEPT ![w] = [i \in Instance |-> 0]]

Crash(w) ==
  /\ proc[w] = "up"
  /\ Cardinality(Gone) < MaxGone
  /\ Forget(w)
  /\ lingering' = [lingering EXCEPT ![w] = {}]
  /\ UNCHANGED <<desired, lease, failures>>

\* Threads of w that may survive a stop of the runtimes in S.
Survivors(w, S) ==
  IF JoinTimesOut THEN SUBSET (S \cap live[w]) ELSE {{}}

\* shutdown(): stop every runtime, then hand its lease back unless the store
\* raises. desired_running is left as it is. A thread that outlives the join stays until it notices
\* its stop event, or until the interpreter exits.
Shutdown(w) ==
  /\ proc[w] = "up"
  /\ Cardinality(Gone) < MaxGone
  /\ Forget(w)
  /\ \E left \in Survivors(w, runtime[w]) :
       lingering' = [lingering EXCEPT ![w] = @ \cup left]
  /\ \E S \in SUBSET runtime[w] : lease' = Released(w, S)
  /\ UNCHANGED <<desired, failures>>

ThreadExits(w, i) ==
  /\ i \in lingering[w]
  /\ lingering' = [lingering EXCEPT ![w] = @ \ {i}]
  /\ UNCHANGED <<proc, desired, wants, restored, blocked, runtime, live, lease,
                 sinceSweep, failures>>

-----------------------------------------------------------------------------
(* start(), and its callers. *)

\* start() on a runtime that is not running: claim the lease, build the
\* worker, persist desired_running.
Launch(w, i) ==
  /\ i \notin live[w]
  /\ Claimable(w, i)
  /\ lease' = Claimed(w, i)
  /\ runtime' = [runtime EXCEPT ![w] = @ \cup {i}]
  /\ live' = [live EXCEPT ![w] = @ \cup {i}]
  /\ blocked' = [blocked EXCEPT ![w] = @ \ {i}]
  /\ wants' = [wants EXCEPT ![w] = @ \cup {i}]
  /\ desired' = desired \cup {i}
  /\ sinceSweep' = [sinceSweep EXCEPT ![w][i] = 0]
  /\ UNCHANGED <<proc, lingering, failures>>

\* start() failing after the claim. A strategy that cannot be initialised
\* gives the lease back; a hub that refuses the subscription does not.
LaunchFails(w, i) ==
  /\ failures < MaxFailures
  /\ failures' = failures + 1
  /\ i \notin live[w]
  /\ Claimable(w, i)
  /\ \/ lease' = Claimed(w, i)
     \/ lease' = [lease EXCEPT ![i] = NoLease]
  /\ runtime' = [runtime EXCEPT ![w] = @ \ {i}]
  /\ UNCHANGED <<proc, desired, wants, blocked, live, lingering, sinceSweep>>

\* start() of a running instance joins its worker and renews; whether the row
\* was still ours is not looked at.
Join(w, i) ==
  /\ i \in live[w]
  /\ lease' = Renewed(w, i)
  /\ UNCHANGED <<proc, desired, wants, blocked, runtime, live, lingering,
                 sinceSweep, failures>>

\* start() refused because another process run holds the row.
Refused(w, i) == i \notin live[w] /\ ~Claimable(w, i)

\* restore_desired_instances(), one row: a held lease marks the row "blocked".
Restore(w, i) ==
  /\ proc[w] = "up"
  /\ i \notin restored[w]
  /\ restored' = [restored EXCEPT ![w] = @ \cup {i}]
  /\ \/ i \in wants[w] /\ (Launch(w, i) \/ LaunchFails(w, i) \/ Join(w, i))
     \/ /\ i \in wants[w] /\ Refused(w, i)
        /\ blocked' = [blocked EXCEPT ![w] = @ \cup {i}]
        /\ UNCHANGED <<proc, desired, wants, runtime, live, lingering, lease,
                       sinceSweep, failures>>
     \/ /\ i \notin wants[w]
        /\ UNCHANGED <<proc, desired, wants, blocked, runtime, live, lingering,
                       lease, sinceSweep, failures>>

\* The supervisor thread starts once restoration is over.
Supervising(w) == proc[w] = "up" /\ restored[w] = Instance

\* sweep() on a desired row without a live worker. Rows marked "blocked" are
\* skipped; a held lease only postpones the next attempt.
Repair(w, i) ==
  /\ Supervising(w)
  /\ i \in wants[w] \ (live[w] \cup blocked[w])
  /\ Launch(w, i) \/ LaunchFails(w, i)
  /\ UNCHANGED restored

\* An operator's Start.
OperatorStart(w, i) ==
  /\ proc[w] = "up"
  /\ Launch(w, i) \/ LaunchFails(w, i) \/ Join(w, i)
  /\ UNCHANGED restored

\* An operator's Resume of a running instance (of any other it is a Start).
OperatorResume(w, i) ==
  /\ i \in live[w]
  /\ lease' = Renewed(w, i)
  /\ wants' = [wants EXCEPT ![w] = @ \cup {i}]
  /\ desired' = desired \cup {i}
  /\ blocked' = [blocked EXCEPT ![w] = @ \ {i}]
  /\ UNCHANGED <<proc, restored, runtime, live, lingering, sinceSweep, failures>>

-----------------------------------------------------------------------------
(* stop(), the supervisor's visits to live workers, and worker death. *)

\* _release_lease() swallows a store exception: the row then stays until it
\* expires.
OperatorStop(w, i) ==
  /\ proc[w] = "up"
  /\ \E left \in Survivors(w, {i}) :
       lingering' = [lingering EXCEPT ![w] = @ \cup left]
  /\ live' = [live EXCEPT ![w] = @ \ {i}]
  /\ wants' = [wants EXCEPT ![w] = @ \ {i}]
  /\ desired' = desired \ {i}
  /\ blocked' = [blocked EXCEPT ![w] = @ \ {i}]
  /\ \E S \in SUBSET {i} : lease' = Released(w, S)
  /\ sinceSweep' = [sinceSweep EXCEPT ![w][i] = 0]
  /\ UNCHANGED <<proc, restored, runtime, failures>>

\* pause() whose acknowledgement times out: the instance is no longer wanted,
\* but its worker is left running.
PauseFails(w, i) ==
  /\ PauseTimesOut
  /\ i \in live[w]
  /\ wants' = [wants EXCEPT ![w] = @ \ {i}]
  /\ desired' = desired \ {i}
  /\ blocked' = [blocked EXCEPT ![w] = @ \ {i}]
  /\ sinceSweep' = [sinceSweep EXCEPT ![w][i] = 0]
  /\ UNCHANGED <<proc, restored, runtime, live, lingering, lease, failures>>

\* sweep() visits desired rows only. Here: a live worker whose lease is ours.
Renew(w, i) ==
  /\ Supervising(w) /\ i \in wants[w] \cap live[w]
  /\ lease[i].owner = w
  /\ lease' = Renewed(w, i)
  /\ sinceSweep' = [sinceSweep EXCEPT ![w][i] = 0]
  /\ UNCHANGED <<proc, desired, wants, restored, blocked, runtime, live,
                 lingering, failures>>

\* _renew_lease() counts a store exception as "still ours".
RenewRaises(w, i) ==
  /\ Supervising(w) /\ i \in wants[w] \cap live[w]
  /\ lease[i].owner = w => lease[i].age <= Outage
  /\ Outage > 0
  /\ sinceSweep' = [sinceSweep EXCEPT ![w][i] = 0]
  /\ UNCHANGED <<proc, desired, wants, restored, blocked, runtime, live,
                 lingering, lease, failures>>

\* A renewal that matched no row: halt_runtime() gives the worker up and
\* keeps the operator's intent.
LeaseLost(w, i) ==
  /\ Supervising(w) /\ i \in wants[w] \cap live[w]
  /\ lease[i].owner # w
  /\ \E left \in Survivors(w, {i}) :
       lingering' = [lingering EXCEPT ![w] = @ \cup left]
  /\ live' = [live EXCEPT ![w] = @ \ {i}]
  /\ runtime' = [runtime EXCEPT ![w] = @ \ {i}]
  /\ sinceSweep' = [sinceSweep EXCEPT ![w][i] = 0]
  /\ UNCHANGED <<proc, desired, wants, restored, blocked, lease, failures>>

\* The engine's terminal error: the thread returns, the row stays desired and
\* the lease stays held.
EngineDies(w, i) ==
  /\ i \in live[w]
  /\ live' = [live EXCEPT ![w] = @ \ {i}]
  /\ sinceSweep' = [sinceSweep EXCEPT ![w][i] = 0]
  /\ UNCHANGED <<proc, desired, wants, restored, blocked, runtime, lingering,
                 lease, failures>>

\* Time passes, but never so far that a worker the supervisor visits is left
\* alone for more than SweepPeriod.
Tick ==
  /\ \A w \in Worker : \A i \in live[w] \cap wants[w] :
       sinceSweep[w][i] < SweepPeriod
  /\ lease' = [i \in Instance |->
                 IF lease[i].owner = NoWorker \/ Expired(i) THEN lease[i]
                 ELSE [lease[i] EXCEPT !.age = @ + 1]]
  /\ sinceSweep' = [w \in Worker |-> [i \in Instance |->
                      IF i \in live[w] \cap wants[w] THEN sinceSweep[w][i] + 1 ELSE 0]]
  /\ UNCHANGED <<proc, desired, wants, restored, blocked, runtime, live,
                 lingering, failures>>

Step(w, i) ==
  \/ ThreadExits(w, i)
  \/ Restore(w, i)
  \/ Repair(w, i)
  \/ OperatorStart(w, i)
  \/ OperatorResume(w, i)
  \/ OperatorStop(w, i)
  \/ PauseFails(w, i)
  \/ Renew(w, i)
  \/ RenewRaises(w, i)
  \/ LeaseLost(w, i)
  \/ EngineDies(w, i)

Next ==
  \/ Tick
  \/ \E w \in Worker : Boot(w) \/ Crash(w) \/ Shutdown(w)
  \/ \E w \in Worker, i \in Instance : Step(w, i)

Spec == Init /\ [][Next]_vars

\* What the code's own threads owe: the clock runs, a started process restores
\* every row, the supervisor keeps visiting live workers and retrying dead ones
\* (a repair that is possible again and again is taken: after a refusal it is
\* retried, at the latest after MAX_BACKOFF_S), and a stopped thread ends.
Fairness ==
  /\ WF_vars(Tick)
  /\ \A w \in Worker, i \in Instance :
       /\ WF_vars(Restore(w, i))
       /\ WF_vars(Renew(w, i) \/ LeaseLost(w, i))
       /\ WF_vars(ThreadExits(w, i))
       /\ SF_vars(Repair(w, i))

FairSpec == Spec /\ Fairness

-----------------------------------------------------------------------------
(* Properties. *)

TypeOK ==
  /\ proc \in [Worker -> {"new", "up", "gone"}]
  /\ desired \in SUBSET Instance
  /\ wants \in [Worker -> SUBSET Instance]
  /\ restored \in [Worker -> SUBSET Instance]
  /\ blocked \in [Worker -> SUBSET Instance]
  /\ runtime \in [Worker -> SUBSET Instance]
  /\ live \in [Worker -> SUBSET Instance]
  /\ lingering \in [Worker -> SUBSET Instance]
  /\ lease \in [Instance -> [owner : Worker \cup {NoWorker}, age : Nat]]
  /\ sinceSweep \in [Worker -> [Instance -> Nat]]
  /\ failures \in Nat

\* Threads that can still place orders for instance i.
Executing(w, i) == i \in live[w] \cup lingering[w]

\* No two process runs execute one instance at the same time: "One instance =
\* one execution owner", the reason claim_worker_lease is a conditional write. Only
\* where every join succeeds: after one that times out (auto_engine.py:311-314)
\* stop() hands the lease over under a thread that still runs.
OneExecutionOwner ==
  \A i \in Instance, w1, w2 \in Worker :
    Executing(w1, i) /\ Executing(w2, i) => w1 = w2

\* A live worker is the owner its lease row names, and the row has not expired.
LiveWorkerHoldsLease ==
  \A w \in Worker : \A i \in live[w] : lease[i].owner = w /\ ~Expired(i)

\* A row passes from one process run to another only after it expired or was
\* deleted by its owner, whatever renewals, crashes and restarts intervene.
TakeoverAfterExpiry ==
  [][\A i \in Instance :
       /\ lease[i].owner # NoWorker
       /\ lease'[i].owner # lease[i].owner
       => Expired(i) \/ lease'[i].owner = NoWorker]_vars

\* While a process supervises a desired, unblocked row for good, the instance
\* keeps being executed somewhere.
SupervisedInstanceRuns ==
  \A w \in Worker, i \in Instance :
    <>[](Supervising(w) /\ i \in wants[w] \ blocked[w])
      => []<>(\E v \in Worker : i \in live[v])

\* TRADING_INSTANCE_PRODUCTION_AUDIT.md: after a crash the successor waits out
\* the TTL, "Restoration reports blocked with WORKER_LEASE_HELD and the
\* supervisor retries". So a successor that stays up with a desired row runs it
\* sooner or later, or another process does.
SuccessorTakesOver ==
  \A w \in Worker, i \in Instance :
    <>[](Supervising(w) /\ i \in wants[w])
      => []<>(\E v \in Worker : i \in live[v])
=============================================================================
