-------------------------- MODULE WorkerLeaseProofs --------------------------
(***************************************************************************)
(* Proofs about WorkerLease for any number of process runs and instances   *)
(* and any TTL: the variables keep their types, a lease changes hands only *)
(* after it expired; and when every pause is acknowledged and the          *)
(* supervisor's period plus the longest tolerated run of failing renewals  *)
(* fits into the TTL, a live worker holds its lease, and a second owner is *)
(* a thread that was told to stop and outlived its join.                   *)
(***************************************************************************)
EXTENDS WorkerLease, TLAPS

USE ConstantsAssumption

\* The initial states are well typed.
LEMMA InitTypeOK == Init => TypeOK
BY DEF Init, TypeOK, NoLease

\* Each of the three writes leaves a well-typed lease table.
LEMMA ClaimedType ==
  ASSUME TypeOK, NEW w \in Worker, NEW i \in Instance
  PROVE  /\ Claimed(w, i) \in [Instance -> [owner : Worker \cup {NoWorker}, age : Nat]]
         /\ Renewed(w, i) \in [Instance -> [owner : Worker \cup {NoWorker}, age : Nat]]
         /\ \A S : Released(w, S) \in [Instance -> [owner : Worker \cup {NoWorker}, age : Nat]]
BY DEF TypeOK, Claimed, Renewed, Released, NoLease

\* Each step of a process on an instance keeps the types.
LEMMA StepTypeOK ==
  ASSUME TypeOK, NEW w \in Worker, NEW i \in Instance, Step(w, i)
  PROVE  TypeOK'
<1> DEFINE LeaseTable == [Instance -> [owner : Worker \cup {NoWorker}, age : Nat]]
<1>0. /\ Claimed(w, i) \in LeaseTable /\ Renewed(w, i) \in LeaseTable
      /\ \A S : Released(w, S) \in LeaseTable
      /\ [lease EXCEPT ![i] = NoLease] \in LeaseTable
  BY ClaimedType DEF TypeOK, NoLease
<1>1. CASE ThreadExits(w, i)
  BY <1>1 DEF TypeOK, ThreadExits
<1>2. ASSUME Launch(w, i), restored' \in [Worker -> SUBSET Instance]
      PROVE  TypeOK'
  BY <1>0, <1>2 DEF TypeOK, Launch
<1>3. ASSUME LaunchFails(w, i), restored' \in [Worker -> SUBSET Instance]
      PROVE  TypeOK'
  <2>1. lease' \in LeaseTable
    BY <1>0, <1>3 DEF LaunchFails
  <2>2. runtime' \in [Worker -> SUBSET Instance] /\ failures' \in Nat
    BY <1>3 DEF TypeOK, LaunchFails
  <2>3. QED
    BY <1>3, <2>1, <2>2 DEF TypeOK, LaunchFails
<1>4. ASSUME Join(w, i), restored' \in [Worker -> SUBSET Instance]
      PROVE  TypeOK'
  BY <1>0, <1>4 DEF TypeOK, Join
<1>5. CASE Restore(w, i)
  <2>1. restored' \in [Worker -> SUBSET Instance]
    BY <1>5 DEF TypeOK, Restore
  <2>2. CASE Launch(w, i) \/ LaunchFails(w, i) \/ Join(w, i)
    BY <2>1, <2>2, <1>2, <1>3, <1>4
  <2>3. CASE ~(Launch(w, i) \/ LaunchFails(w, i) \/ Join(w, i))
    <3>1. UNCHANGED <<proc, desired, wants, runtime, live, lingering, lease,
                      sinceSweep, failures>>
      BY <1>5, <2>3 DEF Restore
    <3>2. blocked' = blocked \/ blocked' = [blocked EXCEPT ![w] = @ \cup {i}]
      BY <1>5, <2>3 DEF Restore
    <3>3. blocked' \in [Worker -> SUBSET Instance]
      <4>1. blocked \in [Worker -> SUBSET Instance]
        BY DEF TypeOK
      <4>2. [blocked EXCEPT ![w] = @ \cup {i}] \in [Worker -> SUBSET Instance]
        BY <4>1
      <4>3. QED
        BY <3>2, <4>1, <4>2
    <3>4. QED
      BY <2>1, <3>1, <3>3 DEF TypeOK
  <2>4. QED
    BY <2>2, <2>3
<1>6. CASE Repair(w, i)
  BY <1>2, <1>3, <1>6 DEF Repair, TypeOK
<1>7. CASE OperatorStart(w, i)
  BY <1>2, <1>3, <1>4, <1>7 DEF OperatorStart, TypeOK
<1>8. CASE OperatorResume(w, i)
  BY <1>8, <1>0 DEF TypeOK, OperatorResume
<1>9. CASE OperatorStop(w, i)
  BY <1>9, <1>0 DEF TypeOK, OperatorStop, Survivors
<1>10. CASE PauseFails(w, i)
  BY <1>10 DEF TypeOK, PauseFails
<1>11. CASE Renew(w, i)
  BY <1>11, <1>0 DEF TypeOK, Renew
<1>12. CASE RenewRaises(w, i)
  BY <1>12 DEF TypeOK, RenewRaises
<1>13. CASE LeaseLost(w, i)
  BY <1>13 DEF TypeOK, LeaseLost, Survivors
<1>14. CASE EngineDies(w, i)
  BY <1>14 DEF TypeOK, EngineDies
<1>15. QED
  BY <1>1, <1>5, <1>6, <1>7, <1>8, <1>9, <1>10, <1>11, <1>12, <1>13, <1>14 DEF Step

\* And so does every step, the clock's and the process's own included.
LEMMA NextTypeOK == TypeOK /\ [Next]_vars => TypeOK'
<1> SUFFICES ASSUME TypeOK, [Next]_vars PROVE TypeOK'
  OBVIOUS
<1>1. CASE Tick
  <2>1. lease' \in [Instance -> [owner : Worker \cup {NoWorker}, age : Nat]]
    <3>1. ASSUME NEW i \in Instance
          PROVE  [lease[i] EXCEPT !.age = @ + 1] \in [owner : Worker \cup {NoWorker}, age : Nat]
      BY DEF TypeOK
    <3>2. QED
      BY <1>1, <3>1 DEF TypeOK, Tick
  <2>2. sinceSweep' \in [Worker -> [Instance -> Nat]]
    BY <1>1 DEF TypeOK, Tick
  <2>3. QED
    BY <1>1, <2>1, <2>2 DEF TypeOK, Tick
<1>2. ASSUME NEW w \in Worker, Boot(w) PROVE TypeOK'
  BY <1>2 DEF TypeOK, Boot
<1>3. ASSUME NEW w \in Worker, Crash(w) PROVE TypeOK'
  BY <1>3 DEF TypeOK, Crash, Forget
<1>4. ASSUME NEW w \in Worker, Shutdown(w) PROVE TypeOK'
  BY <1>4 DEF TypeOK, Shutdown, Forget, Survivors, Released, NoLease
<1>5. CASE UNCHANGED vars
  BY <1>5 DEF TypeOK, vars
<1>6. QED
  BY <1>1, <1>2, <1>3, <1>4, <1>5, StepTypeOK DEF Next

\* Every variable keeps its type.
THEOREM TypeCorrect == Spec => []TypeOK
<1>1. QED
  BY InitTypeOK, NextTypeOK, PTL DEF Spec

-----------------------------------------------------------------------------

\* No step of a process moves an unexpired row to another owner.
LEMMA StepTakeover ==
  ASSUME TypeOK, [Next]_vars, NEW j \in Instance,
         lease[j].owner # NoWorker, lease'[j].owner # lease[j].owner
  PROVE  Expired(j) \/ lease'[j].owner = NoWorker
<1> USE DEF TypeOK
<1>1. ASSUME NEW w \in Worker, NEW i \in Instance, lease' = Claimed(w, i), Claimable(w, i)
      PROVE  Expired(j) \/ lease'[j].owner = NoWorker
  BY <1>1 DEF Claimed, Claimable
<1>2. ASSUME NEW w \in Worker, NEW i \in Instance, lease' = Renewed(w, i)
      PROVE  Expired(j) \/ lease'[j].owner = NoWorker
  BY <1>2 DEF Claimed, Renewed
<1>3. ASSUME NEW w \in Worker, NEW S, lease' = Released(w, S)
      PROVE  Expired(j) \/ lease'[j].owner = NoWorker
  BY <1>3 DEF Released, NoLease
<1>4. ASSUME NEW i \in Instance, lease' = [lease EXCEPT ![i] = NoLease]
      PROVE  Expired(j) \/ lease'[j].owner = NoWorker
  BY <1>4 DEF NoLease
<1>5. CASE Tick
  BY <1>5 DEF Tick
<1>6. ASSUME NEW w \in Worker, Boot(w) \/ Crash(w) \/ Shutdown(w)
      PROVE  Expired(j) \/ lease'[j].owner = NoWorker
  BY <1>6, <1>3 DEF Boot, Crash, Shutdown
<1>7. ASSUME NEW w \in Worker, NEW i \in Instance, Launch(w, i) \/ LaunchFails(w, i) \/ Join(w, i)
      PROVE  Expired(j) \/ lease'[j].owner = NoWorker
  BY <1>1, <1>2, <1>4, <1>7 DEF Launch, LaunchFails, Join
<1>8. ASSUME NEW w \in Worker, NEW i \in Instance, Step(w, i)
      PROVE  Expired(j) \/ lease'[j].owner = NoWorker
  <2>1. CASE Restore(w, i) \/ Repair(w, i) \/ OperatorStart(w, i)
    BY <2>1, <1>7 DEF Restore, Repair, OperatorStart
  <2>2. CASE OperatorResume(w, i) \/ Renew(w, i)
    BY <2>2, <1>2 DEF OperatorResume, Renew
  <2>3. CASE OperatorStop(w, i)
    BY <2>3, <1>3 DEF OperatorStop
  <2>4. CASE ThreadExits(w, i) \/ PauseFails(w, i) \/ RenewRaises(w, i)
                \/ LeaseLost(w, i) \/ EngineDies(w, i)
    BY <2>4 DEF ThreadExits, PauseFails, RenewRaises, LeaseLost, EngineDies
  <2>5. QED
    BY <1>8, <2>1, <2>2, <2>3, <2>4 DEF Step
<1>9. CASE UNCHANGED vars
  BY <1>9 DEF vars
<1>10. QED
  BY <1>5, <1>6, <1>8, <1>9 DEF Next

\* A lease row passes from one process run to another only after it expired or
\* was deleted, without any assumption on timing or on the threads.
THEOREM Takeover == Spec => TakeoverAfterExpiry
<1>1. TypeOK /\ [Next]_vars =>
        [\A i \in Instance :
           /\ lease[i].owner # NoWorker
           /\ lease'[i].owner # lease[i].owner
           => Expired(i) \/ lease'[i].owner = NoWorker]_vars
  BY StepTakeover
<1>2. QED
  BY <1>1, TypeCorrect, PTL DEF Spec, TakeoverAfterExpiry
-----------------------------------------------------------------------------
(* Ownership, when pauses are acknowledged and a run of failing renewals     *)
(* plus one supervisor period fits into the TTL.                             *)

TimelyRenewal ==
  /\ PauseTimesOut = FALSE
  /\ Outage + SweepPeriod <= TTL

\* A worker w may execute i: its process is up, wants the row, owns a lease
\* row no older than the time since w was last visited allows.
Owns(w, i) ==
  /\ proc[w] = "up" /\ i \in wants[w]
  /\ lease[i].owner = w
  /\ lease[i].age <= Outage + sinceSweep[w][i]
  /\ sinceSweep[w][i] <= SweepPeriod

Ownership == \A v \in Worker : \A j \in live[v] : Owns(v, j)

\* A process that owns a row has not let it expire.
LEMMA OwnershipImplies ==
  ASSUME TimelyRenewal, TypeOK, Ownership
  PROVE  LiveWorkerHoldsLease
BY DEF TimelyRenewal, TypeOK, Ownership, Owns, LiveWorkerHoldsLease, Expired

\* A worker that owns i keeps anyone else from claiming it.
LEMMA NotClaimable ==
  ASSUME TimelyRenewal, TypeOK, NEW v \in Worker, NEW w \in Worker,
         NEW i \in Instance, Owns(v, i), Claimable(w, i)
  PROVE  v = w
BY DEF TimelyRenewal, TypeOK, Owns, Claimable, Expired

\* Each step of a process on an instance keeps the inductive invariant.
LEMMA StepOwnership ==
  ASSUME TimelyRenewal, TypeOK, Ownership,
         NEW w \in Worker, NEW i \in Instance, Step(w, i)
  PROVE  Ownership'
<1> USE DEF TypeOK, Ownership, Owns
<1>1. CASE ThreadExits(w, i)
  BY <1>1 DEF ThreadExits
<1>2. ASSUME Launch(w, i), proc[w] = "up" PROVE Ownership'
  <2>1. \A v \in Worker \ {w} : i \notin live[v]
    BY <1>2, NotClaimable DEF Launch
  <2>3. ASSUME NEW v \in Worker, NEW j \in live'[v], v # w \/ j # i
        PROVE  Owns(v, j)'
    <3>1. j \in live[v] /\ j \in Instance
      BY <1>2, <2>3 DEF Launch
    <3>2. wants'[v] \in SUBSET Instance /\ j \in wants'[v] /\ proc'[v] = "up"
      BY <1>2, <3>1 DEF Launch
    <3>3. lease'[j] = lease[j] /\ sinceSweep'[v][j] = sinceSweep[v][j]
      BY <1>2, <2>1, <2>3, <3>1 DEF Launch, Claimed
    <3>4. QED
      BY <3>1, <3>2, <3>3
  <2>4. Owns(w, i)'
    BY <1>2 DEF Launch, Claimed
  <2> HIDE DEF Owns, TypeOK
  <2>5. ASSUME NEW v \in Worker, NEW j \in live'[v] PROVE Owns(v, j)'
    BY <2>3, <2>4
  <2>6. QED
    BY <2>5
<1>3. ASSUME LaunchFails(w, i) PROVE Ownership'
  <2>1. \A v \in Worker : i \notin live[v]
    BY <1>3, NotClaimable DEF LaunchFails
  <2>2. \A j \in Instance : j # i => lease'[j] = lease[j]
    BY <1>3 DEF LaunchFails, Claimed
  <2>3. UNCHANGED <<proc, wants, live, sinceSweep>>
    BY <1>3 DEF LaunchFails
  <2>4. ASSUME NEW v \in Worker, NEW j \in live'[v] PROVE Owns(v, j)'
    <3>1. j \in live[v] /\ j \in Instance
      BY <2>3, <2>4
    <3>2. lease'[j] = lease[j]
      BY <2>1, <2>2, <3>1
    <3>3. QED
      BY <2>3, <3>1, <3>2
  <2> HIDE DEF Owns, TypeOK
  <2>5. QED
    BY <2>4
<1>4. ASSUME Join(w, i) PROVE Ownership'
  BY <1>4 DEF Join, Renewed, Claimed
<1>5. CASE Restore(w, i)
  BY <1>2, <1>3, <1>4, <1>5 DEF Restore
<1>6. CASE Repair(w, i)
  BY <1>2, <1>3, <1>6 DEF Repair, Supervising
<1>7. CASE OperatorStart(w, i)
  BY <1>2, <1>3, <1>4, <1>7 DEF OperatorStart
<1>8. CASE OperatorResume(w, i)
  BY <1>8 DEF OperatorResume, Renewed, Claimed
<1>9. CASE OperatorStop(w, i)
  BY <1>9 DEF OperatorStop, Released
<1>10. CASE PauseFails(w, i)
  BY <1>10 DEF PauseFails, TimelyRenewal
<1>11. CASE Renew(w, i)
  BY <1>11 DEF Renew, Renewed, Claimed
<1>12. CASE RenewRaises(w, i)
  BY <1>12 DEF RenewRaises
<1>13. CASE LeaseLost(w, i)
  BY <1>13 DEF LeaseLost
<1>14. CASE EngineDies(w, i)
  BY <1>14 DEF EngineDies
<1>15. QED
  BY <1>1, <1>5, <1>6, <1>7, <1>8, <1>9, <1>10, <1>11, <1>12, <1>13, <1>14 DEF Step

\* And so does every step.
LEMMA NextOwnership ==
  ASSUME TimelyRenewal, TypeOK, Ownership, [Next]_vars
  PROVE  Ownership'
<1> USE DEF TypeOK, Ownership, Owns
<1>1. CASE Tick
  BY <1>1 DEF Tick, TimelyRenewal
<1>2. ASSUME NEW w \in Worker, Boot(w) PROVE Ownership'
  BY <1>2 DEF Boot
<1>3. ASSUME NEW w \in Worker, Crash(w) PROVE Ownership'
  BY <1>3 DEF Crash, Forget
<1>4. ASSUME NEW w \in Worker, Shutdown(w) PROVE Ownership'
  <2>1. ASSUME NEW v \in Worker, NEW j \in live'[v] PROVE Owns(v, j)'
    <3>1. v # w /\ j \in live[v] /\ j \in Instance
      BY <1>4, <2>1 DEF Shutdown, Forget
    <3>2. lease'[j] = lease[j]
      BY <1>4, <3>1 DEF Shutdown, Released
    <3>3. QED
      BY <1>4, <3>1, <3>2 DEF Shutdown, Forget
  <2> HIDE DEF Owns, TypeOK
  <2>2. QED
    BY <2>1
<1>5. CASE UNCHANGED vars
  BY <1>5 DEF vars
<1>6. QED
  BY <1>1, <1>2, <1>3, <1>4, <1>5, StepOwnership DEF Next

\* The row of a live worker names its process and has not expired, so a process that
\* lost the lease has halted its worker first. Joins may time out.
THEOREM LiveWorkersHoldTheirLease ==
  ASSUME TimelyRenewal
  PROVE  Spec => []LiveWorkerHoldsLease
<1>1. Init => Ownership
  BY DEF Init, Ownership
<1>2. TypeOK /\ Ownership /\ [Next]_vars => Ownership'
  BY NextOwnership
<1>3. TypeOK /\ Ownership => LiveWorkerHoldsLease
  BY OwnershipImplies
<1>4. QED
  BY <1>1, <1>2, <1>3, TypeCorrect, PTL DEF Spec

\* What is left of one owner when joins time out: no two processes have a worker of
\* one instance registered and running, though a thread that outlived its join may
\* still be about.
OneRegisteredOwner ==
  \A i \in Instance, w1, w2 \in Worker : i \in live[w1] /\ i \in live[w2] => w1 = w2

\* Registered workers are exclusive even when threads outlive their joins.
THEOREM RegisteredOwnership ==
  ASSUME TimelyRenewal
  PROVE  Spec => []OneRegisteredOwner
<1>1. LiveWorkerHoldsLease => OneRegisteredOwner
  BY DEF LiveWorkerHoldsLease, OneRegisteredOwner
<1>2. QED
  BY <1>1, LiveWorkersHoldTheirLease, PTL
-----------------------------------------------------------------------------
(* What is left of one execution owner when joins time out.                  *)

\* A thread outlives its worker only where an operator's Stop or a shutdown gave the
\* worker up. The third way to leave one behind, giving up a worker whose lease was
\* lost, is never taken.
StraysFollowStops ==
  [][\A w \in Worker : \A i \in lingering'[w] \ lingering[w] :
       OperatorStop(w, i) \/ Shutdown(w)]_vars

\* No step but those two adds a thread that lingers.
LEMMA StepStrays ==
  ASSUME TypeOK, LiveWorkerHoldsLease, [Next]_vars,
         NEW v \in Worker, NEW j \in lingering'[v], j \notin lingering[v]
  PROVE  OperatorStop(v, j) \/ Shutdown(v)
<1> USE DEF TypeOK
<1>1. CASE Tick \/ UNCHANGED vars
  BY <1>1 DEF Tick, vars
<1>2. ASSUME NEW w \in Worker, Boot(w) \/ Crash(w) PROVE FALSE
  BY <1>2 DEF Boot, Crash
<1>3. ASSUME NEW w \in Worker, Shutdown(w) PROVE w = v
  BY <1>3 DEF Shutdown
<1>4. ASSUME NEW w \in Worker, NEW i \in Instance, Step(w, i) PROVE OperatorStop(v, j)
  <2>1. CASE ThreadExits(w, i)
    BY <2>1 DEF ThreadExits
  <2>2. CASE OperatorStop(w, i)
    <3>1. PICK left \in Survivors(w, {i}) : lingering' = [lingering EXCEPT ![w] = @ \cup left]
      BY <2>2 DEF OperatorStop
    <3>2. left \subseteq {i}
      BY DEF Survivors
    <3>3. v = w /\ j = i
      BY <3>1, <3>2
    <3>4. QED
      BY <2>2, <3>3
  <2>3. ~LeaseLost(w, i)
    BY DEF LeaseLost, LiveWorkerHoldsLease
  <2>4. CASE UNCHANGED lingering
    BY <2>4
  <2>5. QED
    BY <1>4, <2>1, <2>2, <2>3, <2>4 DEF Step, Restore, Repair, OperatorStart, OperatorResume,
       PauseFails, Renew, RenewRaises, EngineDies, Launch, LaunchFails, Join
<1>5. QED
  BY <1>1, <1>2, <1>3, <1>4 DEF Next

\* With timely renewal, and although joins may time out, a second execution owner
\* is a thread that an operator or a shutdown has told to stop: no expiry, failing
\* renewal, crash or takeover leaves one behind.
THEOREM Strays ==
  ASSUME TimelyRenewal
  PROVE  Spec => StraysFollowStops
<1>1. TypeOK /\ LiveWorkerHoldsLease /\ [Next]_vars =>
        [\A w \in Worker : \A i \in lingering'[w] \ lingering[w] :
           OperatorStop(w, i) \/ Shutdown(w)]_vars
  BY StepStrays
<1>2. QED
  BY <1>1, TypeCorrect, LiveWorkersHoldTheirLease, PTL DEF Spec, StraysFollowStops
=============================================================================
