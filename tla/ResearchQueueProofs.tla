------------------------ MODULE ResearchQueueProofs ------------------------
(***************************************************************************)
(* Proofs about ResearchQueue for any finite number of jobs, any number of *)
(* workers, attempts and active leases: types, the quota, the fencing of   *)
(* superseded workers, that the queue implements JobLifecycle, and what    *)
(* that says of waiting jobs and of results.                               *)
(***************************************************************************)
EXTENDS ResearchQueue, FiniteSetTheorems, TLAPS

USE ConstantsAssumption

Statuses == {"NONE", "QUEUED", "CLAIMED", "RUNNING", "CANCEL_REQUESTED", "INTERRUPTED",
             "RETRY_PENDING", "FAILED", "COMPLETED", "CANCELLED"}

\* What a heartbeat that has found its lease in order may rely on.
Checked(j, t) ==
  /\ job[j].attempt = t /\ job[j].status \in {"CLAIMED", "RUNNING"}
  /\ job[j].leased \/ job[j].overrun

\* The jobs of ActiveLimit, one by one.
Counted(j) == job[j].status \in ACTIVE /\ job[j].leased /\ ~job[j].overrun

\* What a worker is about to do is done for a claim of its own: no two workers
\* hold the same attempt, none holds one that was not begun, and a worker about
\* to requeue an attempt it gave up is the only one who can move its job: this
\* stands in for the token requeueing does not pass. What a heartbeat has checked
\* its lock keeps true until it renews, except that the lease may run out.
Claims ==
  /\ \A w \in Worker : at[w].pc # "idle" =>
       at[w].job \in Job /\ at[w].token <= job[at[w].job].attempt
  /\ \A v, w \in Worker :
       v # w /\ at[v].pc # "idle" /\ at[w].pc # "idle" /\ at[v].job = at[w].job
       => at[v].token # at[w].token
  /\ \A w \in Worker : at[w].pc = "requeue" =>
       /\ job[at[w].job].status = "INTERRUPTED"
       /\ job[at[w].job].attempt = at[w].token
  /\ \A w \in Worker : at[w].pc = "renewing" => Checked(at[w].job, at[w].token)

IInv == TypeOK /\ Claims

-----------------------------------------------------------------------------
(* The table of transitions. *)

\* The statuses the table of transitions has.
LEMMA StatusSet == Status = Statuses
BY DEF Status, Statuses, JOB_TRANSITIONS

\* The table read as a relation between two statuses.
LEMMA Transitions ==
  ASSUME NEW s \in Status, NEW to, to \in JOB_TRANSITIONS[s]
  PROVE  /\ to \in Status
         /\ \/ s = "NONE" /\ to = "QUEUED"
            \/ s \in {"QUEUED", "RETRY_PENDING"} /\ to \in {"CLAIMED", "CANCELLED"}
            \/ s = "CLAIMED" /\ to = "RUNNING"
            \/ s = "RUNNING" /\ to = "COMPLETED"
            \/ s \in {"CLAIMED", "RUNNING"} /\ to \in {"FAILED", "CANCEL_REQUESTED", "INTERRUPTED"}
            \/ s = "CANCEL_REQUESTED" /\ to = "CANCELLED"
            \/ s = "INTERRUPTED" /\ to \in {"RETRY_PENDING", "FAILED"}
<1>1. s \in Statuses
  BY StatusSet
<1>2. QED
  BY <1>1, StatusSet DEF JOB_TRANSITIONS, Statuses

-----------------------------------------------------------------------------
(* Types. *)

Rows == [status : Status, attempt : 0..MaxAttempts, leased : BOOLEAN, overrun : BOOLEAN]

Points == [pc : {"idle", "claimed", "working", "renewing", "commit", "interrupted", "cancelled",
                 "transient", "error", "confirm", "release", "requeue", "fail"},
           job : Job \cup {NoJob}, token : 0..MaxAttempts]

\* The types, with the two record sets named.
LEMMA TypeFacts ==
  TypeOK <=> /\ job \in [Job -> Rows]
             /\ result \in [Job -> 0..MaxAttempts]
             /\ at \in [Worker -> Points]
BY DEF TypeOK, Rows, Points

\* A row moved to a status is a row of that status and the same attempt, which
\* has a lease, and one that was overrun, only if it had.
LEMMA MovedRow ==
  ASSUME job \in [Job -> Rows], NEW j \in Job, NEW to \in Status
  PROVE  /\ Moved(j, to) \in Rows
         /\ Moved(j, to).status = to
         /\ Moved(j, to).attempt = job[j].attempt
         /\ Moved(j, to).leased = (job[j].leased /\ to \in ACTIVE)
         /\ Moved(j, to).overrun = (job[j].overrun /\ to \in ACTIVE)
<1>1. job[j] \in Rows
  OBVIOUS
<1>2. QED
  BY <1>1 DEF Moved, Rows, ACTIVE

\* A worker that goes elsewhere keeps its job and its token.
LEMMA GotoPoint ==
  ASSUME at \in [Worker -> Points], NEW w \in Worker,
         NEW pc \in {"claimed", "working", "renewing", "commit", "interrupted", "cancelled",
                     "transient", "error", "confirm", "release", "requeue", "fail"},
         Goto(w, pc)
  PROVE  /\ at' \in [Worker -> Points]
         /\ at'[w].pc = pc /\ at'[w].job = at[w].job /\ at'[w].token = at[w].token
         /\ \A v \in Worker \ {w} : at'[v] = at[v]
<1>1. at[w] \in Points
  OBVIOUS
<1>2. [at[w] EXCEPT !.pc = pc] \in Points
  BY <1>1 DEF Points
<1>3. at' = [at EXCEPT ![w] = [at[w] EXCEPT !.pc = pc]]
  BY DEF Goto
<1>4. at'[w] = [at[w] EXCEPT !.pc = pc]
  BY <1>3
<1>5. QED
  BY <1>1, <1>2, <1>3, <1>4 DEF Points

\* A worker that is done with its claim is idle.
LEMMA DonePoint ==
  ASSUME at \in [Worker -> Points], NEW w \in Worker, Done(w)
  PROVE  /\ at' \in [Worker -> Points]
         /\ at'[w].pc = "idle"
         /\ \A v \in Worker \ {w} : at'[v] = at[v]
<1>1. Idle \in Points /\ Idle.pc = "idle"
  BY DEF Idle, Points
<1>2. QED
  BY <1>1 DEF Done

-----------------------------------------------------------------------------
(* What the steps have in common. *)

\* The job j goes to a status the table allows it; the statuses of a claim and of
\* a commit are the claim's and the commit's.
JobMoves(j, to) ==
  /\ to \in JOB_TRANSITIONS[job[j].status] \ {"CLAIMED", "COMPLETED"}
  /\ to = "RETRY_PENDING" => job[j].attempt < MaxAttempts
  /\ job' = [job EXCEPT ![j] = Moved(j, to)]
  /\ result' = result

\* Worker w goes on with the claim it has, or is done with it.
GoesOn(w) ==
  /\ at[w].pc # "idle"
  /\ at' \in [Worker -> Points]
  /\ \A v \in Worker \ {w} : at'[v] = at[v]
  /\ \/ at'[w].pc = "idle"
     \/ at'[w].job = at[w].job /\ at'[w].token = at[w].token

\* Worker w, in the middle of a claim, moves its job or leaves all jobs alone; if
\* it moves a job, its claim is the latest. A heartbeat begins with its check.
WorkerMoves(w) ==
  /\ GoesOn(w)
  /\ \/ UNCHANGED <<job, result>>
     \/ /\ job[at[w].job].attempt = at[w].token
        /\ \E to : JobMoves(at[w].job, to)
  /\ at'[w].pc = "requeue" =>
       /\ job'[at[w].job].status = "INTERRUPTED"
       /\ job[at[w].job].attempt = at[w].token
  /\ at'[w].pc = "renewing" => UNCHANGED job /\ Checked(at[w].job, at[w].token)

\* Worker w renews the lease its heartbeat has checked.
Renewal(w) ==
  /\ GoesOn(w) /\ at'[w].pc \notin {"requeue", "renewing"}
  /\ at[w].pc = "renewing"
  /\ job' = [job EXCEPT ![at[w].job].leased = TRUE]
  /\ result' = result

\* What a busy worker's job and token are.
LEMMA Busy ==
  ASSUME IInv, NEW w \in Worker, at[w].pc # "idle"
  PROVE  /\ at[w].job \in Job /\ at[w].token \in 0..MaxAttempts
         /\ job[at[w].job] \in Rows
         /\ job[at[w].job].status \in Status
         /\ job[at[w].job].attempt \in 0..MaxAttempts
<1>1. at[w] \in Points /\ at[w].job \in Job
  BY TypeFacts DEF IInv, Claims
<1>2. job[at[w].job] \in Rows
  BY <1>1, TypeFacts DEF IInv
<1>3. QED
  BY <1>1, <1>2 DEF Points, Rows

\* A moved job changes its status and no other job changes.
LEMMA JobMovesRows ==
  ASSUME TypeOK, NEW j \in Job, NEW to, JobMoves(j, to)
  PROVE  /\ job' \in [Job -> Rows] /\ result' \in [Job -> 0..MaxAttempts]
         /\ to \in Status
         /\ job'[j] = Moved(j, to)
         /\ job'[j].status = to /\ job'[j].attempt = job[j].attempt
         /\ job'[j].leased = (job[j].leased /\ to \in ACTIVE)
         /\ job'[j].overrun = (job[j].overrun /\ to \in ACTIVE)
         /\ \A k \in Job \ {j} : job'[k] = job[k]
<1>1. job \in [Job -> Rows] /\ job[j].status \in Status /\ result \in [Job -> 0..MaxAttempts]
  BY TypeFacts DEF Rows
<1>2. to \in Status
  BY <1>1, Transitions DEF JobMoves
<1>3. job' = [job EXCEPT ![j] = Moved(j, to)] /\ result' = result
  BY DEF JobMoves
<1>4. Moved(j, to) \in Rows
  BY <1>1, <1>2, MovedRow
<1>5. job' \in [Job -> Rows] /\ job'[j] = Moved(j, to) /\ \A k \in Job \ {j} : job'[k] = job[k]
  BY <1>1, <1>3, <1>4
<1>6. QED
  BY <1>1, <1>2, <1>3, <1>5, MovedRow

\* A transition under a token moves the job of that attempt, or nothing.
LEMMA MovesJob ==
  ASSUME IInv, NEW w \in Worker, at[w].pc # "idle",
         NEW to \in {"RUNNING", "CANCELLED", "FAILED", "INTERRUPTED"},
         May(at[w].job, at[w].token, to),
         job' = [job EXCEPT ![at[w].job] = Moved(at[w].job, to)],
         result' = result
  PROVE  /\ job[at[w].job].attempt = at[w].token
         /\ JobMoves(at[w].job, to)
         /\ job'[at[w].job].status = to
<1>1. at[w].job \in Job
  BY Busy
<1>2. JobMoves(at[w].job, to)
  BY DEF May, JobMoves
<1>3. QED
  BY <1>1, <1>2, JobMovesRows DEF May, IInv

\* Worker w commits the result of its attempt, the latest, of a running job.
Commits(w) ==
  LET j == at[w].job IN
  /\ GoesOn(w) /\ at'[w].pc \notin {"requeue", "renewing"}
  /\ job[j].attempt = at[w].token /\ job[j].status = "RUNNING"
  /\ job' = [job EXCEPT ![j] = Moved(j, "COMPLETED")]
  /\ result' = [result EXCEPT ![j] = at[w].token]

\* A worker that changes its point and no job.
LEMMA PointStep ==
  ASSUME IInv, NEW w \in Worker, at[w].pc # "idle", UNCHANGED <<job, result>>,
         \/ Done(w)
         \/ \E pc \in {"claimed", "working", "commit", "interrupted", "cancelled", "transient",
                       "error", "confirm", "release", "fail"} : Goto(w, pc)
  PROVE  WorkerMoves(w)
<1>1. at \in [Worker -> Points]
  BY TypeFacts DEF IInv
<1>2. CASE Done(w)
  BY <1>1, <1>2, DonePoint DEF WorkerMoves, GoesOn
<1>3. CASE ~Done(w)
  <2>1. PICK pc \in {"claimed", "working", "commit", "interrupted", "cancelled", "transient",
                     "error", "confirm", "release", "fail"} : Goto(w, pc)
    BY <1>3
  <2>2. QED
    BY <1>1, <2>1, GotoPoint DEF WorkerMoves, GoesOn
<1>4. QED
  BY <1>2, <1>3

\* A worker that moves its job under its token and goes on, or is refused.
LEMMA TransitionStep ==
  ASSUME IInv, NEW w \in Worker, at[w].pc # "idle",
         NEW to \in {"RUNNING", "CANCELLED", "FAILED"},
         May(at[w].job, at[w].token, to),
         job' = [job EXCEPT ![at[w].job] = Moved(at[w].job, to)], result' = result,
         Done(w) \/ Goto(w, "working")
  PROVE  WorkerMoves(w)
<1>1. at \in [Worker -> Points]
  BY TypeFacts DEF IInv
<1>2. job[at[w].job].attempt = at[w].token /\ JobMoves(at[w].job, to)
  BY MovesJob
<1>3. GoesOn(w) /\ at'[w].pc \notin {"requeue", "renewing"}
  <2>1. CASE Done(w)
    BY <1>1, <2>1, DonePoint DEF GoesOn
  <2>2. CASE Goto(w, "working")
    BY <1>1, <2>2, GotoPoint DEF GoesOn
  <2>3. QED
    BY <2>1, <2>2
<1>4. QED
  BY <1>2, <1>3 DEF WorkerMoves

\* Every step of a worker in the middle of a claim moves its own job, under the
\* latest claim of it, or no job.
LEMMA BusyStep ==
  ASSUME IInv, NEW w \in Worker,
         Progress(w) \/ Interrupted(w) \/ Raises(w) \/ Lost(w)
  PROVE  WorkerMoves(w) \/ Renewal(w) \/ Commits(w)
<1>1. CASE Start(w)
  <2>1. at[w].pc # "idle" /\ result' = result
    BY <1>1 DEF Start
  <2>2. CASE May(at[w].job, at[w].token, "RUNNING")
    BY <1>1, <2>1, <2>2, TransitionStep DEF Start
  <2>3. CASE ~May(at[w].job, at[w].token, "RUNNING")
    BY <1>1, <2>1, <2>3, PointStep DEF Start
  <2>4. QED
    BY <2>2, <2>3
<1>2. CASE Checkpoint(w)
  <2>1. at[w].pc # "idle" /\ UNCHANGED <<job, result>> /\ at \in [Worker -> Points]
    BY <1>2, TypeFacts DEF Checkpoint, IInv
  <2>2. CASE Renewable(at[w].job, at[w].token)
    <3>1. Goto(w, "renewing")
      BY <1>2, <2>2 DEF Checkpoint
    <3>2. GoesOn(w) /\ at'[w].pc = "renewing"
      BY <2>1, <3>1, GotoPoint DEF GoesOn
    <3>3. Checked(at[w].job, at[w].token)
      BY <2>2 DEF Renewable, Owned, Checked
    <3>4. QED
      BY <2>1, <3>2, <3>3 DEF WorkerMoves
  <2>3. CASE ~Renewable(at[w].job, at[w].token)
    BY <1>2, <2>1, <2>3, PointStep DEF Checkpoint
  <2>4. QED
    BY <2>2, <2>3
<1>2a. CASE Renews(w)
  <2>1. at[w].pc = "renewing" /\ result' = result /\ at \in [Worker -> Points]
    BY <1>2a, TypeFacts DEF Renews, IInv
  <2>2. PICK pc \in {"working", "commit", "transient"} : Goto(w, pc)
    BY <1>2a DEF Renews
  <2>3. GoesOn(w) /\ at'[w].pc = pc
    BY <2>1, <2>2, GotoPoint DEF GoesOn
  <2>4. QED
    BY <1>2a, <2>1, <2>3 DEF Renewal, Renews
<1>2b. CASE ReadsCancellation(w)
  BY <1>2b, PointStep DEF ReadsCancellation
<1>3. CASE Commit(w)
  <2>1. at[w].pc # "idle" /\ at \in [Worker -> Points]
    BY <1>3, TypeFacts DEF Commit, IInv
  <2>2. CASE Owned(at[w].job, at[w].token) /\ job[at[w].job].status = "RUNNING"
    <3>1. Done(w) \/ Goto(w, "transient") \/ Goto(w, "error")
      BY <1>3, <2>2 DEF Commit
    <3>2. CASE Done(w)
      <4>1. GoesOn(w) /\ at'[w].pc \notin {"requeue", "renewing"}
        BY <2>1, <3>2, DonePoint DEF GoesOn
      <4>2. QED
        BY <1>3, <2>2, <4>1 DEF Commit, Commits, Owned
    <3>3. CASE Goto(w, "transient") \/ Goto(w, "error")
      <4>1. GoesOn(w) /\ at'[w].pc \notin {"requeue", "renewing"}
        BY <2>1, <3>3, GotoPoint DEF GoesOn
      <4>2. QED
        BY <1>3, <2>2, <4>1 DEF Commit, Commits, Owned
    <3>4. QED
      BY <3>1, <3>2, <3>3
  <2>3. CASE ~(Owned(at[w].job, at[w].token) /\ job[at[w].job].status = "RUNNING")
    BY <1>3, <2>1, <2>3, PointStep DEF Commit
  <2>4. QED
    BY <2>2, <2>3
<1>4. CASE HandlesInterruption(w)
  BY <1>4, PointStep DEF HandlesInterruption
<1>5. CASE HandlesCancellation(w)
  BY <1>5, PointStep DEF HandlesCancellation
<1>6. CASE HandlesError(w)
  BY <1>6, PointStep DEF HandlesError
<1>7. ASSUME NEW to \in {"CANCELLED", "FAILED"}, at[w].pc # "idle",
             Moves(w, to, Done(w)), result' = result
      PROVE  WorkerMoves(w)
  <2>1. CASE May(at[w].job, at[w].token, to)
    BY <1>7, <2>1, TransitionStep DEF Moves
  <2>2. CASE ~May(at[w].job, at[w].token, to)
    BY <1>7, <2>2, PointStep DEF Moves
  <2>3. QED
    BY <2>1, <2>2
<1>8. CASE Confirms(w)
  BY <1>7, <1>8 DEF Confirms
<1>9. CASE Fails(w)
  BY <1>7, <1>9 DEF Fails
<1>10. CASE Releases(w)
  <2>1. at[w].pc # "idle" /\ result' = result /\ at \in [Worker -> Points]
    BY <1>10, TypeFacts DEF Releases, IInv
  <2>2. CASE May(at[w].job, at[w].token, "INTERRUPTED")
    <3>1. /\ job' = [job EXCEPT ![at[w].job] = Moved(at[w].job, "INTERRUPTED")]
          /\ Goto(w, "requeue")
      BY <1>10, <2>2 DEF Releases, Moves
    <3>2. /\ job[at[w].job].attempt = at[w].token
          /\ JobMoves(at[w].job, "INTERRUPTED")
          /\ job'[at[w].job].status = "INTERRUPTED"
      BY <2>1, <2>2, <3>1, MovesJob
    <3>3. GoesOn(w) /\ at'[w].pc = "requeue"
      BY <2>1, <3>1, GotoPoint DEF GoesOn
    <3>4. QED
      BY <3>2, <3>3 DEF WorkerMoves
  <2>3. CASE ~May(at[w].job, at[w].token, "INTERRUPTED")
    BY <1>10, <2>1, <2>3, PointStep DEF Releases, Moves
  <2>4. QED
    BY <2>2, <2>3
<1>11. CASE Requeues(w)
  <2>1. at[w].pc = "requeue" /\ result' = result /\ Done(w)
    BY <1>11 DEF Requeues
  <2>2. /\ job[at[w].job].status = "INTERRUPTED" /\ job[at[w].job].attempt = at[w].token
        /\ job[at[w].job].attempt \in Nat
    BY <2>1, Busy DEF IInv, Claims
  <2>3. CASE Requeued(at[w].job) \in JOB_TRANSITIONS[job[at[w].job].status]
    <3>1. job' = [job EXCEPT ![at[w].job] = Moved(at[w].job, Requeued(at[w].job))]
      BY <1>11, <2>3 DEF Requeues
    <3>2. /\ Requeued(at[w].job) \notin {"CLAIMED", "COMPLETED"}
          /\ Requeued(at[w].job) = "RETRY_PENDING" => job[at[w].job].attempt < MaxAttempts
      BY <2>2 DEF Requeued
    <3>3. JobMoves(at[w].job, Requeued(at[w].job))
      BY <2>1, <2>3, <3>1, <3>2 DEF JobMoves
    <3>4. GoesOn(w) /\ at'[w].pc \notin {"requeue", "renewing"}
      BY <2>1, TypeFacts, DonePoint DEF IInv, GoesOn
    <3>5. QED
      BY <2>2, <3>3, <3>4 DEF WorkerMoves
  <2>4. CASE Requeued(at[w].job) \notin JOB_TRANSITIONS[job[at[w].job].status]
    BY <1>11, <2>1, <2>4, PointStep DEF Requeues
  <2>5. QED
    BY <2>3, <2>4
<1>12. CASE Interrupted(w)
  BY <1>12, PointStep DEF Interrupted
<1>13. CASE Raises(w)
  BY <1>13, PointStep DEF Raises
<1>14. CASE Lost(w)
  BY <1>14, PointStep DEF Lost
<1>15. QED
  BY <1>1, <1>2, <1>2a, <1>2b, <1>3, <1>4, <1>5, <1>6, <1>8, <1>9, <1>10, <1>11, <1>12, <1>13,
     <1>14
     DEF Progress

-----------------------------------------------------------------------------
(* The life of one job. *)

\* What JobLifecycle lets happen to a job.
LifeStep(j) ==
  \/ Lifecycle!Create(j) \/ Lifecycle!Begin(j) \/ Lifecycle!Complete(j) \/ Lifecycle!Retry(j)
  \/ Lifecycle!Fail(j) \/ Lifecycle!Cancel(j) \/ Lifecycle!Confirm(j) \/ Lifecycle!Same(j)

\* Where the refinement mapping puts each status.
LEMMA Phases ==
  /\ PhaseOf("NONE") = "absent"
  /\ PhaseOf("QUEUED") = "waiting" /\ PhaseOf("RETRY_PENDING") = "waiting"
  /\ PhaseOf("CLAIMED") = "working" /\ PhaseOf("RUNNING") = "working"
  /\ PhaseOf("INTERRUPTED") = "working"
  /\ PhaseOf("CANCEL_REQUESTED") = "cancelling"
  /\ PhaseOf("COMPLETED") = "completed"
  /\ PhaseOf("FAILED") = "failed"
  /\ PhaseOf("CANCELLED") = "cancelled"
BY DEF PhaseOf

\* A job that goes from phase to phase without beginning or completing an attempt.
LEMMA LifeStepOfPhases ==
  ASSUME NEW j \in Job,
         job'[j].attempt = job[j].attempt, result'[j] = result[j],
         \/ PhaseOf(job'[j].status) = PhaseOf(job[j].status)
         \/ PhaseOf(job[j].status) = "absent" /\ PhaseOf(job'[j].status) = "waiting"
         \/ PhaseOf(job[j].status) = "waiting" /\ PhaseOf(job'[j].status) = "cancelled"
         \/ /\ PhaseOf(job[j].status) = "working" /\ job[j].attempt < MaxAttempts
            /\ PhaseOf(job'[j].status) = "waiting"
         \/ PhaseOf(job[j].status) = "working" /\ PhaseOf(job'[j].status) \in {"failed", "cancelling"}
         \/ PhaseOf(job[j].status) = "cancelling" /\ PhaseOf(job'[j].status) = "cancelled"
  PROVE  LifeStep(j)
BY DEF LifeStep, Lifecycle!Create, Lifecycle!Begin, Lifecycle!Complete, Lifecycle!Retry,
       Lifecycle!Fail, Lifecycle!Cancel, Lifecycle!Confirm, Lifecycle!Same, Lifecycle!To

\* A job the table of transitions moves goes on with its life.
LEMMA JobMovesLife ==
  ASSUME TypeOK, NEW j \in Job, NEW to, JobMoves(j, to)
  PROVE  \A k \in Job : LifeStep(k)
<1>1. /\ job'[j].status = to /\ job'[j].attempt = job[j].attempt
      /\ \A k \in Job \ {j} : job'[k] = job[k]
  BY JobMovesRows
<1>2. result' = result
  BY DEF JobMoves
<1>3. job[j].status \in Status
  BY TypeFacts DEF Rows
<1>4. LifeStep(j)
  BY <1>1, <1>2, <1>3, Transitions, Phases, LifeStepOfPhases DEF JobMoves
<1>5. ASSUME NEW k \in Job \ {j} PROVE LifeStep(k)
  BY <1>1, <1>2, <1>5, LifeStepOfPhases
<1>6. QED
  BY <1>4, <1>5

-----------------------------------------------------------------------------
(* The steps of the store and of the users. *)

\* No worker moves; no attempt begins, no lease is granted, an interrupted job
\* stays so, a locked row keeps what its heartbeat checked, and each job goes on
\* with its life.
StoreMoves ==
  /\ UNCHANGED <<at, result>>
  /\ job' \in [Job -> Rows]
  /\ \A j \in Job :
       /\ job'[j].attempt = job[j].attempt
       /\ Counted(j)' => Counted(j)
       /\ job[j].status = "INTERRUPTED" => job'[j].status = "INTERRUPTED"
       /\ RowLocked(j) => \A t : Checked(j, t) => Checked(j, t)'
       /\ LifeStep(j)

\* A moved job that counts has counted.
LEMMA JobMovesActive ==
  ASSUME TypeOK, NEW j \in Job, NEW to, JobMoves(j, to)
  PROVE  \A k \in Job : Counted(k)' => Counted(k)
<1>1. /\ job'[j].status = to /\ job'[j].leased = (job[j].leased /\ to \in ACTIVE)
      /\ job'[j].overrun = (job[j].overrun /\ to \in ACTIVE)
      /\ \A k \in Job \ {j} : job'[k] = job[k]
  BY JobMovesRows
<1>2. job[j].status \in Status
  BY TypeFacts DEF Rows
<1>3. to \in ACTIVE => job[j].status \in ACTIVE
  BY <1>2, Transitions DEF JobMoves, ACTIVE
<1>4. job[j].overrun \in BOOLEAN /\ job[j].leased \in BOOLEAN
  BY TypeFacts DEF Rows
<1>5. QED
  BY <1>1, <1>3, <1>4 DEF Counted

\* Users and the clock only move jobs, users and recovery none whose row is locked,
\* and recovery moves only expired ones.
LEMMA StoreStep ==
  ASSUME IInv,
         \/ \E j \in Job : Create(j) \/ RequestCancellation(j) \/ LeaseExpires(j)
         \/ \E w \in Worker : Recover(w)
  PROVE  StoreMoves
<1>0. TypeOK /\ job \in [Job -> Rows] /\ result \in [Job -> 0..MaxAttempts]
  BY TypeFacts DEF IInv
<1>1. ASSUME NEW j \in Job, NEW to, JobMoves(j, to), job[j].status # "INTERRUPTED", at' = at,
             ~RowLocked(j)
      PROVE  StoreMoves
  <2>1. /\ job' \in [Job -> Rows] /\ result' = result
        /\ job'[j].attempt = job[j].attempt
        /\ \A k \in Job \ {j} : job'[k] = job[k]
    BY <1>0, <1>1, JobMovesRows DEF JobMoves
  <2>2. \A k \in Job : LifeStep(k)
    BY <1>0, <1>1, JobMovesLife
  <2>3. \A k \in Job : Counted(k)' => Counted(k)
    BY <1>0, <1>1, JobMovesActive
  <2>4. ASSUME NEW k \in Job, RowLocked(k), NEW t, Checked(k, t) PROVE Checked(k, t)'
    BY <1>1, <2>1, <2>4 DEF Checked
  <2>5. QED
    BY <1>1, <2>1, <2>2, <2>3, <2>4 DEF StoreMoves
<1>2. ASSUME NEW j \in Job, Create(j)
      PROVE  StoreMoves
  <2>1. JobMoves(j, "QUEUED")
    BY <1>2 DEF Create, JobMoves, JOB_TRANSITIONS
  <2>2. ~RowLocked(j)
    BY <1>2 DEF Create, RowLocked, IInv, Claims, Checked
  <2>3. QED
    BY <1>1, <1>2, <2>1, <2>2 DEF Create
<1>3. ASSUME NEW j \in Job, RequestCancellation(j)
      PROVE  StoreMoves
  <2>1. JobMoves(j, "CANCELLED") \/ JobMoves(j, "CANCEL_REQUESTED")
    BY <1>3 DEF RequestCancellation, JobMoves, JOB_TRANSITIONS
  <2>2. job[j].status # "INTERRUPTED" /\ at' = at /\ ~RowLocked(j)
    BY <1>3 DEF RequestCancellation
  <2>3. QED
    BY <1>1, <2>1, <2>2
<1>4. ASSUME NEW j \in Job, LeaseExpires(j)
      PROVE  StoreMoves
  <2> DEFINE row == [job[j] EXCEPT !.leased = FALSE, !.overrun = RowLocked(j)]
  <2>1. job[j] \in Rows /\ job' = [job EXCEPT ![j] = row]
    BY <1>0, <1>4 DEF LeaseExpires
  <2>2. /\ row \in Rows
        /\ row.status = job[j].status /\ row.attempt = job[j].attempt
        /\ ~row.leased /\ row.overrun = RowLocked(j)
    BY <2>1 DEF Rows, RowLocked
  <2>3. /\ job' \in [Job -> Rows]
        /\ job'[j].status = job[j].status /\ job'[j].attempt = job[j].attempt
        /\ ~job'[j].leased /\ job'[j].overrun = RowLocked(j)
        /\ \A k \in Job \ {j} : job'[k] = job[k]
    <3> HIDE DEF row
    <3> QED
      BY <1>0, <2>1, <2>2
  <2>4. UNCHANGED <<at, result>>
    BY <1>4 DEF LeaseExpires
  <2>5. \A k \in Job : LifeStep(k)
    BY <2>3, <2>4, LifeStepOfPhases
  <2>6. \A k \in Job : Counted(k)' => Counted(k)
    BY <2>3 DEF Counted
  <2>7. \A k \in Job : RowLocked(k) => \A t : Checked(k, t) => Checked(k, t)'
    BY <2>3 DEF Checked
  <2>8. QED
    BY <2>3, <2>4, <2>5, <2>6, <2>7 DEF StoreMoves
<1>5. ASSUME NEW w \in Worker, Recover(w)
      PROVE  StoreMoves
  <2>1. PICK S \in (SUBSET {j \in Expired : ~RowLocked(j)}) \ {{}} :
          job' = [j \in Job |-> IF j \in S THEN Recovered(j) ELSE job[j]]
    BY <1>5 DEF Recover
  <2>2. UNCHANGED <<at, result>>
    BY <1>5 DEF Recover
  <2>3. ASSUME NEW j \in Expired
        PROVE  /\ j \in Job /\ job[j].status \in ACTIVE
               /\ Recovered(j) \in Rows
               /\ Recovered(j).attempt = job[j].attempt
               /\ ~Recovered(j).leased
               /\ job[j].status = "CANCEL_REQUESTED" => Recovered(j).status = "CANCELLED"
               /\ job[j].status # "CANCEL_REQUESTED" => Recovered(j).status = Requeued(j)
    <3>1. j \in Job /\ job[j].status \in ACTIVE /\ ~job[j].leased
      BY DEF Expired
    <3>2. "CANCELLED" \in Status /\ Requeued(j) \in Status
      BY StatusSet DEF Statuses, Requeued
    <3>3. CASE job[j].status = "CANCEL_REQUESTED"
      BY <1>0, <3>1, <3>2, <3>3, MovedRow DEF Recovered
    <3>4. CASE job[j].status # "CANCEL_REQUESTED"
      BY <1>0, <3>1, <3>2, <3>4, MovedRow DEF Recovered
    <3>5. QED
      BY <3>1, <3>3, <3>4
  <2>4. job' \in [Job -> Rows]
    BY <1>0, <2>1, <2>3
  <2>5. ASSUME NEW j \in Job
        PROVE  /\ job'[j].attempt = job[j].attempt
               /\ Counted(j)' => Counted(j)
               /\ job[j].status = "INTERRUPTED" => job'[j].status = "INTERRUPTED"
               /\ RowLocked(j) => \A t : Checked(j, t) => Checked(j, t)'
               /\ LifeStep(j)
    <3>1. CASE j \in S
      <4>1. job'[j] = Recovered(j) /\ j \in Expired /\ ~RowLocked(j)
        BY <2>1, <3>1
      <4>2. job[j].status \in ACTIVE /\ job[j].attempt \in Nat
        BY <1>0, <2>3, <4>1 DEF Rows
      <4>3. LifeStep(j)
        BY <2>2, <2>3, <4>1, <4>2, Phases, LifeStepOfPhases DEF ACTIVE, Requeued
      <4>4. QED
        BY <2>3, <4>1, <4>2, <4>3 DEF ACTIVE, Counted
    <3>2. CASE j \notin S
      <4>1. job'[j] = job[j]
        BY <2>1, <3>2
      <4>2. QED
        BY <2>2, <4>1, LifeStepOfPhases DEF Counted, Checked
    <3>3. QED
      BY <3>1, <3>2
  <2>6. QED
    BY <2>2, <2>4, <2>5 DEF StoreMoves
<1>6. QED
  BY <1>2, <1>3, <1>4, <1>5

-----------------------------------------------------------------------------
(* A claim. *)

\* An idle worker, with the quota not exhausted, begins an attempt of a waiting
\* job, and is told so or not.
Begins(w, j) ==
  /\ at[w].pc = "idle" /\ Cardinality(Active) < MaxActive
  /\ job[j].status \in {"QUEUED", "RETRY_PENDING"} /\ job[j].attempt < MaxAttempts
  /\ job' \in [Job -> Rows] /\ result' = result
  /\ job'[j].status = "CLAIMED" /\ job'[j].attempt = job[j].attempt + 1
  /\ \A k \in Job \ {j} : job'[k] = job[k]
  /\ at' \in [Worker -> Points]
  /\ \A v \in Worker \ {w} : at'[v] = at[v]
  /\ \/ at'[w].pc = "idle"
     \/ at'[w] = [pc |-> "claimed", job |-> j, token |-> job[j].attempt + 1]

\* Every claim begins an attempt.
LEMMA ClaimStep ==
  ASSUME IInv, NEW w \in Worker, Claim(w)
  PROVE  \E j \in Job : Begins(w, j)
<1>1. job \in [Job -> Rows] /\ at \in [Worker -> Points]
  BY TypeFacts DEF IInv
<1>2. PICK j \in Job :
        /\ Claimable(j)
        /\ job' = [job EXCEPT ![j] =
             [status |-> "CLAIMED", attempt |-> job[j].attempt + 1, leased |-> TRUE, overrun |-> FALSE]]
        /\ \/ at' = [at EXCEPT ![w] =
                      [pc |-> "claimed", job |-> j, token |-> job[j].attempt + 1]]
           \/ UNCHANGED at
  BY DEF Claim
<1>3. job[j] \in Rows /\ job[j].attempt < MaxAttempts
  BY <1>1, <1>2 DEF Claimable
<1>4. job[j].attempt + 1 \in 0..MaxAttempts
  BY <1>3 DEF Rows
<1>5. [status |-> "CLAIMED", attempt |-> job[j].attempt + 1, leased |-> TRUE, overrun |-> FALSE] \in Rows
  BY <1>4, StatusSet DEF Rows, Statuses
<1>6. [pc |-> "claimed", job |-> j, token |-> job[j].attempt + 1] \in Points
  BY <1>4 DEF Points
<1>7. /\ job' \in [Job -> Rows] /\ job'[j].status = "CLAIMED"
      /\ job'[j].attempt = job[j].attempt + 1
      /\ \A k \in Job \ {j} : job'[k] = job[k]
  BY <1>1, <1>2, <1>5
<1>8. at[w].pc = "idle" /\ Cardinality(Active) < MaxActive /\ result' = result
  BY DEF Claim
<1>9. /\ at' \in [Worker -> Points]
      /\ \A v \in Worker \ {w} : at'[v] = at[v]
      /\ \/ at'[w].pc = "idle"
         \/ at'[w] = [pc |-> "claimed", job |-> j, token |-> job[j].attempt + 1]
  BY <1>1, <1>2, <1>6, <1>8
<1>10. QED
  BY <1>2, <1>3, <1>7, <1>8, <1>9 DEF Begins, Claimable

\* Every step is of one of these five kinds.
LEMMA StepKinds ==
  ASSUME IInv, Next
  PROVE  \/ StoreMoves
         \/ \E w \in Worker : WorkerMoves(w) \/ Renewal(w) \/ Commits(w)
         \/ \E w \in Worker, j \in Job : Begins(w, j)
BY StoreStep, BusyStep, ClaimStep DEF Next

-----------------------------------------------------------------------------
(* The invariant. *)

\* What a worker's step does to the rows.
LEMMA WorkerRows ==
  ASSUME IInv, NEW w \in Worker, WorkerMoves(w) \/ Renewal(w) \/ Commits(w)
  PROVE  /\ job' \in [Job -> Rows] /\ result' \in [Job -> 0..MaxAttempts]
         /\ at[w].job \in Job
         /\ \A k \in Job : job'[k].attempt = job[k].attempt
         /\ \A k \in Job \ {at[w].job} : job'[k] = job[k] /\ result'[k] = result[k]
         /\ job'[at[w].job] # job[at[w].job] => job[at[w].job].attempt = at[w].token
         /\ \A k \in Job : Counted(k)' => Counted(k)
<1>0. TypeOK /\ job \in [Job -> Rows] /\ result \in [Job -> 0..MaxAttempts]
  BY TypeFacts DEF IInv
<1>1. at[w].pc # "idle"
  BY DEF WorkerMoves, Renewal, Commits, GoesOn
<1>2. at[w].job \in Job /\ at[w].token \in 0..MaxAttempts
  BY <1>1, Busy
<1>3. ASSUME UNCHANGED <<job, result>>
      PROVE  /\ job' \in [Job -> Rows] /\ result' \in [Job -> 0..MaxAttempts]
             /\ \A k \in Job : job'[k] = job[k] /\ result'[k] = result[k]
             /\ \A k \in Job : Counted(k)' => Counted(k)
  BY <1>0, <1>3 DEF Counted
<1>4. CASE WorkerMoves(w) /\ ~UNCHANGED <<job, result>>
  <2>1. PICK to : JobMoves(at[w].job, to)
    BY <1>4 DEF WorkerMoves
  <2>2. result' = result /\ job[at[w].job].attempt = at[w].token
    BY <1>4, <2>1 DEF JobMoves, WorkerMoves
  <2>3. QED
    BY <1>0, <1>2, <2>1, <2>2, JobMovesRows, JobMovesActive
<1>5. CASE Commits(w)
  <2>1. "COMPLETED" \in Status
    BY StatusSet DEF Statuses
  <2>2. /\ Moved(at[w].job, "COMPLETED") \in Rows
        /\ Moved(at[w].job, "COMPLETED").status = "COMPLETED"
        /\ Moved(at[w].job, "COMPLETED").attempt = job[at[w].job].attempt
    BY <1>0, <1>2, <2>1, MovedRow
  <2>3. /\ job' = [job EXCEPT ![at[w].job] = Moved(at[w].job, "COMPLETED")]
        /\ result' = [result EXCEPT ![at[w].job] = at[w].token]
        /\ job[at[w].job].attempt = at[w].token
    BY <1>5 DEF Commits
  <2>4. QED
    BY <1>0, <1>2, <2>2, <2>3 DEF ACTIVE, Counted
<1>6. CASE Renewal(w)
  <2>1. Checked(at[w].job, at[w].token) /\ job[at[w].job] \in Rows
    BY <1>0, <1>2, <1>6 DEF Renewal, IInv, Claims
  <2>2. /\ job' = [job EXCEPT ![at[w].job] = [job[at[w].job] EXCEPT !.leased = TRUE]]
        /\ result' = result
    BY <1>6 DEF Renewal
  <2>3. /\ [job[at[w].job] EXCEPT !.leased = TRUE] \in Rows
        /\ [job[at[w].job] EXCEPT !.leased = TRUE].status = job[at[w].job].status
        /\ [job[at[w].job] EXCEPT !.leased = TRUE].attempt = job[at[w].job].attempt
        /\ [job[at[w].job] EXCEPT !.leased = TRUE].overrun = job[at[w].job].overrun
    BY <2>1 DEF Rows
  <2>4. /\ job' \in [Job -> Rows]
        /\ job'[at[w].job].status = job[at[w].job].status
        /\ job'[at[w].job].attempt = job[at[w].job].attempt
        /\ job'[at[w].job].overrun = job[at[w].job].overrun
        /\ \A k \in Job \ {at[w].job} : job'[k] = job[k]
    BY <1>0, <1>2, <2>2, <2>3
  <2>5. \A k \in Job : Counted(k)' => Counted(k)
    BY <2>1, <2>4 DEF Counted, Checked, ACTIVE
  <2>6. QED
    BY <1>0, <1>2, <2>1, <2>2, <2>4, <2>5 DEF Checked
<1>7. QED
  BY <1>2, <1>3, <1>4, <1>5, <1>6

\* The invariant holds initially: nobody holds a claim.
LEMMA InitIInv == Init => IInv
<1> SUFFICES ASSUME Init PROVE IInv
  OBVIOUS
<1>1. "NONE" \in Status
  BY StatusSet DEF Statuses
<1>2. TypeOK
  BY <1>1 DEF Init, TypeOK, Idle
<1>3. Claims
  BY DEF Init, Claims, Idle
<1>4. QED
  BY <1>2, <1>3 DEF IInv

\* And every step keeps it.
LEMMA NextIInv == IInv /\ [Next]_vars => IInv'
<1> SUFFICES ASSUME IInv, [Next]_vars PROVE IInv'
  OBVIOUS
<1>0. /\ TypeOK /\ Claims
      /\ job \in [Job -> Rows] /\ result \in [Job -> 0..MaxAttempts] /\ at \in [Worker -> Points]
  BY TypeFacts DEF IInv
<1>1. CASE UNCHANGED vars
  BY <1>1 DEF IInv, vars, TypeOK, Claims, Checked
<1>2. CASE StoreMoves
  <2>1. TypeOK'
    BY <1>0, <1>2 DEF StoreMoves, TypeOK, Rows
  <2>2. ASSUME NEW w \in Worker, at'[w].pc = "renewing"
        PROVE  Checked(at[w].job, at[w].token)'
    <3>1. at' = at /\ at[w].pc = "renewing" /\ at[w].job \in Job
      BY <1>0, <1>2, <2>2 DEF StoreMoves, Claims
    <3>2. RowLocked(at[w].job) /\ Checked(at[w].job, at[w].token)
      BY <1>0, <3>1 DEF RowLocked, Claims
    <3>3. \A t : Checked(at[w].job, t) => 
            /\ job'[at[w].job].attempt = t /\ job'[at[w].job].status \in {"CLAIMED", "RUNNING"}
            /\ job'[at[w].job].leased \/ job'[at[w].job].overrun
      BY <1>2, <3>1, <3>2 DEF StoreMoves, Checked
    <3>4. QED
      BY <3>1, <3>2, <3>3 DEF Checked
  <2>3. Claims'
    BY <1>0, <1>2, <2>2 DEF StoreMoves, Claims
  <2>4. QED
    BY <2>1, <2>3 DEF IInv
<1>3. ASSUME NEW w \in Worker, WorkerMoves(w) \/ Renewal(w) \/ Commits(w)
      PROVE  IInv'
  <2>1. GoesOn(w) /\ at[w].pc # "idle"
    BY <1>3 DEF WorkerMoves, Renewal, Commits, GoesOn
  <2>2. TypeOK'
    BY <1>3, <2>1, WorkerRows DEF GoesOn, TypeOK, Rows, Points
  <2>3. \A v \in Worker : at'[v].pc # "idle" =>
          at[v].pc # "idle" /\ at'[v].job = at[v].job /\ at'[v].token = at[v].token
    BY <2>1 DEF GoesOn
  <2>4. \A k \in Job : job'[k].attempt = job[k].attempt
    BY <1>3, WorkerRows
  <2>5. \A v \in Worker : at'[v].pc # "idle" =>
          at'[v].job \in Job /\ at'[v].token <= job'[at'[v].job].attempt
    BY <1>0, <2>3, <2>4 DEF Claims
  <2>6. \A u, v \in Worker :
          u # v /\ at'[u].pc # "idle" /\ at'[v].pc # "idle" /\ at'[u].job = at'[v].job
          => at'[u].token # at'[v].token
    BY <1>0, <2>3 DEF Claims
  <2>7. ASSUME NEW v \in Worker, at'[v].pc = "requeue"
        PROVE  /\ job'[at'[v].job].status = "INTERRUPTED"
               /\ job'[at'[v].job].attempt = at'[v].token
    <3>1. CASE v = w
      <4>1. WorkerMoves(w)
        BY <1>3, <2>7, <3>1 DEF Commits, Renewal
      <4>2. /\ job'[at[w].job].status = "INTERRUPTED" /\ job[at[w].job].attempt = at[w].token
            /\ at[w].job \in Job
        BY <2>1, <2>7, <3>1, <4>1, Busy DEF WorkerMoves
      <4>3. QED
        BY <2>3, <2>4, <2>7, <3>1, <4>2
    <3>2. CASE v # w
      <4>1. at'[v] = at[v]
        BY <2>1, <3>2 DEF GoesOn
      <4>2. /\ at[v].pc = "requeue" /\ at[v].job \in Job
            /\ job[at[v].job].status = "INTERRUPTED" /\ job[at[v].job].attempt = at[v].token
        BY <1>0, <2>7, <4>1 DEF Claims
      <4>3. job'[at[v].job] = job[at[v].job]
        BY <1>0, <1>3, <2>1, <3>2, <4>2, WorkerRows DEF Claims
      <4>4. QED
        BY <4>1, <4>2, <4>3
    <3>3. QED
      BY <3>1, <3>2
  <2>8. ASSUME NEW v \in Worker, at'[v].pc = "renewing"
        PROVE  Checked(at[v].job, at[v].token)'
    <3>1. CASE v = w
      <4>1. WorkerMoves(w)
        BY <1>3, <2>8, <3>1 DEF Commits, Renewal
      <4>2. job' = job /\ Checked(at[w].job, at[w].token) /\ at[w].job \in Job
        BY <2>1, <2>8, <3>1, <4>1, Busy DEF WorkerMoves
      <4>3. QED
        BY <2>3, <2>8, <3>1, <4>2 DEF Checked
    <3>2. CASE v # w
      <4>1. at'[v] = at[v]
        BY <2>1, <3>2 DEF GoesOn
      <4>2. at[v].pc = "renewing" /\ at[v].job \in Job /\ Checked(at[v].job, at[v].token)
        BY <1>0, <2>8, <4>1 DEF Claims
      <4>3. job'[at[v].job] = job[at[v].job]
        BY <1>0, <1>3, <2>1, <3>2, <4>2, WorkerRows DEF Claims, Checked
      <4>4. QED
        BY <4>1, <4>2, <4>3 DEF Checked
    <3>3. QED
      BY <3>1, <3>2
  <2>9. QED
    BY <2>2, <2>5, <2>6, <2>7, <2>8 DEF IInv, Claims
<1>4. ASSUME NEW w \in Worker, NEW j \in Job, Begins(w, j)
      PROVE  IInv'
  <2>1. TypeOK'
    BY <1>0, <1>4 DEF Begins, TypeOK, Rows, Points
  <2>2. /\ \A v \in Worker \ {w} : at'[v] = at[v]
        /\ \/ at'[w].pc = "idle"
           \/ at'[w].pc = "claimed" /\ at'[w].job = j /\ at'[w].token = job[j].attempt + 1
    BY <1>4 DEF Begins
  <2>3. /\ \A k \in Job : job[k].attempt \in Nat
        /\ job'[j].attempt = job[j].attempt + 1
        /\ \A k \in Job \ {j} : job'[k] = job[k]
        /\ job[j].status # "INTERRUPTED"
    BY <1>0, <1>4 DEF Begins, Rows
  <2>4. \A v \in Worker : at[v].token \in Nat
    BY <1>0 DEF Points
  <2>5. \A v \in Worker : at'[v].pc # "idle" =>
          at'[v].job \in Job /\ at'[v].token <= job'[at'[v].job].attempt
    <3>1. ASSUME NEW v \in Worker \ {w}, at[v].pc # "idle"
          PROVE  at[v].job \in Job /\ at[v].token <= job'[at[v].job].attempt
      BY <1>0, <2>3, <2>4, <3>1 DEF Claims
    <3>2. QED
      BY <2>2, <2>3, <3>1
  <2>6. \A v \in Worker : at[v].pc # "idle" /\ at[v].job = j => at[v].token # job[j].attempt + 1
    BY <1>0, <2>3, <2>4 DEF Claims
  <2>7. \A u, v \in Worker :
          u # v /\ at'[u].pc # "idle" /\ at'[v].pc # "idle" /\ at'[u].job = at'[v].job
          => at'[u].token # at'[v].token
    BY <1>0, <2>2, <2>6 DEF Claims
  <2>8. \A v \in Worker : at'[v].pc = "requeue" =>
          /\ job'[at'[v].job].status = "INTERRUPTED"
          /\ job'[at'[v].job].attempt = at'[v].token
    BY <1>0, <2>2, <2>3 DEF Claims
  <2>9. ASSUME NEW v \in Worker, at'[v].pc = "renewing"
        PROVE  Checked(at[v].job, at[v].token)'
    <3>1. v # w /\ at'[v] = at[v]
      BY <2>2, <2>9
    <3>2. at[v].job \in Job /\ Checked(at[v].job, at[v].token)
      BY <1>0, <2>9, <3>1 DEF Claims
    <3>3. job'[at[v].job] = job[at[v].job]
      BY <1>4, <2>3, <3>2 DEF Checked, Begins
    <3>4. QED
      BY <3>1, <3>2, <3>3 DEF Checked
  <2>10. QED
    BY <2>1, <2>5, <2>7, <2>8, <2>9 DEF IInv, Claims
<1>5. QED
  BY <1>1, <1>2, <1>3, <1>4, StepKinds

\* The queue's invariant, of which the types are a part.
LEMMA Invariance == Spec => []IInv
BY InitIInv, NextIInv, PTL DEF Spec

\* Every variable keeps its type; no job is ever attempted more than
\* MaxAttempts times, since the type bounds the attempt number.
THEOREM QueueTypeCorrect == Spec => []TypeOK
<1>1. IInv => TypeOK
  BY DEF IInv
<1>2. QED
  BY <1>1, Invariance, PTL

-----------------------------------------------------------------------------
(* The quota. *)

\* Only a claim makes a job count, one job, when the quota leaves room for it: the
\* claim counts every unexpired lease, those that were overrun included.
LEMMA NextActive ==
  ASSUME IInv, ActiveLimit, [Next]_vars
  PROVE  ActiveLimit'
<1> DEFINE C == {j \in Job : Counted(j)}
<1>0. /\ C = {j \in Active : ~job[j].overrun} /\ C' = {j \in Active : ~job[j].overrun}'
      /\ C \in SUBSET Active
  BY DEF Active, Counted
<1>1. /\ IsFiniteSet(C) /\ IsFiniteSet(C') /\ IsFiniteSet(Active)
      /\ Cardinality(C) \in Nat /\ Cardinality(C) <= Cardinality(Active)
      /\ Cardinality(Active) \in Nat
  <2>1. C \in SUBSET Job /\ C' \in SUBSET Job /\ Active \in SUBSET Job
    BY DEF Active
  <2>2. QED
    BY <1>0, <2>1, FS_Subset, FS_CardinalityType
<1>2. /\ ActiveLimit <=> Cardinality(C) <= MaxActive
      /\ ActiveLimit' <=> Cardinality(C') <= MaxActive
  BY <1>0 DEF ActiveLimit
<1> HIDE DEF C
<1>3. ASSUME C' \in SUBSET C
      PROVE  ActiveLimit'
  <2>1. Cardinality(C') <= Cardinality(C) /\ Cardinality(C') \in Nat
    BY <1>1, <1>3, FS_Subset, FS_CardinalityType
  <2>2. QED
    BY <1>1, <1>2, <2>1
<1>4. CASE UNCHANGED vars
  <2>1. C' = C
    BY <1>4 DEF vars, C, Counted
  <2>2. QED
    BY <1>3, <2>1
<1>5. ASSUME \A j \in Job : Counted(j)' => Counted(j)
      PROVE  ActiveLimit'
  <2>1. C' \in SUBSET C
    BY <1>5 DEF C
  <2>2. QED
    BY <1>3, <2>1
<1>6. CASE StoreMoves
  BY <1>5, <1>6 DEF StoreMoves
<1>7. ASSUME NEW w \in Worker, WorkerMoves(w) \/ Renewal(w) \/ Commits(w)
      PROVE  ActiveLimit'
  BY <1>5, <1>7, WorkerRows
<1>8. ASSUME NEW w \in Worker, NEW j \in Job, Begins(w, j)
      PROVE  ActiveLimit'
  <2>1. C' \in SUBSET (C \cup {j})
    BY <1>8 DEF Begins, C, Counted
  <2>2. /\ IsFiniteSet(C \cup {j}) /\ Cardinality(C \cup {j}) \in Nat
        /\ Cardinality(C \cup {j}) <= Cardinality(C) + 1
    <3>1. /\ IsFiniteSet(C \cup {j})
          /\ Cardinality(C \cup {j}) =
               IF j \in C THEN Cardinality(C) ELSE Cardinality(C) + 1
      BY <1>1, FS_AddElement, Zenon
    <3>2. QED
      BY <1>1, <3>1
  <2>3. /\ Cardinality(C') <= Cardinality(C \cup {j})
        /\ Cardinality(C') \in Nat
    BY <1>1, <2>1, <2>2, FS_Subset, FS_CardinalityType
  <2>4. Cardinality(Active) < MaxActive
    BY <1>8 DEF Begins
  <2>5. QED
    BY <1>1, <1>2, <2>2, <2>3, <2>4
<1>9. QED
  BY <1>4, <1>6, <1>7, <1>8, StepKinds

\* Of the unexpired leases at most MaxActive have never run out inside a heartbeat,
\* whatever expires, is recovered or is claimed again: claim_research_job() counts
\* under its advisory lock, and a heartbeat that finds its lease expired renews
\* nothing. The others are not counted: see ActiveLimit.
THEOREM Quota == Spec => []ActiveLimit
<1>1. Init => ActiveLimit
  <2> SUFFICES ASSUME Init PROVE ActiveLimit
    OBVIOUS
  <2>1. {j \in Active : ~job[j].overrun} = {}
    BY DEF Init, Active, ACTIVE
  <2>2. QED
    BY <2>1, FS_EmptySet DEF ActiveLimit
<1>2. IInv /\ ActiveLimit /\ [Next]_vars => ActiveLimit'
  BY NextActive
<1>3. QED
  BY <1>1, <1>2, Invariance, PTL DEF Spec

-----------------------------------------------------------------------------
(* Fencing. *)

\* A step in which a superseded worker does something leaves its old job alone.
LEMMA StaleStep ==
  ASSUME IInv, Next, NEW w \in Worker,
         at[w].pc # "idle", at'[w] # at[w], job[at[w].job].attempt # at[w].token
  PROVE  job'[at[w].job] = job[at[w].job] /\ result'[at[w].job] = result[at[w].job]
<1>1. CASE StoreMoves
  BY <1>1 DEF StoreMoves
<1>2. ASSUME NEW v \in Worker, WorkerMoves(v) \/ Renewal(v) \/ Commits(v)
      PROVE  job'[at[w].job] = job[at[w].job] /\ result'[at[w].job] = result[at[w].job]
  <2>1. v = w
    BY <1>2 DEF WorkerMoves, Renewal, Commits, GoesOn
  <2>2. WorkerMoves(w) /\ UNCHANGED <<job, result>>
    BY <1>2, <2>1 DEF WorkerMoves, Renewal, Commits, IInv, Claims, Checked
  <2>3. QED
    BY <2>2
<1>3. ASSUME NEW v \in Worker, NEW j \in Job, Begins(v, j)
      PROVE  FALSE
  BY <1>3 DEF Begins
<1>4. QED
  BY <1>1, <1>2, <1>3, StepKinds

\* STRATEGY_INTELLIGENCE_SPRINT46.md: "A stale worker therefore cannot commit
\* after lease takeover". This covers the transaction that requeues a released
\* job, which passes no token.
THEOREM Fencing == Spec => StaleWorkersAreFenced
<1>1. IInv /\ [Next]_vars =>
        [\A w \in Worker : LET j == at[w].job IN
           /\ at[w].pc # "idle" /\ at'[w] # at[w]
           /\ job[j].attempt # at[w].token
           => job'[j] = job[j] /\ result'[j] = result[j]]_vars
  BY StaleStep
<1>2. QED
  BY <1>1, Invariance, PTL DEF Spec, StaleWorkersAreFenced

-----------------------------------------------------------------------------
(* The refinement. *)

\* Every step of the queue is a step of JobLifecycle.
LEMMA NextLife ==
  ASSUME IInv, Next
  PROVE  \A j \in Job : LifeStep(j)
<1>0. TypeOK /\ job \in [Job -> Rows] /\ result \in [Job -> 0..MaxAttempts]
  BY TypeFacts DEF IInv
<1>1. CASE StoreMoves
  BY <1>1 DEF StoreMoves
<1>2. ASSUME NEW w \in Worker, WorkerMoves(w)
      PROVE  \A j \in Job : LifeStep(j)
  <2>1. at[w].job \in Job
    BY <1>2, WorkerRows
  <2>2. CASE UNCHANGED <<job, result>>
    BY <2>2, LifeStepOfPhases
  <2>3. CASE \E to : JobMoves(at[w].job, to)
    BY <1>0, <2>1, <2>3, JobMovesLife
  <2>4. QED
    BY <1>2, <2>2, <2>3 DEF WorkerMoves
<1>3. ASSUME NEW w \in Worker, Commits(w), NEW j \in Job
      PROVE  LifeStep(j)
  <2>1. CASE j # at[w].job
    BY <1>3, <2>1, WorkerRows, LifeStepOfPhases
  <2>2. CASE j = at[w].job
    <3>1. /\ job' = [job EXCEPT ![j] = Moved(j, "COMPLETED")]
          /\ result' = [result EXCEPT ![j] = job[j].attempt]
          /\ job[j].status = "RUNNING"
      BY <1>3, <2>2 DEF Commits
    <3>2. "COMPLETED" \in Status
      BY StatusSet DEF Statuses
    <3>3. /\ job'[j].status = "COMPLETED" /\ job'[j].attempt = job[j].attempt
          /\ result'[j] = job[j].attempt
      BY <1>0, <3>1, <3>2, MovedRow
    <3>4. Lifecycle!Complete(j)
      BY <3>1, <3>3, Phases DEF Lifecycle!Complete
    <3>5. QED
      BY <3>4 DEF LifeStep
  <2>3. QED
    BY <2>1, <2>2
<1>4. ASSUME NEW w \in Worker, Renewal(w)
      PROVE  \A j \in Job : LifeStep(j)
  <2>1. /\ at[w].job \in Job /\ result' = result
        /\ job'[at[w].job].attempt = job[at[w].job].attempt
        /\ \A k \in Job \ {at[w].job} : job'[k] = job[k]
    BY <1>4, WorkerRows DEF Renewal
  <2>2. job'[at[w].job].status = job[at[w].job].status
    BY <1>0, <1>4, <2>1 DEF Renewal, Rows
  <2>3. QED
    BY <2>1, <2>2, LifeStepOfPhases
<1>5. ASSUME NEW w \in Worker, NEW i \in Job, Begins(w, i), NEW j \in Job
      PROVE  LifeStep(j)
  <2>1. CASE j # i
    BY <1>5, <2>1, LifeStepOfPhases DEF Begins
  <2>2. CASE j = i
    <3>1. Lifecycle!Begin(j)
      BY <1>5, <2>2, Phases DEF Lifecycle!Begin, Begins
    <3>2. QED
      BY <3>1 DEF LifeStep
  <2>3. QED
    BY <2>1, <2>2
<1>6. QED
  BY <1>1, <1>2, <1>3, <1>4, <1>5, StepKinds

\* Whoever works on a job and whatever fails, attempts are bounded and made one
\* at a time, the one result kept is that of the last attempt, and none is kept
\* after an accepted cancellation.
THEOREM QueueImplementsLifecycle == Spec => ImplementsLifecycle
<1>1. Init => Lifecycle!Init
  BY Phases DEF Init, Lifecycle!Init
<1>2. IInv /\ [Next]_vars => [Lifecycle!Next]_(Lifecycle!vars)
  <2> SUFFICES ASSUME IInv, [Next]_vars PROVE [Lifecycle!Next]_(Lifecycle!vars)
    OBVIOUS
  <2>1. CASE Next
    BY <2>1, NextLife DEF LifeStep, Lifecycle!Next
  <2>2. CASE UNCHANGED vars
    BY <2>2 DEF vars, Lifecycle!vars
  <2>3. QED
    BY <2>1, <2>2
<1>3. QED
  BY <1>1, <1>2, Invariance, PTL DEF Spec, ImplementsLifecycle, Lifecycle!Spec

-----------------------------------------------------------------------------
(* What the life of the jobs says of the rows. *)

\* No job waits that no worker could ever claim: an attempt is given back to the
\* queue only while there is another one left.
WaitingIsClaimable ==
  \A j \in Job : job[j].status \in {"QUEUED", "RETRY_PENDING"} => Claimable(j)

\* A result is kept for the completed jobs alone, and it is that of the attempt
\* which completed them: none survives a failure or an accepted cancellation.
ResultsAreOfCompletion ==
  \A j \in Job : IF job[j].status = "COMPLETED" THEN result[j] = job[j].attempt /\ result[j] > 0
                                               ELSE result[j] = 0

\* Where a job is in its life, its attempts and its result go together.
Life(j) ==
  LET phase == PhaseOf(job[j].status) IN
  /\ phase \in {"absent", "waiting"} => job[j].attempt < MaxAttempts
  /\ phase = "absent" => job[j].attempt = 0
  /\ phase \in {"working", "cancelling"} => job[j].attempt > 0
  /\ phase = "completed" => result[j] = job[j].attempt /\ result[j] > 0
  /\ phase # "completed" => result[j] = 0

\* A step of JobLifecycle keeps them together.
LEMMA LifeKept ==
  ASSUME IInv, NEW j \in Job, Life(j), LifeStep(j)
  PROVE  Life(j)'
<1>0. job[j].attempt \in Nat /\ result[j] \in Nat
  BY TypeFacts DEF IInv, Rows
<1>1. CASE Lifecycle!Create(j) \/ Lifecycle!Retry(j) \/ Lifecycle!Fail(j) \/ Lifecycle!Cancel(j)
           \/ Lifecycle!Confirm(j)
  BY <1>0, <1>1 DEF Life, Lifecycle!Create, Lifecycle!Retry, Lifecycle!Fail, Lifecycle!Cancel,
                    Lifecycle!Confirm, Lifecycle!To
<1>2. CASE Lifecycle!Begin(j)
  BY <1>0, <1>2 DEF Life, Lifecycle!Begin
<1>3. CASE Lifecycle!Complete(j)
  BY <1>0, <1>3 DEF Life, Lifecycle!Complete
<1>4. CASE Lifecycle!Same(j)
  BY <1>0, <1>4 DEF Life, Lifecycle!Same
<1>5. QED
  BY <1>1, <1>2, <1>3, <1>4 DEF LifeStep

LEMMA Lives == Spec => [](\A j \in Job : Life(j))
<1>1. Init => \A j \in Job : Life(j)
  BY Phases DEF Init, Life
<1>2. IInv /\ (\A j \in Job : Life(j)) /\ [Next]_vars => (\A j \in Job : Life(j))'
  <2> SUFFICES ASSUME IInv, \A j \in Job : Life(j), [Next]_vars PROVE (\A j \in Job : Life(j))'
    OBVIOUS
  <2>1. CASE Next
    BY <2>1, NextLife, LifeKept
  <2>2. CASE UNCHANGED vars
    BY <2>2 DEF vars, Life
  <2>3. QED
    BY <2>1, <2>2
<1>3. QED
  BY <1>1, <1>2, Invariance, PTL DEF Spec

\* Whatever expires, is released or recovered, a waiting job has an attempt left.
THEOREM WaitingIsClaimableTheorem == Spec => []WaitingIsClaimable
<1>1. (\A j \in Job : Life(j)) => WaitingIsClaimable
  BY Phases DEF Life, WaitingIsClaimable, Claimable
<1>2. QED
  BY <1>1, Lives, PTL

\* However commits lose their acknowledgements, race cancellations and are taken
\* over, a job has a result exactly when it is completed, that of its last attempt.
THEOREM ResultsAreOfCompletionTheorem == Spec => []ResultsAreOfCompletion
<1>1. IInv /\ (\A j \in Job : Life(j)) => ResultsAreOfCompletion
  <2> SUFFICES ASSUME IInv, NEW j \in Job, Life(j)
               PROVE  IF job[j].status = "COMPLETED" THEN result[j] = job[j].attempt /\ result[j] > 0
                                                     ELSE result[j] = 0
    BY DEF ResultsAreOfCompletion
  <2>1. job[j].status \in Statuses
    BY TypeFacts, StatusSet DEF IInv, Rows
  <2>2. PhaseOf(job[j].status) = "completed" <=> job[j].status = "COMPLETED"
    BY <2>1, Phases DEF Statuses
  <2>3. QED
    BY <2>2 DEF Life
<1>2. QED
  BY <1>1, Invariance, Lives, PTL
=============================================================================
