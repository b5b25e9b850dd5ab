----------------------------- MODULE ManagerLocks -----------------------------
(***************************************************************************)
(* The locks of TradingInstanceManager: one state lock, one lifecycle      *)
(* mutex per instance, both re-entrant, and the worker threads that take   *)
(* the state lock from their lifecycle callback and are joined by          *)
(* engine.stop() (services/trading_instances.py).                          *)
(*                                                                         *)
(* Each operation is the script of what it does to locks and threads. An   *)
(* operation that is refused or fails leaves its sections early, which     *)
(* takes no lock its script does not take.                                 *)
(***************************************************************************)
EXTENDS Integers, Sequences

CONSTANTS
  Caller,    \* request threads, the supervisor, reboot threads
  Worker,    \* engine threads, one per instance: a worker also names its instance
  State,     \* the manager's state lock
  Nobody,    \* owner of a free lock
  Requests   \* the operations callers perform

ASSUME ConstantsAssumption ==
  /\ Caller \cap Worker = {}
  /\ State \notin Worker
  /\ Nobody \notin Caller \cup Worker

VARIABLES
  script,   \* what each thread has left to do; an idle thread has nothing left
  lock,     \* owner and depth of every lock
  attached  \* workers whose lifecycle callback is set

vars == <<script, lock, attached>>

Thread == Caller \cup Worker
Lock == Worker \cup {State}    \* an instance's mutex goes by the name of its worker

-----------------------------------------------------------------------------
(* Scripts. *)

Do(what, on) == <<[what |-> what, on |-> on]>>

Section(l, body) == Do("take", l) \o body \o Do("give", l)
Brief == Section(State, <<>>)

\* with self._lifecycle_lock(i): the mutex is looked up under the state lock.
Lifecycle(i, body) == Brief \o Section(i, body)

\* engine.stop() joins the worker and then runs the callback itself.
EngineStop(i) == Do("join", i) \o Do("report", i)

Start(i) == Lifecycle(i, Section(State, Do("attach", i)))

\* The worker of a deleted instance no longer runs: there is nothing to join.
Delete(i) == Lifecycle(i, Section(State, Do("detach", i)))

\* Mutants of Stop: the state lock held across the join, and across everything.
StopUnderStateLock(i) == Lifecycle(i, Section(State, EngineStop(i)))
StopStateLockFirst(i) == Section(State, Lifecycle(i, EngineStop(i)))

Stop(i) == Lifecycle(i, Brief \o EngineStop(i))
Halt(i) == Lifecycle(i, Brief \o EngineStop(i) \o Brief)
Pause(i) == Lifecycle(i, Brief)
Resume(i) == Lifecycle(i, Brief \o Start(i))

\* An edit that rebuilds the worker of a paused instance: the longest branch.
Update(i) ==
  Lifecycle(i, Section(State, Do("detach", i) \o Halt(i) \o Start(i) \o Pause(i)))

\* restart_simulation_account() of a paused instance.
Reset(i) == Brief \o Stop(i) \o Section(State, Start(i) \o Pause(i))

\* request_full_reboot() and _run_full_reboot(), phases between sections apart.
Reboot(i) ==
  Section(State, Do("detach", i)) \o Brief \o EngineStop(i) \o Brief \o Brief
    \o Start(i) \o Brief \o Brief

Script(op, i) ==
  CASE op = "start" -> Start(i)
    [] op = "delete" -> Delete(i)
    [] op = "stop" -> Stop(i)
    [] op = "halt" -> Halt(i)
    [] op = "pause" -> Pause(i)
    [] op = "resume" -> Resume(i)
    [] op = "update" -> Update(i)
    [] op = "reset" -> Reset(i)
    [] op = "reboot" -> Reboot(i)

-----------------------------------------------------------------------------
Init ==
  /\ script = [t \in Thread |-> <<>>]
  /\ lock = [l \in Lock |-> [owner |-> Nobody, depth |-> 0]]
  /\ attached = Worker

Begin(t) ==
  /\ script[t] = <<>>
  /\ \/ /\ t \in Caller
        /\ \E op \in Requests, i \in Worker : script' = [script EXCEPT ![t] = Script(op, i)]
     \/ /\ t \in attached    \* the worker has a transition to report
        /\ script' = [script EXCEPT ![t] = Brief]
  /\ UNCHANGED <<lock, attached>>

At(t, what) == script[t] # <<>> /\ Head(script[t]).what = what
Advance(t) == script' = [script EXCEPT ![t] = Tail(@)]

Take(t) ==
  LET l == Head(script[t]).on IN
  /\ At(t, "take")
  /\ lock[l].owner \in {Nobody, t}
  /\ lock' = [lock EXCEPT ![l] = [owner |-> t, depth |-> @.depth + 1]]
  /\ Advance(t) /\ UNCHANGED attached

Give(t) ==
  LET l == Head(script[t]).on IN
  /\ At(t, "give")
  /\ lock' = [lock EXCEPT ![l] = [owner |-> IF @.depth = 1 THEN Nobody ELSE t,
                                  depth |-> @.depth - 1]]
  /\ Advance(t) /\ UNCHANGED attached

\* t.join(timeout=5): a worker that does not end in time is left behind.
Join(t) ==
  /\ At(t, "join")
  /\ Advance(t) /\ UNCHANGED <<lock, attached>>

\* _emit_lifecycle() does nothing without a callback.
Report(t) ==
  /\ At(t, "report")
  /\ script' = [script EXCEPT ![t] =
       IF Head(@).on \in attached THEN Brief \o Tail(@) ELSE Tail(@)]
  /\ UNCHANGED <<lock, attached>>

Attach(t) ==
  /\ At(t, "attach")
  /\ attached' = attached \cup {Head(script[t]).on}
  /\ Advance(t) /\ UNCHANGED lock

Detach(t) ==
  /\ At(t, "detach")
  /\ attached' = attached \ {Head(script[t]).on}
  /\ Advance(t) /\ UNCHANGED lock

Next ==
  \E t \in Thread :
    Begin(t) \/ Take(t) \/ Give(t) \/ Join(t) \/ Report(t) \/ Attach(t) \/ Detach(t)

Spec == Init /\ [][Next]_vars

-----------------------------------------------------------------------------
(* Properties. *)

\* t waits for a lock that u holds.
LockedOut(t, u) ==
  /\ At(t, "take")
  /\ u # t /\ lock[Head(script[t]).on].owner = u

\* t joins the worker u, which is in its lifecycle callback: the callback was
\* not detached before the join.
Joining(t, u) ==
  /\ At(t, "join")
  /\ u = Head(script[t]).on /\ u \in attached /\ script[u] # <<>>

\* No group of threads of which each waits for a lock another one holds. The
\* locks have no timeout: such a group is stuck for good, and with it every
\* thread, every instance's worker included, that needs the state lock.
NoDeadlock ==
  ~ \E T \in SUBSET Thread :
      T # {} /\ \A t \in T : \E u \in T : LockedOut(t, u)

\* "The state lock cannot simply be held across the whole transition: the engine
\* thread takes it from its lifecycle callback, so holding it while joining that
\* same thread would deadlock" (until the join times out): a worker whose
\* callback is still attached is never joined by a thread that, directly or
\* through others, keeps it from finishing the callback.
JoinsAreAnswered ==
  ~ \E T \in SUBSET Thread :
      T # {} /\ \A t \in T : \E u \in T : LockedOut(t, u) \/ Joining(t, u)
=============================================================================
