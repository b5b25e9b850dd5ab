-------------------------- MODULE InstanceLifecycle --------------------------
(***************************************************************************)
(* The lifecycle of Trading Instances inside one application process:      *)
(* operator calls, the InstanceSupervisor's sweep, Full Bot Reboots and    *)
(* the engine threads, interleaved at the points where the code takes and  *)
(* gives up its locks (services/trading_instances.py,                      *)
(* services/instance_supervisor.py, services/auto_engine.py).              *)
(*                                                                         *)
(* A section under the manager's state lock is one step. The per-instance  *)
(* lifecycle mutex, which is held across the joining of a thread, is the   *)
(* variable mutex. The state lock held by restart_simulation_account()     *)
(* while it waits for that mutex is the subject of ManagerLocks.           *)
(***************************************************************************)
EXTENDS Integers, FiniteSets

CONSTANTS
  Instance,      \* Trading Instances, all of mode "trading"
  Caller,        \* threads that serve operator requests
  Supervisor,    \* the instance-supervisor thread
  Nobody,        \* owner of a free mutex
  MaxSlots,      \* max_slots
  Requests,      \* the requests operators make
  Engine,        \* bound: engine objects that exist at the same time
  NoEngine,      \* the absence of an engine
  NoInstance,    \* the absence of an instance
  MaxReboots,    \* bound: Full Bot Reboots
  MaxResets,     \* bound: simulation account restarts
  MaxRestarts,   \* bound: process restarts
  JoinTimesOut   \* whether engine.stop() may give up joining its thread

ASSUME ConstantsAssumption ==
  /\ Supervisor \notin Caller /\ Nobody \notin Caller \cup {Supervisor}
  /\ NoEngine \notin Engine /\ NoInstance \notin Instance
  /\ MaxSlots \in Nat \ {0}
  /\ Requests \subseteq {"start", "stop", "pause", "resume", "update", "reset", "reboot"}
  /\ MaxReboots \in Nat /\ MaxResets \in Nat /\ MaxRestarts \in Nat
  /\ JoinTimesOut \in BOOLEAN

VARIABLES
  row,       \* durable trading_instances rows: state and desired_running
  obj,       \* TradingInstance objects, one more after each reload of the row
  cur,       \* the object _instances holds
  runtime,   \* _runtime: an engine, or none
  eng,       \* AutoStrategyEngine objects with the entry gate of their controls
  mutex,     \* holder of the per-instance lifecycle mutex
  call,      \* what each caller and the supervisor are in the middle of
  todo,      \* candidates the running sweep has not visited, with their objects
  running,   \* the running sweep's count of live workers
  reboot,    \* phase of the instance's Full Bot Reboot
  rebooting, \* the engine the reboot thread is working on, if any
  session,   \* simulation_session_id
  disarmed,  \* ghost: instances the operator was last told are paused
  restarts   \* process restarts so far

vars == <<row, obj, cur, runtime, eng, mutex, call, todo, running, reboot,
          rebooting, session, disarmed, restarts>>

objects == <<row, obj, cur>>
control == <<mutex, call, todo, running, reboot, rebooting, session, disarmed, restarts>>

Thread == Caller \cup {Supervisor}
Generation == 0..MaxReboots

Blank == [inst |-> NoInstance, thread |-> "none", running |-> FALSE, stopping |-> FALSE,
          open |-> FALSE, attached |-> FALSE, state |-> "stopped", event |-> "none"]

Idle == [op |-> "none", pc |-> "idle", inst |-> NoInstance, eng |-> NoEngine,
         gen |-> 0, paused |-> FALSE, had |-> FALSE, old |-> NoEngine, session |-> 0]

\* _ACTIVE_INSTANCE_STATES. "starting" stands for every phase in which a worker
\* is not yet or no longer "running"; of the other states "stopped" stands for
\* "created" too and "error" for "degraded".
Active == {"starting", "running"}

Init ==
  /\ row = [i \in Instance |-> [state |-> "stopped", desired |-> FALSE]]
  /\ obj = [i \in Instance |-> [g \in Generation |-> row[i]]]
  /\ cur = [i \in Instance |-> 0]
  /\ runtime = [i \in Instance |-> NoEngine]
  /\ eng = [e \in Engine |-> Blank]
  /\ mutex = [i \in Instance |-> Nobody]
  /\ call = [t \in Thread |-> Idle]
  /\ todo = {} /\ running = 0
  /\ reboot = [i \in Instance |-> "idle"]
  /\ rebooting = [i \in Instance |-> NoEngine]
  /\ session = [i \in Instance |-> 0]
  /\ disarmed = {}
  /\ restarts = 0

-----------------------------------------------------------------------------
(* Engines and the objects they report to. *)

Running(i) == runtime[i] # NoEngine /\ eng[runtime[i]].running

\* worker_alive()
Alive(i) == Running(i) /\ eng[runtime[i]].thread = "alive"

Object(i) == obj[i][cur[i]]

Fresh(i, closed) ==
  [inst |-> i, thread |-> "alive", running |-> TRUE, stopping |-> FALSE,
   open |-> ~closed, attached |-> TRUE, state |-> "starting", event |-> "none"]

\* Engine objects nothing refers to any more.
Spare(e) ==
  /\ eng[e].thread # "alive"
  /\ \A i \in Instance : e \notin {runtime[i], rebooting[i]}
  /\ \A t \in Thread : call[t].eng # e

\* store.save(inst) writes the whole object into the row.
Save(i, g, o) ==
  /\ obj' = [obj EXCEPT ![i][g] = o]
  /\ row' = [row EXCEPT ![i] = o]
  /\ UNCHANGED cur

\* The lifecycle callback: a paused marker survives everything but the end of
\* the worker. desired_running is kept.
Reported(i, s) ==
  IF Object(i).state = "paused" /\ s \notin {"error", "stopped"}
  THEN Object(i) ELSE [Object(i) EXCEPT !.state = s]

\* The worker thread moves on and, unless its callback was detached, is about
\* to report it. A thread that was told to stop does not recover any more.
EngineTransition(e, s) ==
  /\ eng[e].thread = "alive" /\ eng[e].event = "none"
  /\ \/ eng[e].state = "starting" /\ s \in {"running", "error"}
     \/ eng[e].state = "running" /\ s = "error"
     \/ eng[e].state = "running" /\ s = "starting" /\ ~eng[e].stopping
  /\ eng' = [eng EXCEPT ![e].state = s,
                        ![e].event = IF eng[e].attached THEN s ELSE "none"]
  /\ UNCHANGED <<objects, runtime, control>>

\* Mutant of EngineReports: the callback runs with nothing to report.
EngineReportsNothing(e) ==
  /\ eng[e].thread = "alive"
  /\ Save(eng[e].inst, cur[eng[e].inst], Reported(eng[e].inst, eng[e].event))
  /\ eng' = [eng EXCEPT ![e].event = "none"]
  /\ UNCHANGED <<runtime, control>>

EngineReports(e) ==
  /\ eng[e].event # "none"
  /\ Save(eng[e].inst, cur[eng[e].inst], Reported(eng[e].inst, eng[e].event))
  /\ eng' = [eng EXCEPT ![e].event = "none"]
  /\ UNCHANGED <<runtime, control>>

\* The thread returns after an error or when it notices its stop event. What
\* its gate, its stop event and its status say no longer matters.
EngineExits(e) ==
  /\ eng[e].thread = "alive" /\ eng[e].event = "none"
  /\ eng[e].state = "error" \/ eng[e].stopping
  /\ eng' = [eng EXCEPT ![e].thread = "dead", ![e].running = FALSE,
                        ![e].open = FALSE, ![e].stopping = FALSE, ![e].state = "stopped"]
  /\ UNCHANGED <<objects, runtime, control>>

-----------------------------------------------------------------------------
(* start(), under both locks. *)

\* Mutant of SlotFree: one slot too many.
SlotFreeAtLimit(i) ==
  Cardinality({j \in Instance \ {i} : Running(j)}) <= MaxSlots

SlotFree(i) ==
  Cardinality({j \in Instance \ {i} : Running(j)}) < MaxSlots

\* A dead runtime is dropped before the slots are counted and a new engine is
\* built; a live one is joined; the start may also fail. entry_gate_closed
\* marks the row "paused", otherwise it is "starting".
Joined(i) == Running(i) /\ UNCHANGED <<objects, runtime, eng>>

Replace(i, closed, engines) ==
  /\ SlotFree(i)
  /\ \E e \in Engine :
       /\ Spare(e)
       /\ eng' = [engines EXCEPT ![e] = Fresh(i, closed)]
       /\ runtime' = [runtime EXCEPT ![i] = e]

Build(i, closed, engines) ==
  /\ Replace(i, closed, engines)
  /\ Save(i, cur[i], [state |-> IF closed THEN "paused" ELSE "starting", desired |-> TRUE])

\* Mutant of Launched: a second Start layers a second worker.
LaunchedTwice(i, closed) == Build(i, closed, eng)

Launched(i, closed) == ~Running(i) /\ Build(i, closed, eng)

StartFails(i) ==
  /\ ~Running(i)
  /\ runtime' = [runtime EXCEPT ![i] = NoEngine]
  /\ UNCHANGED <<objects, eng>>

\* Mutant of Free: nobody waits for the mutex.
AlwaysFree(i) == TRUE

RebootIdle(i) == reboot[i] = "idle"
Free(i) == mutex[i] = Nobody

\* An operator's Start. Joining a paused worker leaves it paused.
OperatorStart(t, i) ==
  /\ call[t].pc = "idle" /\ Free(i) /\ RebootIdle(i)
  /\ \/ Joined(i) /\ UNCHANGED disarmed
     \/ StartFails(i) /\ UNCHANGED disarmed
     \/ Launched(i, FALSE) /\ disarmed' = disarmed \ {i}
  /\ UNCHANGED <<mutex, call, todo, running, reboot, rebooting, session, restarts>>

-----------------------------------------------------------------------------
(* stop(), pause() and resume(): the mutex is held throughout, the state     *)
(* lock only while the runtime and the object are looked up.                 *)

Begin(t, i, op, pc) ==
  [Idle EXCEPT !.op = op, !.pc = pc, !.inst = i, !.eng = runtime[i], !.gen = cur[i]]

Enter(t, i, op) ==
  /\ call[t].pc = "idle" /\ Free(i) /\ RebootIdle(i)
  /\ mutex' = [mutex EXCEPT ![i] = t]
  /\ call' = [call EXCEPT ![t] = Begin(t, i, op, IF op = "stop" THEN "signal" ELSE "gate")]
  /\ UNCHANGED <<objects, runtime, eng, todo, running, reboot, rebooting,
                 session, disarmed, restarts>>

Goto(t, pc) == call' = [call EXCEPT ![t].pc = pc]

\* Mutant of Return: the mutex is never given up.
ReturnHolding(t) ==
  /\ call' = [call EXCEPT ![t] = Idle]
  /\ UNCHANGED mutex

Return(t) ==
  /\ call' = [call EXCEPT ![t] = Idle]
  /\ mutex' = [mutex EXCEPT ![call[t].inst] = Nobody]

Disarm(t) == disarmed' = disarmed \cup {call[t].inst}
Rearm(t) == disarmed' = disarmed \ {call[t].inst}

\* engine.stop(), first half.
StopSignal(t) ==
  LET e == call[t].eng IN
  /\ call[t].pc = "signal"
  /\ \/ e # NoEngine /\ eng[e].running
        /\ eng' = [eng EXCEPT ![e].stopping = TRUE]
        /\ Goto(t, "join")
     \/ e = NoEngine /\ UNCHANGED eng /\ Goto(t, "write")
     \/ e # NoEngine /\ ~eng[e].running
        /\ eng' = [eng EXCEPT ![e].state = "stopped"]
        /\ Goto(t, "write")
  /\ UNCHANGED <<objects, runtime, mutex, todo, running, reboot, rebooting,
                 session, disarmed, restarts>>

\* engine.stop(), second half: the caller reports "stopped" itself.
StopJoin(t) ==
  LET e == call[t].eng IN
  /\ call[t].pc = "join"
  /\ eng[e].thread = "dead" \/ JoinTimesOut
  /\ eng' = [eng EXCEPT ![e].running = FALSE, ![e].state = "stopped"]
  /\ IF eng[e].attached
     THEN Save(call[t].inst, cur[call[t].inst], Reported(call[t].inst, "stopped"))
     ELSE UNCHANGED objects
  /\ Goto(t, "write")
  /\ UNCHANGED <<runtime, mutex, todo, running, reboot, rebooting, session,
                 disarmed, restarts>>

StopReturns(t) ==
  /\ call[t].op \in {"stop", "reset"} /\ call[t].pc = "write"
  /\ Save(call[t].inst, call[t].gen, [state |-> "stopped", desired |-> FALSE])
  /\ \/ call[t].op = "stop" /\ Return(t) /\ Rearm(t)
     \/ /\ call[t].op = "reset" /\ Goto(t, "swap") /\ UNCHANGED disarmed
        /\ mutex' = [mutex EXCEPT ![call[t].inst] = Nobody]
  /\ UNCHANGED <<runtime, eng, todo, running, reboot, rebooting, session, restarts>>

\* pause(): pause_all() closes the gate of the runtime that was looked up.
PauseGate(t) ==
  LET e == call[t].eng IN
  /\ call[t].op = "pause" /\ call[t].pc = "gate"
  /\ eng' = IF e = NoEngine THEN eng ELSE [eng EXCEPT ![e].open = FALSE]
  /\ Goto(t, "write")
  /\ UNCHANGED <<objects, runtime, mutex, todo, running, reboot, rebooting,
                 session, disarmed, restarts>>

\* The worker acknowledges, or does not in time.
PauseReturns(t) ==
  /\ call[t].op = "pause" /\ call[t].pc = "write"
  /\ \/ /\ Save(call[t].inst, call[t].gen, [state |-> "paused", desired |-> TRUE])
        /\ Disarm(t)
     \/ /\ call[t].eng # NoEngine /\ eng[call[t].eng].thread = "alive"
        /\ Save(call[t].inst, call[t].gen, [state |-> "error", desired |-> FALSE])
        /\ UNCHANGED disarmed
  /\ Return(t)
  /\ UNCHANGED <<runtime, eng, todo, running, reboot, rebooting, session, restarts>>

\* resume() of a running worker opens its gate; otherwise it is a start().
ResumeReturns(t) ==
  LET e == call[t].eng
      i == call[t].inst IN
  /\ call[t].op = "resume" /\ call[t].pc = "gate"
  /\ \/ /\ e # NoEngine /\ eng[e].running
        /\ eng' = [eng EXCEPT ![e].open = TRUE]
        /\ Save(i, call[t].gen, [state |-> "running", desired |-> TRUE])
        /\ UNCHANGED runtime /\ Rearm(t)
     \/ /\ e # NoEngine => ~eng[e].running
        /\ \/ RebootIdle(i) /\ Launched(i, FALSE) /\ Rearm(t)
           \/ RebootIdle(i) /\ Joined(i) /\ UNCHANGED disarmed
           \/ RebootIdle(i) /\ StartFails(i) /\ UNCHANGED disarmed
           \/ ~RebootIdle(i) /\ UNCHANGED <<objects, runtime, eng, disarmed>>
  /\ Return(t)
  /\ UNCHANGED <<todo, running, reboot, rebooting, session, restarts>>
-----------------------------------------------------------------------------
(* update_configuration() and restart_simulation_account().                  *)

\* An edit that needs a new worker, under both locks. The old callback is
\* detached; a worker caught in it cannot be joined and outlives the edit. A
\* paused instance is started and then paused again, all under both locks; the
\* new worker may not acknowledge that in time. During the rebuild the state is
\* "starting".
Retired(i, late) ==
  LET e == runtime[i] IN
  IF e = NoEngine THEN eng
  ELSE [eng EXCEPT ![e].running = FALSE, ![e].stopping = TRUE, ![e].attached = FALSE,
                   ![e].state = "stopped",
                   ![e].thread = IF late THEN eng[e].thread ELSE "dead"]

Late(i) ==
  IF Alive(i) /\ eng[runtime[i]].event # "none" THEN {TRUE}
  ELSE IF Alive(i) /\ JoinTimesOut THEN BOOLEAN
  ELSE {runtime[i] # NoEngine /\ eng[runtime[i]].thread = "alive"}

UpdateConfiguration(t, i) ==
  LET prior == Object(i) IN
  /\ call[t].pc = "idle" /\ Free(i) /\ RebootIdle(i)
  /\ \E late \in Late(i) :
       \/ prior.state \in Active /\ Build(i, FALSE, Retired(i, late))
       \/ /\ prior.state = "paused"
          /\ \/ Build(i, TRUE, Retired(i, late))
             \/ /\ Replace(i, TRUE, Retired(i, late))
                /\ Save(i, cur[i], [state |-> "error", desired |-> FALSE])
       \/ /\ eng' = Retired(i, late)
          /\ runtime' = [runtime EXCEPT ![i] = NoEngine]
          /\ \/ /\ prior.state \in Active \cup {"paused"} /\ runtime[i] # NoEngine
                /\ Save(i, cur[i], [prior EXCEPT !.state = "starting"])
             \/ prior.state \notin Active \cup {"paused"} /\ Save(i, cur[i], prior)
  /\ UNCHANGED <<control>>

ResetBegins(t, i) ==
  /\ call[t].pc = "idle" /\ RebootIdle(i) /\ session[i] < MaxResets
  /\ eng' = IF runtime[i] = NoEngine THEN eng ELSE [eng EXCEPT ![runtime[i]].open = FALSE]
  /\ call' = [call EXCEPT ![t] =
       [Begin(t, i, "reset", IF runtime[i] = NoEngine THEN "swap" ELSE "enter") EXCEPT
          !.paused = (Object(i).state = "paused"), !.had = Running(i),
          !.old = runtime[i], !.session = session[i]]]
  /\ UNCHANGED <<objects, runtime, mutex, todo, running, reboot, rebooting,
                 session, disarmed, restarts>>

\* The stop() inside: refused during a reboot.
ResetEnters(t) ==
  LET i == call[t].inst IN
  /\ call[t].op = "reset" /\ call[t].pc = "enter" /\ Free(i)
  /\ \/ /\ RebootIdle(i)
        /\ mutex' = [mutex EXCEPT ![i] = t]
        /\ call' = [call EXCEPT ![t].pc = "signal", ![t].eng = runtime[i], ![t].gen = cur[i]]
     \/ ~RebootIdle(i) /\ call' = [call EXCEPT ![t] = Idle] /\ UNCHANGED mutex
  /\ UNCHANGED <<objects, runtime, eng, todo, running, reboot, rebooting,
                 session, disarmed, restarts>>

\* The account swap, under the state lock. Whatever engine the registry holds
\* by now is dropped, and a worker is started again if there was one.
ResetSwaps(t) ==
  LET i == call[t].inst
      had == call[t].had IN
  /\ call[t].op = "reset" /\ call[t].pc = "swap"
  /\ IF session[i] # call[t].session
     THEN UNCHANGED <<objects, runtime, eng, session>>
     ELSE /\ had => Free(i)
          /\ session' = [session EXCEPT ![i] = @ + 1]
          /\ \/ had /\ RebootIdle(i) /\ Build(i, call[t].paused, eng)
             \/ /\ had
                /\ \/ RebootIdle(i) /\ call[t].paused /\ Replace(i, TRUE, eng)
                   \/ runtime' = [runtime EXCEPT ![i] = NoEngine] /\ UNCHANGED eng
                /\ Save(i, cur[i], [state |-> "error", desired |-> FALSE])
             \/ /\ ~had
                /\ runtime' = [runtime EXCEPT ![i] = IF call[t].old = NoEngine THEN @ ELSE NoEngine]
                /\ UNCHANGED <<objects, eng>>
  /\ call' = [call EXCEPT ![t] = Idle]
  /\ UNCHANGED <<mutex, todo, running, reboot, rebooting, disarmed, restarts>>

-----------------------------------------------------------------------------
(* Full Bot Reboot: the request and its thread take the state lock only.     *)

Phase(i, p) == reboot' = [reboot EXCEPT ![i] = p]

\* The gate closes before the request returns; the callback is detached.
RebootRequest(t, i) ==
  /\ call[t].pc = "idle" /\ RebootIdle(i) /\ cur[i] < MaxReboots
  /\ eng' = IF runtime[i] = NoEngine THEN eng
            ELSE [eng EXCEPT ![runtime[i]].open = FALSE, ![runtime[i]].attached = FALSE]
  /\ Phase(i, "requested")
  /\ disarmed' = disarmed \ {i}
  /\ UNCHANGED <<objects, runtime, mutex, call, todo, running, rebooting, session, restarts>>

\* Mutant of RebootStop: the engine is dropped without being stopped.
RebootStopSkipped(i) ==
  /\ reboot[i] = "requested"
  /\ rebooting' = [rebooting EXCEPT ![i] = runtime[i]]
  /\ Phase(i, "clearing")
  /\ UNCHANGED <<objects, eng, runtime, mutex, call, todo, running, session, disarmed, restarts>>

RebootStop(i) ==
  LET e == runtime[i] IN
  /\ reboot[i] = "requested"
  /\ rebooting' = [rebooting EXCEPT ![i] = e]
  /\ Phase(i, IF e = NoEngine THEN "clearing" ELSE "joining")
  /\ eng' = IF e = NoEngine THEN eng ELSE IF eng[e].running
            THEN [eng EXCEPT ![e].stopping = TRUE]
            ELSE [eng EXCEPT ![e].state = "stopped"]
  /\ UNCHANGED <<objects, runtime, mutex, call, todo, running, session, disarmed, restarts>>

RebootJoin(i) ==
  LET e == rebooting[i] IN
  /\ reboot[i] = "joining" /\ eng[e].thread = "dead"
  /\ eng' = [eng EXCEPT ![e].running = FALSE, ![e].state = "stopped"]
  /\ Phase(i, "clearing")
  /\ UNCHANGED <<objects, runtime, mutex, call, todo, running, rebooting,
                 session, disarmed, restarts>>

RebootClear(i) ==
  /\ reboot[i] = "clearing"
  /\ runtime' = [runtime EXCEPT ![i] = IF @ = rebooting[i] THEN NoEngine ELSE @]
  /\ rebooting' = [rebooting EXCEPT ![i] = NoEngine]
  /\ Phase(i, "reloading")
  /\ UNCHANGED <<objects, eng, mutex, call, todo, running, session, disarmed, restarts>>

\* The row is read back into a new object.
RebootReload(i) ==
  /\ reboot[i] = "reloading"
  /\ cur' = [cur EXCEPT ![i] = @ + 1]
  /\ obj' = [obj EXCEPT ![i][cur[i] + 1] = row[i]]
  /\ Phase(i, "starting")
  /\ UNCHANGED <<row, runtime, eng, mutex, call, todo, running, rebooting,
                 session, disarmed, restarts>>

RebootStart(i) ==
  /\ reboot[i] = "starting" /\ Free(i)
  /\ Launched(i, TRUE) \/ Joined(i)
  /\ rebooting' = [rebooting EXCEPT ![i] = runtime'[i]]
  /\ Phase(i, "verifying")
  /\ UNCHANGED <<mutex, call, todo, running, session, disarmed, restarts>>

\* The replacement is healthy: the gate opens, then the row is written.
RebootOpens(i) ==
  LET e == rebooting[i] IN
  /\ reboot[i] = "verifying" /\ eng[e].state = "running"
  /\ eng' = [eng EXCEPT ![e].open = TRUE]
  /\ Phase(i, "opened")
  /\ UNCHANGED <<objects, runtime, mutex, call, todo, running, rebooting,
                 session, disarmed, restarts>>

RebootFinishes(i) ==
  /\ reboot[i] = "opened"
  /\ Save(i, cur[i], [state |-> "running", desired |-> TRUE])
  /\ rebooting' = [rebooting EXCEPT ![i] = NoEngine]
  /\ Phase(i, "idle")
  /\ UNCHANGED <<runtime, eng, mutex, call, todo, running, session, disarmed, restarts>>

\* Mutant of RebootFails: a health check that never times out.
RebootFailsEarlier(i) ==
  /\ reboot[i] \in {"joining", "reloading", "starting"}
  /\ reboot[i] = "joining" => JoinTimesOut /\ eng[rebooting[i]].thread = "alive"
  /\ reboot[i] = "starting" => Free(i)
  /\ eng' = IF runtime[i] = NoEngine THEN eng ELSE [eng EXCEPT ![runtime[i]].open = FALSE]
  /\ Save(i, cur[i], [state |-> "error", desired |-> Running(i)])
  /\ rebooting' = [rebooting EXCEPT ![i] = NoEngine]
  /\ Phase(i, "idle")
  /\ UNCHANGED <<runtime, mutex, call, todo, running, session, disarmed, restarts>>

\* Validation, the start, or the health check fails or times out.
RebootFails(i) ==
  /\ reboot[i] \in {"joining", "reloading", "starting", "verifying"}
  /\ reboot[i] = "joining" => JoinTimesOut /\ eng[rebooting[i]].thread = "alive"
  /\ reboot[i] = "starting" => Free(i)
  /\ eng' = IF runtime[i] = NoEngine THEN eng ELSE [eng EXCEPT ![runtime[i]].open = FALSE]
  /\ Save(i, cur[i], [state |-> "error", desired |-> Running(i)])
  /\ rebooting' = [rebooting EXCEPT ![i] = NoEngine]
  /\ Phase(i, "idle")
  /\ UNCHANGED <<runtime, mutex, call, todo, running, session, disarmed, restarts>>

-----------------------------------------------------------------------------
(* InstanceSupervisor.sweep(), and the process itself.                       *)

\* Candidates are snapshotted under the state lock, as objects.
SweepBegins ==
  /\ call[Supervisor].pc = "idle" /\ todo = {}
  /\ todo' = {<<i, cur[i]>> : i \in {j \in Instance : Object(j).desired}}
  /\ running' = Cardinality({i \in Instance : Alive(i)})
  /\ UNCHANGED <<objects, runtime, eng, mutex, call, reboot, rebooting, session,
                 disarmed, restarts>>

Visit(i, op, pc, paused) ==
  call' = [call EXCEPT ![Supervisor] =
             [Idle EXCEPT !.op = op, !.pc = pc, !.inst = i, !.paused = paused]]

\* A live worker renews its lease or has lost it; a dead one is left for later
\* (backoff, no free slot) or repaired. desired_running is not read again.
SweepVisits(i, g) ==
  /\ call[Supervisor].pc = "idle" /\ <<i, g>> \in todo
  /\ todo' = todo \ {<<i, g>>}
  /\ \/ UNCHANGED call
     \/ Alive(i) /\ Visit(i, "halt", "enter", FALSE)
     \/ /\ ~Alive(i) /\ running < MaxSlots
        /\ Visit(i, "repair", "start", obj[i][g].state = "paused")
  /\ UNCHANGED <<objects, runtime, eng, mutex, running, reboot, rebooting,
                 session, disarmed, restarts>>

SweepRepairs ==
  LET i == call[Supervisor].inst IN
  /\ call[Supervisor].op = "repair" /\ Free(i)
  /\ \/ /\ RebootIdle(i) /\ running' = running + 1
        /\ Joined(i) \/ Launched(i, call[Supervisor].paused)
     \/ RebootIdle(i) /\ StartFails(i) /\ UNCHANGED running
     \/ ~RebootIdle(i) /\ UNCHANGED <<objects, runtime, eng, running>>
  /\ call' = [call EXCEPT ![Supervisor] = Idle]
  /\ UNCHANGED <<mutex, todo, reboot, rebooting, session, disarmed, restarts>>

\* halt_runtime(): stops like stop(), drops the runtime, keeps the intent.
HaltEnters ==
  LET i == call[Supervisor].inst IN
  /\ call[Supervisor].op = "halt" /\ call[Supervisor].pc = "enter" /\ Free(i)
  /\ mutex' = [mutex EXCEPT ![i] = Supervisor]
  /\ call' = [call EXCEPT ![Supervisor] = Begin(Supervisor, i, "halt", "signal")]
  /\ UNCHANGED <<objects, runtime, eng, todo, running, reboot, rebooting,
                 session, disarmed, restarts>>

HaltReturns ==
  LET c == call[Supervisor] IN
  /\ c.op = "halt" /\ c.pc = "write"
  /\ runtime' = [runtime EXCEPT ![c.inst] = NoEngine]
  /\ Save(c.inst, c.gen, [obj[c.inst][c.gen] EXCEPT !.state = "error"])
  /\ Return(Supervisor)
  /\ UNCHANGED <<eng, todo, running, reboot, rebooting, session, disarmed, restarts>>

Wanted == {i \in Instance : row[i].desired}

\* The next process restores the desired rows: as many as there are slots, with
\* the gate closed if the row says "paused". Rows that find no slot left stay
\* "paused", those whose start fails for another reason end up in "error".
Restores(up, over) ==
  /\ row' = [i \in Instance |->
       IF i \in up THEN [state |-> IF row[i].state = "paused" THEN "paused" ELSE "starting",
                         desired |-> TRUE]
       ELSE IF i \in over THEN [state |-> "paused", desired |-> FALSE]
       ELSE IF i \in Wanted THEN [state |-> "error", desired |-> TRUE]
       ELSE row[i]]
  /\ runtime' \in [Instance -> Engine \cup {NoEngine}]
  /\ \A i, j \in Instance :
       /\ runtime'[i] # NoEngine <=> i \in up
       /\ i # j /\ i \in up => runtime'[i] # runtime'[j]
  /\ eng' = [e \in Engine |->
       IF \E i \in up : runtime'[i] = e
       THEN LET i == CHOOSE i \in up : runtime'[i] = e
            IN  Fresh(i, row[i].state = "paused")
       ELSE Blank]

\* The process ends, by a crash or a shutdown that leaves every row as it is,
\* and the next one starts.
ProcessRestarts ==
  /\ restarts < MaxRestarts /\ restarts' = restarts + 1
  /\ \E up \in SUBSET Wanted : \E over \in SUBSET (Wanted \ up) :
       /\ Cardinality(up) <= MaxSlots
       /\ over # {} => Cardinality(up) = MaxSlots
       /\ Restores(up, over)
  /\ obj' = [i \in Instance |-> [g \in Generation |-> row'[i]]]
  /\ cur' = [i \in Instance |-> 0]
  /\ mutex' = [i \in Instance |-> Nobody]
  /\ call' = [t \in Thread |-> Idle]
  /\ todo' = {} /\ running' = 0
  /\ reboot' = [i \in Instance |-> "idle"] /\ rebooting' = [i \in Instance |-> NoEngine]
  /\ UNCHANGED <<session, disarmed>>

CallerStep(t) ==
  \/ \E i \in Instance :
       \/ "start" \in Requests /\ OperatorStart(t, i)
       \/ \E op \in {"stop", "pause", "resume"} \cap Requests : Enter(t, i, op)
       \/ "update" \in Requests /\ UpdateConfiguration(t, i)
       \/ "reset" \in Requests /\ ResetBegins(t, i)
       \/ "reboot" \in Requests /\ RebootRequest(t, i)
  \/ StopReturns(t) \/ PauseGate(t) \/ PauseReturns(t) \/ ResumeReturns(t)
  \/ ResetEnters(t) \/ ResetSwaps(t)

RebootStep(i) ==
  \/ RebootStop(i) \/ RebootJoin(i) \/ RebootClear(i) \/ RebootReload(i)
  \/ RebootStart(i) \/ RebootOpens(i) \/ RebootFinishes(i) \/ RebootFails(i)

EngineStep(e) ==
  \/ \E s \in {"starting", "running", "error"} : EngineTransition(e, s)
  \/ EngineReports(e) \/ EngineExits(e)

SweepStep ==
  \/ SweepBegins
  \/ \E i \in Instance, g \in Generation : SweepVisits(i, g)
  \/ SweepRepairs \/ HaltEnters \/ HaltReturns

Next ==
  \/ \E t \in Caller : CallerStep(t)
  \/ \E t \in Thread : StopSignal(t) \/ StopJoin(t)
  \/ \E i \in Instance : RebootStep(i)
  \/ \E e \in Engine : EngineStep(e)
  \/ SweepStep
  \/ ProcessRestarts

Spec == Init /\ [][Next]_vars

\* Every thread that has begun something goes on with it; one that waits for a
\* mutex gets it if it is free again and again. A health check ends by its
\* timeout if not otherwise. Nothing is assumed of operators, sweeps or feeds.
Fairness ==
  /\ \A t \in Thread :
       WF_vars(\/ StopSignal(t) \/ StopJoin(t) \/ StopReturns(t) \/ PauseGate(t)
               \/ PauseReturns(t) \/ ResumeReturns(t))
  /\ \A t \in Caller : SF_vars(ResetEnters(t) \/ ResetSwaps(t))
  /\ WF_vars(HaltReturns)
  /\ \A i \in Instance :
       /\ WF_vars(\/ RebootStop(i) \/ RebootJoin(i) \/ RebootClear(i) \/ RebootReload(i)
                  \/ RebootOpens(i) \/ RebootFinishes(i))
       /\ SF_vars(RebootStart(i) \/ RebootFails(i))
  /\ \A e \in Engine : WF_vars(EngineReports(e) \/ EngineExits(e))

FairSpec == Spec /\ Fairness

-----------------------------------------------------------------------------
(* Properties. *)

State == {"starting", "running", "paused", "error", "stopped"}
ObjectType == [state : State, desired : BOOLEAN]

TypeOK ==
  /\ row \in [Instance -> ObjectType]
  /\ obj \in [Instance -> [Generation -> ObjectType]]
  /\ cur \in [Instance -> Generation]
  /\ runtime \in [Instance -> Engine \cup {NoEngine}]
  /\ eng \in [Engine ->
       [inst : Instance \cup {NoInstance}, thread : {"none", "alive", "dead"},
        running : BOOLEAN, stopping : BOOLEAN, open : BOOLEAN, attached : BOOLEAN,
        state : State, event : State \cup {"none"}]]
  /\ mutex \in [Instance -> Thread \cup {Nobody}]
  /\ call \in [Thread ->
       [op : {"none", "stop", "pause", "resume", "reset", "repair", "halt"},
        pc : {"idle", "signal", "join", "write", "gate", "enter", "swap", "start"},
        inst : Instance \cup {NoInstance}, eng : Engine \cup {NoEngine}, gen : Generation,
        paused : BOOLEAN, had : BOOLEAN, old : Engine \cup {NoEngine}, session : 0..MaxResets]]
  /\ todo \in SUBSET (Instance \X Generation)
  /\ running \in Nat
  /\ reboot \in [Instance -> {"idle", "requested", "joining", "clearing", "reloading",
                             "starting", "verifying", "opened"}]
  /\ rebooting \in [Instance -> Engine \cup {NoEngine}]
  /\ session \in [Instance -> 0..MaxResets]
  /\ disarmed \in SUBSET Instance
  /\ restarts \in 0..MaxRestarts

\* Engines that still take new candles for instance i.
Working(i) ==
  {e \in Engine : eng[e].inst = i /\ eng[e].thread = "alive" /\ ~eng[e].stopping}

\* "a second Start joins the running worker rather than layering a second one
\* over the same paper account": every worker that takes candles is the one the
\* registry holds, so there is at most one per account and operators reach it.
OneWorkerPerAccount == \A i \in Instance : Working(i) \subseteq {runtime[i]}

\* The account-level limit on active trading slots, whatever starts, repairs,
\* reboots and restorations interleave.
SlotLimit == Cardinality({i \in Instance : Running(i)}) <= MaxSlots

\* What an operator is told holds when the call returns: after Stop no worker
\* takes candles and the row says so; after Pause no gate is open.
AnswersAreTrue ==
  [][\A t \in Caller, i \in Instance :
       /\ StopReturns(t) /\ call[t].op = "stop" /\ call[t].inst = i =>
            Working(i)' = {} /\ row'[i] = [state |-> "stopped", desired |-> FALSE]
       /\ PauseReturns(t) /\ call[t].inst = i /\ i \in disarmed' =>
            (\A e \in Working(i)' : ~eng'[e].open)]_vars

\* Every call returns and every reboot ends.
CallsReturn == \A t \in Caller : call[t].pc # "idle" ~> call[t].pc = "idle"
RebootsEnd == \A i \in Instance : reboot[i] # "idle" ~> reboot[i] = "idle"
=============================================================================
