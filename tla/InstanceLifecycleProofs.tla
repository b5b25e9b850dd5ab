----------------------- MODULE InstanceLifecycleProofs -----------------------
(***************************************************************************)
(* InstanceLifecycle is type-correct, keeps the slot limit, has one worker *)
(* per account and answers its operators truthfully.                       *)
(*                                                                         *)
(* The argument for the last two: whoever holds an instance's mutex works  *)
(* on the engine the registry holds, because only a reboot or an account   *)
(* swap drops an entry meanwhile and nothing replaces it; an entry is      *)
(* dropped only when its worker was told to stop, unless the account is    *)
(* swapped; and a gate is opened only by a resume, under the mutex, or by  *)
(* a reboot that started its replacement while the mutex was free. So both *)
(* hold for every account that was never swapped, whatever is requested,   *)
(* and for all accounts where no account restart is requested.             *)
(* For the mutex itself (the last section): whatever a call does, it       *)
(* takes the mutex, keeps it, gives it back or goes on without it.         *)
(***************************************************************************)
EXTENDS InstanceLifecycle, FiniteSetTheorems, TLAPS

\* Slots are counted, so there are finitely many Trading Instances.
FiniteInstances == IsFiniteSet(Instance)

\* The types, by component.
EngineRecord ==
  [inst : Instance \cup {NoInstance}, thread : {"none", "alive", "dead"},
   running : BOOLEAN, stopping : BOOLEAN, open : BOOLEAN, attached : BOOLEAN,
   state : State, event : State \cup {"none"}]

Op == {"none", "stop", "pause", "resume", "reset", "repair", "halt"}
Pc == {"idle", "signal", "join", "write", "gate", "enter", "swap", "start"}

CallRecord ==
  [op : Op, pc : Pc,
   inst : Instance \cup {NoInstance}, eng : Engine \cup {NoEngine}, gen : Generation,
   paused : BOOLEAN, had : BOOLEAN, old : Engine \cup {NoEngine}, session : 0..MaxResets]

RebootPhase ==
  {"idle", "requested", "joining", "clearing", "reloading", "starting", "verifying", "opened"}

\* Who is in a call has an instance; the bounds are not passed.
Bounds ==
  /\ \A t \in Thread : call[t].op # "none" => call[t].inst \in Instance
  /\ \A t \in Thread : call[t].op = "reset" => call[t].session < MaxResets
  /\ \A i \in Instance :
       reboot[i] \in {"requested", "joining", "clearing", "reloading"} => cur[i] < MaxReboots

RowsOK ==
  /\ row \in [Instance -> ObjectType]
  /\ obj \in [Instance -> [Generation -> ObjectType]]
  /\ cur \in [Instance -> Generation]

EnginesOK ==
  /\ runtime \in [Instance -> Engine \cup {NoEngine}]
  /\ eng \in [Engine -> EngineRecord]

CallsOK ==
  /\ mutex \in [Instance -> Thread \cup {Nobody}]
  /\ call \in [Thread -> CallRecord]

RestOK ==
  /\ todo \in SUBSET (Instance \X Generation)
  /\ running \in Nat
  /\ reboot \in [Instance -> RebootPhase]
  /\ rebooting \in [Instance -> Engine \cup {NoEngine}]
  /\ session \in [Instance -> 0..MaxResets]
  /\ disarmed \in SUBSET Instance
  /\ restarts \in 0..MaxRestarts

Types == RowsOK /\ EnginesOK /\ CallsOK /\ RestOK

\* The named parts together are TypeOK.
LEMMA Typing == Types <=> TypeOK
BY DEF Types, RowsOK, EnginesOK, CallsOK, RestOK, TypeOK, EngineRecord, CallRecord, Op, Pc, RebootPhase

\* They hold initially.
LEMMA TypesInit == Init => Types /\ Bounds
<1> SUFFICES ASSUME Init PROVE Types /\ Bounds
  OBVIOUS
<1> USE ConstantsAssumption DEF Init
<1>1. RowsOK
  BY DEF RowsOK, ObjectType, State, Generation
<1>2. EnginesOK
  BY DEF EnginesOK, EngineRecord, Blank, State
<1>3. CallsOK
  BY DEF CallsOK, CallRecord, Idle, Thread, Generation, Op, Pc
<1>4. RestOK
  BY DEF RestOK, RebootPhase
<1>5. Bounds
  BY DEF Bounds, Idle
<1> QED
  BY <1>1, <1>2, <1>3, <1>4, <1>5 DEF Types

\* store.save(inst) keeps the rows well-typed when it writes a well-typed
\* object.
LEMMA SaveTypes ==
  ASSUME RowsOK, NEW i, NEW g, NEW o \in ObjectType, Save(i, g, o)
  PROVE  RowsOK'
BY DEF RowsOK, Save

\* What the lifecycle callback makes of an object is an object.
LEMMA ReportedType ==
  ASSUME RowsOK, NEW i \in Instance, NEW s \in State
  PROVE  Reported(i, s) \in ObjectType
BY ConstantsAssumption DEF RowsOK, Reported, Object, ObjectType, State

\* An engine that was never built is a well-typed engine.
LEMMA BlankType == Blank \in EngineRecord
BY DEF Blank, EngineRecord, State

\* So is one that has just been built.
LEMMA FreshType ==
  ASSUME NEW i \in Instance \cup {NoInstance}, NEW closed \in BOOLEAN
  PROVE  Fresh(i, closed) \in EngineRecord
BY DEF Fresh, EngineRecord, State

\* Building an engine over well-typed ones leaves well-typed ones.
LEMMA ReplaceTypes ==
  ASSUME EnginesOK, NEW i \in Instance, NEW closed \in BOOLEAN,
         NEW engines \in [Engine -> EngineRecord], Replace(i, closed, engines)
  PROVE  EnginesOK'
BY FreshType DEF EnginesOK, Replace

\* The same with the row written.
LEMMA BuildTypes ==
  ASSUME RowsOK, EnginesOK, NEW i \in Instance, NEW closed \in BOOLEAN,
         NEW engines \in [Engine -> EngineRecord], Build(i, closed, engines)
  PROVE  RowsOK' /\ EnginesOK'
<1>1. [state |-> IF closed THEN "paused" ELSE "starting", desired |-> TRUE] \in ObjectType
  BY DEF ObjectType, State
<1> QED
  BY <1>1, ReplaceTypes, SaveTypes DEF Build
\* The states, commands and phases the code writes are among those declared.
LEMMA Names ==
  /\ Supervisor \in Thread /\ Nobody \notin Thread /\ NoEngine \notin Engine
  /\ NoInstance \notin Instance
  /\ \A t \in Caller : t \in Thread /\ t # Supervisor
  /\ MaxSlots \in Nat /\ MaxReboots \in Nat /\ MaxResets \in Nat /\ MaxRestarts \in Nat
  /\ JoinTimesOut \in BOOLEAN
BY ConstantsAssumption DEF Thread

\* Changing one field of an engine keeps it an engine.
LEMMA RecordEdit ==
  ASSUME NEW r \in EngineRecord
  PROVE  /\ [r EXCEPT !.running = FALSE] \in EngineRecord
         /\ \A b \in BOOLEAN : [r EXCEPT !.stopping = b] \in EngineRecord
         /\ \A b \in BOOLEAN : [r EXCEPT !.open = b] \in EngineRecord
         /\ [r EXCEPT !.attached = FALSE] \in EngineRecord
         /\ \A h \in {"none", "alive", "dead"} : [r EXCEPT !.thread = h] \in EngineRecord
         /\ \A s \in State : [r EXCEPT !.state = s] \in EngineRecord
         /\ \A v \in State \cup {"none"} : [r EXCEPT !.event = v] \in EngineRecord
<1>1. [r EXCEPT !.running = FALSE] \in EngineRecord
  BY DEF EngineRecord
<1>2. \A b \in BOOLEAN : [r EXCEPT !.stopping = b] \in EngineRecord
  BY DEF EngineRecord
<1>3. \A b \in BOOLEAN : [r EXCEPT !.open = b] \in EngineRecord
  BY DEF EngineRecord
<1>4. [r EXCEPT !.attached = FALSE] \in EngineRecord
  BY DEF EngineRecord
<1>5. \A h \in {"none", "alive", "dead"} : [r EXCEPT !.thread = h] \in EngineRecord
  BY DEF EngineRecord
<1>6. \A s \in State : [r EXCEPT !.state = s] \in EngineRecord
  BY DEF EngineRecord
<1>7. \A v \in State \cup {"none"} : [r EXCEPT !.event = v] \in EngineRecord
  BY DEF EngineRecord
<1> QED
  BY <1>1, <1>2, <1>3, <1>4, <1>5, <1>6, <1>7

\* So does changing one field of one engine in the registry of engines.
LEMMA EngineEdit ==
  ASSUME NEW f \in [Engine -> EngineRecord], NEW e
  PROVE  /\ [f EXCEPT ![e].running = FALSE] \in [Engine -> EngineRecord]
         /\ \A b \in BOOLEAN : [f EXCEPT ![e].stopping = b] \in [Engine -> EngineRecord]
         /\ \A b \in BOOLEAN : [f EXCEPT ![e].open = b] \in [Engine -> EngineRecord]
         /\ [f EXCEPT ![e].attached = FALSE] \in [Engine -> EngineRecord]
         /\ \A h \in {"none", "alive", "dead"} : [f EXCEPT ![e].thread = h] \in [Engine -> EngineRecord]
         /\ \A s \in State : [f EXCEPT ![e].state = s] \in [Engine -> EngineRecord]
         /\ \A v \in State \cup {"none"} : [f EXCEPT ![e].event = v] \in [Engine -> EngineRecord]
BY RecordEdit

\* The engines an edit has retired the old worker from are well-typed.
LEMMA RetiredType ==
  ASSUME EnginesOK, NEW i \in Instance, NEW late \in BOOLEAN
  PROVE  Retired(i, late) \in [Engine -> EngineRecord]
<1> DEFINE e == runtime[i]
           halted == [eng EXCEPT ![e].running = FALSE, ![e].stopping = TRUE,
                                 ![e].attached = FALSE, ![e].state = "stopped"]
           thread == IF late THEN eng[e].thread ELSE "dead"
<1>1. halted \in [Engine -> EngineRecord]
  <2>1. [eng EXCEPT ![e].running = FALSE] \in [Engine -> EngineRecord]
    BY EngineEdit DEF EnginesOK
  <2>2. [eng EXCEPT ![e].running = FALSE, ![e].stopping = TRUE] \in [Engine -> EngineRecord]
    BY <2>1, EngineEdit
  <2>3. [eng EXCEPT ![e].running = FALSE, ![e].stopping = TRUE, ![e].attached = FALSE]
          \in [Engine -> EngineRecord]
    BY <2>2, EngineEdit
  <2> QED
    BY <2>3, EngineEdit DEF State
<1>2. ASSUME e # NoEngine PROVE [halted EXCEPT ![e].thread = thread] \in [Engine -> EngineRecord]
  <2>1. thread \in {"none", "alive", "dead"}
    BY <1>2 DEF EnginesOK, EngineRecord
  <2> QED
    BY <1>1, <2>1, EngineEdit
<1> QED
  BY <1>2 DEF EnginesOK, Retired

\* Changing one field of a call keeps it a call.
LEMMA CallRecordEdit ==
  ASSUME NEW c \in CallRecord
  PROVE  /\ \A v \in Op : [c EXCEPT !.op = v] \in CallRecord
         /\ \A v \in Pc : [c EXCEPT !.pc = v] \in CallRecord
         /\ \A v \in Instance : [c EXCEPT !.inst = v] \in CallRecord
         /\ \A v \in Engine \cup {NoEngine} : [c EXCEPT !.eng = v] \in CallRecord
         /\ \A v \in Generation : [c EXCEPT !.gen = v] \in CallRecord
         /\ \A v \in BOOLEAN : [c EXCEPT !.paused = v] \in CallRecord
         /\ \A v \in BOOLEAN : [c EXCEPT !.had = v] \in CallRecord
         /\ \A v \in Engine \cup {NoEngine} : [c EXCEPT !.old = v] \in CallRecord
         /\ \A v \in 0..MaxResets : [c EXCEPT !.session = v] \in CallRecord
<1>1. \A v \in Op : [c EXCEPT !.op = v] \in CallRecord
  BY DEF CallRecord
<1>2. \A v \in Pc : [c EXCEPT !.pc = v] \in CallRecord
  BY DEF CallRecord
<1>3. \A v \in Instance : [c EXCEPT !.inst = v] \in CallRecord
  BY DEF CallRecord
<1>4. \A v \in Engine \cup {NoEngine} : [c EXCEPT !.eng = v] \in CallRecord
  BY DEF CallRecord
<1>5. \A v \in Generation : [c EXCEPT !.gen = v] \in CallRecord
  BY DEF CallRecord
<1>6. \A v \in BOOLEAN : [c EXCEPT !.paused = v] \in CallRecord
  BY DEF CallRecord
<1>7. \A v \in BOOLEAN : [c EXCEPT !.had = v] \in CallRecord
  BY DEF CallRecord
<1>8. \A v \in Engine \cup {NoEngine} : [c EXCEPT !.old = v] \in CallRecord
  BY DEF CallRecord
<1>9. \A v \in 0..MaxResets : [c EXCEPT !.session = v] \in CallRecord
  BY DEF CallRecord
<1> QED
  BY <1>1, <1>2, <1>3, <1>4, <1>5, <1>6, <1>7, <1>8, <1>9

\* So does replacing one thread's call.
LEMMA CallEdit ==
  ASSUME NEW f \in [Thread -> CallRecord], NEW t
  PROVE  /\ Idle \in CallRecord
         /\ \A c \in CallRecord : [f EXCEPT ![t] = c] \in [Thread -> CallRecord]
         /\ \A p \in Pc : [f EXCEPT ![t].pc = p] \in [Thread -> CallRecord]
         /\ \A e \in Engine \cup {NoEngine} : [f EXCEPT ![t].eng = e] \in [Thread -> CallRecord]
         /\ \A g \in Generation : [f EXCEPT ![t].gen = g] \in [Thread -> CallRecord]
<1>1. Idle \in CallRecord
  BY ConstantsAssumption DEF Idle, CallRecord, Generation, Op, Pc
<1>2. \A c \in CallRecord : [f EXCEPT ![t] = c] \in [Thread -> CallRecord]
  OBVIOUS
<1>3. \A p \in Pc : [f EXCEPT ![t].pc = p] \in [Thread -> CallRecord]
  BY CallRecordEdit
<1>4. \A e \in Engine \cup {NoEngine} : [f EXCEPT ![t].eng = e] \in [Thread -> CallRecord]
  BY CallRecordEdit
<1>5. \A g \in Generation : [f EXCEPT ![t].gen = g] \in [Thread -> CallRecord]
  BY CallRecordEdit
<1> QED
  BY <1>1, <1>2, <1>3, <1>4, <1>5

\* A thread in no call has a well-typed call.
LEMMA IdleType == Idle \in CallRecord
BY ConstantsAssumption DEF Idle, CallRecord, Generation, Op, Pc

\* So has one that has just taken the lifecycle mutex.
LEMMA BeginType ==
  ASSUME RowsOK, EnginesOK, NEW t, NEW i \in Instance, NEW op \in Op, NEW pc \in Pc
  PROVE  Begin(t, i, op, pc) \in CallRecord
<1>1. [Idle EXCEPT !.op = op] \in CallRecord
  BY IdleType, CallRecordEdit
<1>2. [Idle EXCEPT !.op = op, !.pc = pc] \in CallRecord
  BY <1>1, CallRecordEdit
<1>3. [Idle EXCEPT !.op = op, !.pc = pc, !.inst = i] \in CallRecord
  BY <1>2, CallRecordEdit
<1>4. [Idle EXCEPT !.op = op, !.pc = pc, !.inst = i, !.eng = runtime[i]] \in CallRecord
  BY <1>3, CallRecordEdit DEF EnginesOK
<1> QED
  BY <1>4, CallRecordEdit DEF Begin, RowsOK

\* A start, whatever comes of it, keeps rows and engines well-typed.
LEMMA StartTypes ==
  ASSUME RowsOK, EnginesOK, NEW i \in Instance, NEW closed \in BOOLEAN,
         Joined(i) \/ StartFails(i) \/ Launched(i, closed)
  PROVE  RowsOK' /\ EnginesOK'
<1>1. CASE Joined(i)
  BY <1>1 DEF Joined, objects, RowsOK, EnginesOK
<1>2. CASE StartFails(i)
  BY <1>2 DEF StartFails, objects, RowsOK, EnginesOK
<1>3. CASE Launched(i, closed)
  BY <1>3, BuildTypes DEF Launched, EnginesOK
<1> QED
  BY <1>1, <1>2, <1>3

\* Operators' and sweeps' calls.
LEMMA OperatorStartTypes ==
  ASSUME Types, Bounds, NEW t \in Caller, NEW i \in Instance, OperatorStart(t, i)
  PROVE  Types' /\ Bounds'
<1>1. RowsOK' /\ EnginesOK'
  BY StartTypes DEF Types, OperatorStart
<1>2. CallsOK' /\ RestOK' /\ cur' = cur
  BY DEF OperatorStart, Types, CallsOK, RestOK, Joined, StartFails, Launched, Build, Save, objects
<1>3. Bounds'
  BY <1>2 DEF Bounds, OperatorStart
<1> QED
  BY <1>1, <1>2, <1>3 DEF Types

\* Taking the mutex for a stop, pause or resume keeps the types.
LEMMA EnterTypes ==
  ASSUME Types, Bounds, NEW t \in Caller, NEW i \in Instance,
         NEW op \in {"stop", "pause", "resume"}, Enter(t, i, op)
  PROVE  Types' /\ Bounds'
<1> DEFINE b == Begin(t, i, op, IF op = "stop" THEN "signal" ELSE "gate")
<1>1. b \in CallRecord /\ b.inst = i /\ b.op = op
  <2>1. (IF op = "stop" THEN "signal" ELSE "gate") \in Pc /\ op \in Op
    BY DEF Pc, Op
  <2> QED
    BY <2>1, BeginType DEF Types, Begin, Idle
<1>2. call' = [call EXCEPT ![t] = b] /\ t \in Thread
  BY DEF Enter, Thread
<1>3. RowsOK' /\ EnginesOK' /\ RestOK'
  BY DEF Enter, objects, Types, RowsOK, EnginesOK, RestOK
<1>4. CallsOK'
  BY <1>1, <1>2 DEF Enter, Types, CallsOK
<1>5. Bounds'
  BY <1>1, <1>2 DEF Enter, Bounds, Types, CallsOK, objects
<1> QED
  BY <1>3, <1>4, <1>5 DEF Types

\* Going on within a call keeps the calls well-typed.
LEMMA GotoTypes ==
  ASSUME CallsOK, Bounds, NEW t \in Thread, NEW p \in Pc, Goto(t, p),
         UNCHANGED <<cur, reboot>>
  PROVE  call' \in [Thread -> CallRecord] /\ Bounds'
<1>1. call' \in [Thread -> CallRecord]
  BY CallEdit DEF Goto, CallsOK
<1>2. \A u \in Thread : call'[u].op = call[u].op /\ call'[u].inst = call[u].inst
                        /\ call'[u].session = call[u].session
  BY DEF Goto, CallsOK, CallRecord
<1> QED
  BY <1>1, <1>2 DEF Bounds

\* So does returning from it.
LEMMA ReturnTypes ==
  ASSUME CallsOK, Bounds, NEW t \in Thread, Return(t), UNCHANGED <<cur, reboot>>
  PROVE  CallsOK' /\ Bounds'
<1>1. CallsOK'
  BY CallEdit, IdleType DEF Return, CallsOK
<1>2. \A u \in Thread : call'[u] = IF u = t THEN Idle ELSE call[u]
  BY DEF Return, CallsOK
<1> QED
  BY <1>1, <1>2 DEF Bounds, Idle

\* The first half of engine.stop() keeps the types.
LEMMA StopSignalTypes ==
  ASSUME Types, Bounds, NEW t \in Thread, StopSignal(t)
  PROVE  Types' /\ Bounds'
<1> DEFINE e == call[t].eng
<1>1. eng' \in {eng, [eng EXCEPT ![e].stopping = TRUE], [eng EXCEPT ![e].state = "stopped"]}
  BY DEF StopSignal
<1>2. runtime' = runtime
  BY DEF StopSignal
<1>3. /\ [eng EXCEPT ![e].stopping = TRUE] \in [Engine -> EngineRecord]
      /\ [eng EXCEPT ![e].state = "stopped"] \in [Engine -> EngineRecord]
  BY EngineEdit DEF Types, EnginesOK, State
<1>4. EnginesOK'
  BY <1>1, <1>2, <1>3 DEF Types, EnginesOK
<1>5. RowsOK' /\ RestOK' /\ mutex' = mutex /\ cur' = cur /\ reboot' = reboot
  BY DEF StopSignal, objects, Types, RowsOK, RestOK
<1>6. \E p \in Pc : Goto(t, p)
  BY DEF StopSignal, Pc
<1> QED
  BY <1>4, <1>5, <1>6, GotoTypes DEF Types, CallsOK

\* So does its second half, with the report of the caller.
LEMMA StopJoinTypes ==
  ASSUME Types, Bounds, NEW t \in Thread, StopJoin(t)
  PROVE  Types' /\ Bounds'
<1> DEFINE e == call[t].eng
           i == call[t].inst
           joined == [eng EXCEPT ![e].running = FALSE, ![e].state = "stopped"]
<1>1. joined \in [Engine -> EngineRecord]
  <2>1. [eng EXCEPT ![e].running = FALSE] \in [Engine -> EngineRecord]
    BY EngineEdit DEF Types, EnginesOK
  <2> QED
    BY <2>1, EngineEdit DEF State
<1>2. eng' = joined /\ runtime' = runtime
  BY DEF StopJoin
<1>3. EnginesOK'
  BY <1>1, <1>2 DEF Types, EnginesOK
<1>4. RowsOK'
  <2>1. CASE UNCHANGED objects
    BY <2>1 DEF objects, Types, RowsOK
  <2>2. CASE Save(i, cur[i], Reported(i, "stopped"))
    <3>1. CASE i \in Instance
      BY <2>2, <3>1, SaveTypes, ReportedType DEF Types, State
    <3>2. CASE i \notin Instance
      BY <2>2, <3>2 DEF Save, Types, RowsOK
    <3> QED
      BY <3>1, <3>2
  <2> QED
    BY <2>1, <2>2 DEF StopJoin
<1>5. RestOK' /\ mutex' = mutex /\ cur' = cur /\ reboot' = reboot
  BY DEF StopJoin, Save, objects, Types, RestOK
<1>6. Goto(t, "write") /\ "write" \in Pc
  BY DEF StopJoin, Pc
<1> QED
  BY <1>3, <1>4, <1>5, <1>6, GotoTypes DEF Types, CallsOK

\* So does writing the stopped row.
LEMMA StopReturnsTypes ==
  ASSUME Types, Bounds, NEW t \in Caller, StopReturns(t)
  PROVE  Types' /\ Bounds'
<1> DEFINE i == call[t].inst
<1>1. t \in Thread /\ i \in Instance /\ call[t].gen \in Generation
  BY DEF StopReturns, Bounds, Thread, Types, CallsOK, CallRecord
<1>2. [state |-> "stopped", desired |-> FALSE] \in ObjectType
  BY DEF ObjectType, State
<1>3. RowsOK' /\ EnginesOK' /\ cur' = cur /\ reboot' = reboot
  BY <1>2, SaveTypes DEF StopReturns, Save, Types, EnginesOK
<1>4. RestOK'
  BY <1>1 DEF StopReturns, Types, RestOK, Rearm
<1>5. CASE Return(t)
  BY <1>1, <1>3, <1>4, <1>5, ReturnTypes DEF Types
<1>6. CASE Goto(t, "swap") /\ mutex' = [mutex EXCEPT ![i] = Nobody]
  <2>1. call' \in [Thread -> CallRecord] /\ Bounds'
    BY <1>1, <1>3, <1>6, GotoTypes DEF Types, Pc
  <2> QED
    BY <1>3, <1>4, <1>6, <2>1 DEF Types, CallsOK
<1> QED
  BY <1>5, <1>6 DEF StopReturns

\* Closing the gate keeps the types.
LEMMA PauseGateTypes ==
  ASSUME Types, Bounds, NEW t \in Caller, PauseGate(t)
  PROVE  Types' /\ Bounds'
<1> DEFINE e == call[t].eng
<1>1. [eng EXCEPT ![e].open = FALSE] \in [Engine -> EngineRecord]
  BY EngineEdit DEF Types, EnginesOK
<1>2. eng' \in {eng, [eng EXCEPT ![e].open = FALSE]} /\ runtime' = runtime
  BY DEF PauseGate
<1>3. EnginesOK'
  BY <1>1, <1>2 DEF Types, EnginesOK
<1>4. RowsOK' /\ RestOK' /\ mutex' = mutex /\ cur' = cur /\ reboot' = reboot
  BY DEF PauseGate, objects, Types, RowsOK, RestOK
<1>5. Goto(t, "write") /\ "write" \in Pc /\ t \in Thread
  BY DEF PauseGate, Pc, Thread
<1> QED
  BY <1>3, <1>4, <1>5, GotoTypes DEF Types, CallsOK

\* So does writing the paused or the failed row.
LEMMA PauseReturnsTypes ==
  ASSUME Types, Bounds, NEW t \in Caller, PauseReturns(t)
  PROVE  Types' /\ Bounds'
<1>1. t \in Thread /\ call[t].inst \in Instance
  BY DEF PauseReturns, Bounds, Thread
<1>2. /\ [state |-> "paused", desired |-> TRUE] \in ObjectType
      /\ [state |-> "error", desired |-> FALSE] \in ObjectType
  BY DEF ObjectType, State
<1>3. RowsOK' /\ EnginesOK' /\ cur' = cur /\ reboot' = reboot
  <2>1. \E o \in ObjectType : Save(call[t].inst, call[t].gen, o)
    BY <1>2 DEF PauseReturns
  <2>2. RowsOK' /\ cur' = cur
    BY <2>1, SaveTypes DEF Save, Types
  <2> QED
    BY <2>2 DEF PauseReturns, Types, EnginesOK
<1>4. RestOK'
  BY <1>1 DEF PauseReturns, Types, RestOK, Disarm
<1> QED
  BY <1>1, <1>3, <1>4, ReturnTypes DEF Types, PauseReturns

\* A resume keeps the types, as an opened gate or as a start.
LEMMA ResumeReturnsTypes ==
  ASSUME Types, Bounds, NEW t \in Caller, ResumeReturns(t)
  PROVE  Types' /\ Bounds'
<1> DEFINE e == call[t].eng
           i == call[t].inst
<1>1. t \in Thread /\ i \in Instance
  BY DEF ResumeReturns, Bounds, Thread
<1>2. [state |-> "running", desired |-> TRUE] \in ObjectType
  BY DEF ObjectType, State
<1>3. [eng EXCEPT ![e].open = TRUE] \in [Engine -> EngineRecord]
  BY EngineEdit DEF Types, EnginesOK
<1>4. RowsOK' /\ EnginesOK' /\ cur' = cur
  <2>1. CASE /\ eng' = [eng EXCEPT ![e].open = TRUE] /\ runtime' = runtime
             /\ Save(i, call[t].gen, [state |-> "running", desired |-> TRUE])
    BY <1>2, <1>3, <2>1, SaveTypes DEF Types, EnginesOK, Save
  <2>2. CASE Launched(i, FALSE) \/ Joined(i) \/ StartFails(i)
    BY <1>1, <2>2, StartTypes DEF Types, Launched, Joined, StartFails, Build, Save, objects
  <2>3. CASE UNCHANGED <<objects, runtime, eng>>
    BY <2>3 DEF objects, Types, RowsOK, EnginesOK
  <2> QED
    BY <2>1, <2>2, <2>3 DEF ResumeReturns
<1>5. RestOK' /\ reboot' = reboot
  BY <1>1 DEF ResumeReturns, Types, RestOK, Rearm
<1> QED
  BY <1>1, <1>4, <1>5, ReturnTypes DEF Types, ResumeReturns

\* Edits and account restarts.
LEMMA UpdateConfigurationTypes ==
  ASSUME Types, Bounds, NEW t \in Caller, NEW i \in Instance, UpdateConfiguration(t, i)
  PROVE  Types' /\ Bounds'
<1> DEFINE prior == Object(i)
<1>1. PICK late \in Late(i) :
       \/ Build(i, FALSE, Retired(i, late))
       \/ Build(i, TRUE, Retired(i, late))
       \/ /\ Replace(i, TRUE, Retired(i, late))
          /\ Save(i, cur[i], [state |-> "error", desired |-> FALSE])
       \/ /\ eng' = Retired(i, late)
          /\ runtime' = [runtime EXCEPT ![i] = NoEngine]
          /\ \/ Save(i, cur[i], [prior EXCEPT !.state = "starting"])
             \/ Save(i, cur[i], prior)
  BY DEF UpdateConfiguration
<1>2. late \in BOOLEAN
  BY DEF Late
<1>3. Retired(i, late) \in [Engine -> EngineRecord]
  BY <1>2, RetiredType DEF Types
<1>4. prior \in ObjectType /\ [prior EXCEPT !.state = "starting"] \in ObjectType
  <2>1. prior \in ObjectType
    BY DEF Object, Types, RowsOK
  <2> QED
    BY <2>1 DEF ObjectType, State
<1>5. RowsOK' /\ EnginesOK'
  <2>1. CASE Build(i, FALSE, Retired(i, late)) \/ Build(i, TRUE, Retired(i, late))
    BY <1>3, <2>1, BuildTypes DEF Types
  <2>2. CASE /\ Replace(i, TRUE, Retired(i, late))
             /\ Save(i, cur[i], [state |-> "error", desired |-> FALSE])
    <3>1. [state |-> "error", desired |-> FALSE] \in ObjectType
      BY DEF ObjectType, State
    <3> QED
      BY <1>3, <2>2, <3>1, ReplaceTypes, SaveTypes DEF Types
  <2>3. CASE /\ eng' = Retired(i, late)
             /\ runtime' = [runtime EXCEPT ![i] = NoEngine]
             /\ \/ Save(i, cur[i], [prior EXCEPT !.state = "starting"])
                \/ Save(i, cur[i], prior)
    <3>1. RowsOK'
      BY <1>4, <2>3, SaveTypes DEF Types
    <3>2. EnginesOK'
      BY <1>3, <2>3 DEF Types, EnginesOK
    <3> QED
      BY <3>1, <3>2
  <2> QED
    BY <1>1, <2>1, <2>2, <2>3
<1>6. CallsOK' /\ RestOK' /\ cur' = cur
  <2>1. cur' = cur
    BY <1>1 DEF Build, Save
  <2> QED
    BY <2>1 DEF UpdateConfiguration, control, Types, CallsOK, RestOK
<1>7. Bounds'
  BY <1>6 DEF UpdateConfiguration, control, Bounds
<1> QED
  BY <1>5, <1>6, <1>7 DEF Types

\* The first section of an account restart keeps the types.
LEMMA ResetBeginsTypes ==
  ASSUME Types, Bounds, NEW t \in Caller, NEW i \in Instance, ResetBegins(t, i)
  PROVE  Types' /\ Bounds'
<1> DEFINE pc == IF runtime[i] = NoEngine THEN "swap" ELSE "enter"
           b == Begin(t, i, "reset", pc)
           c == [b EXCEPT !.paused = (Object(i).state = "paused"), !.had = Running(i),
                          !.old = runtime[i], !.session = session[i]]
<1>1. b \in CallRecord /\ b.inst = i /\ b.op = "reset"
  <2>1. pc \in Pc /\ "reset" \in Op
    BY DEF Pc, Op
  <2> QED
    BY <2>1, BeginType DEF Types, Begin, Idle
<1>2. c \in CallRecord
  <2>1. Running(i) \in BOOLEAN
    BY DEF Running
  <2>2. [b EXCEPT !.paused = (Object(i).state = "paused")] \in CallRecord
    BY <1>1, CallRecordEdit
  <2>3. [b EXCEPT !.paused = (Object(i).state = "paused"), !.had = Running(i)] \in CallRecord
    BY <2>1, <2>2, CallRecordEdit
  <2>4. [b EXCEPT !.paused = (Object(i).state = "paused"), !.had = Running(i),
                  !.old = runtime[i]] \in CallRecord
    BY <2>3, CallRecordEdit DEF Types, EnginesOK
  <2> QED
    BY <2>4, CallRecordEdit DEF Types, RestOK
<1>3. c.inst = i /\ c.op = "reset" /\ c.session = session[i]
  BY <1>1 DEF CallRecord
<1>4. call' = [call EXCEPT ![t] = c] /\ t \in Thread
  BY DEF ResetBegins, Thread
<1>5. EnginesOK'
  <2>1. [eng EXCEPT ![runtime[i]].open = FALSE] \in [Engine -> EngineRecord]
    BY EngineEdit DEF Types, EnginesOK
  <2>2. eng' \in {eng, [eng EXCEPT ![runtime[i]].open = FALSE]} /\ runtime' = runtime
    BY DEF ResetBegins
  <2> QED
    BY <2>1, <2>2 DEF Types, EnginesOK
<1>6. RowsOK' /\ RestOK' /\ mutex' = mutex /\ cur' = cur /\ reboot' = reboot
  BY DEF ResetBegins, objects, Types, RowsOK, RestOK
<1>7. CallsOK'
  BY <1>2, <1>4, <1>6 DEF Types, CallsOK
<1>8. session[i] < MaxResets
  BY DEF ResetBegins
<1>9. \A u \in Thread : call'[u] = IF u = t THEN c ELSE call[u]
  BY <1>4 DEF Types, CallsOK
<1> HIDE DEF c
<1>10. Bounds'
  BY <1>3, <1>6, <1>8, <1>9 DEF Bounds
<1> QED
  BY <1>5, <1>6, <1>7, <1>10 DEF Types

\* So does its stop() when it gets the mutex.
LEMMA ResetEntersTypes ==
  ASSUME Types, Bounds, NEW t \in Caller, ResetEnters(t)
  PROVE  Types' /\ Bounds'
<1> DEFINE i == call[t].inst
           entered == [call EXCEPT ![t].pc = "signal", ![t].eng = runtime[i], ![t].gen = cur[i]]
<1>1. t \in Thread /\ i \in Instance
  BY DEF ResetEnters, Bounds, Thread
<1>2. RowsOK' /\ EnginesOK' /\ RestOK' /\ cur' = cur /\ reboot' = reboot
  BY DEF ResetEnters, objects, Types, RowsOK, EnginesOK, RestOK
<1>3. CASE call' = entered /\ mutex' = [mutex EXCEPT ![i] = t]
  <2>1. entered \in [Thread -> CallRecord]
    <3>1. [call EXCEPT ![t].pc = "signal"] \in [Thread -> CallRecord]
      BY CallEdit DEF Types, CallsOK, Pc
    <3>2. [call EXCEPT ![t].pc = "signal", ![t].eng = runtime[i]] \in [Thread -> CallRecord]
      BY <1>1, <3>1, CallEdit DEF Types, EnginesOK
    <3> QED
      BY <1>1, <3>2, CallEdit DEF Types, RowsOK
  <2>2. \A u \in Thread : /\ entered[u].op = call[u].op
                          /\ entered[u].inst = call[u].inst
                          /\ entered[u].session = call[u].session
    BY DEF Types, CallsOK, CallRecord
  <2> HIDE DEF entered
  <2>3. CallsOK'
    BY <1>1, <1>3, <2>1 DEF Types, CallsOK
  <2>4. Bounds'
    BY <1>2, <1>3, <2>2 DEF Bounds
  <2> QED
    BY <1>2, <2>3, <2>4 DEF Types
<1>4. CASE call' = [call EXCEPT ![t] = Idle] /\ mutex' = mutex
  <2>1. CallsOK'
    BY <1>4, IdleType, CallEdit DEF Types, CallsOK
  <2>2. \A u \in Thread : call'[u] = IF u = t THEN Idle ELSE call[u]
    BY <1>4 DEF Types, CallsOK
  <2>3. Bounds'
    BY <1>2, <2>2 DEF Bounds, Idle
  <2> QED
    BY <1>2, <2>1, <2>3 DEF Types
<1> QED
  BY <1>3, <1>4 DEF ResetEnters

\* So does the swap of accounts; no session number is passed.
LEMMA ResetSwapsTypes ==
  ASSUME Types, Bounds, NEW t \in Caller, ResetSwaps(t)
  PROVE  Types' /\ Bounds'
<1> DEFINE i == call[t].inst
<1>1. /\ t \in Thread /\ i \in Instance /\ call[t].paused \in BOOLEAN
      /\ call[t].session < MaxResets
  BY DEF ResetSwaps, Bounds, Thread, Types, CallsOK, CallRecord
<1>2. RowsOK' /\ EnginesOK' /\ cur' = cur
  <2>1. CASE UNCHANGED <<objects, runtime, eng>>
    BY <2>1 DEF objects, Types, RowsOK, EnginesOK
  <2>2. CASE Build(i, call[t].paused, eng)
    BY <1>1, <2>2, BuildTypes DEF Types, EnginesOK, Build, Save
  <2>3. CASE /\ \/ Replace(i, TRUE, eng)
                \/ runtime' = [runtime EXCEPT ![i] = NoEngine] /\ UNCHANGED eng
             /\ Save(i, cur[i], [state |-> "error", desired |-> FALSE])
    <3>1. [state |-> "error", desired |-> FALSE] \in ObjectType
      BY DEF ObjectType, State
    <3>2. RowsOK' /\ cur' = cur
      BY <2>3, <3>1, SaveTypes DEF Types, Save
    <3>3. EnginesOK'
      BY <1>1, <2>3, ReplaceTypes DEF Types, EnginesOK
    <3> QED
      BY <3>2, <3>3
  <2>4. CASE /\ runtime' = [runtime EXCEPT ![i] = IF call[t].old = NoEngine THEN @ ELSE NoEngine]
             /\ UNCHANGED <<objects, eng>>
    BY <2>4 DEF objects, Types, RowsOK, EnginesOK
  <2> QED
    BY <2>1, <2>2, <2>3, <2>4 DEF ResetSwaps
<1>3. RestOK' /\ mutex' = mutex /\ reboot' = reboot
  <2>1. session' \in [Instance -> 0..MaxResets]
    <3>1. CASE session' = session
      BY <3>1 DEF Types, RestOK
    <3>2. CASE session[i] = call[t].session /\ session' = [session EXCEPT ![i] = @ + 1]
      BY <1>1, <3>2, ConstantsAssumption DEF Types, RestOK
    <3> QED
      BY <3>1, <3>2 DEF ResetSwaps
  <2> QED
    BY <2>1 DEF ResetSwaps, Types, RestOK
<1>4. CallsOK'
  BY <1>3, IdleType, CallEdit DEF ResetSwaps, Types, CallsOK
<1>5. \A u \in Thread : call'[u] = IF u = t THEN Idle ELSE call[u]
  BY DEF ResetSwaps, Types, CallsOK
<1>6. Bounds'
  BY <1>2, <1>3, <1>5 DEF Bounds, Idle
<1> QED
  BY <1>2, <1>3, <1>4, <1>6 DEF Types

\* Full Bot Reboots.
LEMMA RebootRequestTypes ==
  ASSUME Types, Bounds, NEW t \in Caller, NEW i \in Instance, RebootRequest(t, i)
  PROVE  Types' /\ Bounds'
<1> DEFINE closed == [eng EXCEPT ![runtime[i]].open = FALSE, ![runtime[i]].attached = FALSE]
<1>1. closed \in [Engine -> EngineRecord]
  <2>1. [eng EXCEPT ![runtime[i]].open = FALSE] \in [Engine -> EngineRecord]
    BY EngineEdit DEF Types, EnginesOK
  <2> QED
    BY <2>1, EngineEdit
<1>2. eng' \in {eng, closed} /\ runtime' = runtime
  BY DEF RebootRequest
<1>3. EnginesOK'
  BY <1>1, <1>2 DEF Types, EnginesOK
<1>4. RowsOK' /\ CallsOK'
  BY DEF RebootRequest, objects, Types, RowsOK, CallsOK
<1>5. RestOK'
  BY DEF RebootRequest, Phase, Types, RestOK, RebootPhase
<1>6. Bounds'
  BY DEF RebootRequest, Phase, Types, RestOK, Bounds, objects
<1> QED
  BY <1>3, <1>4, <1>5, <1>6 DEF Types

\* A reboot that stops the worker keeps the types.
LEMMA RebootStopTypes ==
  ASSUME Types, Bounds, NEW i \in Instance, RebootStop(i)
  PROVE  Types' /\ Bounds'
<1> DEFINE e == runtime[i]
<1>1. /\ [eng EXCEPT ![e].stopping = TRUE] \in [Engine -> EngineRecord]
      /\ [eng EXCEPT ![e].state = "stopped"] \in [Engine -> EngineRecord]
  BY EngineEdit DEF Types, EnginesOK, State
<1>2. /\ eng' \in {eng, [eng EXCEPT ![e].stopping = TRUE], [eng EXCEPT ![e].state = "stopped"]}
      /\ runtime' = runtime
  BY DEF RebootStop
<1>3. EnginesOK'
  BY <1>1, <1>2 DEF Types, EnginesOK
<1>4. RowsOK' /\ CallsOK'
  BY DEF RebootStop, objects, Types, RowsOK, CallsOK
<1>5. RestOK'
  BY DEF RebootStop, Phase, Types, RestOK, RebootPhase, EnginesOK
<1>6. Bounds'
  BY DEF RebootStop, Phase, Types, RestOK, Bounds, objects
<1> QED
  BY <1>3, <1>4, <1>5, <1>6 DEF Types

\* So does one that has joined it.
LEMMA RebootJoinTypes ==
  ASSUME Types, Bounds, NEW i \in Instance, RebootJoin(i)
  PROVE  Types' /\ Bounds'
<1> DEFINE e == rebooting[i]
<1>1. [eng EXCEPT ![e].running = FALSE, ![e].state = "stopped"] \in [Engine -> EngineRecord]
  <2>1. [eng EXCEPT ![e].running = FALSE] \in [Engine -> EngineRecord]
    BY EngineEdit DEF Types, EnginesOK
  <2> QED
    BY <2>1, EngineEdit DEF State
<1>2. EnginesOK'
  BY <1>1 DEF RebootJoin, Types, EnginesOK
<1>3. RowsOK' /\ CallsOK'
  BY DEF RebootJoin, objects, Types, RowsOK, CallsOK
<1>4. RestOK'
  BY DEF RebootJoin, Phase, Types, RestOK, RebootPhase
<1>5. Bounds'
  BY DEF RebootJoin, Phase, Types, RestOK, Bounds, objects
<1> QED
  BY <1>2, <1>3, <1>4, <1>5 DEF Types

\* So does one that drops the registry entry.
LEMMA RebootClearTypes ==
  ASSUME Types, Bounds, NEW i \in Instance, RebootClear(i)
  PROVE  Types' /\ Bounds'
<1>1. RowsOK' /\ CallsOK' /\ EnginesOK'
  BY DEF RebootClear, objects, Types, RowsOK, CallsOK, EnginesOK
<1>2. RestOK'
  BY DEF RebootClear, Phase, Types, RestOK, RebootPhase
<1>3. Bounds'
  BY DEF RebootClear, Phase, Types, RestOK, Bounds, objects
<1> QED
  BY <1>1, <1>2, <1>3 DEF Types

\* So does one that reads the row into one more object.
LEMMA RebootReloadTypes ==
  ASSUME Types, Bounds, NEW i \in Instance, RebootReload(i)
  PROVE  Types' /\ Bounds'
<1>1. cur[i] + 1 \in Generation
  BY ConstantsAssumption DEF RebootReload, Types, RowsOK, Bounds, Generation
<1>2. RowsOK'
  <2>1. cur' \in [Instance -> Generation]
    BY <1>1 DEF RebootReload, Types, RowsOK
  <2>2. obj' \in [Instance -> [Generation -> ObjectType]]
    BY <1>1 DEF RebootReload, Types, RowsOK
  <2> QED
    BY <2>1, <2>2 DEF RebootReload, Types, RowsOK
<1>3. CallsOK' /\ EnginesOK'
  BY DEF RebootReload, Types, CallsOK, EnginesOK
<1>4. RestOK'
  BY DEF RebootReload, Phase, Types, RestOK, RebootPhase
<1>5. Bounds'
  BY DEF RebootReload, Phase, Types, RestOK, RowsOK, Bounds
<1> QED
  BY <1>2, <1>3, <1>4, <1>5 DEF Types

\* So does one that starts the replacement.
LEMMA RebootStartTypes ==
  ASSUME Types, Bounds, NEW i \in Instance, RebootStart(i)
  PROVE  Types' /\ Bounds'
<1>1. RowsOK' /\ EnginesOK'
  BY StartTypes DEF Types, RebootStart
<1>2. cur' = cur
  BY DEF RebootStart, Launched, Joined, Build, Save, objects
<1>3. RestOK' /\ CallsOK'
  BY <1>1 DEF RebootStart, Phase, Types, RestOK, RebootPhase, EnginesOK, CallsOK
<1>4. Bounds'
  BY <1>2 DEF RebootStart, Phase, Types, RestOK, Bounds
<1> QED
  BY <1>1, <1>3, <1>4 DEF Types

\* So does one that opens its gate.
LEMMA RebootOpensTypes ==
  ASSUME Types, Bounds, NEW i \in Instance, RebootOpens(i)
  PROVE  Types' /\ Bounds'
<1>1. [eng EXCEPT ![rebooting[i]].open = TRUE] \in [Engine -> EngineRecord]
  BY EngineEdit DEF Types, EnginesOK
<1>2. EnginesOK'
  BY <1>1 DEF RebootOpens, Types, EnginesOK
<1>3. RowsOK' /\ CallsOK'
  BY DEF RebootOpens, objects, Types, RowsOK, CallsOK
<1>4. RestOK'
  BY DEF RebootOpens, Phase, Types, RestOK, RebootPhase
<1>5. Bounds'
  BY DEF RebootOpens, Phase, Types, RestOK, Bounds, objects
<1> QED
  BY <1>2, <1>3, <1>4, <1>5 DEF Types

\* So does the end of a reboot, good or bad.
LEMMA RebootEndTypes ==
  ASSUME Types, Bounds, NEW i \in Instance, RebootFinishes(i) \/ RebootFails(i)
  PROVE  Types' /\ Bounds'
<1>1. [eng EXCEPT ![runtime[i]].open = FALSE] \in [Engine -> EngineRecord]
  BY EngineEdit DEF Types, EnginesOK
<1>2. /\ eng' \in {eng, [eng EXCEPT ![runtime[i]].open = FALSE]} /\ runtime' = runtime
      /\ UNCHANGED <<mutex, call, todo, running, session, disarmed, restarts>>
      /\ Phase(i, "idle")
      /\ rebooting' = [rebooting EXCEPT ![i] = NoEngine]
  BY DEF RebootFinishes, RebootFails
<1>3. EnginesOK'
  BY <1>1, <1>2 DEF Types, EnginesOK
<1>4. RowsOK' /\ cur' = cur
  <2>1. [state |-> "running", desired |-> TRUE] \in ObjectType
    BY DEF ObjectType, State
  <2>2. Running(i) \in BOOLEAN
    BY DEF Running
  <2>3. [state |-> "error", desired |-> Running(i)] \in ObjectType
    BY <2>2 DEF ObjectType, State
  <2>4. \E o \in ObjectType : Save(i, cur[i], o)
    BY <2>1, <2>3 DEF RebootFinishes, RebootFails
  <2> QED
    BY <2>4, SaveTypes DEF Types, Save
<1>5. RestOK' /\ CallsOK'
  BY <1>2 DEF Phase, Types, RestOK, RebootPhase, CallsOK
<1>6. Bounds'
  BY <1>2, <1>4 DEF Phase, Types, RestOK, Bounds
<1> QED
  BY <1>3, <1>4, <1>5, <1>6 DEF Types

\* Worker threads.
LEMMA EngineStepTypes ==
  ASSUME Types, Bounds, NEW e \in Engine, EngineStep(e)
  PROVE  Types' /\ Bounds'
<1>1. runtime' = runtime /\ cur' = cur /\ UNCHANGED <<control>>
  BY DEF EngineStep, EngineTransition, EngineReports, EngineExits, Save, objects
<1>2. CallsOK' /\ RestOK' /\ Bounds'
  BY <1>1 DEF control, Types, CallsOK, RestOK, Bounds
<1>3. RowsOK'
  <2>1. CASE UNCHANGED objects
    BY <2>1 DEF objects, Types, RowsOK
  <2>2. CASE EngineReports(e)
    <3> DEFINE i == eng[e].inst
    <3>1. Save(i, cur[i], Reported(i, eng[e].event))
      BY <2>2 DEF EngineReports
    <3>2. CASE i \in Instance
      <4>1. eng[e].event \in State
        BY <2>2 DEF EngineReports, Types, EnginesOK, EngineRecord
      <4> QED
        BY <3>1, <3>2, <4>1, SaveTypes, ReportedType DEF Types
    <3>3. CASE i \notin Instance
      BY <3>1, <3>3 DEF Save, Types, RowsOK
    <3> QED
      BY <3>2, <3>3
  <2> QED
    BY <2>1, <2>2 DEF EngineStep, EngineTransition, EngineExits
<1>4. EnginesOK'
  <2>1. ASSUME NEW s \in {"starting", "running", "error"}, EngineTransition(e, s)
        PROVE  eng' \in [Engine -> EngineRecord]
    <3> DEFINE v == IF eng[e].attached THEN s ELSE "none"
    <3>1. [eng EXCEPT ![e].state = s] \in [Engine -> EngineRecord]
      BY <2>1, EngineEdit DEF Types, EnginesOK, State
    <3>2. v \in State \cup {"none"}
      BY DEF State
    <3>3. [eng EXCEPT ![e].state = s, ![e].event = v] \in [Engine -> EngineRecord]
      BY <3>1, <3>2, EngineEdit
    <3> QED
      BY <2>1, <3>3 DEF EngineTransition
  <2>2. CASE EngineReports(e)
    BY <2>2, EngineEdit DEF EngineReports, Types, EnginesOK
  <2>3. CASE EngineExits(e)
    <3>1. [eng EXCEPT ![e].thread = "dead"] \in [Engine -> EngineRecord]
      BY EngineEdit DEF Types, EnginesOK
    <3>2. [eng EXCEPT ![e].thread = "dead", ![e].running = FALSE] \in [Engine -> EngineRecord]
      BY <3>1, EngineEdit
    <3>3. [eng EXCEPT ![e].thread = "dead", ![e].running = FALSE, ![e].open = FALSE]
            \in [Engine -> EngineRecord]
      BY <3>2, EngineEdit
    <3>4. [eng EXCEPT ![e].thread = "dead", ![e].running = FALSE, ![e].open = FALSE,
                      ![e].stopping = FALSE] \in [Engine -> EngineRecord]
      BY <3>3, EngineEdit
    <3>5. [eng EXCEPT ![e].thread = "dead", ![e].running = FALSE, ![e].open = FALSE,
                      ![e].stopping = FALSE, ![e].state = "stopped"] \in [Engine -> EngineRecord]
      BY <3>4, EngineEdit DEF State
    <3>6. eng' = [eng EXCEPT ![e].thread = "dead", ![e].running = FALSE, ![e].open = FALSE,
                             ![e].stopping = FALSE, ![e].state = "stopped"]
      BY <2>3, Zenon DEF EngineExits
    <3> QED
      BY <1>1, <3>5, <3>6 DEF Types, EnginesOK
  <2> QED
    BY <1>1, <2>1, <2>2, <2>3 DEF EngineStep, Types, EnginesOK
<1> QED
  BY <1>2, <1>3, <1>4 DEF Types

\* The sweep, and the process.
LEMMA SweepBeginsTypes ==
  ASSUME FiniteInstances, Types, Bounds, SweepBegins
  PROVE  Types' /\ Bounds'
<1>1. RowsOK' /\ CallsOK' /\ EnginesOK'
  BY DEF SweepBegins, objects, Types, RowsOK, CallsOK, EnginesOK
<1>2. todo' \in SUBSET (Instance \X Generation)
  BY DEF SweepBegins, Types, RowsOK
<1>3. running' \in Nat
  <2> DEFINE alive == {i \in Instance : Alive(i)}
  <2>1. IsFiniteSet(alive)
    BY FS_Subset DEF FiniteInstances
  <2>2. Cardinality(alive) \in Nat
    BY <2>1, FS_CardinalityType
  <2> QED
    BY <2>2 DEF SweepBegins
<1>4. RestOK'
  BY <1>2, <1>3 DEF SweepBegins, Types, RestOK
<1>5. Bounds'
  BY DEF SweepBegins, Bounds, objects
<1> QED
  BY <1>1, <1>4, <1>5 DEF Types

\* Visiting a candidate keeps the types.
LEMMA SweepVisitsTypes ==
  ASSUME Types, Bounds, NEW i \in Instance, NEW g \in Generation, SweepVisits(i, g)
  PROVE  Types' /\ Bounds'
<1>1. RowsOK' /\ EnginesOK' /\ mutex' = mutex /\ cur' = cur /\ reboot' = reboot
  BY DEF SweepVisits, objects, Types, RowsOK, EnginesOK
<1>2. RestOK'
  BY DEF SweepVisits, Types, RestOK
<1>3. CASE UNCHANGED call
  BY <1>1, <1>2, <1>3 DEF Types, CallsOK, Bounds
<1>4. ASSUME NEW op \in {"halt", "repair"}, NEW pc \in {"enter", "start"},
             NEW paused \in BOOLEAN, Visit(i, op, pc, paused)
      PROVE  Types' /\ Bounds'
  <2> DEFINE c == [Idle EXCEPT !.op = op, !.pc = pc, !.inst = i, !.paused = paused]
  <2>1. c \in CallRecord
    <3>1. [Idle EXCEPT !.op = op] \in CallRecord
      BY IdleType, CallRecordEdit DEF Op
    <3>2. [Idle EXCEPT !.op = op, !.pc = pc] \in CallRecord
      BY <3>1, CallRecordEdit DEF Pc
    <3>3. [Idle EXCEPT !.op = op, !.pc = pc, !.inst = i] \in CallRecord
      BY <3>2, CallRecordEdit
    <3> QED
      BY <3>3, CallRecordEdit
  <2>2. c.op = op /\ c.inst = i /\ op # "reset"
    BY DEF Idle
  <2>3. call' = [call EXCEPT ![Supervisor] = c]
    BY <1>4 DEF Visit
  <2> HIDE DEF c
  <2>4. CallsOK'
    BY <1>1, <2>1, <2>3 DEF Types, CallsOK
  <2>5. \A u \in Thread : call'[u] = IF u = Supervisor THEN c ELSE call[u]
    BY <2>3 DEF Types, CallsOK
  <2>6. Bounds'
    BY <1>1, <2>2, <2>5 DEF Bounds
  <2> QED
    BY <1>1, <1>2, <2>4, <2>6 DEF Types
<1>5. Visit(i, "repair", "start", obj[i][g].state = "paused") => Types' /\ Bounds'
  BY <1>4
<1>6. Visit(i, "halt", "enter", FALSE) => Types' /\ Bounds'
  BY <1>4
<1> QED
  BY <1>3, <1>5, <1>6 DEF SweepVisits

\* So does repairing it.
LEMMA SweepRepairsTypes ==
  ASSUME Types, Bounds, SweepRepairs
  PROVE  Types' /\ Bounds'
<1> DEFINE c == call[Supervisor]
           i == c.inst
<1>1. Supervisor \in Thread /\ i \in Instance /\ c.paused \in BOOLEAN
  BY DEF SweepRepairs, Bounds, Thread, Types, CallsOK, CallRecord
<1>2. RowsOK' /\ EnginesOK' /\ cur' = cur
  <2>1. CASE Joined(i) \/ StartFails(i) \/ Launched(i, c.paused)
    BY <1>1, <2>1, StartTypes DEF Types, Joined, StartFails, Launched, Build, Save, objects
  <2>2. CASE UNCHANGED <<objects, runtime, eng>>
    BY <2>2 DEF objects, Types, RowsOK, EnginesOK
  <2> QED
    BY <2>1, <2>2 DEF SweepRepairs
<1>3. RestOK' /\ mutex' = mutex /\ reboot' = reboot
  <2>1. running' \in Nat
    BY DEF SweepRepairs, Types, RestOK
  <2> QED
    BY <2>1 DEF SweepRepairs, Types, RestOK
<1>4. call' = [call EXCEPT ![Supervisor] = Idle]
  BY DEF SweepRepairs
<1>5. CallsOK'
  BY <1>3, <1>4, IdleType, CallEdit DEF Types, CallsOK
<1>6. \A u \in Thread : call'[u] = IF u = Supervisor THEN Idle ELSE call[u]
  BY <1>4 DEF Types, CallsOK
<1>7. Bounds'
  BY <1>2, <1>3, <1>6 DEF Bounds, Idle
<1> QED
  BY <1>2, <1>3, <1>5, <1>7 DEF Types

\* halt_runtime() keeps the types when it takes the mutex.
LEMMA HaltEntersTypes ==
  ASSUME Types, Bounds, HaltEnters
  PROVE  Types' /\ Bounds'
<1> DEFINE i == call[Supervisor].inst
           b == Begin(Supervisor, i, "halt", "signal")
<1>1. Supervisor \in Thread /\ i \in Instance
  BY DEF HaltEnters, Bounds, Thread
<1>2. b \in CallRecord /\ b.inst = i /\ b.op = "halt"
  <2>1. "signal" \in Pc /\ "halt" \in Op
    BY DEF Pc, Op
  <2> QED
    BY <1>1, <2>1, BeginType DEF Types, Begin, Idle
<1>3. call' = [call EXCEPT ![Supervisor] = b]
  BY DEF HaltEnters
<1>4. RowsOK' /\ EnginesOK' /\ RestOK'
  BY DEF HaltEnters, objects, Types, RowsOK, EnginesOK, RestOK
<1>5. CallsOK'
  BY <1>1, <1>2, <1>3 DEF HaltEnters, Types, CallsOK
<1>6. Bounds'
  BY <1>1, <1>2, <1>3 DEF HaltEnters, Bounds, Types, CallsOK, objects
<1> QED
  BY <1>4, <1>5, <1>6 DEF Types

\* So does it when it drops the runtime.
LEMMA HaltReturnsTypes ==
  ASSUME Types, Bounds, HaltReturns
  PROVE  Types' /\ Bounds'
<1> DEFINE c == call[Supervisor]
           o == [obj[c.inst][c.gen] EXCEPT !.state = "error"]
<1>1. Supervisor \in Thread /\ c.inst \in Instance /\ c.gen \in Generation
  BY DEF HaltReturns, Bounds, Thread, Types, CallsOK, CallRecord
<1>2. o \in ObjectType
  <2>1. obj[c.inst][c.gen] \in ObjectType
    BY <1>1 DEF Types, RowsOK
  <2> QED
    BY <2>1 DEF ObjectType, State
<1>3. Save(c.inst, c.gen, o)
  BY DEF HaltReturns
<1>4. RowsOK'
  BY <1>2, <1>3, SaveTypes DEF Types
<1>5. cur' = cur /\ reboot' = reboot
  BY <1>3 DEF HaltReturns, Save
<1>6. EnginesOK'
  BY DEF HaltReturns, Types, EnginesOK
<1>7. RestOK'
  BY DEF HaltReturns, Types, RestOK
<1> QED
  BY <1>1, <1>4, <1>5, <1>6, <1>7, ReturnTypes DEF Types, HaltReturns

\* The next process starts well-typed.
LEMMA ProcessRestartsTypes ==
  ASSUME Types, Bounds, ProcessRestarts
  PROVE  Types' /\ Bounds'
<1>1. PICK up \in SUBSET Wanted : \E over : Restores(up, over)
  BY DEF ProcessRestarts
<1>2. PICK over : Restores(up, over)
  BY <1>1
<1>3. RowsOK'
  <2>1. row' \in [Instance -> ObjectType]
    BY <1>2 DEF Restores, Types, RowsOK, ObjectType, State
  <2> QED
    BY <2>1, ConstantsAssumption DEF ProcessRestarts, RowsOK, Generation
<1>4. EnginesOK'
  <2> DEFINE Restored(e) ==
        IF \E i \in up : runtime'[i] = e
        THEN LET i == CHOOSE i \in up : runtime'[i] = e
             IN  Fresh(i, row[i].state = "paused")
        ELSE Blank
  <2>1. ASSUME NEW e \in Engine
        PROVE  Restored(e) \in EngineRecord
    <3>1. CASE \E i \in up : runtime'[i] = e
      <4> DEFINE i == CHOOSE i \in up : runtime'[i] = e
      <4>1. i \in Instance
        BY <3>1 DEF Wanted
      <4>2. Restored(e) = Fresh(i, row[i].state = "paused")
        BY <3>1
      <4> QED
        BY <4>1, <4>2, FreshType
    <3>2. CASE ~ \E i \in up : runtime'[i] = e
      <4>1. Restored(e) = Blank
        BY <3>2
      <4> QED
        BY <4>1, BlankType
    <3> QED
      BY <3>1, <3>2
  <2>2. eng' = [e \in Engine |-> Restored(e)] /\ runtime' \in [Instance -> Engine \cup {NoEngine}]
    BY <1>2 DEF Restores
  <2> HIDE DEF Restored
  <2> QED
    BY <2>1, <2>2 DEF EnginesOK
<1>5. CallsOK'
  BY IdleType DEF ProcessRestarts, CallsOK
<1>6. RestOK'
  BY ConstantsAssumption DEF ProcessRestarts, Types, RestOK, RebootPhase
<1>7. Bounds'
  BY DEF ProcessRestarts, Bounds, Idle
<1> QED
  BY <1>3, <1>4, <1>5, <1>6 , <1>7 DEF Types

\* Every step keeps the types.
LEMMA TypesNext ==
  ASSUME FiniteInstances, Types, Bounds, [Next]_vars
  PROVE  Types' /\ Bounds'
<1>1. ASSUME NEW t \in Caller, CallerStep(t) PROVE Types' /\ Bounds'
  BY <1>1, OperatorStartTypes, EnterTypes, UpdateConfigurationTypes, ResetBeginsTypes,
     RebootRequestTypes, StopReturnsTypes, PauseGateTypes, PauseReturnsTypes,
     ResumeReturnsTypes, ResetEntersTypes, ResetSwapsTypes DEF CallerStep
<1>2. ASSUME NEW t \in Thread, StopSignal(t) \/ StopJoin(t) PROVE Types' /\ Bounds'
  BY <1>2, StopSignalTypes, StopJoinTypes
<1>3. ASSUME NEW i \in Instance, RebootStep(i) PROVE Types' /\ Bounds'
  BY <1>3, RebootStopTypes, RebootJoinTypes, RebootClearTypes, RebootReloadTypes,
     RebootStartTypes, RebootOpensTypes, RebootEndTypes DEF RebootStep
<1>4. CASE SweepStep
  BY <1>4, SweepBeginsTypes, SweepVisitsTypes, SweepRepairsTypes, HaltEntersTypes,
     HaltReturnsTypes DEF SweepStep
<1>5. CASE UNCHANGED vars
  BY <1>5 DEF vars, Types, RowsOK, EnginesOK, CallsOK, RestOK, Bounds
<1> QED
  BY <1>1, <1>2, <1>3, <1>4, <1>5, EngineStepTypes, ProcessRestartsTypes DEF Next

\* Type correctness, whatever operators, sweeps, reboots, account restarts and
\* process restarts interleave.
THEOREM TypeCorrect ==
  ASSUME FiniteInstances
  PROVE  Spec => []TypeOK
<1>1. Types /\ Bounds /\ [Next]_vars => Types' /\ Bounds'
  BY TypesNext
<1> QED
  BY <1>1, TypesInit, Typing, PTL DEF Spec

-----------------------------------------------------------------------------
(* What a step may do to engines.                                            *)

\* e still takes new candles.
Takes(e) == eng[e].thread = "alive" /\ ~eng[e].stopping

\* A step keeps e for its instance and neither revives nor restarts it.
Tame(e) ==
  /\ eng'[e].inst = eng[e].inst
  /\ eng'[e].running => eng[e].running
  /\ Takes(e)' => Takes(e) /\ (eng[e].running => eng'[e].running)

Shut(e) == eng'[e].open => eng[e].open

\* Engines that do not change at all do nothing forbidden.
LEMMA KeptEngines ==
  ASSUME eng' = eng
  PROVE  \A e \in Engine : Tame(e) /\ Shut(e)
BY DEF Tame, Shut, Takes

\* Setting a stop event tames the engine and revives none.
LEMMA SignalledEngine ==
  ASSUME EnginesOK, NEW d, eng' = [eng EXCEPT ![d].stopping = TRUE]
  PROVE  /\ \A e \in Engine : Tame(e) /\ Shut(e)
         /\ d \in Engine => ~Takes(d)'
BY DEF EnginesOK, EngineRecord, Tame, Shut, Takes

\* An engine's status matters to none of this.
LEMMA StatedEngine ==
  ASSUME EnginesOK, NEW d, NEW s, eng' = [eng EXCEPT ![d].state = s]
  PROVE  \A e \in Engine : Tame(e) /\ Shut(e)
BY DEF EnginesOK, EngineRecord, Tame, Shut, Takes

\* Neither does a transition of the worker with its pending report.
LEMMA TransitedEngine ==
  ASSUME EnginesOK, NEW d, NEW s, NEW v, eng' = [eng EXCEPT ![d].state = s, ![d].event = v]
  PROVE  \A e \in Engine : Tame(e) /\ Shut(e)
<1> DEFINE f == [eng EXCEPT ![d].state = s]
<1>1. \A e \in Engine : /\ f[e].inst = eng[e].inst /\ f[e].running = eng[e].running
                        /\ f[e].thread = eng[e].thread /\ f[e].stopping = eng[e].stopping
                        /\ f[e].open = eng[e].open
  BY DEF EnginesOK, EngineRecord
<1>2. f \in [Engine -> [inst : Instance \cup {NoInstance}, thread : {"none", "alive", "dead"},
         running : BOOLEAN, stopping : BOOLEAN, open : BOOLEAN, attached : BOOLEAN,
         state : State \cup {s}, event : State \cup {"none"}]]
  BY DEF EnginesOK, EngineRecord
<1>3. eng' = [f EXCEPT ![d].event = v]
  OBVIOUS
<1> HIDE DEF f
<1> QED
  BY <1>1, <1>2, <1>3 DEF Tame, Shut, Takes

\* Neither does a delivered report.
LEMMA ReportedEngine ==
  ASSUME EnginesOK, NEW d, NEW v, eng' = [eng EXCEPT ![d].event = v]
  PROVE  \A e \in Engine : Tame(e) /\ Shut(e)
BY DEF EnginesOK, EngineRecord, Tame, Shut, Takes

\* Closing a gate opens none.
LEMMA ClosedEngine ==
  ASSUME EnginesOK, NEW d, eng' = [eng EXCEPT ![d].open = FALSE]
  PROVE  /\ \A e \in Engine : Tame(e) /\ Shut(e)
         /\ d \in Engine => ~eng'[d].open
BY DEF EnginesOK, EngineRecord, Tame, Shut, Takes

\* Opening a gate opens that one only.
LEMMA OpenedEngine ==
  ASSUME EnginesOK, NEW d, eng' = [eng EXCEPT ![d].open = TRUE]
  PROVE  \A e \in Engine : Tame(e) /\ (e # d => Shut(e))
BY DEF EnginesOK, EngineRecord, Tame, Shut, Takes

\* Closing a gate and detaching the callback opens none and revives none.
LEMMA DetachedEngine ==
  ASSUME EnginesOK, NEW d, eng' = [eng EXCEPT ![d].open = FALSE, ![d].attached = FALSE]
  PROVE  \A e \in Engine : Tame(e) /\ Shut(e)
BY DEF EnginesOK, EngineRecord, Tame, Shut, Takes

\* Giving up an engine that takes no candles stops no worker that does.
LEMMA JoinedEngine ==
  ASSUME EnginesOK, NEW d, d \in Engine => ~Takes(d),
         eng' = [eng EXCEPT ![d].running = FALSE, ![d].state = "stopped"]
  PROVE  \A e \in Engine : Tame(e) /\ Shut(e)
BY DEF EnginesOK, EngineRecord, Tame, Shut, Takes

\* A thread that returns takes no candles and opens nothing.
LEMMA ExitedEngine ==
  ASSUME EnginesOK, NEW d,
         eng' = [eng EXCEPT ![d].thread = "dead", ![d].running = FALSE, ![d].open = FALSE,
                            ![d].stopping = FALSE, ![d].state = "stopped"]
  PROVE  \A e \in Engine : Tame(e) /\ Shut(e)
<1> SUFFICES ASSUME NEW e \in Engine PROVE Tame(e) /\ Shut(e)
  OBVIOUS
<1>1. CASE e = d
  <2>1. /\ eng'[d].thread = "dead" /\ eng'[d].running = FALSE /\ eng'[d].open = FALSE
        /\ eng'[d].inst = eng[d].inst
    BY <1>1 DEF EnginesOK, EngineRecord
  <2> QED
    BY <1>1, <2>1 DEF Tame, Shut, Takes
<1>2. CASE e # d
  BY <1>2 DEF EnginesOK, Tame, Shut, Takes
<1> QED
  BY <1>1, <1>2

\* The engines as an edit leaves them before it builds a new one.
LEMMA RetiredEngines ==
  ASSUME EnginesOK, NEW i \in Instance, NEW late \in BOOLEAN, NEW e \in Engine
  PROVE  LET old == Retired(i, late)[e] IN
         /\ old.inst = eng[e].inst
         /\ old.open = eng[e].open
         /\ old.running => eng[e].running
         /\ e # runtime[i] => old = eng[e]
         /\ e = runtime[i] => ~(old.thread = "alive" /\ ~old.stopping)
<1>1. CASE e = runtime[i]
  <2>1. e # NoEngine
    BY ConstantsAssumption
  <2>2. /\ Retired(i, late)[e].inst = eng[e].inst
        /\ Retired(i, late)[e].open = eng[e].open
        /\ Retired(i, late)[e].running = FALSE
        /\ Retired(i, late)[e].stopping = TRUE
    BY <1>1, <2>1 DEF Retired, EnginesOK, EngineRecord
  <2> QED
    BY <1>1, <2>2
<1>2. CASE e # runtime[i]
  <2>1. Retired(i, late)[e] = eng[e]
    BY <1>2 DEF Retired, EnginesOK
  <2> QED
    BY <1>2, <2>1
<1> QED
  BY <1>1, <1>2

-----------------------------------------------------------------------------
(* The slot limit.                                                           *)

\* No instance gains a running worker.
Fewer == \A i \in Instance : Running(i)' => Running(i)

\* Only i does, and there was a slot for it.
Fills(i) == SlotFree(i) /\ \A j \in Instance \ {i} : Running(j)' => Running(j)

\* Tame engines and registry entries only dropped leave no more running
\* workers.
LEMMA TameFewer ==
  ASSUME EnginesOK, EnginesOK',
         \A e \in Engine : eng'[e].running => eng[e].running,
         \A i \in Instance : runtime'[i] \in {runtime[i], NoEngine}
  PROVE  Fewer
<1> SUFFICES ASSUME NEW i \in Instance, runtime'[i] # NoEngine, eng'[runtime'[i]].running
             PROVE  runtime[i] # NoEngine /\ eng[runtime[i]].running
  BY DEF Fewer, Running
<1>1. runtime'[i] = runtime[i] /\ runtime[i] \in Engine
  BY DEF EnginesOK
<1> QED
  BY <1>1

\* A new engine fills a slot that was free.
LEMMA ReplaceFills ==
  ASSUME EnginesOK, NEW i \in Instance, NEW closed, NEW engines \in [Engine -> EngineRecord],
         \A e \in Engine : engines[e].running => eng[e].running,
         Replace(i, closed, engines)
  PROVE  Fills(i)
<1>1. PICK e \in Engine : /\ Spare(e)
                          /\ eng' = [engines EXCEPT ![e] = Fresh(i, closed)]
                          /\ runtime' = [runtime EXCEPT ![i] = e]
  BY DEF Replace
<1>2. ASSUME NEW j \in Instance \ {i}, runtime'[j] # NoEngine, eng'[runtime'[j]].running
      PROVE  runtime[j] # NoEngine /\ eng[runtime[j]].running
  <2>1. runtime'[j] = runtime[j] /\ runtime[j] \in Engine /\ runtime[j] # e
    BY <1>1, <1>2 DEF EnginesOK, Spare
  <2>2. eng'[runtime[j]] = engines[runtime[j]]
    BY <1>1, <2>1
  <2> QED
    BY <1>2, <2>1, <2>2
<1>3. SlotFree(i)
  BY DEF Replace
<1> QED
  BY <1>2, <1>3 DEF Fills, Running

\* Such steps keep the limit.
LEMMA LimitKept ==
  ASSUME FiniteInstances, SlotLimit, Fewer \/ \E i \in Instance : Fills(i)
  PROVE  SlotLimit'
<1> DEFINE up == {i \in Instance : Running(i)}
           new == {i \in Instance : Running(i)'}
<1>1. IsFiniteSet(up) /\ IsFiniteSet(new)
  BY FS_Subset DEF FiniteInstances
<1>2. Cardinality(up) \in Nat /\ Cardinality(new) \in Nat /\ MaxSlots \in Nat
  BY <1>1, FS_CardinalityType, ConstantsAssumption
<1>3. CASE Fewer
  <2>1. new \subseteq up
    BY <1>3 DEF Fewer
  <2>2. Cardinality(new) <= Cardinality(up)
    BY <1>1, <2>1, FS_Subset
  <2> QED
    BY <1>2, <2>2 DEF SlotLimit
<1>4. ASSUME NEW i \in Instance, Fills(i) PROVE SlotLimit'
  <2> DEFINE others == {j \in Instance \ {i} : Running(j)}
  <2>1. IsFiniteSet(others) /\ i \notin others
    BY FS_Subset DEF FiniteInstances
  <2>2. Cardinality(others) \in Nat /\ Cardinality(others) < MaxSlots
    BY <1>4, <2>1, FS_CardinalityType DEF Fills, SlotFree
  <2>3. new \subseteq others \cup {i}
    BY <1>4 DEF Fills
  <2>4. IsFiniteSet(others \cup {i}) /\ Cardinality(others \cup {i}) = Cardinality(others) + 1
    BY <2>1, FS_AddElement
  <2>5. Cardinality(new) <= Cardinality(others) + 1
    BY <2>3, <2>4, FS_Subset
  <2> QED
    BY <1>2, <2>2, <2>5 DEF SlotLimit
<1> QED
  BY <1>3, <1>4

\* A start fills a free slot or none.
LEMMA StartLimit ==
  ASSUME EnginesOK, EnginesOK', NEW i \in Instance, NEW closed,
         Joined(i) \/ StartFails(i) \/ Launched(i, closed)
  PROVE  Fewer \/ Fills(i)
<1>1. CASE Joined(i) \/ StartFails(i)
  <2>1. eng' = eng /\ \A j \in Instance : runtime'[j] \in {runtime[j], NoEngine}
    BY <1>1 DEF Joined, StartFails, EnginesOK
  <2> QED
    BY <2>1, TameFewer
<1>2. CASE Launched(i, closed)
  <2>1. Replace(i, closed, eng)
    BY <1>2 DEF Launched, Build
  <2> QED
    BY <2>1, ReplaceFills DEF EnginesOK
<1> QED
  BY <1>1, <1>2

\* Each step but the start of a process fills at most one free slot.
LEMMA CallLimit ==
  ASSUME Types, Bounds, Types', NEW t \in Caller, CallerStep(t)
  PROVE  Fewer \/ \E i \in Instance : Fills(i)
<1> USE DEF Types
<1>0. EnginesOK /\ EnginesOK' /\ t \in Thread
  BY DEF Thread
<1>1. ASSUME NEW i \in Instance, OperatorStart(t, i)
      PROVE  Fewer \/ Fills(i)
  BY <1>0, <1>1, StartLimit DEF OperatorStart
<1>2. ASSUME UNCHANGED <<runtime, eng>>
      PROVE  Fewer
  BY <1>0, <1>2, TameFewer
<1>3. ASSUME NEW i \in Instance, UpdateConfiguration(t, i)
      PROVE  Fewer \/ Fills(i)
  <2>1. PICK late \in BOOLEAN :
          \/ \E closed \in BOOLEAN : Replace(i, closed, Retired(i, late))
          \/ /\ eng' = Retired(i, late)
             /\ runtime' = [runtime EXCEPT ![i] = NoEngine]
    BY <1>3 DEF UpdateConfiguration, Late, Build
  <2>2. /\ Retired(i, late) \in [Engine -> EngineRecord]
        /\ \A e \in Engine : Retired(i, late)[e].running => eng[e].running
    BY <1>0, RetiredType, RetiredEngines
  <2>3. ASSUME NEW closed \in BOOLEAN, Replace(i, closed, Retired(i, late)) PROVE Fills(i)
    BY <1>0, <2>2, <2>3, ReplaceFills
  <2>4. CASE /\ eng' = Retired(i, late)
             /\ runtime' = [runtime EXCEPT ![i] = NoEngine]
    <3>1. \A j \in Instance : runtime'[j] \in {runtime[j], NoEngine}
      BY <2>4 DEF EnginesOK
    <3> QED
      BY <1>0, <2>2, <2>4, <3>1, TameFewer
  <2> QED
    BY <2>1, <2>3, <2>4
<1>4. ASSUME NEW i \in Instance, ResetBegins(t, i) PROVE Fewer
  <2>1. runtime' = runtime /\ (eng' = eng \/ eng' = [eng EXCEPT ![runtime[i]].open = FALSE])
    BY <1>4 DEF ResetBegins
  <2> QED
    BY <1>0, <2>1, TameFewer, ClosedEngine DEF Tame
<1>5. ASSUME NEW i \in Instance, RebootRequest(t, i) PROVE Fewer
  <2>1. /\ runtime' = runtime
        /\ \/ eng' = eng
           \/ eng' = [eng EXCEPT ![runtime[i]].open = FALSE, ![runtime[i]].attached = FALSE]
    BY <1>5 DEF RebootRequest
  <2> QED
    BY <1>0, <2>1, TameFewer, DetachedEngine DEF Tame
<1>6. CASE PauseGate(t)
  <2>1. /\ runtime' = runtime
        /\ eng' = eng \/ eng' = [eng EXCEPT ![call[t].eng].open = FALSE]
    BY <1>6 DEF PauseGate
  <2> QED
    BY <1>0, <2>1, TameFewer, ClosedEngine DEF Tame
<1>7. CASE ResumeReturns(t)
  <2> DEFINE i == call[t].inst
  <2>1. i \in Instance
    BY <1>0, <1>7 DEF ResumeReturns, Bounds
  <2>2. \/ runtime' = runtime /\ eng' = [eng EXCEPT ![call[t].eng].open = TRUE]
        \/ UNCHANGED <<runtime, eng>>
        \/ Joined(i) \/ StartFails(i) \/ Launched(i, FALSE)
    BY <1>7 DEF ResumeReturns
  <2> QED
    BY <1>0, <1>2, <2>1, <2>2, TameFewer, OpenedEngine, StartLimit DEF Tame
<1>8. CASE ResetSwaps(t)
  <2> DEFINE i == call[t].inst
  <2>1. i \in Instance
    BY <1>0, <1>8 DEF ResetSwaps, Bounds
  <2>2. \/ UNCHANGED <<runtime, eng>>
        \/ \E closed \in BOOLEAN : Replace(i, closed, eng)
        \/ eng' = eng /\ runtime' = [runtime EXCEPT ![i] = NoEngine]
    BY <1>0, <1>8 DEF ResetSwaps, Build, CallsOK, CallRecord, EnginesOK
  <2>3. CASE eng' = eng /\ runtime' = [runtime EXCEPT ![i] = NoEngine]
    <3>1. \A j \in Instance : runtime'[j] \in {runtime[j], NoEngine}
      BY <2>3 DEF EnginesOK
    <3> QED
      BY <1>0, <2>3, <3>1, TameFewer
  <2>4. ASSUME NEW closed \in BOOLEAN, Replace(i, closed, eng) PROVE Fills(i)
    BY <1>0, <2>1, <2>4, ReplaceFills DEF EnginesOK
  <2> QED
    BY <1>2, <2>1, <2>2, <2>3, <2>4
<1>9. StopReturns(t) \/ PauseReturns(t) \/ ResetEnters(t)
        \/ (\E i \in Instance, op \in {"stop", "pause", "resume"} : Enter(t, i, op))
      => UNCHANGED <<runtime, eng>>
  BY DEF StopReturns, PauseReturns, ResetEnters, Enter
<1> QED
  BY <1>1, <1>2, <1>3, <1>4, <1>5, <1>6, <1>7, <1>8, <1>9 DEF CallerStep

\* Giving up a worker makes none run.
LEMMA JoinedRunsNot ==
  ASSUME EnginesOK, NEW d, eng' = [eng EXCEPT ![d].running = FALSE, ![d].state = "stopped"]
  PROVE  \A e \in Engine : eng'[e].running => eng[e].running
BY DEF EnginesOK, EngineRecord

\* engine.stop() fills no slot.
LEMMA StopLimit ==
  ASSUME Types, Types', NEW t \in Thread, StopSignal(t) \/ StopJoin(t)
  PROVE  Fewer
<1> DEFINE d == call[t].eng
<1>1. /\ runtime' = runtime
      /\ \/ eng' = eng
         \/ eng' = [eng EXCEPT ![d].stopping = TRUE]
         \/ eng' = [eng EXCEPT ![d].state = "stopped"]
         \/ eng' = [eng EXCEPT ![d].running = FALSE, ![d].state = "stopped"]
  BY DEF StopSignal, StopJoin
<1> QED
  BY <1>1, TameFewer, SignalledEngine, StatedEngine, JoinedRunsNot DEF Tame, Types

\* A worker thread's own steps touch no registry, call or reboot, and revive
\* nothing.
LEMMA EngineStepChange ==
  ASSUME Types, NEW d \in Engine, EngineStep(d)
  PROVE  /\ UNCHANGED <<runtime, control>>
         /\ \A e \in Engine : Tame(e) /\ Shut(e)
<1>1. ASSUME NEW s, EngineTransition(d, s)
      PROVE  UNCHANGED <<runtime, control>> /\ \A e \in Engine : Tame(e) /\ Shut(e)
  <2>1. \E v : eng' = [eng EXCEPT ![d].state = s, ![d].event = v]
    BY <1>1 DEF EngineTransition
  <2>2. UNCHANGED <<runtime, control>>
    BY <1>1 DEF EngineTransition
  <2> QED
    BY <2>1, <2>2, TransitedEngine DEF Types
<1>2. CASE EngineReports(d)
  BY <1>2, ReportedEngine DEF EngineReports, Types
<1>3. CASE EngineExits(d)
  <2>1. eng' = [eng EXCEPT ![d].thread = "dead", ![d].running = FALSE, ![d].open = FALSE,
                           ![d].stopping = FALSE, ![d].state = "stopped"]
    BY <1>3, Zenon DEF EngineExits
  <2>2. UNCHANGED <<runtime, control>>
    BY <1>3, Zenon DEF EngineExits
  <2> QED
    BY <2>1, <2>2, ExitedEngine DEF Types
<1> QED
  BY <1>1, <1>2, <1>3 DEF EngineStep

\* A reboot fills the slot of its replacement at most.
LEMMA RebootLimit ==
  ASSUME Types, Types', NEW i \in Instance, RebootStep(i)
  PROVE  Fewer \/ Fills(i)
<1> DEFINE e == runtime[i]
           d == rebooting[i]
<1>1. CASE RebootStart(i)
  BY <1>1, StartLimit DEF RebootStart, Types
<1>2. CASE RebootClear(i)
  <2>1. eng' = eng /\ \A j \in Instance : runtime'[j] \in {runtime[j], NoEngine}
    BY <1>2 DEF RebootClear, Types, EnginesOK
  <2> QED
    BY <2>1, TameFewer DEF Types
<1>3. CASE ~RebootStart(i) /\ ~RebootClear(i)
  <2>1. /\ runtime' = runtime
        /\ \/ eng' = eng
           \/ eng' = [eng EXCEPT ![e].stopping = TRUE]
           \/ eng' = [eng EXCEPT ![e].state = "stopped"]
           \/ eng' = [eng EXCEPT ![d].running = FALSE, ![d].state = "stopped"]
           \/ eng' = [eng EXCEPT ![d].open = TRUE]
           \/ eng' = [eng EXCEPT ![e].open = FALSE]
    BY <1>3 DEF RebootStep, RebootStop, RebootJoin, RebootReload, RebootOpens, RebootFinishes,
                RebootFails
  <2> QED
    BY <2>1, TameFewer, SignalledEngine, StatedEngine, JoinedRunsNot, OpenedEngine, ClosedEngine
    DEF Tame, Types
<1> QED
  BY <1>1, <1>2, <1>3

\* A sweep fills the slot of the worker it repairs at most.
LEMMA SweepLimit ==
  ASSUME Types, Bounds, Types', SweepStep
  PROVE  Fewer \/ \E i \in Instance : Fills(i)
<1> USE DEF Types
<1>1. ASSUME UNCHANGED <<runtime, eng>> PROVE Fewer
  BY <1>1, TameFewer
<1>2. CASE SweepRepairs
  <2> DEFINE c == call[Supervisor]
  <2>1. c.inst \in Instance
    BY <1>2 DEF SweepRepairs, Bounds, Thread
  <2>2. \/ UNCHANGED <<runtime, eng>>
        \/ Joined(c.inst) \/ StartFails(c.inst) \/ Launched(c.inst, c.paused)
    BY <1>2 DEF SweepRepairs
  <2> QED
    BY <1>1, <2>1, <2>2, StartLimit
<1>3. CASE HaltReturns
  <2>1. eng' = eng /\ \A j \in Instance : runtime'[j] \in {runtime[j], NoEngine}
    BY <1>3 DEF HaltReturns, EnginesOK
  <2> QED
    BY <2>1, TameFewer
<1>4. SweepBegins \/ HaltEnters \/ (\E i \in Instance, g \in Generation : SweepVisits(i, g))
        => UNCHANGED <<runtime, eng>>
  BY DEF SweepBegins, HaltEnters, SweepVisits
<1> QED
  BY <1>1, <1>2, <1>3, <1>4 DEF SweepStep

\* The next process restores no more workers than there are slots.
LEMMA RestartLimit ==
  ASSUME FiniteInstances, ProcessRestarts
  PROVE  SlotLimit'
<1>1. PICK up \in SUBSET Wanted : Cardinality(up) <= MaxSlots /\ \E over : Restores(up, over)
  BY DEF ProcessRestarts
<1> DEFINE new == {i \in Instance : Running(i)'}
<1>2. new \subseteq up
  BY <1>1 DEF Restores, Running
<1>3. IsFiniteSet(up)
  BY FS_Subset DEF FiniteInstances, Wanted
<1>4. Cardinality(new) <= Cardinality(up) /\ IsFiniteSet(new)
  BY <1>2, <1>3, FS_Subset
<1>5. Cardinality(new) \in Nat /\ Cardinality(up) \in Nat /\ MaxSlots \in Nat
  BY <1>3, <1>4, FS_CardinalityType, ConstantsAssumption
<1> QED
  BY <1>1, <1>4, <1>5 DEF SlotLimit

\* Initially no slot is used.
LEMMA LimitInit ==
  ASSUME Init
  PROVE  SlotLimit
<1>1. {i \in Instance : Running(i)} = {}
  BY DEF Init, Running
<1> QED
  BY <1>1, FS_EmptySet, ConstantsAssumption DEF SlotLimit

\* Every step keeps the limit.
LEMMA LimitNext ==
  ASSUME FiniteInstances, Types, Bounds, SlotLimit, [Next]_vars
  PROVE  SlotLimit'
<1>0. Types'
  BY TypesNext
<1>1. ASSUME NEW t \in Caller, CallerStep(t) PROVE SlotLimit'
  BY <1>0, <1>1, CallLimit, LimitKept
<1>2. ASSUME NEW t \in Thread, StopSignal(t) \/ StopJoin(t) PROVE SlotLimit'
  BY <1>0, <1>2, StopLimit, LimitKept
<1>3. ASSUME NEW i \in Instance, RebootStep(i) PROVE SlotLimit'
  BY <1>0, <1>3, RebootLimit, LimitKept
<1>4. ASSUME NEW e \in Engine, EngineStep(e) PROVE SlotLimit'
  BY <1>0, <1>4, EngineStepChange, TameFewer, LimitKept DEF Tame, Types
<1>5. CASE SweepStep
  BY <1>0, <1>5, SweepLimit, LimitKept
<1>6. CASE UNCHANGED vars
  BY <1>0, <1>6, TameFewer, LimitKept DEF vars, Types
<1> QED
  BY <1>1, <1>2, <1>3, <1>4, <1>5, <1>6, RestartLimit DEF Next

\* The account-level limit on active slots holds for every number of instances,
\* callers and slots, and for every set of requests, the account restart included:
\* start() counts the running workers in the section that registers one more.
THEOREM SlotLimitTheorem ==
  ASSUME FiniteInstances
  PROVE  Spec => []SlotLimit
<1>1. Init => Types /\ Bounds /\ SlotLimit
  BY TypesInit, LimitInit
<1>2. Types /\ Bounds /\ SlotLimit /\ [Next]_vars => Types' /\ Bounds' /\ SlotLimit'
  BY TypesNext, LimitNext
<1> QED
  BY <1>1, <1>2, PTL DEF Spec

-----------------------------------------------------------------------------
(* One worker per account.                                                   *)

\* Without account restarts: their second section drops whatever engine is
\* registered, running or not.
NoAccountRestart == "reset" \notin Requests

\* An account that was never swapped has at most one worker, the one the registry
\* holds. Its operators may have asked for a swap: only the swap itself, which drops
\* whatever engine is registered by then, can leave a worker behind.
OneWorkerUntilSwap == \A i \in Instance : session[i] = 0 => Working(i) \subseteq {runtime[i]}

\* The operations that stop an engine.
Stoppers == {"stop", "halt", "reset"}

\* t holds the lifecycle mutex of its instance.
Mine(t) ==
  \/ call[t].op \in {"stop", "pause", "resume"}
  \/ call[t].op = "halt" /\ call[t].pc # "enter"
  \/ call[t].op = "reset" /\ call[t].pc \in {"signal", "join", "write"}

\* The mutex protects the registry entry a call works on: only a reboot, which
\* does not take it, removes the entry meanwhile, and none replaces it.
Registered ==
  \A t \in Thread : Mine(t) =>
    /\ mutex[call[t].inst] = t
    /\ runtime[call[t].inst] \in {call[t].eng, NoEngine}

\* A registry entry, a reboot and a call only ever refer to engines of their
\* own instance.
Belongs ==
  /\ \A i \in Instance : runtime[i] \in Engine => eng[runtime[i]].inst = i
  /\ \A i \in Instance : rebooting[i] \in Engine => eng[rebooting[i]].inst = i
  /\ \A t \in Thread : call[t].eng \in Engine => eng[call[t].eng].inst = call[t].inst

\* Whoever is past the signal of a stop, or has joined in a reboot, has an
\* engine that takes no more candles.
Quiet ==
  /\ \A t \in Thread :
       call[t].op \in Stoppers /\ call[t].pc \in {"join", "write"} /\ call[t].eng \in Engine
         => ~Takes(call[t].eng)
  /\ \A i \in Instance :
       reboot[i] = "clearing" /\ rebooting[i] \in Engine => ~Takes(rebooting[i])

\* A pause finds no reboot about to open a gate, and closes the one it found.
Gated ==
  \A t \in Thread : call[t].op = "pause" =>
    /\ call[t].pc \in {"gate", "write"}
    /\ reboot[call[t].inst] # "verifying"
    /\ call[t].pc = "write" /\ call[t].eng \in Engine => ~eng[call[t].eng].open

\* A worker that takes candles counts as running.
Live == \A e \in Engine : Takes(e) => eng[e].running

\* Only stoppers stop.
Stopping == \A t \in Thread : call[t].pc \in {"signal", "join"} => call[t].op \in Stoppers

\* Where no account restart is requested, none is under way and none was.
Unswapped ==
  NoAccountRestart => /\ \A t \in Thread : call[t].op # "reset"
                      /\ \A i \in Instance : session[i] = 0

\* All of it together: what every step keeps.
Owner ==
  /\ OneWorkerUntilSwap /\ Live
  /\ Registered /\ Belongs /\ Quiet /\ Gated /\ Stopping /\ Unswapped

\* What a step may do to the registry: drop an entry whose worker takes no more
\* candles, unless the account is swapped, or put a new engine in its place while
\* nobody else has the mutex.
New(e, i) ==
  /\ Spare(e) /\ runtime'[i] = e
  /\ eng'[e].inst = i /\ eng'[e].running
  /\ Nobody \in {mutex[i], mutex'[i]}

\* The two that may open the gate of e.
Opens(e) ==
  \/ \E i \in Instance : reboot[i] = "verifying" /\ rebooting[i] = e
  \/ \E t \in Thread : call[t].op = "resume" /\ call[t].eng = e

\* What a step may do to engines, the registry, the reboots and the calls.
EngineChange ==
  \A e \in Engine :
    \/ Tame(e) /\ (Shut(e) \/ Opens(e))
    \/ \E i \in Instance : New(e, i)

RegistryChange ==
  \A i \in Instance :
    \/ runtime'[i] = runtime[i]
    \/ /\ \/ runtime'[i] = NoEngine
          \/ runtime'[i] \in Engine /\ New(runtime'[i], i)
       /\ session'[i] = 0 => \A e \in Engine : runtime[i] = e => ~Takes(e)'

RebootChange ==
  \A i \in Instance :
    /\ reboot'[i] = "verifying" => reboot[i] = "verifying" \/ Free(i)
    /\ rebooting'[i] \in {rebooting[i], runtime'[i], NoEngine}
    /\ reboot'[i] = "clearing" =>
         \/ reboot[i] = "clearing" /\ rebooting'[i] = rebooting[i]
         \/ \A e \in Engine : rebooting'[i] = e => ~Takes(e)'

Begins(t) ==
  \E i \in Instance :
    /\ \A u \in Thread : u # t => call'[u] = call[u]
    /\ call'[t].inst = i /\ call'[t].eng = runtime[i]
    /\ call'[t].op \in Stoppers \cup {"pause", "resume"}
    /\ call'[t].pc = IF call'[t].op \in Stoppers THEN "signal" ELSE "gate"
    /\ call'[t].op = "pause" => reboot'[i] # "verifying"
    /\ call'[t].op = "reset" => call[t].op = "reset"
    /\ Free(i) /\ mutex' = [mutex EXCEPT ![i] = t]
    /\ runtime' = runtime /\ eng' = eng

Moves(t) ==
  \E pc \in {"join", "write"} :
    /\ Goto(t, pc) /\ mutex' = mutex /\ call[t].pc \notin {"enter", "swap"}
    /\ call[t].op = "reset" => call[t].pc \in {"signal", "join"}
    /\ pc = "join" => call[t].op \in Stoppers
    /\ \A e \in Engine : call[t].eng = e =>
         /\ call[t].op \in Stoppers => ~Takes(e)'
         /\ call[t].op = "pause" => ~eng'[e].open

Drops(t) ==
  /\ \A u \in Thread : u # t => call'[u] = call[u]
  /\ mutex' = mutex /\ call'[t].eng = NoEngine
  /\ call'[t].op \in {"none", "repair", "halt"}
  /\ call'[t].op = "halt" => call'[t].pc = "enter"
  /\ call'[t].pc \notin {"signal", "join", "write"}

\* An account restart waits for its two sections without the mutex.
Asks(t) ==
  /\ \A u \in Thread : u # t => call'[u] = call[u]
  /\ "reset" \in Requests /\ call'[t].op = "reset" /\ call'[t].pc \in {"enter", "swap"}
  /\ call'[t].inst \in Instance /\ call'[t].eng = runtime'[call'[t].inst]
  /\ mutex' = mutex

Hands(t) ==
  /\ call[t].op = "reset" /\ Goto(t, "swap")
  /\ mutex' = [mutex EXCEPT ![call[t].inst] = Nobody]

CallChange ==
  \/ UNCHANGED <<call, mutex>>
  \/ \E t \in Thread :
       Begins(t) \/ Moves(t) \/ (Mine(t) /\ (Return(t) \/ Hands(t))) \/ Drops(t) \/ Asks(t)

\* Only an account restart swaps an account, and no swap is undone.
SessionChange ==
  \A i \in Instance :
    \/ session'[i] = session[i]
    \/ session'[i] # 0 /\ \E t \in Thread : call[t].op = "reset"

Change == EngineChange /\ RegistryChange /\ RebootChange /\ CallChange

\* The ownership invariant holds initially.
LEMMA OwnerInit ==
  ASSUME Init
  PROVE  Owner
<1> USE ConstantsAssumption DEF Init
<1>1. OneWorkerUntilSwap /\ Live
  BY DEF OneWorkerUntilSwap, Working, Live, Takes, Blank
<1>2. Registered /\ Gated /\ Quiet /\ Stopping /\ Unswapped
  BY DEF Registered, Mine, Idle, Gated, Quiet, Stoppers, Stopping, Unswapped
<1>3. Belongs
  BY DEF Belongs, Idle
<1> QED
  BY <1>1, <1>2, <1>3 DEF Owner

\* No such change makes a second worker of an account that is not swapped.
LEMMA WorkersKept ==
  ASSUME Types, Types', OneWorkerUntilSwap, Live, EngineChange, RegistryChange, SessionChange
  PROVE  OneWorkerUntilSwap' /\ Live'
<1>1. Live'
  BY DEF Live, EngineChange, Tame, New
<1>2. ASSUME NEW i \in Instance, session'[i] = 0, NEW e \in Engine, eng'[e].inst = i, Takes(e)'
      PROVE  e = runtime'[i]
  <2>0. session[i] = 0
    BY <1>2 DEF SessionChange
  <2>1. CASE Tame(e)
    <3>1. Takes(e) /\ eng[e].inst = i
      BY <1>2, <2>1 DEF Tame
    <3>2. e = runtime[i]
      BY <2>0, <3>1 DEF OneWorkerUntilSwap, Working, Takes
    <3> QED
      BY <1>2, <3>2 DEF RegistryChange
  <2>2. ASSUME NEW j \in Instance, New(e, j) PROVE e = runtime'[i]
    BY <1>2, <2>2 DEF New
  <2> QED
    BY <2>1, <2>2 DEF EngineChange
<1>3. OneWorkerUntilSwap'
  BY <1>2 DEF OneWorkerUntilSwap, Working, Takes
<1> QED
  BY <1>1, <1>3

\* References stay within their instance.
LEMMA BelongsKept ==
  ASSUME Types, Types', Owner, Change
  PROVE  Belongs'
<1> USE DEF Owner, Change
<1>1. ASSUME NEW i \in Instance, runtime'[i] \in Engine PROVE eng'[runtime'[i]].inst = i
  <2>1. CASE New(runtime'[i], i)
    BY <2>1 DEF New
  <2>2. CASE runtime'[i] = runtime[i]
    <3>1. eng[runtime[i]].inst = i
      BY <1>1, <2>2 DEF Belongs
    <3>2. ~Spare(runtime[i])
      BY DEF Spare
    <3> QED
      BY <1>1, <2>2, <3>1, <3>2 DEF EngineChange, Tame, New
  <2> QED
    BY <1>1, <2>1, <2>2, ConstantsAssumption DEF RegistryChange
<1>2. ASSUME NEW i \in Instance, rebooting'[i] \in Engine PROVE eng'[rebooting'[i]].inst = i
  <2>1. CASE rebooting'[i] = rebooting[i]
    <3>1. eng[rebooting[i]].inst = i
      BY <1>2, <2>1 DEF Belongs
    <3>2. ~Spare(rebooting[i])
      BY DEF Spare
    <3> QED
      BY <1>2, <2>1, <3>1, <3>2 DEF EngineChange, Tame, New
  <2> QED
    BY <1>1, <1>2, <2>1, ConstantsAssumption DEF RebootChange
<1>3. ASSUME NEW t \in Thread, call'[t].eng \in Engine PROVE eng'[call'[t].eng].inst = call'[t].inst
  <2>1. CASE call'[t].eng = call[t].eng /\ call'[t].inst = call[t].inst
    <3>1. eng[call[t].eng].inst = call[t].inst
      BY <1>3, <2>1 DEF Belongs
    <3>2. ~Spare(call[t].eng)
      BY DEF Spare
    <3> QED
      BY <1>3, <2>1, <3>1, <3>2 DEF EngineChange, Tame, New
  <2>2. CASE call'[t].eng = NoEngine
    BY <1>3, <2>2, ConstantsAssumption
  <2>3. CASE /\ call'[t].inst \in Instance /\ call'[t].eng = runtime'[call'[t].inst]
    BY <1>1, <1>3, <2>3
  <2>4. \/ call'[t].eng = call[t].eng /\ call'[t].inst = call[t].inst
        \/ call'[t].eng = NoEngine
        \/ call'[t].inst \in Instance /\ call'[t].eng = runtime'[call'[t].inst]
    <3>1. CASE UNCHANGED call
      BY <3>1
    <3>2. ASSUME NEW u \in Thread, Begins(u)
          PROVE  \/ call'[t] = call[t]
                 \/ call'[t].inst \in Instance /\ call'[t].eng = runtime'[call'[t].inst]
      BY <3>2 DEF Begins
    <3>3. ASSUME NEW u \in Thread, Moves(u)
          PROVE  call'[t].eng = call[t].eng /\ call'[t].inst = call[t].inst
      BY <3>3 DEF Moves, Goto, Types, CallsOK, CallRecord
    <3>4. ASSUME NEW u \in Thread, Return(u)
          PROVE  call'[t] = call[t] \/ call'[t].eng = NoEngine
      BY <3>4 DEF Return, Idle, Types, CallsOK
    <3>5. ASSUME NEW u \in Thread, Drops(u)
          PROVE  call'[t] = call[t] \/ call'[t].eng = NoEngine
      BY <3>5 DEF Drops
    <3>6. ASSUME NEW u \in Thread, Asks(u)
          PROVE  \/ call'[t] = call[t]
                 \/ call'[t].inst \in Instance /\ call'[t].eng = runtime'[call'[t].inst]
      BY <3>6 DEF Asks
    <3>7. ASSUME NEW u \in Thread, Hands(u)
          PROVE  call'[t].eng = call[t].eng /\ call'[t].inst = call[t].inst
      BY <3>7 DEF Hands, Goto, Types, CallsOK, CallRecord
    <3> QED
      BY <3>1, <3>2, <3>3, <3>4, <3>5, <3>6, <3>7 DEF CallChange
  <2> QED
    BY <2>1, <2>2, <2>3, <2>4
<1> QED
  BY <1>1, <1>2, <1>3 DEF Belongs

\* How any one thread's call changes: it starts anew, goes on, or is over.
CallGoesOn(t) ==
  /\ call'[t].op = call[t].op /\ call'[t].inst = call[t].inst /\ call'[t].eng = call[t].eng
  /\ Mine(t)' => Mine(t)
  /\ \/ call'[t].pc \in {call[t].pc, "write"}
     \/ call'[t].pc = "join" /\ call[t].op \in Stoppers
  /\ call'[t].pc \in {"join", "write"} /\ call'[t].pc # call[t].pc =>
       \A e \in Engine : call[t].eng = e =>
         /\ call[t].op \in Stoppers => ~Takes(e)'
         /\ call[t].op = "pause" => ~eng'[e].open

CallIsOver(t) ==
  /\ ~Mine(t)' /\ call'[t].op \in {"none", "repair", "halt", "reset"}
  /\ call'[t].pc \notin {"signal", "join", "write"}

CallBegins(t) ==
  /\ call'[t].inst \in Instance
  /\ call'[t].op \in Stoppers \cup {"pause", "resume"}
  /\ call'[t].pc = IF call'[t].op \in Stoppers THEN "signal" ELSE "gate"
  /\ Free(call'[t].inst) /\ mutex'[call'[t].inst] = t
  /\ call'[t].eng = runtime'[call'[t].inst]
  /\ call'[t].op = "pause" => reboot'[call'[t].inst] # "verifying"

\* The call of any one thread begins, goes on or is over, or waits for its mutex.
LEMMA ThreadChange ==
  ASSUME Types, CallChange, NEW t \in Thread
  PROVE  /\ CallGoesOn(t) \/ CallIsOver(t) \/ CallBegins(t)
         /\ call'[t].op = "reset" => call[t].op = "reset" \/ "reset" \in Requests
<1>0. Idle.op = "none" /\ Idle.pc = "idle"
  BY DEF Idle
<1>1. CASE call'[t] = call[t]
  BY <1>1 DEF CallGoesOn, Mine
<1>2. ASSUME NEW u \in Thread, Begins(u), call'[t] # call[t]
      PROVE  CallBegins(t) /\ (call'[t].op = "reset" => call[t].op = "reset")
  <2>1. u = t
    BY <1>2 DEF Begins
  <2>2. CallBegins(t)
    BY <1>2, <2>1 DEF Begins, CallBegins, Types, CallsOK
  <2> QED
    BY <1>2, <2>1, <2>2 DEF Begins
<1>3. ASSUME NEW u \in Thread, Moves(u), call'[t] # call[t]
      PROVE  CallGoesOn(t)
  <2>1. u = t
    BY <1>3 DEF Moves, Goto, Types, CallsOK
  <2>2. /\ call'[t].op = call[t].op /\ call'[t].inst = call[t].inst /\ call'[t].eng = call[t].eng
    BY <1>3, <2>1 DEF Moves, Goto, Types, CallsOK, CallRecord
  <2>3. PICK pc \in {"join", "write"} :
          /\ Goto(t, pc) /\ call[t].pc \notin {"enter", "swap"}
          /\ call[t].op = "reset" => call[t].pc \in {"signal", "join"}
          /\ pc = "join" => call[t].op \in Stoppers
          /\ \A e \in Engine : call[t].eng = e =>
               /\ call[t].op \in Stoppers => ~Takes(e)'
               /\ call[t].op = "pause" => ~eng'[e].open
    BY <1>3, <2>1 DEF Moves
  <2>4. call'[t].pc = pc
    BY <2>3 DEF Goto, Types, CallsOK, CallRecord
  <2> QED
    BY <2>2, <2>3, <2>4 DEF CallGoesOn, Mine
<1>4. ASSUME NEW u \in Thread, Return(u), call'[t] # call[t]
      PROVE  CallIsOver(t) /\ call'[t].op # "reset"
  <2>1. call'[t] = Idle
    BY <1>4 DEF Return, Types, CallsOK
  <2> QED
    BY <1>0, <2>1 DEF CallIsOver, Mine
<1>5. ASSUME NEW u \in Thread, Drops(u), call'[t] # call[t]
      PROVE  CallIsOver(t) /\ call'[t].op # "reset"
  BY <1>5 DEF Drops, CallIsOver, Mine
<1>6. ASSUME NEW u \in Thread, Asks(u), call'[t] # call[t]
      PROVE  CallIsOver(t) /\ "reset" \in Requests
  BY <1>6 DEF Asks, CallIsOver, Mine
<1>7. ASSUME NEW u \in Thread, Hands(u), call'[t] # call[t]
      PROVE  CallIsOver(t) /\ call[t].op = "reset"
  <2>1. u = t /\ call[t].op = "reset"
    BY <1>7 DEF Hands, Goto, Types, CallsOK
  <2>2. call'[t].op = "reset" /\ call'[t].pc = "swap"
    BY <1>7, <2>1 DEF Hands, Goto, Types, CallsOK, CallRecord
  <2> QED
    BY <2>1, <2>2 DEF CallIsOver, Mine
<1>8. CallGoesOn(t) => call'[t].op = call[t].op
  BY DEF CallGoesOn
<1> QED
  BY <1>1, <1>2, <1>3, <1>4, <1>5, <1>6, <1>7, <1>8 DEF CallChange

\* A mutex another thread holds is neither taken nor given up.
LEMMA MutexKept ==
  ASSUME Types, Bounds, Registered, CallChange, NEW t \in Thread, Mine(t), Mine(t)',
         CallGoesOn(t)
  PROVE  mutex'[call[t].inst] = t
<1> DEFINE i == call[t].inst
<1>1. mutex[i] = t /\ i \in Instance /\ t # Nobody
  BY ConstantsAssumption DEF Registered, Bounds, Mine, Thread
<1>2. CASE mutex' = mutex
  BY <1>1, <1>2
<1>3. ASSUME NEW u \in Thread, Begins(u) PROVE mutex'[i] = t
  BY <1>1, <1>3 DEF Begins, Free, Types, CallsOK
<1>4. ASSUME NEW u \in Thread, Mine(u), Return(u) PROVE mutex'[i] = t
  <2>1. u # t
    BY <1>4 DEF Return, Mine, Idle, Types, CallsOK
  <2>2. call[u].inst # i
    BY <1>1, <1>4, <2>1 DEF Registered
  <2> QED
    BY <1>1, <1>4, <2>2 DEF Return, Types, CallsOK
<1>5. ASSUME NEW u \in Thread, Mine(u), Hands(u) PROVE mutex'[i] = t
  <2>1. u # t
    <3>1. call'[u].pc = "swap" /\ call'[u].op = "reset"
      BY <1>5 DEF Hands, Goto, Types, CallsOK, CallRecord
    <3> QED
      BY <3>1 DEF Mine
  <2>2. call[u].inst # i
    BY <1>1, <1>5, <2>1 DEF Registered
  <2> QED
    BY <1>1, <1>5, <2>2 DEF Hands, Types, CallsOK
<1> QED
  BY <1>2, <1>3, <1>4, <1>5 DEF CallChange, Moves, Drops, Asks

\* The mutex keeps protecting the registry entry of a call.
LEMMA RegisteredKept ==
  ASSUME Types, Bounds, Types', Owner, Change
  PROVE  Registered'
<1> USE DEF Owner, Change
<1> SUFFICES ASSUME NEW t \in Thread, Mine(t)'
             PROVE  /\ mutex'[call'[t].inst] = t
                    /\ runtime'[call'[t].inst] \in {call'[t].eng, NoEngine}
  BY DEF Registered
<1>1. CASE CallBegins(t)
  BY <1>1 DEF CallBegins
<1>2. CASE CallGoesOn(t)
  <2> DEFINE i == call[t].inst
  <2>1. Mine(t) /\ call'[t].inst = i /\ call'[t].eng = call[t].eng
    BY <1>2 DEF CallGoesOn
  <2>2. mutex'[i] = t
    BY <1>2, <2>1, MutexKept
  <2>3. mutex[i] = t /\ i \in Instance /\ t # Nobody /\ runtime[i] \in {call[t].eng, NoEngine}
    BY <2>1, ConstantsAssumption DEF Registered, Bounds, Mine, Thread
  <2>4. ~New(runtime'[i], i)
    BY <2>2, <2>3 DEF New
  <2> QED
    BY <2>1, <2>2, <2>3, <2>4 DEF RegistryChange
<1>3. ~CallIsOver(t)
  BY DEF CallIsOver
<1> QED
  BY <1>1, <1>2, <1>3, ThreadChange

\* An engine a call or a reboot refers to is never built anew.
LEMMA Referenced ==
  ASSUME EngineChange, NEW e \in Engine,
         \/ \E t \in Thread : call[t].eng = e
         \/ \E i \in Instance : e \in {runtime[i], rebooting[i]}
  PROVE  Tame(e) /\ (Shut(e) \/ Opens(e))
<1>1. ~Spare(e)
  BY DEF Spare
<1> QED
  BY <1>1 DEF EngineChange, New

\* A worker that was told to stop stays that way.
LEMMA QuietKept ==
  ASSUME Types, Types', Owner, Change
  PROVE  Quiet'
<1> USE DEF Owner, Change
<1>1. ASSUME NEW t \in Thread, NEW e \in Engine, call'[t].op \in Stoppers,
             call'[t].pc \in {"join", "write"}, call'[t].eng = e
      PROVE  ~Takes(e)'
  <2>1. CallGoesOn(t)
    BY <1>1, ThreadChange DEF CallIsOver, CallBegins
  <2>2. call[t].op \in Stoppers /\ call[t].eng = e
    BY <1>1, <2>1 DEF CallGoesOn
  <2>3. CASE call'[t].pc = call[t].pc
    BY <1>1, <2>2, <2>3, Referenced DEF Quiet, Tame
  <2> QED
    BY <1>1, <2>1, <2>2, <2>3 DEF CallGoesOn
<1>2. ASSUME NEW i \in Instance, NEW e \in Engine, reboot'[i] = "clearing", rebooting'[i] = e
      PROVE  ~Takes(e)'
  <2>1. CASE reboot[i] = "clearing" /\ rebooting[i] = e
    BY <2>1, Referenced DEF Quiet, Tame
  <2> QED
    BY <1>2, <2>1 DEF RebootChange
<1> QED
  BY <1>1, <1>2 DEF Quiet, Takes

\* A gate closed by a pause stays closed until the pause returns: nobody else
\* opens it.
LEMMA GatedKept ==
  ASSUME Types, Bounds, Types', Owner, Change
  PROVE  Gated'
<1> USE DEF Owner, Change
<1> SUFFICES ASSUME NEW t \in Thread, call'[t].op = "pause"
             PROVE  /\ call'[t].pc \in {"gate", "write"}
                    /\ reboot'[call'[t].inst] # "verifying"
                    /\ call'[t].pc = "write" /\ call'[t].eng \in Engine => ~eng'[call'[t].eng].open
  BY DEF Gated
<1>1. CASE CallBegins(t)
  BY <1>1 DEF CallBegins, Stoppers
<1>2. CASE CallGoesOn(t)
  <2> DEFINE i == call[t].inst
             e == call[t].eng
  <2>1. call[t].op = "pause" /\ Mine(t) /\ call'[t].inst = i /\ call'[t].eng = e
    BY <1>2 DEF CallGoesOn, Mine
  <2>2. mutex[i] = t /\ i \in Instance /\ t # Nobody /\ reboot[i] # "verifying"
    BY <2>1, ConstantsAssumption DEF Registered, Gated, Bounds, Thread
  <2>3. reboot'[i] # "verifying"
    BY <2>2 DEF RebootChange, Free
  <2>4. ASSUME call'[t].pc = "write", e \in Engine PROVE ~eng'[e].open
    <3>1. CASE call[t].pc = "write"
      <4>1. ~eng[e].open /\ eng[e].inst = i
        BY <2>1, <2>4, <3>1 DEF Gated, Belongs
      <4>2. ASSUME NEW j \in Instance, reboot[j] = "verifying", rebooting[j] = e PROVE FALSE
        BY <2>2, <2>4, <4>1, <4>2 DEF Belongs
      <4>3. ASSUME NEW u \in Thread, call[u].op = "resume", call[u].eng = e PROVE FALSE
        <5>1. Mine(u) /\ call[u].inst = i
          BY <2>4, <4>1, <4>3 DEF Belongs, Mine
        <5>2. mutex[i] = u
          BY <5>1 DEF Registered
        <5> QED
          BY <2>1, <2>2, <4>3, <5>2
      <4>4. ~Opens(e)
        BY <4>2, <4>3 DEF Opens
      <4>5. Shut(e)
        BY <2>4, <4>4, Referenced
      <4> QED
        BY <4>1, <4>5 DEF Shut
    <3>2. CASE call[t].pc # "write"
      BY <1>2, <2>1, <2>4, <3>2 DEF CallGoesOn
    <3> QED
      BY <3>1, <3>2
  <2>5. call'[t].pc \in {"gate", "write"}
    BY <1>2, <2>1 DEF CallGoesOn, Gated, Stoppers
  <2> QED
    BY <2>1, <2>3, <2>4, <2>5
<1>3. CASE CallIsOver(t)
  BY <1>3 DEF CallIsOver
<1> QED
  BY <1>1, <1>2, <1>3, ThreadChange

\* Every such change keeps ownership.
LEMMA OwnerKept ==
  ASSUME Types, Bounds, Types', Owner, Change, SessionChange
  PROVE  Owner'
<1>1. Stopping'
  <2> SUFFICES ASSUME NEW t \in Thread, call'[t].pc \in {"signal", "join"}
               PROVE  call'[t].op \in Stoppers
    BY DEF Stopping
  <2>1. CASE CallGoesOn(t)
    BY <2>1 DEF Owner, Stopping, CallGoesOn
  <2>2. CASE CallBegins(t)
    BY <2>2 DEF CallBegins
  <2> QED
    BY <2>1, <2>2, ThreadChange DEF Change, CallIsOver
<1>2. OneWorkerUntilSwap' /\ Live'
  BY WorkersKept DEF Owner, Change
<1>3. Unswapped'
  <2>1. ASSUME NoAccountRestart
        PROVE  /\ \A t \in Thread : call'[t].op # "reset"
               /\ \A i \in Instance : session'[i] = 0
    BY <2>1, ThreadChange DEF Change, Owner, Unswapped, NoAccountRestart, SessionChange
  <2> QED
    BY <2>1 DEF Unswapped
<1> QED
  BY <1>1, <1>2, <1>3, BelongsKept, RegisteredKept, QuietKept, GatedKept DEF Owner

-----------------------------------------------------------------------------
(* Every step is such a change.                                              *)

\* Leaving the registry alone is allowed.
LEMMA NoRegistryChange ==
  ASSUME runtime' = runtime
  PROVE  RegistryChange
BY DEF RegistryChange

\* So is leaving the reboots alone.
LEMMA NoRebootChange ==
  ASSUME UNCHANGED <<reboot, rebooting>>
  PROVE  RebootChange
BY DEF RebootChange

\* So is leaving the engines tame.
LEMMA NoEngineChange ==
  ASSUME \A e \in Engine : Tame(e) /\ Shut(e)
  PROVE  EngineChange
BY DEF EngineChange

\* Building an engine over retired ones, with the mutex free, is such a change.
LEMMA ReplaceChange ==
  ASSUME Types, NEW i \in Instance, NEW closed, NEW engines \in [Engine -> EngineRecord],
         \A e \in Engine :
           /\ engines[e].inst = eng[e].inst
           /\ engines[e].open = eng[e].open
           /\ engines[e].running => eng[e].running
           /\ e # runtime[i] => engines[e] = eng[e]
           /\ engines[e].thread = "alive" /\ ~engines[e].stopping =>
                /\ eng[e].thread = "alive" /\ ~eng[e].stopping
                /\ eng[e].running => engines[e].running
           /\ e = runtime[i] /\ session'[i] = 0 =>
                ~(engines[e].thread = "alive" /\ ~engines[e].stopping),
         Replace(i, closed, engines), Nobody \in {mutex[i], mutex'[i]}
  PROVE  EngineChange /\ RegistryChange
<1>1. PICK d \in Engine : /\ Spare(d)
                          /\ eng' = [engines EXCEPT ![d] = Fresh(i, closed)]
                          /\ runtime' = [runtime EXCEPT ![i] = d]
  BY DEF Replace
<1>2. New(d, i)
  <2>1. runtime'[i] = d /\ eng'[d] = Fresh(i, closed)
    BY <1>1 DEF Types, EnginesOK
  <2>2. eng'[d].inst = i /\ eng'[d].running
    BY <2>1 DEF Fresh
  <2> QED
    BY <1>1, <2>1, <2>2 DEF New
<1>3. \A e \in Engine : e # d => eng'[e] = engines[e]
  BY <1>1
<1>4. ASSUME NEW e \in Engine, e # d PROVE Tame(e) /\ Shut(e)
  <2>1. eng'[e] = engines[e]
    BY <1>3, <1>4
  <2>2. eng'[e].inst = eng[e].inst /\ eng'[e].open = eng[e].open
    BY <2>1
  <2>3. Takes(e)' => Takes(e) /\ (eng[e].running => eng'[e].running)
    BY <2>1 DEF Takes
  <2>4. eng'[e].running => eng[e].running
    BY <2>1
  <2> QED
    BY <2>2, <2>3, <2>4 DEF Tame, Shut
<1>5. EngineChange
  BY <1>2, <1>4 DEF EngineChange
<1>6. runtime[i] # d
  BY <1>1 DEF Spare
<1>7. session'[i] = 0 => \A e \in Engine : runtime[i] = e => ~Takes(e)'
  BY <1>3, <1>6 DEF Takes
<1>8. \A j \in Instance : j # i => runtime'[j] = runtime[j]
  BY <1>1 DEF Types, EnginesOK
<1>9. runtime'[i] = d
  BY <1>1 DEF Types, EnginesOK
<1>10. RegistryChange
  BY <1>2, <1>7, <1>8, <1>9 DEF RegistryChange
<1> QED
  BY <1>5, <1>10

\* So is every start under a free mutex.
LEMMA StartChange ==
  ASSUME Types, Live, NEW i \in Instance, NEW closed,
         Joined(i) \/ StartFails(i) \/ Launched(i, closed),
         Nobody \in {mutex[i], mutex'[i]}
  PROVE  EngineChange /\ RegistryChange
<1>1. CASE Joined(i)
  BY <1>1, KeptEngines, NoEngineChange, NoRegistryChange DEF Joined
<1>2. ASSUME ~Running(i), NEW e \in Engine, e = runtime[i] PROVE ~Takes(e)
  <2>1. e # NoEngine
    BY ConstantsAssumption
  <2> QED
    BY <1>2, <2>1 DEF Running, Live
<1>3. CASE StartFails(i)
  <2>1. eng' = eng /\ ~Running(i) /\ runtime' = [runtime EXCEPT ![i] = NoEngine]
    BY <1>3 DEF StartFails
  <2>2. \A e \in Engine : runtime[i] = e => ~Takes(e)'
    BY <1>2, <2>1 DEF Takes
  <2>3. runtime'[i] = NoEngine /\ \A j \in Instance : j # i => runtime'[j] = runtime[j]
    BY <2>1 DEF Types, EnginesOK
  <2>4. ASSUME NEW j \in Instance, runtime'[j] # runtime[j]
        PROVE  runtime'[j] = NoEngine /\ \A e \in Engine : runtime[j] = e => ~Takes(e)'
    BY <2>2, <2>3, <2>4
  <2>5. RegistryChange
    BY <2>4 DEF RegistryChange
  <2> QED
    BY <2>1, <2>5, KeptEngines, NoEngineChange
<1>4. CASE Launched(i, closed)
  <2>1. ~Running(i) /\ Replace(i, closed, eng)
    BY <1>4 DEF Launched, Build
  <2>2. \A e \in Engine : e = runtime[i] => ~(eng[e].thread = "alive" /\ ~eng[e].stopping)
    BY <1>2, <2>1 DEF Takes
  <2> QED
    BY <2>1, <2>2, ReplaceChange DEF Types, EnginesOK
<1> QED
  BY <1>1, <1>3, <1>4

\* An operator's Start is such a change.
LEMMA OperatorStartChange ==
  ASSUME Types, Owner, NEW t \in Caller, NEW i \in Instance, OperatorStart(t, i)
  PROVE  Change
<1>1. Nobody \in {mutex[i], mutex'[i]} /\ UNCHANGED <<call, mutex, reboot, rebooting>>
  BY DEF OperatorStart, Free
<1>2. Joined(i) \/ StartFails(i) \/ Launched(i, FALSE)
  BY DEF OperatorStart
<1> QED
  BY <1>1, <1>2, StartChange, NoRebootChange DEF Change, CallChange, Owner

\* Taking the mutex is.
LEMMA EnterChange ==
  ASSUME Types, NEW t \in Caller, NEW i \in Instance,
         NEW op \in {"stop", "pause", "resume"}, Enter(t, i, op)
  PROVE  Change
<1>1. UNCHANGED <<runtime, eng, reboot, rebooting>>
  BY DEF Enter
<1>2. t \in Thread /\ call' = [call EXCEPT ![t] = Begin(t, i, op, IF op = "stop" THEN "signal" ELSE "gate")]
  BY DEF Enter, Thread
<1>3. /\ call'[t] = Begin(t, i, op, IF op = "stop" THEN "signal" ELSE "gate")
      /\ \A u \in Thread : u # t => call'[u] = call[u]
  BY <1>2 DEF Types, CallsOK
<1>4. /\ call'[t].op = op /\ call'[t].pc = (IF op = "stop" THEN "signal" ELSE "gate")
      /\ call'[t].inst = i /\ call'[t].eng = runtime[i]
  BY <1>3 DEF Begin, Idle
<1>5. Begins(t)
  BY <1>1, <1>3, <1>4 DEF Enter, Begins, RebootIdle, Stoppers
<1> QED
  BY <1>1, <1>2, <1>5, KeptEngines, NoEngineChange, NoRegistryChange, NoRebootChange
  DEF Change, CallChange

\* The first half of engine.stop() is.
LEMMA StopSignalChange ==
  ASSUME Types, Owner, NEW t \in Thread, StopSignal(t)
  PROVE  Change
<1> DEFINE d == call[t].eng
<1>0. call[t].pc \in {"signal", "join"} => call[t].op \in Stoppers
  BY DEF Owner, Stopping
<1>1. /\ UNCHANGED <<runtime, mutex, reboot, rebooting>>
      /\ call[t].pc = "signal" /\ call[t].op \in Stoppers
  BY <1>0 DEF StopSignal
<1>2. /\ \A e \in Engine : Tame(e) /\ Shut(e)
      /\ \A e \in Engine : d = e => ~Takes(e)'
      /\ Goto(t, "join") \/ Goto(t, "write")
  <2>1. CASE d # NoEngine /\ eng' = [eng EXCEPT ![d].stopping = TRUE] /\ Goto(t, "join")
    BY <2>1, SignalledEngine DEF Types
  <2>2. CASE d = NoEngine /\ eng' = eng /\ Goto(t, "write")
    BY <2>2, KeptEngines, ConstantsAssumption
  <2>3. CASE /\ d # NoEngine /\ ~eng[d].running
             /\ eng' = [eng EXCEPT ![d].state = "stopped"] /\ Goto(t, "write")
    BY <2>3, StatedEngine DEF Types, Owner, Live, Tame
  <2> QED
    BY <2>1, <2>2, <2>3 DEF StopSignal
<1>3. Moves(t)
  BY <1>1, <1>2 DEF Moves, Stoppers
<1> QED
  BY <1>1, <1>2, <1>3, NoEngineChange, NoRegistryChange, NoRebootChange DEF Change, CallChange

\* Its second half is: the worker was told to stop before.
LEMMA StopJoinChange ==
  ASSUME Types, Owner, NEW t \in Thread, StopJoin(t)
  PROVE  Change
<1> DEFINE d == call[t].eng
<1>0. call[t].pc \in {"signal", "join"} => call[t].op \in Stoppers
  BY DEF Owner, Stopping
<1>1. /\ UNCHANGED <<runtime, mutex, reboot, rebooting>>
      /\ call[t].pc = "join" /\ call[t].op \in Stoppers /\ Goto(t, "write")
      /\ eng' = [eng EXCEPT ![d].running = FALSE, ![d].state = "stopped"]
  BY <1>0 DEF StopJoin
<1>2. d \in Engine => ~Takes(d)
  BY <1>1 DEF Owner, Quiet
<1>3. \A e \in Engine : Tame(e) /\ Shut(e)
  BY <1>1, <1>2, JoinedEngine DEF Types
<1>4. \A e \in Engine : d = e => ~Takes(e)'
  BY <1>2, <1>3 DEF Tame
<1>5. Moves(t)
  BY <1>1, <1>4 DEF Moves, Stoppers
<1> QED
  BY <1>1, <1>3, <1>5, NoEngineChange, NoRegistryChange, NoRebootChange DEF Change, CallChange

\* A returning Stop is, and one inside an account restart.
LEMMA StopReturnsChange ==
  ASSUME Types, Owner, NEW t \in Caller, StopReturns(t)
  PROVE  Change
<1>1. UNCHANGED <<runtime, eng, reboot, rebooting>>
  BY DEF StopReturns
<1>2. t \in Thread /\ Mine(t) /\ (Return(t) \/ Hands(t))
  BY DEF StopReturns, Mine, Hands, Thread
<1> QED
  BY <1>1, <1>2, KeptEngines, NoEngineChange, NoRegistryChange, NoRebootChange
  DEF Change, CallChange

\* Closing the gate is.
LEMMA PauseGateChange ==
  ASSUME Types, Owner, NEW t \in Caller, PauseGate(t)
  PROVE  Change
<1> DEFINE d == call[t].eng
<1>1. /\ UNCHANGED <<runtime, mutex, reboot, rebooting>>
      /\ call[t].pc = "gate" /\ call[t].op = "pause" /\ Goto(t, "write")
      /\ t \in Thread
  BY DEF PauseGate, Thread
<1>2. /\ \A e \in Engine : Tame(e) /\ Shut(e)
      /\ \A e \in Engine : d = e => ~eng'[e].open
  <2>1. CASE d = NoEngine /\ eng' = eng
    BY <2>1, KeptEngines, ConstantsAssumption
  <2>2. CASE eng' = [eng EXCEPT ![d].open = FALSE]
    BY <2>2, ClosedEngine DEF Types
  <2> QED
    BY <2>1, <2>2 DEF PauseGate
<1>3. Moves(t)
  BY <1>1, <1>2 DEF Moves, Stoppers
<1> QED
  BY <1>1, <1>2, <1>3, NoEngineChange, NoRegistryChange, NoRebootChange DEF Change, CallChange

\* A returning Pause is.
LEMMA PauseReturnsChange ==
  ASSUME Types, Owner, NEW t \in Caller, PauseReturns(t)
  PROVE  Change
<1>1. UNCHANGED <<runtime, eng, reboot, rebooting>>
  BY DEF PauseReturns
<1>2. t \in Thread /\ Mine(t) /\ Return(t)
  BY DEF PauseReturns, Thread, Mine
<1> QED
  BY <1>1, <1>2, KeptEngines, NoEngineChange, NoRegistryChange, NoRebootChange
  DEF Change, CallChange

\* A Resume is: it opens the gate of its own engine or starts one.
LEMMA ResumeReturnsChange ==
  ASSUME Types, Bounds, Owner, NEW t \in Caller, ResumeReturns(t)
  PROVE  Change
<1> DEFINE d == call[t].eng
           i == call[t].inst
<1>1. /\ t \in Thread /\ Mine(t) /\ Return(t) /\ call[t].op = "resume" /\ i \in Instance
      /\ UNCHANGED <<reboot, rebooting>>
  BY DEF ResumeReturns, Thread, Mine, Bounds
<1>2. mutex'[i] = Nobody
  BY <1>1 DEF Return, Types, CallsOK
<1>3. CallChange /\ RebootChange
  BY <1>1, NoRebootChange DEF CallChange
<1>4. CASE runtime' = runtime /\ eng' = [eng EXCEPT ![d].open = TRUE]
  <2>1. \A e \in Engine : Tame(e) /\ (e # d => Shut(e))
    BY <1>4, OpenedEngine DEF Types
  <2>2. Opens(d)
    BY <1>1 DEF Opens
  <2>3. EngineChange
    BY <2>1, <2>2 DEF EngineChange
  <2> QED
    BY <1>3, <1>4, <2>3, NoRegistryChange DEF Change
<1>5. CASE Joined(i) \/ StartFails(i) \/ Launched(i, FALSE)
  BY <1>1, <1>2, <1>3, <1>5, StartChange DEF Change, Owner
<1>6. CASE UNCHANGED <<runtime, eng>>
  BY <1>3, <1>6, KeptEngines, NoEngineChange, NoRegistryChange DEF Change
<1> QED
  BY <1>4, <1>5, <1>6 DEF ResumeReturns

\* An edit is: the worker it replaces was told to stop.
LEMMA UpdateConfigurationChange ==
  ASSUME Types, Owner, NEW t \in Caller, NEW i \in Instance, UpdateConfiguration(t, i)
  PROVE  Change
<1>1. /\ UNCHANGED <<call, mutex, reboot, rebooting>> /\ mutex[i] = Nobody
  BY DEF UpdateConfiguration, control, Free
<1>2. PICK late \in BOOLEAN :
        \/ \E closed \in BOOLEAN : Replace(i, closed, Retired(i, late))
        \/ /\ eng' = Retired(i, late)
           /\ runtime' = [runtime EXCEPT ![i] = NoEngine]
  BY DEF UpdateConfiguration, Late, Build
<1> DEFINE old == Retired(i, late)
<1>3. old \in [Engine -> EngineRecord]
  BY RetiredType DEF Types
<1>4. \A e \in Engine :
        /\ old[e].inst = eng[e].inst
        /\ old[e].open = eng[e].open
        /\ old[e].running => eng[e].running
        /\ e # runtime[i] => old[e] = eng[e]
        /\ e = runtime[i] => ~(old[e].thread = "alive" /\ ~old[e].stopping)
  BY RetiredEngines DEF Types
<1> HIDE DEF old
<1>5. ASSUME NEW closed \in BOOLEAN, Replace(i, closed, old)
      PROVE  EngineChange /\ RegistryChange
  BY <1>1, <1>3, <1>4, <1>5, ReplaceChange
<1>6. ASSUME eng' = old, runtime' = [runtime EXCEPT ![i] = NoEngine]
      PROVE  EngineChange /\ RegistryChange
  <2>1. \A e \in Engine : Tame(e) /\ Shut(e)
    BY <1>4, <1>6 DEF Tame, Shut, Takes
  <2>2. \A e \in Engine : runtime[i] = e => ~Takes(e)'
    BY <1>4, <1>6 DEF Takes
  <2>3. runtime'[i] = NoEngine /\ \A j \in Instance : j # i => runtime'[j] = runtime[j]
    BY <1>6 DEF Types, EnginesOK
  <2>4. ASSUME NEW j \in Instance, runtime'[j] # runtime[j]
        PROVE  runtime'[j] = NoEngine /\ \A e \in Engine : runtime[j] = e => ~Takes(e)'
    BY <2>2, <2>3, <2>4
  <2>5. RegistryChange
    BY <2>4 DEF RegistryChange
  <2> QED
    BY <2>1, <2>5, NoEngineChange
<1>7. EngineChange /\ RegistryChange
  BY <1>2, <1>5, <1>6 DEF old
<1> QED
  BY <1>1, <1>7, NoRebootChange DEF Change, CallChange

\* A reboot request is: it only closes a gate.
LEMMA RebootRequestChange ==
  ASSUME Types, Owner, NEW t \in Caller, NEW i \in Instance, RebootRequest(t, i)
  PROVE  Change
<1>1. /\ UNCHANGED <<call, mutex, runtime, rebooting>>
      /\ \/ eng' = eng
         \/ eng' = [eng EXCEPT ![runtime[i]].open = FALSE, ![runtime[i]].attached = FALSE]
  BY DEF RebootRequest
<1>2. \A e \in Engine : Tame(e) /\ Shut(e)
  BY <1>1, KeptEngines, DetachedEngine DEF Types
<1>3. \A j \in Instance : reboot'[j] = reboot[j] \/ reboot'[j] = "requested"
  BY DEF RebootRequest, Phase, Types, RestOK
<1>4. RebootChange
  BY <1>1, <1>3 DEF RebootChange
<1> QED
  BY <1>1, <1>2, <1>4, NoEngineChange, NoRegistryChange DEF Change, CallChange

\* A reboot of one instance leaves the others' alone.
LEMMA PhaseChange ==
  ASSUME NEW i \in Instance,
         \A j \in Instance : j # i => reboot'[j] = reboot[j] /\ rebooting'[j] = rebooting[j],
         rebooting'[i] \in {rebooting[i], runtime'[i], NoEngine},
         reboot'[i] = "verifying" => Free(i),
         reboot'[i] = "clearing" => \A e \in Engine : rebooting'[i] = e => ~Takes(e)'
  PROVE  RebootChange
BY DEF RebootChange

\* A reboot that stops the worker is such a change.
LEMMA RebootStopChange ==
  ASSUME Types, NEW i \in Instance, RebootStop(i)
  PROVE  Change
<1> DEFINE d == runtime[i]
<1>1. /\ UNCHANGED <<runtime, call, mutex>>
      /\ \/ eng' = eng
         \/ eng' = [eng EXCEPT ![d].stopping = TRUE]
         \/ eng' = [eng EXCEPT ![d].state = "stopped"]
  BY DEF RebootStop
<1>2. \A e \in Engine : Tame(e) /\ Shut(e)
  BY <1>1, KeptEngines, SignalledEngine, StatedEngine DEF Types
<1>3. /\ \A j \in Instance : j # i => reboot'[j] = reboot[j] /\ rebooting'[j] = rebooting[j]
      /\ rebooting'[i] = d
      /\ reboot'[i] = IF d = NoEngine THEN "clearing" ELSE "joining"
  BY DEF RebootStop, Phase, Types, RestOK
<1>4. RebootChange
  BY <1>1, <1>3, PhaseChange, ConstantsAssumption
<1> QED
  BY <1>1, <1>2, <1>4, NoEngineChange, NoRegistryChange DEF Change, CallChange

\* One that joined a dead thread is.
LEMMA RebootJoinChange ==
  ASSUME Types, NEW i \in Instance, RebootJoin(i)
  PROVE  Change
<1> DEFINE d == rebooting[i]
<1>1. /\ UNCHANGED <<runtime, call, mutex, rebooting>>
      /\ eng' = [eng EXCEPT ![d].running = FALSE, ![d].state = "stopped"]
      /\ d \in Engine => ~Takes(d)
  BY DEF RebootJoin, Takes
<1>2. \A e \in Engine : Tame(e) /\ Shut(e)
  BY <1>1, JoinedEngine DEF Types
<1>3. /\ \A j \in Instance : j # i => reboot'[j] = reboot[j]
      /\ reboot'[i] = "clearing"
  BY DEF RebootJoin, Phase, Types, RestOK
<1>4. \A e \in Engine : rebooting'[i] = e => ~Takes(e)'
  BY <1>1, <1>2 DEF Tame
<1>5. RebootChange
  BY <1>1, <1>3, <1>4, PhaseChange
<1> QED
  BY <1>1, <1>2, <1>5, NoEngineChange, NoRegistryChange DEF Change, CallChange

\* One that drops the entry is: what it drops is dead.
LEMMA RebootClearChange ==
  ASSUME Types, Owner, NEW i \in Instance, RebootClear(i)
  PROVE  Change
<1>1. UNCHANGED <<eng, call, mutex>> /\ reboot[i] = "clearing"
  BY DEF RebootClear
<1>2. /\ \A j \in Instance : j # i => /\ reboot'[j] = reboot[j]
                                      /\ rebooting'[j] = rebooting[j]
                                      /\ runtime'[j] = runtime[j]
      /\ reboot'[i] = "reloading" /\ rebooting'[i] = NoEngine
      /\ runtime'[i] = IF runtime[i] = rebooting[i] THEN NoEngine ELSE runtime[i]
  BY DEF RebootClear, Phase, Types, RestOK, EnginesOK
<1>3. RebootChange
  BY <1>2, PhaseChange
<1>4. ASSUME NEW e \in Engine, rebooting[i] = e PROVE ~Takes(e)'
  BY <1>1, <1>4 DEF Owner, Quiet, Takes
<1>5. ASSUME NEW j \in Instance, runtime'[j] # runtime[j]
      PROVE  runtime'[j] = NoEngine /\ \A e \in Engine : runtime[j] = e => ~Takes(e)'
  BY <1>2, <1>4, <1>5
<1>6. RegistryChange
  BY <1>5 DEF RegistryChange
<1> QED
  BY <1>1, <1>3, <1>6, KeptEngines, NoEngineChange DEF Change, CallChange

\* One that reads the row back is.
LEMMA RebootReloadChange ==
  ASSUME Types, NEW i \in Instance, RebootReload(i)
  PROVE  Change
<1>1. UNCHANGED <<runtime, eng, call, mutex, rebooting>>
  BY DEF RebootReload
<1>2. /\ \A j \in Instance : j # i => reboot'[j] = reboot[j]
      /\ reboot'[i] = "starting"
  BY DEF RebootReload, Phase, Types, RestOK
<1>3. RebootChange
  BY <1>1, <1>2, PhaseChange
<1> QED
  BY <1>1, <1>3, KeptEngines, NoEngineChange, NoRegistryChange DEF Change, CallChange

\* One that starts the replacement is: the mutex is free.
LEMMA RebootStartChange ==
  ASSUME Types, Owner, NEW i \in Instance, RebootStart(i)
  PROVE  Change
<1>1. UNCHANGED <<call, mutex>> /\ Free(i) /\ (Launched(i, TRUE) \/ Joined(i))
  BY DEF RebootStart
<1>2. EngineChange /\ RegistryChange
  BY <1>1, StartChange DEF Owner, Free
<1>3. /\ \A j \in Instance : j # i => reboot'[j] = reboot[j] /\ rebooting'[j] = rebooting[j]
      /\ rebooting'[i] = runtime'[i] /\ reboot'[i] = "verifying"
  BY DEF RebootStart, Phase, Types, RestOK
<1>4. RebootChange
  BY <1>1, <1>3, PhaseChange
<1> QED
  BY <1>1, <1>2, <1>4 DEF Change, CallChange

\* One that opens the gate is: it is verifying.
LEMMA RebootOpensChange ==
  ASSUME Types, NEW i \in Instance, RebootOpens(i)
  PROVE  Change
<1> DEFINE d == rebooting[i]
<1>1. /\ UNCHANGED <<runtime, call, mutex, rebooting>>
      /\ eng' = [eng EXCEPT ![d].open = TRUE]
      /\ Opens(d)
  BY DEF RebootOpens, Opens
<1>2. \A e \in Engine : Tame(e) /\ (e # d => Shut(e))
  BY <1>1, OpenedEngine DEF Types
<1>3. EngineChange
  BY <1>1, <1>2 DEF EngineChange
<1>4. /\ \A j \in Instance : j # i => reboot'[j] = reboot[j]
      /\ reboot'[i] = "opened"
  BY DEF RebootOpens, Phase, Types, RestOK
<1>5. RebootChange
  BY <1>1, <1>4, PhaseChange
<1> QED
  BY <1>1, <1>3, <1>5, NoRegistryChange DEF Change, CallChange

\* The end of one is.
LEMMA RebootEndChange ==
  ASSUME Types, NEW i \in Instance, RebootFinishes(i) \/ RebootFails(i)
  PROVE  Change
<1>1. /\ UNCHANGED <<runtime, call, mutex>>
      /\ \/ eng' = eng
         \/ eng' = [eng EXCEPT ![runtime[i]].open = FALSE]
  BY DEF RebootFinishes, RebootFails
<1>2. \A e \in Engine : Tame(e) /\ Shut(e)
  BY <1>1, KeptEngines, ClosedEngine DEF Types
<1>3. /\ \A j \in Instance : j # i => reboot'[j] = reboot[j] /\ rebooting'[j] = rebooting[j]
      /\ rebooting'[i] = NoEngine /\ reboot'[i] = "idle"
  BY DEF RebootFinishes, RebootFails, Phase, Types, RestOK
<1>4. RebootChange
  BY <1>3, PhaseChange
<1> QED
  BY <1>1, <1>2, <1>4, NoEngineChange, NoRegistryChange DEF Change, CallChange

\* A visit is such a change.
LEMMA SweepVisitsChange ==
  ASSUME Types, NEW i \in Instance, NEW g \in Generation, SweepVisits(i, g)
  PROVE  Change
<1>1. UNCHANGED <<runtime, eng, mutex, reboot, rebooting>> /\ Supervisor \in Thread
  BY DEF SweepVisits, Thread
<1>2. ASSUME NEW op \in {"halt", "repair"}, NEW pc \in {"enter", "start"}, NEW paused,
             Visit(i, op, pc, paused), op = "halt" => pc = "enter"
      PROVE  Drops(Supervisor)
  <2>1. \A u \in Thread :
          call'[u] = IF u = Supervisor
                     THEN [Idle EXCEPT !.op = op, !.pc = pc, !.inst = i, !.paused = paused]
                     ELSE call[u]
    BY <1>2 DEF Visit, Types, CallsOK
  <2>2. /\ call'[Supervisor].eng = NoEngine
        /\ call'[Supervisor].op = op /\ call'[Supervisor].pc = pc
    BY <1>1, <2>1 DEF Idle
  <2> QED
    BY <1>1, <1>2, <2>1, <2>2 DEF Drops
<1>3. \/ UNCHANGED call
      \/ Visit(i, "halt", "enter", FALSE)
      \/ Visit(i, "repair", "start", obj[i][g].state = "paused")
  BY DEF SweepVisits
<1>4. CallChange
  BY <1>1, <1>2, <1>3 DEF CallChange
<1> QED
  BY <1>1, <1>4, KeptEngines, NoEngineChange, NoRegistryChange, NoRebootChange DEF Change

\* A repair is.
LEMMA SweepRepairsChange ==
  ASSUME Types, Bounds, Owner, SweepRepairs
  PROVE  Change
<1> DEFINE c == call[Supervisor]
<1>1. /\ UNCHANGED <<mutex, reboot, rebooting>> /\ Supervisor \in Thread
      /\ c.inst \in Instance /\ Free(c.inst)
      /\ call' = [call EXCEPT ![Supervisor] = Idle]
  BY DEF SweepRepairs, Thread, Bounds
<1>2. Drops(Supervisor)
  BY <1>1 DEF Drops, Idle, Types, CallsOK
<1>3. \/ UNCHANGED <<runtime, eng>>
      \/ Joined(c.inst) \/ StartFails(c.inst) \/ Launched(c.inst, c.paused)
  BY DEF SweepRepairs
<1>4. EngineChange /\ RegistryChange
  BY <1>1, <1>3, StartChange, KeptEngines, NoEngineChange, NoRegistryChange DEF Owner, Free
<1> QED
  BY <1>1, <1>2, <1>4, NoRebootChange DEF Change, CallChange

\* A halt is: what it drops was told to stop.
LEMMA HaltChange ==
  ASSUME Types, Bounds, Owner, HaltEnters \/ HaltReturns
  PROVE  Change
<1> DEFINE c == call[Supervisor]
<1>1. UNCHANGED <<eng, reboot, rebooting>> /\ Supervisor \in Thread /\ c.inst \in Instance
  BY DEF HaltEnters, HaltReturns, Thread, Bounds
<1>2. CASE HaltEnters
  <2>0. /\ call'[Supervisor] = Begin(Supervisor, c.inst, "halt", "signal")
        /\ \A u \in Thread : u # Supervisor => call'[u] = call[u]
    BY <1>1, <1>2 DEF HaltEnters, Types, CallsOK
  <2>2. /\ call'[Supervisor].op = "halt" /\ call'[Supervisor].pc = "signal"
        /\ call'[Supervisor].inst = c.inst /\ call'[Supervisor].eng = runtime[c.inst]
    BY <2>0 DEF Begin, Idle
  <2>1. Begins(Supervisor) /\ runtime' = runtime
    BY <1>1, <1>2, <2>0, <2>2 DEF HaltEnters, Begins, Stoppers
  <2> QED
    BY <1>1, <2>1, KeptEngines, NoEngineChange, NoRegistryChange, NoRebootChange
    DEF Change, CallChange
<1>3. CASE HaltReturns
  <2>1. /\ c.op = "halt" /\ c.pc = "write" /\ Return(Supervisor)
        /\ runtime' = [runtime EXCEPT ![c.inst] = NoEngine]
    BY <1>3 DEF HaltReturns
  <2>2. Mine(Supervisor)
    BY <2>1 DEF Mine
  <2>3. runtime[c.inst] \in {c.eng, NoEngine}
    BY <1>1, <2>2 DEF Owner, Registered
  <2>4. \A e \in Engine : runtime[c.inst] = e => ~Takes(e)'
    BY <1>1, <2>1, <2>3, ConstantsAssumption DEF Owner, Quiet, Takes, Stoppers
  <2>5. ASSUME NEW j \in Instance, runtime'[j] # runtime[j]
        PROVE  runtime'[j] = NoEngine /\ \A e \in Engine : runtime[j] = e => ~Takes(e)'
    BY <2>1, <2>4, <2>5 DEF Types, EnginesOK
  <2>6. RegistryChange
    BY <2>5 DEF RegistryChange
  <2> QED
    BY <1>1, <2>1, <2>2, <2>6, KeptEngines, NoEngineChange, NoRebootChange DEF Change, CallChange
<1> QED
  BY <1>2, <1>3

\* The next process starts with one worker per restored account.
LEMMA RestartOwner ==
  ASSUME Owner, ProcessRestarts
  PROVE  Owner'
<1>1. PICK up \in SUBSET Wanted : \E over : Restores(up, over)
  BY DEF ProcessRestarts
<1>2. up \subseteq Instance
  BY DEF Wanted
<1>3. \A i, j \in Instance :
        /\ runtime'[i] # NoEngine <=> i \in up
        /\ i # j /\ i \in up => runtime'[i] # runtime'[j]
  BY <1>1 DEF Restores
<1>4. ASSUME NEW e \in Engine
      PROVE  \/ /\ eng'[e].thread = "none"
                /\ ~ \E i \in up : runtime'[i] = e
             \/ /\ eng'[e].running
                /\ \E i \in up : runtime'[i] = e /\ eng'[e].inst = i
  <2>1. eng'[e] = IF \E i \in up : runtime'[i] = e
                  THEN LET i == CHOOSE i \in up : runtime'[i] = e
                       IN  Fresh(i, row[i].state = "paused")
                  ELSE Blank
    BY <1>1 DEF Restores
  <2>2. CASE \E i \in up : runtime'[i] = e
    <3> DEFINE i == CHOOSE i \in up : runtime'[i] = e
    <3>1. i \in up /\ runtime'[i] = e /\ eng'[e] = Fresh(i, row[i].state = "paused")
      BY <2>1, <2>2
    <3> HIDE DEF i
    <3> QED
      BY <3>1 DEF Fresh
  <2>3. CASE ~ \E i \in up : runtime'[i] = e
    BY <2>1, <2>3 DEF Blank
  <2> QED
    BY <2>2, <2>3
<1>5. OneWorkerUntilSwap' /\ Live'
  <2>1. \A e \in Engine : Takes(e)' => eng'[e].thread = "alive"
    BY DEF Takes
  <2>2. Live'
    BY <1>4, <2>1 DEF Live
  <2>3. \A i \in Instance, e \in Engine :
          eng'[e].inst = i /\ eng'[e].thread = "alive" => e = runtime'[i]
    BY <1>4
  <2> QED
    BY <2>2, <2>3 DEF OneWorkerUntilSwap, Working
<1>6. call' = [t \in Thread |-> Idle] /\ reboot' = [i \in Instance |-> "idle"]
        /\ rebooting' = [i \in Instance |-> NoEngine] /\ session' = session
  BY DEF ProcessRestarts
<1>7. \A t \in Thread : /\ call'[t].op = "none" /\ call'[t].pc = "idle"
                        /\ call'[t].eng = NoEngine
  BY <1>6 DEF Idle
<1>8. Registered' /\ Gated' /\ Quiet' /\ Stopping' /\ Unswapped'
  BY <1>6, <1>7, ConstantsAssumption
  DEF Registered, Mine, Gated, Quiet, Stoppers, Stopping, Unswapped, Owner
<1>9. ASSUME NEW i \in Instance, runtime'[i] \in Engine PROVE eng'[runtime'[i]].inst = i
  BY <1>2, <1>3, <1>4, <1>9, ConstantsAssumption
<1>10. Belongs'
  BY <1>6, <1>7, <1>9, ConstantsAssumption DEF Belongs
<1> QED
  BY <1>5, <1>8, <1>10 DEF Owner

\* The beginning of an account restart is such a change: it closes a gate.
LEMMA ResetBeginsChange ==
  ASSUME Types, NEW t \in Caller, NEW i \in Instance, ResetBegins(t, i), "reset" \in Requests
  PROVE  Change
<1>1. /\ UNCHANGED <<runtime, mutex, reboot, rebooting>> /\ t \in Thread
      /\ \/ eng' = eng
         \/ eng' = [eng EXCEPT ![runtime[i]].open = FALSE]
  BY DEF ResetBegins, Thread
<1>2. \A e \in Engine : Tame(e) /\ Shut(e)
  BY <1>1, KeptEngines, ClosedEngine DEF Types
<1> DEFINE pc == IF runtime[i] = NoEngine THEN "swap" ELSE "enter"
           begun == [Begin(t, i, "reset", pc) EXCEPT
                       !.paused = (Object(i).state = "paused"), !.had = Running(i),
                       !.old = runtime[i], !.session = session[i]]
<1>3. call' = [call EXCEPT ![t] = begun]
  BY DEF ResetBegins
<1>4. /\ call'[t] = begun
      /\ \A u \in Thread : u # t => call'[u] = call[u]
  BY <1>1, <1>3 DEF Types, CallsOK
<1>5. /\ call'[t].op = "reset" /\ call'[t].pc = pc
      /\ call'[t].inst = i /\ call'[t].eng = runtime[i]
  BY <1>4 DEF Begin, Idle
<1>6. Asks(t)
  BY <1>1, <1>4, <1>5 DEF Asks
<1> QED
  BY <1>1, <1>2, <1>6, NoEngineChange, NoRegistryChange, NoRebootChange DEF Change, CallChange

\* Its stop() takes the mutex, or is refused and the call is over.
LEMMA ResetEntersChange ==
  ASSUME Types, Bounds, NEW t \in Caller, ResetEnters(t)
  PROVE  Change
<1> DEFINE i == call[t].inst
<1>1. /\ UNCHANGED <<runtime, eng, reboot, rebooting>> /\ t \in Thread
      /\ call[t].op = "reset" /\ i \in Instance /\ Free(i)
  BY DEF ResetEnters, Thread, Bounds
<1>2. CASE /\ mutex' = [mutex EXCEPT ![i] = t]
           /\ call' = [call EXCEPT ![t].pc = "signal", ![t].eng = runtime[i], ![t].gen = cur[i]]
  <2>1. /\ call'[t] = [call[t] EXCEPT !.pc = "signal", !.eng = runtime[i], !.gen = cur[i]]
        /\ \A u \in Thread : u # t => call'[u] = call[u]
    BY <1>1, <1>2 DEF Types, CallsOK
  <2>2. /\ call'[t].op = "reset" /\ call'[t].pc = "signal"
        /\ call'[t].inst = i /\ call'[t].eng = runtime[i]
    BY <1>1, <2>1 DEF Types, CallsOK, CallRecord
  <2>3. Begins(t)
    BY <1>1, <1>2, <2>1, <2>2 DEF Begins, Stoppers
  <2> QED
    BY <1>1, <2>3, KeptEngines, NoEngineChange, NoRegistryChange, NoRebootChange
    DEF Change, CallChange
<1>3. CASE call' = [call EXCEPT ![t] = Idle] /\ UNCHANGED mutex
  <2>1. Drops(t)
    BY <1>1, <1>3 DEF Drops, Idle, Types, CallsOK
  <2> QED
    BY <1>1, <2>1, KeptEngines, NoEngineChange, NoRegistryChange, NoRebootChange
    DEF Change, CallChange
<1> QED
  BY <1>2, <1>3 DEF ResetEnters

\* The swap drops what the registry holds, of an account that is swapped, and builds
\* a new engine only under a free mutex.
LEMMA ResetSwapsChange ==
  ASSUME Types, Bounds, NEW t \in Caller, ResetSwaps(t)
  PROVE  Change
<1> DEFINE i == call[t].inst
<1>1. /\ UNCHANGED <<mutex, reboot, rebooting>> /\ t \in Thread
      /\ call[t].op = "reset" /\ i \in Instance /\ call' = [call EXCEPT ![t] = Idle]
  BY DEF ResetSwaps, Thread, Bounds
<1>2. Drops(t)
  BY <1>1 DEF Drops, Idle, Types, CallsOK
<1>3. CASE UNCHANGED <<runtime, eng>>
  BY <1>1, <1>2, <1>3, KeptEngines, NoEngineChange, NoRegistryChange, NoRebootChange
  DEF Change, CallChange
<1>4. CASE session' = [session EXCEPT ![i] = @ + 1]
  <2>1. session'[i] # 0
    BY <1>1, <1>4 DEF Types, RestOK
  <2>2. ASSUME NEW closed, Replace(i, closed, eng), Free(i)
        PROVE  EngineChange /\ RegistryChange
    BY <1>1, <2>1, <2>2, ReplaceChange DEF Types, EnginesOK, Free
  <2>3. ASSUME runtime'[i] \in {runtime[i], NoEngine}, eng' = eng,
               \A j \in Instance : j # i => runtime'[j] = runtime[j]
        PROVE  EngineChange /\ RegistryChange
    <3>1. RegistryChange
      BY <2>1, <2>3 DEF RegistryChange
    <3> QED
      BY <2>3, <3>1, KeptEngines, NoEngineChange
  <2>4. \/ Free(i) /\ \E closed \in BOOLEAN : Replace(i, closed, eng)
        \/ eng' = eng /\ runtime' = [runtime EXCEPT ![i] = NoEngine]
        \/ eng' = eng /\ runtime' = [runtime EXCEPT ![i] = IF call[t].old = NoEngine THEN @ ELSE NoEngine]
        \/ UNCHANGED <<runtime, eng>>
    BY <1>1 DEF ResetSwaps, Build, Types, CallsOK, CallRecord
  <2>5. EngineChange /\ RegistryChange
    BY <1>1, <2>2, <2>3, <2>4 DEF Types, EnginesOK
  <2> QED
    BY <1>1, <1>2, <2>5, NoRebootChange DEF Change, CallChange
<1> QED
  BY <1>3, <1>4 DEF ResetSwaps

\* Every step of an operator's call is such a change.
LEMMA CallerStepChange ==
  ASSUME Types, Bounds, Owner, NEW t \in Caller, CallerStep(t)
  PROVE  Change
BY OperatorStartChange, EnterChange, StopReturnsChange, PauseGateChange,
   PauseReturnsChange, ResumeReturnsChange, UpdateConfigurationChange, RebootRequestChange,
   ResetBeginsChange, ResetEntersChange, ResetSwapsChange
DEF CallerStep

\* Every step of a reboot is.
LEMMA RebootStepChange ==
  ASSUME Types, Owner, NEW i \in Instance, RebootStep(i)
  PROVE  Change
BY RebootStopChange, RebootJoinChange, RebootClearChange, RebootReloadChange,
   RebootStartChange, RebootOpensChange, RebootEndChange DEF RebootStep

\* Every step of a worker is.
LEMMA WorkerStepChange ==
  ASSUME Types, NEW d \in Engine, EngineStep(d)
  PROVE  Change
<1>1. UNCHANGED <<runtime, call, mutex, reboot, rebooting>>
  BY EngineStepChange DEF control
<1> QED
  BY <1>1, EngineStepChange, NoEngineChange, NoRegistryChange, NoRebootChange
  DEF Change, CallChange

\* Every step of a sweep is.
LEMMA SweepStepChange ==
  ASSUME Types, Bounds, Owner, SweepStep
  PROVE  Change
<1>1. ASSUME SweepBegins PROVE Change
  <2>1. UNCHANGED <<runtime, eng, call, mutex, reboot, rebooting>>
    BY <1>1 DEF SweepBegins
  <2> QED
    BY <2>1, KeptEngines, NoEngineChange, NoRegistryChange, NoRebootChange DEF Change, CallChange
<1> QED
  BY <1>1, SweepVisitsChange, SweepRepairsChange, HaltChange DEF SweepStep

\* Only the swap of an account counts its session.
LEMMA SessionNext ==
  ASSUME Types, Bounds, [Next]_vars
  PROVE  SessionChange
<1>1. CASE UNCHANGED session
  BY <1>1 DEF SessionChange
<1>2. ASSUME NEW t \in Caller, ResetSwaps(t)
      PROVE  SessionChange
  <2>1. t \in Thread /\ call[t].op = "reset" /\ call[t].inst \in Instance
    BY <1>2 DEF ResetSwaps, Thread, Bounds
  <2>2. session' = session \/ session' = [session EXCEPT ![call[t].inst] = @ + 1]
    BY <1>2 DEF ResetSwaps
  <2>3. session \in [Instance -> Nat]
    BY ConstantsAssumption DEF Types, RestOK
  <2> QED
    BY <2>1, <2>2, <2>3 DEF SessionChange
<1>3. ASSUME NEW t \in Caller, CallerStep(t), ~ResetSwaps(t) PROVE UNCHANGED session
  BY <1>3 DEF CallerStep, OperatorStart, Enter, UpdateConfiguration, control, ResetBegins, RebootRequest,
     StopReturns, PauseGate, PauseReturns, ResumeReturns, ResetEnters
<1>4. ASSUME NEW t \in Thread, StopSignal(t) \/ StopJoin(t) PROVE UNCHANGED session
  BY <1>4 DEF StopSignal, StopJoin
<1>5. ASSUME NEW i \in Instance, RebootStep(i) PROVE UNCHANGED session
  BY <1>5 DEF RebootStep, RebootStop, RebootJoin, RebootClear, RebootReload, RebootStart, RebootOpens,
     RebootFinishes, RebootFails
<1>6. ASSUME NEW e \in Engine, EngineStep(e) PROVE UNCHANGED session
  BY <1>6 DEF EngineStep, EngineTransition, EngineReports, EngineExits, control
<1>7. CASE SweepStep
  BY <1>1, <1>7 DEF SweepStep, SweepBegins, SweepVisits, SweepRepairs, HaltEnters, HaltReturns
<1>8. CASE ProcessRestarts \/ UNCHANGED vars
  BY <1>1, <1>8 DEF ProcessRestarts, vars
<1> QED
  BY <1>1, <1>2, <1>3, <1>4, <1>5, <1>6, <1>7, <1>8 DEF Next

\* Every step keeps ownership.
LEMMA OwnerNext ==
  ASSUME FiniteInstances, Types, Bounds, Owner, [Next]_vars
  PROVE  Owner'
<1>1. Types' /\ SessionChange
  BY TypesNext, SessionNext
<1>2. CASE UNCHANGED vars
  <2>1. UNCHANGED <<runtime, eng, call, mutex, reboot, rebooting>>
    BY <1>2 DEF vars
  <2>2. Change
    BY <2>1, KeptEngines, NoEngineChange, NoRegistryChange, NoRebootChange DEF Change, CallChange
  <2> QED
    BY <1>1, <2>2, OwnerKept
<1>3. CASE Next
  <2>1. Change \/ ProcessRestarts
    BY <1>3, CallerStepChange, StopSignalChange, StopJoinChange, RebootStepChange,
       WorkerStepChange, SweepStepChange DEF Next
  <2> QED
    BY <1>1, <2>1, OwnerKept, RestartOwner
<1> QED
  BY <1>2, <1>3

\* All requests included, the account restart too, and whatever is swapped elsewhere:
\* as long as an account was never swapped, every worker of it that takes candles is
\* the one the registry holds.
THEOREM OneWorkerUntilSwapTheorem ==
  ASSUME FiniteInstances
  PROVE  Spec => []OneWorkerUntilSwap
<1>1. Init => Types /\ Bounds /\ Owner
  BY TypesInit, OwnerInit
<1>2. Types /\ Bounds /\ Owner /\ [Next]_vars => Types' /\ Bounds' /\ Owner'
  BY TypesNext, OwnerNext
<1>3. Owner => OneWorkerUntilSwap
  BY DEF Owner
<1> QED
  BY <1>1, <1>2, <1>3, PTL DEF Spec

\* "a second Start joins the running worker rather than layering a second one over
\* the same paper account": unless accounts are restarted, every worker that takes
\* candles is the one the registry holds, for any number of instances, callers and
\* engines.
THEOREM OneWorkerTheorem ==
  ASSUME FiniteInstances, NoAccountRestart
  PROVE  Spec => []OneWorkerPerAccount
<1>1. Init => Types /\ Bounds /\ Owner
  BY TypesInit, OwnerInit
<1>2. Types /\ Bounds /\ Owner /\ [Next]_vars => Types' /\ Bounds' /\ Owner'
  BY TypesNext, OwnerNext
<1>3. Owner => OneWorkerPerAccount
  BY DEF Owner, Unswapped, OneWorkerUntilSwap, OneWorkerPerAccount
<1> QED
  BY <1>1, <1>2, <1>3, PTL DEF Spec

\* When a Stop returns, the only worker there could be was told to stop.
LEMMA StopAnswer ==
  ASSUME Types, Bounds, Owner, NEW t \in Caller, NEW i \in Instance, session[i] = 0,
         StopReturns(t), call[t].op = "stop", call[t].inst = i
  PROVE  Working(i)' = {} /\ row'[i] = [state |-> "stopped", desired |-> FALSE]
<1>1. t \in Thread /\ Mine(t)
  BY DEF Thread, Mine
<1>2. /\ call[t].pc = "write" /\ eng' = eng /\ runtime' = runtime
      /\ row' = [row EXCEPT ![i] = [state |-> "stopped", desired |-> FALSE]]
  BY DEF StopReturns, Save
<1>3. row'[i] = [state |-> "stopped", desired |-> FALSE]
  BY <1>2 DEF Types, RowsOK
<1>4. ASSUME NEW e \in Working(i)' PROVE FALSE
  <2>1. e \in Engine /\ Takes(e)'
    BY DEF Working, Takes
  <2>2. e = runtime[i]
    BY <1>2, <1>4 DEF Owner, OneWorkerUntilSwap, Working
  <2>3. e = call[t].eng
    BY <1>1, <2>1, <2>2, ConstantsAssumption DEF Owner, Registered
  <2>4. ~Takes(e)
    BY <1>1, <1>2, <2>1, <2>3 DEF Owner, Quiet, Stoppers
  <2> QED
    BY <1>2, <2>1, <2>4 DEF Takes
<1> QED
  BY <1>3, <1>4

\* When a Pause returns, the only worker there could be has its gate closed.
LEMMA PauseAnswer ==
  ASSUME Types, Bounds, Owner, NEW t \in Caller, NEW i \in Instance, session[i] = 0,
         PauseReturns(t), call[t].inst = i
  PROVE  \A e \in Working(i)' : ~eng'[e].open
<1>1. t \in Thread /\ call[t].op = "pause" /\ Mine(t)
  BY DEF Thread, Mine, PauseReturns
<1>2. call[t].pc = "write" /\ eng' = eng /\ runtime' = runtime
  BY DEF PauseReturns
<1>3. ASSUME NEW e \in Working(i)' PROVE ~eng'[e].open
  <2>1. e \in Engine
    BY DEF Working
  <2>2. e = runtime[i]
    BY <1>2, <1>3 DEF Owner, OneWorkerUntilSwap, Working
  <2>3. e = call[t].eng
    BY <1>1, <2>1, <2>2, ConstantsAssumption DEF Owner, Registered
  <2> QED
    BY <1>1, <1>2, <2>1, <2>3 DEF Owner, Gated
<1> QED
  BY <1>3

\* What an operator is told of an account that was never swapped.
AnswersUntilSwap ==
  [][\A t \in Caller, i \in Instance : session[i] = 0 =>
       /\ StopReturns(t) /\ call[t].op = "stop" /\ call[t].inst = i =>
            Working(i)' = {} /\ row'[i] = [state |-> "stopped", desired |-> FALSE]
       /\ PauseReturns(t) /\ call[t].inst = i => \A e \in Working(i)' : ~eng'[e].open]_vars

\* All requests included: as long as an account was never swapped, no worker of it
\* takes candles when a Stop returns, and the row says so, and no gate is open when a
\* Pause returns.
THEOREM AnswersUntilSwapTheorem ==
  ASSUME FiniteInstances
  PROVE  Spec => AnswersUntilSwap
<1>1. Init => Types /\ Bounds /\ Owner
  BY TypesInit, OwnerInit
<1>2. Types /\ Bounds /\ Owner /\ [Next]_vars => Types' /\ Bounds' /\ Owner'
  BY TypesNext, OwnerNext
<1> DEFINE Answers ==
      \A t \in Caller, i \in Instance : session[i] = 0 =>
        /\ StopReturns(t) /\ call[t].op = "stop" /\ call[t].inst = i =>
             Working(i)' = {} /\ row'[i] = [state |-> "stopped", desired |-> FALSE]
        /\ PauseReturns(t) /\ call[t].inst = i => \A e \in Working(i)' : ~eng'[e].open
<1>3. Types /\ Bounds /\ Owner => Answers
  BY StopAnswer, PauseAnswer
<1>4. Types /\ Bounds /\ Owner => [Answers]_vars
  BY <1>3
<1> QED
  BY <1>1, <1>2, <1>4, PTL DEF Spec, AnswersUntilSwap

\* What an operator is told holds when the call returns: after Stop no worker takes
\* candles and the row says so, after Pause no gate is open, unless accounts are
\* restarted.
THEOREM AnswersTheorem ==
  ASSUME FiniteInstances, NoAccountRestart
  PROVE  Spec => AnswersAreTrue
<1>1. Init => Types /\ Bounds /\ Owner
  BY TypesInit, OwnerInit
<1>2. Types /\ Bounds /\ Owner /\ [Next]_vars => Types' /\ Bounds' /\ Owner'
  BY TypesNext, OwnerNext
<1> DEFINE Answers ==
      \A t \in Caller, i \in Instance :
        /\ StopReturns(t) /\ call[t].op = "stop" /\ call[t].inst = i =>
             Working(i)' = {} /\ row'[i] = [state |-> "stopped", desired |-> FALSE]
        /\ PauseReturns(t) /\ call[t].inst = i /\ i \in disarmed' =>
             (\A e \in Working(i)' : ~eng'[e].open)
<1>3. Types /\ Bounds /\ Owner => Answers
  BY StopAnswer, PauseAnswer DEF Owner, Unswapped
<1>4. Types /\ Bounds /\ Owner => [Answers]_vars
  BY <1>3
<1> QED
  BY <1>1, <1>2, <1>4, PTL DEF Spec, AnswersAreTrue

-----------------------------------------------------------------------------
(* The lifecycle mutex.                                                      *)

\* t is in a part of a call that runs under the mutex of its instance.
Holds(t) == call[t].pc \in {"signal", "join", "write", "gate"}

\* The mutex is exclusive, and whoever holds it is in the middle of a call on that
\* very instance: no exit of a call, a refused restart or an end of the process
\* leaves it taken, and no thread that waits for one ("enter", "swap", "start")
\* holds one. So threads never wait for each other in a circle.
MutexHeldByCalls ==
  /\ \A t \in Thread : Holds(t) => call[t].inst \in Instance /\ mutex[call[t].inst] = t
  /\ \A i \in Instance : mutex[i] # Nobody => Holds(mutex[i]) /\ call[mutex[i]].inst = i

\* The sweep's repair has not got its mutex yet.
RepairWaits == \A t \in Thread : call[t].op = "repair" => call[t].pc = "start"

\* What one thread may do to its call and the mutex.
Acquires(t) ==
  /\ ~Holds(t) /\ Holds(t)' /\ call'[t].op # "repair" /\ call'[t].inst \in Instance
  /\ Free(call'[t].inst) /\ mutex' = [mutex EXCEPT ![call'[t].inst] = t]

Keeps(t) ==
  /\ Holds(t) /\ Holds(t)' /\ call'[t].op = call[t].op /\ call'[t].inst = call[t].inst
  /\ mutex' = mutex

Gives(t) ==
  /\ Holds(t) /\ ~Holds(t)' /\ call'[t].op # "repair"
  /\ mutex' = [mutex EXCEPT ![call[t].inst] = Nobody]

Waits(t) ==
  /\ ~Holds(t) /\ ~Holds(t)' /\ (call'[t].op = "repair" => call'[t].pc = "start")
  /\ mutex' = mutex

MutexChange ==
  \/ UNCHANGED <<call, mutex>>
  \/ \E t \in Thread :
       /\ \A u \in Thread \ {t} : call'[u] = call[u]
       /\ Acquires(t) \/ Keeps(t) \/ Gives(t) \/ Waits(t)

\* Such a change keeps the mutex with the calls.
LEMMA MutexChangeKeeps ==
  ASSUME Types, Bounds, Types', Bounds', MutexHeldByCalls, RepairWaits, MutexChange
  PROVE  MutexHeldByCalls' /\ RepairWaits'
<1>0. /\ mutex \in [Instance -> Thread \cup {Nobody}] /\ Nobody \notin Thread
      /\ \A t \in Thread : Holds(t) => call[t].op # "repair"
  BY Names DEF Types, CallsOK, RepairWaits, Holds
<1>1. CASE UNCHANGED <<call, mutex>>
  BY <1>1 DEF MutexHeldByCalls, RepairWaits, Holds
<1>2. ASSUME NEW t \in Thread, \A u \in Thread \ {t} : call'[u] = call[u],
             Acquires(t) \/ Keeps(t) \/ Gives(t) \/ Waits(t)
      PROVE  MutexHeldByCalls' /\ RepairWaits'
  <2>1. RepairWaits'
    BY <1>0, <1>2 DEF RepairWaits, Acquires, Keeps, Gives, Waits, Holds
  <2>2. \A u \in Thread \ {t} : (Holds(u)' <=> Holds(u)) /\ call'[u].inst = call[u].inst
    BY <1>2 DEF Holds
  <2>3. /\ \A u \in Thread : Holds(u) => call[u].inst \in Instance /\ mutex[call[u].inst] = u
        /\ \A i \in Instance : mutex[i] # Nobody => /\ mutex[i] \in Thread
                                                   /\ Holds(mutex[i]) /\ call[mutex[i]].inst = i
    BY <1>0 DEF MutexHeldByCalls
  <2>4. CASE Acquires(t)
    <3> DEFINE k == call'[t].inst
    <3>1. /\ k \in Instance /\ mutex[k] = Nobody /\ Holds(t)' /\ ~Holds(t)
          /\ mutex'[k] = t /\ \A i \in Instance \ {k} : mutex'[i] = mutex[i]
      BY <1>0, <2>4 DEF Acquires, Free
    <3>2. ASSUME NEW u \in Thread, Holds(u)'
          PROVE  call'[u].inst \in Instance /\ mutex'[call'[u].inst] = u
      <4>1. CASE u = t
        BY <3>1, <4>1
      <4>2. CASE u # t
        <5>1. Holds(u) /\ call'[u].inst = call[u].inst
          BY <2>2, <3>2, <4>2
        <5>2. call[u].inst \in Instance /\ mutex[call[u].inst] = u /\ call[u].inst # k
          BY <1>0, <2>3, <3>1, <5>1
        <5> QED
          BY <3>1, <5>1, <5>2
      <4> QED
        BY <4>1, <4>2
    <3>3. ASSUME NEW i \in Instance, mutex'[i] # Nobody
          PROVE  Holds(mutex[i])' /\ call'[mutex'[i]].inst = i
      <4>1. CASE i = k
        BY <3>1, <4>1
      <4>2. CASE i # k
        <5>1. mutex'[i] = mutex[i] /\ mutex[i] \in Thread /\ Holds(mutex[i]) /\ call[mutex[i]].inst = i
          BY <2>3, <3>1, <3>3, <4>2
        <5>2. mutex[i] \in Thread \ {t}
          BY <3>1, <5>1
        <5> QED
          BY <1>2, <5>1, <5>2 DEF Holds
      <4> QED
        BY <4>1, <4>2
    <3> QED
      BY <2>1, <3>2, <3>3 DEF MutexHeldByCalls
  <2>5. CASE Keeps(t)
    <3>1. /\ \A u \in Thread : (Holds(u)' <=> Holds(u)) /\ call'[u].inst = call[u].inst
          /\ mutex' = mutex
      BY <2>2, <2>5 DEF Keeps
    <3> QED
      BY <2>1, <2>3, <3>1 DEF MutexHeldByCalls, Holds
  <2>6. CASE Gives(t)
    <3> DEFINE k == call[t].inst
    <3>1. /\ k \in Instance /\ mutex[k] = t /\ Holds(t) /\ ~Holds(t)'
          /\ mutex'[k] = Nobody /\ \A i \in Instance \ {k} : mutex'[i] = mutex[i]
      BY <1>0, <2>3, <2>6 DEF Gives
    <3>2. ASSUME NEW u \in Thread, Holds(u)'
          PROVE  call'[u].inst \in Instance /\ mutex'[call'[u].inst] = u
      <4>1. u # t /\ Holds(u) /\ call'[u].inst = call[u].inst
        BY <2>2, <3>1, <3>2
      <4>2. call[u].inst \in Instance /\ mutex[call[u].inst] = u /\ call[u].inst # k
        BY <2>3, <3>1, <4>1
      <4> QED
        BY <3>1, <4>1, <4>2
    <3>3. ASSUME NEW i \in Instance, mutex'[i] # Nobody
          PROVE  Holds(mutex[i])' /\ call'[mutex'[i]].inst = i
      <4>1. i # k
        BY <3>1, <3>3
      <4>2. mutex'[i] = mutex[i] /\ mutex[i] \in Thread /\ Holds(mutex[i]) /\ call[mutex[i]].inst = i
        BY <2>3, <3>1, <3>3, <4>1
      <4>3. mutex[i] \in Thread \ {t}
        BY <4>1, <4>2
      <4> QED
        BY <1>2, <4>2, <4>3 DEF Holds
    <3> QED
      BY <2>1, <3>2, <3>3 DEF MutexHeldByCalls
  <2>7. CASE Waits(t)
    <3>1. ~Holds(t) /\ ~Holds(t)' /\ mutex' = mutex
      BY <2>7 DEF Waits
    <3>2. ASSUME NEW u \in Thread, Holds(u)'
          PROVE  call'[u].inst \in Instance /\ mutex'[call'[u].inst] = u
      BY <2>2, <2>3, <3>1, <3>2
    <3>3. ASSUME NEW i \in Instance, mutex'[i] # Nobody
          PROVE  Holds(mutex[i])' /\ call'[mutex'[i]].inst = i
      <4>1. mutex'[i] = mutex[i] /\ mutex[i] \in Thread /\ Holds(mutex[i]) /\ call[mutex[i]].inst = i
        BY <2>3, <3>1, <3>3
      <4>2. mutex[i] \in Thread \ {t}
        BY <3>1, <4>1
      <4> QED
        BY <1>2, <4>1, <4>2 DEF Holds
    <3> QED
      BY <2>1, <3>2, <3>3 DEF MutexHeldByCalls
  <2> QED
    BY <1>2, <2>1, <2>4, <2>5, <2>6, <2>7
<1> QED
  BY <1>1, <1>2 DEF MutexChange

\* An operator's call takes the mutex, gives it back, or waits for it.
LEMMA CallerMutex ==
  ASSUME Types, Bounds, RepairWaits, NEW t \in Caller, CallerStep(t)
  PROVE  MutexChange
<1>0. t \in Thread /\ call \in [Thread -> CallRecord] /\ Idle.op = "none" /\ Idle.pc = "idle"
  BY DEF Thread, Types, CallsOK, Idle
<1>1. ASSUME NEW i \in Instance,
             OperatorStart(t, i) \/ UpdateConfiguration(t, i) \/ RebootRequest(t, i)
      PROVE  MutexChange
  BY <1>1 DEF OperatorStart, UpdateConfiguration, RebootRequest, control, MutexChange
<1>2. ASSUME NEW i \in Instance, NEW op \in {"stop", "pause", "resume"}, Enter(t, i, op)
      PROVE  MutexChange
  <2> DEFINE pc == IF op = "stop" THEN "signal" ELSE "gate"
  <2>1. call' = [call EXCEPT ![t] = Begin(t, i, op, pc)] /\ mutex' = [mutex EXCEPT ![i] = t]
        /\ Free(i) /\ call[t].pc = "idle"
    BY <1>2 DEF Enter
  <2>2. call'[t] = Begin(t, i, op, pc) /\ \A u \in Thread \ {t} : call'[u] = call[u]
    BY <1>0, <2>1
  <2>3. call'[t].op = op /\ call'[t].pc = pc /\ call'[t].inst = i
    BY <2>2 DEF Begin, Idle
  <2>4. Acquires(t)
    BY <2>1, <2>3 DEF Acquires, Holds
  <2> QED
    BY <1>0, <2>2, <2>4 DEF MutexChange
<1>3. ASSUME NEW i \in Instance, ResetBegins(t, i)
      PROVE  MutexChange
  <2>1. /\ call' = [call EXCEPT ![t] =
             [Begin(t, i, "reset", IF runtime[i] = NoEngine THEN "swap" ELSE "enter") EXCEPT
                !.paused = (Object(i).state = "paused"), !.had = Running(i),
                !.old = runtime[i], !.session = session[i]]]
        /\ call[t].pc = "idle" /\ mutex' = mutex
    BY <1>3 DEF ResetBegins
  <2>2. call'[t].op = "reset" /\ call'[t].pc \in {"swap", "enter"}
    BY <1>0, <2>1 DEF Begin, Idle
  <2>3. Waits(t)
    BY <2>1, <2>2 DEF Waits, Holds
  <2> QED
    BY <1>0, <2>1, <2>3 DEF MutexChange
<1>4. CASE PauseGate(t)
  <2>1. call' = [call EXCEPT ![t].pc = "write"] /\ call[t].pc = "gate" /\ mutex' = mutex
    BY <1>4 DEF PauseGate, Goto
  <2>2. call'[t] = [call[t] EXCEPT !.pc = "write"]
    BY <1>0, <2>1
  <2>3. call'[t].pc = "write" /\ call'[t].op = call[t].op /\ call'[t].inst = call[t].inst
    BY <1>0, <2>2 DEF CallRecord
  <2>4. Keeps(t)
    BY <2>1, <2>3 DEF Keeps, Holds
  <2> QED
    BY <1>0, <2>1, <2>4 DEF MutexChange
<1>5. ASSUME Return(t), Holds(t) PROVE MutexChange
  <2>1. call'[t] = Idle /\ \A u \in Thread \ {t} : call'[u] = call[u]
    BY <1>0, <1>5 DEF Return
  <2>2. Gives(t)
    BY <1>0, <1>5, <2>1 DEF Gives, Holds, Return
  <2> QED
    BY <1>0, <2>1, <2>2 DEF MutexChange
<1>6. CASE StopReturns(t)
  <2>1. CASE Return(t)
    BY <1>5, <1>6, <2>1 DEF StopReturns, Holds
  <2>2. CASE call[t].op = "reset" /\ Goto(t, "swap") /\ mutex' = [mutex EXCEPT ![call[t].inst] = Nobody]
    <3>1. call'[t] = [call[t] EXCEPT !.pc = "swap"] /\ \A u \in Thread \ {t} : call'[u] = call[u]
      BY <1>0, <2>2 DEF Goto
    <3>2. call'[t].pc = "swap" /\ call'[t].op = "reset"
      BY <1>0, <2>2, <3>1 DEF CallRecord
    <3>3. Gives(t)
      BY <1>6, <2>2, <3>2 DEF Gives, Holds, StopReturns
    <3> QED
      BY <1>0, <3>1, <3>3 DEF MutexChange
  <2> QED
    BY <1>6, <2>1, <2>2 DEF StopReturns
<1>7. CASE PauseReturns(t) \/ ResumeReturns(t)
  <2>1. Return(t)
    BY <1>7 DEF PauseReturns, ResumeReturns
  <2>2. Holds(t)
    BY <1>7 DEF PauseReturns, ResumeReturns, Holds
  <2> QED
    BY <1>5, <2>1, <2>2
<1>8. CASE ResetEnters(t)
  <2> DEFINE i == call[t].inst
  <2>1. CASE /\ mutex' = [mutex EXCEPT ![i] = t]
             /\ call' = [call EXCEPT ![t].pc = "signal", ![t].eng = runtime[i], ![t].gen = cur[i]]
    <3>1. /\ call'[t] = [call[t] EXCEPT !.pc = "signal", !.eng = runtime[i], !.gen = cur[i]]
          /\ \A u \in Thread \ {t} : call'[u] = call[u]
      BY <1>0, <2>1
    <3>2. call'[t].pc = "signal" /\ call'[t].op = call[t].op /\ call'[t].inst = i
      BY <1>0, <3>1 DEF CallRecord
    <3>3. i \in Instance /\ Free(i) /\ call[t].op = "reset" /\ call[t].pc = "enter"
      BY <1>0, <1>8 DEF ResetEnters, Bounds
    <3>4. Acquires(t)
      BY <2>1, <3>2, <3>3 DEF Acquires, Holds
    <3> QED
      BY <1>0, <3>1, <3>4 DEF MutexChange
  <2>2. CASE call' = [call EXCEPT ![t] = Idle] /\ UNCHANGED mutex
    <3>1. call'[t] = Idle /\ \A u \in Thread \ {t} : call'[u] = call[u]
      BY <1>0, <2>2
    <3>2. Waits(t)
      BY <1>0, <1>8, <2>2, <3>1 DEF Waits, Holds, ResetEnters
    <3> QED
      BY <1>0, <3>1, <3>2 DEF MutexChange
  <2> QED
    BY <1>8, <2>1, <2>2 DEF ResetEnters
<1>9. CASE ResetSwaps(t)
  <2>1. call' = [call EXCEPT ![t] = Idle] /\ mutex' = mutex /\ call[t].pc = "swap"
    BY <1>9 DEF ResetSwaps
  <2>2. call'[t] = Idle /\ \A u \in Thread \ {t} : call'[u] = call[u]
    BY <1>0, <2>1
  <2>3. Waits(t)
    BY <1>0, <2>1, <2>2 DEF Waits, Holds
  <2> QED
    BY <1>0, <2>2, <2>3 DEF MutexChange
<1> QED
  BY <1>1, <1>2, <1>3, <1>4, <1>6, <1>7, <1>8, <1>9 DEF CallerStep

\* engine.stop() keeps the mutex of its caller.
LEMMA StopMutex ==
  ASSUME Types, NEW t \in Thread, StopSignal(t) \/ StopJoin(t)
  PROVE  MutexChange
<1>0. call \in [Thread -> CallRecord]
  BY DEF Types, CallsOK
<1>1. PICK pc \in {"join", "write"} : Goto(t, pc)
  BY DEF StopSignal, StopJoin
<1>2. call'[t] = [call[t] EXCEPT !.pc = pc] /\ \A u \in Thread \ {t} : call'[u] = call[u]
  BY <1>0, <1>1 DEF Goto
<1>3. call'[t].pc = pc /\ call'[t].op = call[t].op /\ call'[t].inst = call[t].inst
  BY <1>0, <1>2 DEF CallRecord
<1>4. call[t].pc \in {"signal", "join"} /\ mutex' = mutex
  BY DEF StopSignal, StopJoin
<1>5. Keeps(t)
  BY <1>3, <1>4 DEF Keeps, Holds
<1> QED
  BY <1>2, <1>5 DEF MutexChange

\* The sweep takes the mutex for a halt and gives it back.
LEMMA SweepMutex ==
  ASSUME Types, Bounds, RepairWaits, SweepStep
  PROVE  MutexChange
<1>0. Supervisor \in Thread /\ call \in [Thread -> CallRecord] /\ Idle.op = "none" /\ Idle.pc = "idle"
  BY Names DEF Types, CallsOK, Idle
<1>1. CASE SweepBegins
  BY <1>1 DEF SweepBegins, MutexChange
<1>2. ASSUME NEW i \in Instance, NEW g \in Generation, SweepVisits(i, g)
      PROVE  MutexChange
  <2>1. CASE UNCHANGED call
    BY <1>2, <2>1 DEF SweepVisits, MutexChange
  <2>2. ASSUME NEW paused, \/ Visit(i, "halt", "enter", paused)
                           \/ Visit(i, "repair", "start", paused)
        PROVE  MutexChange
    <3>1. /\ call'[Supervisor].pc \in {"enter", "start"}
          /\ call'[Supervisor].op = "repair" => call'[Supervisor].pc = "start"
          /\ \A u \in Thread \ {Supervisor} : call'[u] = call[u]
      BY <1>0, <2>2 DEF Visit, Idle
    <3>2. call[Supervisor].pc = "idle" /\ mutex' = mutex
      BY <1>2 DEF SweepVisits
    <3>3. Waits(Supervisor)
      BY <3>1, <3>2 DEF Waits, Holds
    <3> QED
      BY <1>0, <3>1, <3>3 DEF MutexChange
  <2> QED
    BY <1>2, <2>1, <2>2 DEF SweepVisits
<1>3. CASE SweepRepairs
  <2>1. call' = [call EXCEPT ![Supervisor] = Idle] /\ mutex' = mutex /\ call[Supervisor].op = "repair"
    BY <1>3 DEF SweepRepairs
  <2>2. call'[Supervisor] = Idle /\ \A u \in Thread \ {Supervisor} : call'[u] = call[u]
    BY <1>0, <2>1
  <2>3. Waits(Supervisor)
    BY <1>0, <2>1, <2>2 DEF Waits, Holds, RepairWaits
  <2> QED
    BY <1>0, <2>2, <2>3 DEF MutexChange
<1>4. CASE HaltEnters
  <2> DEFINE i == call[Supervisor].inst
  <2>1. /\ call' = [call EXCEPT ![Supervisor] = Begin(Supervisor, i, "halt", "signal")]
        /\ mutex' = [mutex EXCEPT ![i] = Supervisor]
        /\ Free(i) /\ call[Supervisor].pc = "enter" /\ call[Supervisor].op = "halt"
    BY <1>4 DEF HaltEnters
  <2>2. /\ call'[Supervisor] = Begin(Supervisor, i, "halt", "signal")
        /\ \A u \in Thread \ {Supervisor} : call'[u] = call[u]
    BY <1>0, <2>1
  <2>3. /\ call'[Supervisor].op = "halt" /\ call'[Supervisor].pc = "signal"
        /\ call'[Supervisor].inst = i /\ i \in Instance
    BY <1>0, <2>1, <2>2 DEF Begin, Idle, Bounds
  <2>4. Acquires(Supervisor)
    BY <2>1, <2>3 DEF Acquires, Holds
  <2> QED
    BY <1>0, <2>2, <2>4 DEF MutexChange
<1>5. CASE HaltReturns
  <2>1. Return(Supervisor) /\ call[Supervisor].pc = "write"
    BY <1>5 DEF HaltReturns
  <2>2. call'[Supervisor] = Idle /\ \A u \in Thread \ {Supervisor} : call'[u] = call[u]
    BY <1>0, <2>1 DEF Return
  <2>3. Gives(Supervisor)
    BY <1>0, <2>1, <2>2 DEF Gives, Holds, Return
  <2> QED
    BY <1>0, <2>2, <2>3 DEF MutexChange
<1> QED
  BY <1>1, <1>2, <1>3, <1>4, <1>5 DEF SweepStep

\* Every step keeps the mutex with the calls.
LEMMA MutexNext ==
  ASSUME FiniteInstances, Types, Bounds, MutexHeldByCalls, RepairWaits, [Next]_vars
  PROVE  MutexHeldByCalls' /\ RepairWaits'
<1>1. Types' /\ Bounds'
  BY TypesNext
<1>2. ASSUME NEW i \in Instance, RebootStep(i) PROVE UNCHANGED <<call, mutex>>
  BY <1>2 DEF RebootStep, RebootStop, RebootJoin, RebootClear, RebootReload, RebootStart, RebootOpens,
              RebootFinishes, RebootFails
<1>3. ASSUME NEW e \in Engine, EngineStep(e) PROVE UNCHANGED <<call, mutex>>
  BY <1>3 DEF EngineStep, EngineTransition, EngineReports, EngineExits, control
<1>4. CASE ProcessRestarts
  <2>1. call' = [t \in Thread |-> Idle] /\ mutex' = [i \in Instance |-> Nobody]
    BY <1>4 DEF ProcessRestarts
  <2> QED
    BY <2>1 DEF MutexHeldByCalls, RepairWaits, Holds, Idle
<1>5. CASE UNCHANGED vars
  BY <1>5 DEF vars, MutexHeldByCalls, RepairWaits, Holds
<1>6. MutexChange \/ ProcessRestarts \/ UNCHANGED vars
  BY <1>2, <1>3, CallerMutex, StopMutex, SweepMutex DEF Next, MutexChange
<1> QED
  BY <1>1, <1>4, <1>5, <1>6, MutexChangeKeeps

\* Every request included, the account restart too: at most one thread works on an
\* instance under its lifecycle mutex, every held mutex has a thread that will give
\* it back, and no thread that waits for one holds another.
THEOREM MutexTheorem ==
  ASSUME FiniteInstances
  PROVE  Spec => []MutexHeldByCalls
<1>1. Init => Types /\ Bounds /\ MutexHeldByCalls /\ RepairWaits
  BY TypesInit DEF Init, MutexHeldByCalls, RepairWaits, Holds, Idle
<1>2. Types /\ Bounds /\ MutexHeldByCalls /\ RepairWaits /\ [Next]_vars =>
        Types' /\ Bounds' /\ MutexHeldByCalls' /\ RepairWaits'
  BY TypesNext, MutexNext
<1> QED
  BY <1>1, <1>2, PTL DEF Spec
=============================================================================
