------------------------- MODULE ManagerLocksProofs -------------------------
(***************************************************************************)
(* Proofs about ManagerLocks, for any number of callers and instances, of  *)
(* every operation but the account restart: no cyclic wait for locks, and  *)
(* no join of a worker that the joining thread keeps waiting.              *)
(*                                                                         *)
(* What a thread holds is a function of locks to depths; whose callbacks   *)
(* are known to be detached, while it holds the state lock, is a set.  A   *)
(* script is safe when both can be followed through it to its end, where   *)
(* nothing is held (Trace).                                                *)
(***************************************************************************)
EXTENDS ManagerLocks, SequenceTheorems, TLAPS

USE ConstantsAssumption

\* Every operation that takes the mutex of its instance before the state lock.
OrderedRequests ==
  Requests \subseteq {"start", "delete", "stop", "halt", "pause", "resume", "update", "reboot"}

Acts == [what : {"take", "give", "join", "report", "attach", "detach"}, on : Lock]
Depths == [Lock -> Nat]
Zero == [l \in Lock |-> 0]

More(d, l) == [d EXCEPT ![l] = @ + 1]
Less(d, l) == [d EXCEPT ![l] = @ - 1]

\* Callbacks stay detached for as long as the state lock is held.
Proper(d, D) == d[State] = 0 => D = {}

\* A mutex is taken by a thread that holds it, or that holds nothing.
Entered(i, d) == d[i] > 0 \/ d = Zero

\* One step of a script, from d and D to e and E.
Allowed(a, d, D, e, E) ==
  \/ /\ a.what = "take" /\ (a.on # State => Entered(a.on, d))
     /\ e = More(d, a.on) /\ E = D
  \/ /\ a.what = "give" /\ d[a.on] > 0
     /\ e = Less(d, a.on) /\ E = IF e[State] = 0 THEN {} ELSE D
  \/ /\ a.what = "join" /\ a.on \in Worker /\ (d[State] > 0 => a.on \in D)
     /\ e = d /\ E = D
  \/ /\ a.what = "report" /\ a.on \in Worker /\ e = d /\ E = D
  \/ /\ a.what = "attach" /\ a.on \in Worker /\ d[State] > 0 /\ e = d /\ E = D \ {a.on}
  \/ /\ a.what = "detach" /\ a.on \in Worker /\ d[State] > 0 /\ e = d /\ E = D \cup {a.on}

Trace(s, d, D, e, E) ==
  \E held \in [1 .. Len(s) + 1 -> Depths], off \in [1 .. Len(s) + 1 -> SUBSET Worker] :
    /\ held[1] = d /\ off[1] = D
    /\ held[Len(s) + 1] = e /\ off[Len(s) + 1] = E
    /\ \A k \in 1 .. Len(s) : Allowed(s[k], held[k], off[k], held[k + 1], off[k + 1])
-----------------------------------------------------------------------------
\* A step on its own.
LEMMA TraceStep ==
  ASSUME NEW what \in {"take", "give", "join", "report", "attach", "detach"}, NEW on \in Lock,
         NEW d \in Depths, NEW D \in SUBSET Worker, NEW e \in Depths, NEW E \in SUBSET Worker,
         Allowed([what |-> what, on |-> on], d, D, e, E)
  PROVE  Trace(Do(what, on), d, D, e, E) /\ Do(what, on) \in Seq(Acts)
<1> DEFINE a == [what |-> what, on |-> on]
           held == [k \in 1 .. 2 |-> IF k = 1 THEN d ELSE e]
           off == [k \in 1 .. 2 |-> IF k = 1 THEN D ELSE E]
<1>1. a \in Acts /\ Do(what, on) = <<a>>
  BY DEF Acts, Do
<1>2. <<a>> \in Seq(Acts) /\ Len(<<a>>) = 1 /\ <<a>>[1] = a
  BY <1>1
<1>3. held \in [1 .. 2 -> Depths] /\ off \in [1 .. 2 -> SUBSET Worker]
  OBVIOUS
<1>4. held[1] = d /\ held[2] = e /\ off[1] = D /\ off[2] = E
  OBVIOUS
<1> HIDE DEF a, held, off
<1>5. \A k \in 1 .. 1 : Allowed(<<a>>[k], held[k], off[k], held[k + 1], off[k + 1])
  BY <1>2, <1>4 DEF a
<1>6. Trace(<<a>>, d, D, e, E)
  <2>1. Len(<<a>>) + 1 = 2
    BY <1>2
  <2> QED
    BY <1>2, <1>3, <1>4, <1>5, <2>1 DEF Trace
<1> QED
  BY <1>1, <1>2, <1>6

\* Two scripts one after the other.
LEMMA TraceCat ==
  ASSUME NEW r \in Seq(Acts), NEW s \in Seq(Acts), NEW d, NEW D, NEW e, NEW E, NEW f, NEW F,
         Trace(r, d, D, e, E), Trace(s, e, E, f, F)
  PROVE  Trace(r \o s, d, D, f, F) /\ r \o s \in Seq(Acts)
<1>1. PICK h1 \in [1 .. Len(r) + 1 -> Depths], o1 \in [1 .. Len(r) + 1 -> SUBSET Worker] :
        /\ h1[1] = d /\ o1[1] = D /\ h1[Len(r) + 1] = e /\ o1[Len(r) + 1] = E
        /\ \A k \in 1 .. Len(r) : Allowed(r[k], h1[k], o1[k], h1[k + 1], o1[k + 1])
  BY DEF Trace
<1>2. PICK h2 \in [1 .. Len(s) + 1 -> Depths], o2 \in [1 .. Len(s) + 1 -> SUBSET Worker] :
        /\ h2[1] = e /\ o2[1] = E /\ h2[Len(s) + 1] = f /\ o2[Len(s) + 1] = F
        /\ \A k \in 1 .. Len(s) : Allowed(s[k], h2[k], o2[k], h2[k + 1], o2[k + 1])
  BY DEF Trace
<1> DEFINE m == Len(r)
           n == Len(r) + Len(s)
           held == [k \in 1 .. n + 1 |-> IF k <= m THEN h1[k] ELSE h2[k - m]]
           off == [k \in 1 .. n + 1 |-> IF k <= m THEN o1[k] ELSE o2[k - m]]
<1>3. m \in Nat /\ Len(s) \in Nat /\ n \in Nat
  OBVIOUS
<1>4. r \o s \in Seq(Acts) /\ Len(r \o s) = n
      /\ \A k \in 1 .. n : (r \o s)[k] = IF k <= m THEN r[k] ELSE s[k - m]
  BY ConcatProperties
<1>5. held \in [1 .. n + 1 -> Depths] /\ off \in [1 .. n + 1 -> SUBSET Worker]
  <2>1. ASSUME NEW k \in 1 .. n + 1, k <= m PROVE k \in 1 .. m + 1
    BY <1>3, <2>1
  <2>2. ASSUME NEW k \in 1 .. n + 1, ~(k <= m) PROVE k - m \in 1 .. Len(s) + 1
    BY <1>3, <2>2
  <2> HIDE DEF m, n
  <2> QED
    BY <1>1, <1>2, <2>1, <2>2 DEF m
<1>6. ASSUME NEW k \in 1 .. m + 1 PROVE held[k] = h1[k] /\ off[k] = o1[k]
  <2>1. CASE k <= m
    BY <1>3, <2>1
  <2>2. CASE k = m + 1
    BY <1>1, <1>2, <1>3, <2>2
  <2> QED
    BY <1>3, <2>1, <2>2
<1>7. ASSUME NEW k \in 1 .. Len(s) + 1 PROVE held[m + k] = h2[k] /\ off[m + k] = o2[k]
  BY <1>3
<1> HIDE DEF held, off
<1>8. ASSUME NEW k \in 1 .. n
      PROVE  Allowed((r \o s)[k], held[k], off[k], held[k + 1], off[k + 1])
  <2>1. CASE k <= m
    <3>1. (r \o s)[k] = r[k] /\ k \in 1 .. Len(r) /\ k \in 1 .. m + 1 /\ k + 1 \in 1 .. m + 1
      BY <1>3, <1>4, <2>1
    <3> QED
      BY <1>1, <1>6, <3>1
  <2>2. CASE ~(k <= m)
    <3> DEFINE j == k - m
    <3>1. /\ (r \o s)[k] = s[j] /\ j \in 1 .. Len(s) /\ j \in 1 .. Len(s) + 1
          /\ j + 1 \in 1 .. Len(s) + 1 /\ m + j = k /\ m + (j + 1) = k + 1
      BY <1>3, <1>4, <2>2
    <3> HIDE DEF j
    <3> QED
      BY <1>2, <1>7, <3>1
  <2> QED
    BY <2>1, <2>2
<1>9. held[1] = d /\ off[1] = D /\ held[n + 1] = f /\ off[n + 1] = F
  <2>1. 1 \in 1 .. m + 1 /\ Len(s) + 1 \in 1 .. Len(s) + 1 /\ m + (Len(s) + 1) = n + 1
    BY <1>3
  <2> QED
    BY <1>1, <1>2, <1>6, <1>7, <2>1
<1> QED
  BY <1>4, <1>5, <1>8, <1>9 DEF Trace

\* The rest of a script once its first step is done.
LEMMA TraceTail ==
  ASSUME NEW s \in Seq(Acts), s # <<>>, NEW d, NEW D, NEW e, NEW E, Trace(s, d, D, e, E)
  PROVE  \E f \in Depths, F \in SUBSET Worker :
           Allowed(Head(s), d, D, f, F) /\ Trace(Tail(s), f, F, e, E)
<1>1. PICK h \in [1 .. Len(s) + 1 -> Depths], o \in [1 .. Len(s) + 1 -> SUBSET Worker] :
        /\ h[1] = d /\ o[1] = D /\ h[Len(s) + 1] = e /\ o[Len(s) + 1] = E
        /\ \A k \in 1 .. Len(s) : Allowed(s[k], h[k], o[k], h[k + 1], o[k + 1])
  BY DEF Trace
<1>2. Len(s) \in Nat /\ Len(s) >= 1 /\ Head(s) = s[1]
  OBVIOUS
<1>3. /\ Len(Tail(s)) = Len(s) - 1 /\ Len(Tail(s)) + 1 = Len(s)
      /\ \A k \in 1 .. Len(Tail(s)) : Tail(s)[k] = s[k + 1]
  BY <1>2, HeadTailProperties
<1> DEFINE held == [k \in 1 .. Len(s) |-> h[k + 1]]
           off == [k \in 1 .. Len(s) |-> o[k + 1]]
<1>4. held \in [1 .. Len(s) -> Depths] /\ off \in [1 .. Len(s) -> SUBSET Worker]
  BY <1>2
<1>5. held[1] = h[2] /\ off[1] = o[2] /\ held[Len(s)] = e /\ off[Len(s)] = E
  BY <1>1, <1>2
<1>6. ASSUME NEW k \in 1 .. Len(Tail(s))
      PROVE  Allowed(Tail(s)[k], held[k], off[k], held[k + 1], off[k + 1])
  <2>1. k + 1 \in 1 .. Len(s) /\ k \in 1 .. Len(s) /\ Tail(s)[k] = s[k + 1]
    BY <1>2, <1>3
  <2>2. held[k] = h[k + 1] /\ held[k + 1] = h[(k + 1) + 1] /\ off[k] = o[k + 1] /\ off[k + 1] = o[(k + 1) + 1]
    BY <2>1
  <2> QED
    BY <1>1, <2>1, <2>2
<1> HIDE DEF held, off
<1>7. Trace(Tail(s), h[2], o[2], e, E)
  BY <1>3, <1>4, <1>5, <1>6 DEF Trace
<1>8. Allowed(Head(s), d, D, h[2], o[2]) /\ h[2] \in Depths /\ o[2] \in SUBSET Worker
  BY <1>1, <1>2
<1> QED
  BY <1>7, <1>8
-----------------------------------------------------------------------------
\* An idle thread's script.
LEMMA TraceEmpty ==
  ASSUME NEW d \in Depths, NEW D \in SUBSET Worker
  PROVE  Trace(<<>>, d, D, d, D)
<1> DEFINE held == [k \in 1 .. 1 |-> d]
           off == [k \in 1 .. 1 |-> D]
<1>1. held \in [1 .. 1 -> Depths] /\ off \in [1 .. 1 -> SUBSET Worker] /\ held[1] = d /\ off[1] = D
  OBVIOUS
<1>2. Len(<<>>) = 0 /\ Len(<<>>) + 1 = 1 /\ 1 .. Len(<<>>) = {}
  OBVIOUS
<1> HIDE DEF held, off
<1> QED
  BY <1>1, <1>2 DEF Trace

\* Taking and giving leave depths, and undo one another.
LEMMA DepthTypes ==
  ASSUME NEW d \in Depths, NEW l \in Lock
  PROVE  /\ More(d, l) \in Depths /\ More(d, l)[l] = d[l] + 1 /\ More(d, l)[l] > 0
         /\ \A m \in Lock \ {l} : More(d, l)[m] = d[m]
         /\ d[l] > 0 => Less(d, l) \in Depths
         /\ Less(More(d, l), l) = d
<1>1. d[l] \in Nat
  BY DEF Depths
<1>2. More(d, l) \in Depths /\ More(d, l)[l] = d[l] + 1 /\ \A m \in Lock \ {l} : More(d, l)[m] = d[m]
  BY <1>1 DEF Depths, More
<1>3. d[l] > 0 => Less(d, l) \in Depths
  BY <1>1 DEF Depths, Less
<1>4. Less(More(d, l), l) = d
  <2>1. Less(More(d, l), l) = [m \in Lock |-> IF m = l THEN More(d, l)[l] - 1 ELSE More(d, l)[m]]
    BY <1>2 DEF Less, Depths
  <2>2. \A m \in Lock : Less(More(d, l), l)[m] = d[m]
    BY <1>1, <1>2, <2>1
  <2> QED
    BY <2>1, <2>2 DEF Depths
<1> QED
  BY <1>1, <1>2, <1>3, <1>4

\* with lock l: body.  What the body leaves detached is forgotten with the state lock.
LEMMA TraceSection ==
  ASSUME NEW l \in Lock, NEW body \in Seq(Acts),
         NEW d \in Depths, NEW D \in SUBSET Worker, NEW E \in SUBSET Worker,
         l # State => Entered(l, d),
         Trace(body, More(d, l), D, More(d, l), E)
  PROVE  /\ Trace(Section(l, body), d, D, d, IF d[State] = 0 THEN {} ELSE E)
         /\ Section(l, body) \in Seq(Acts)
<1> DEFINE F == IF d[State] = 0 THEN {} ELSE E
<1>1. More(d, l) \in Depths /\ More(d, l)[l] > 0 /\ Less(More(d, l), l) = d
  BY DepthTypes
<1>2. Trace(Do("take", l), d, D, More(d, l), D) /\ Do("take", l) \in Seq(Acts)
  <2>1. Allowed([what |-> "take", on |-> l], d, D, More(d, l), D)
    BY DEF Allowed
  <2> QED
    BY <1>1, <2>1, TraceStep
<1>3. Trace(Do("give", l), More(d, l), E, d, F) /\ Do("give", l) \in Seq(Acts)
  <2>1. Allowed([what |-> "give", on |-> l], More(d, l), E, d, F)
    BY <1>1 DEF Allowed
  <2>2. F \in SUBSET Worker
    OBVIOUS
  <2> QED
    BY <1>1, <2>1, <2>2, TraceStep
<1> HIDE DEF F
<1>4. Trace(Do("take", l) \o body, d, D, More(d, l), E) /\ Do("take", l) \o body \in Seq(Acts)
  BY <1>2, TraceCat
<1>5. /\ Trace((Do("take", l) \o body) \o Do("give", l), d, D, d, F)
      /\ (Do("take", l) \o body) \o Do("give", l) \in Seq(Acts)
  BY <1>3, <1>4, TraceCat
<1> QED
  BY <1>5 DEF Section, F

\* A short section under the state lock changes nothing.
LEMMA TraceBrief ==
  ASSUME NEW d \in Depths, NEW D \in SUBSET Worker, Proper(d, D)
  PROVE  Trace(Brief, d, D, d, D) /\ Brief \in Seq(Acts)
<1>1. State \in Lock /\ <<>> \in Seq(Acts) /\ More(d, State) \in Depths
  BY DepthTypes DEF Lock
<1>2. Trace(<<>>, More(d, State), D, More(d, State), D)
  BY <1>1, TraceEmpty
<1>3. D = IF d[State] = 0 THEN {} ELSE D
  BY DEF Proper
<1> QED
  BY <1>1, <1>2, <1>3, TraceSection DEF Brief

\* with the lifecycle mutex of i: body.
LEMMA TraceLifecycle ==
  ASSUME NEW i \in Worker, NEW body \in Seq(Acts),
         NEW d \in Depths, NEW D \in SUBSET Worker, NEW E \in SUBSET Worker,
         Proper(d, D), Entered(i, d),
         Trace(body, More(d, i), D, More(d, i), E)
  PROVE  /\ Trace(Lifecycle(i, body), d, D, d, IF d[State] = 0 THEN {} ELSE E)
         /\ Lifecycle(i, body) \in Seq(Acts)
<1>1. i \in Lock /\ (IF d[State] = 0 THEN {} ELSE E) \in SUBSET Worker
  BY DEF Lock
<1>2. /\ Trace(Section(i, body), d, D, d, IF d[State] = 0 THEN {} ELSE E)
      /\ Section(i, body) \in Seq(Acts)
  BY <1>1, TraceSection
<1>3. Trace(Brief, d, D, d, D) /\ Brief \in Seq(Acts)
  BY TraceBrief
<1> QED
  BY <1>2, <1>3, TraceCat DEF Lifecycle

\* Inside the mutex of i the mutex may be taken again, and the state lock is as it was.
LEMMA InsideMutex ==
  ASSUME NEW i \in Worker, NEW d \in Depths, NEW D \in SUBSET Worker, Proper(d, D)
  PROVE  /\ More(d, i) \in Depths /\ Proper(More(d, i), D) /\ Entered(i, More(d, i))
         /\ More(d, i)[State] = d[State]
<1>1. i \in Lock /\ State \in Lock \ {i}
  BY DEF Lock
<1>2. More(d, i) \in Depths /\ More(d, i)[i] > 0 /\ More(d, i)[State] = d[State]
  BY <1>1, DepthTypes
<1> QED
  BY <1>2 DEF Proper, Entered

\* Inside a section under the state lock.
LEMMA InsideState ==
  ASSUME NEW d \in Depths, NEW D \in SUBSET Worker
  PROVE  /\ State \in Lock /\ More(d, State) \in Depths /\ More(d, State)[State] > 0
         /\ Proper(More(d, State), D)
         /\ \A i \in Worker : More(d, State)[i] = d[i]
<1>1. State \in Lock /\ \A i \in Worker : i \in Lock \ {State}
  BY DEF Lock
<1>2. More(d, State) \in Depths /\ More(d, State)[State] > 0 /\ \A i \in Worker : More(d, State)[i] = d[i]
  BY <1>1, DepthTypes
<1> QED
  BY <1>1, <1>2 DEF Proper

\* engine.stop(), by a thread that does not hold the state lock or has detached
\* the callback of the worker under it.
LEMMA TraceEngineStop ==
  ASSUME NEW i \in Worker, NEW d \in Depths, NEW D \in SUBSET Worker, d[State] > 0 => i \in D
  PROVE  Trace(EngineStop(i), d, D, d, D) /\ EngineStop(i) \in Seq(Acts)
<1>1. i \in Lock
  BY DEF Lock
<1>2. Trace(Do("join", i), d, D, d, D) /\ Do("join", i) \in Seq(Acts)
  <2>1. Allowed([what |-> "join", on |-> i], d, D, d, D)
    BY DEF Allowed
  <2> QED
    BY <1>1, <2>1, TraceStep
<1>3. Trace(Do("report", i), d, D, d, D) /\ Do("report", i) \in Seq(Acts)
  <2>1. Allowed([what |-> "report", on |-> i], d, D, d, D)
    BY DEF Allowed
  <2> QED
    BY <1>1, <2>1, TraceStep
<1> QED
  BY <1>2, <1>3, TraceCat DEF EngineStop

\* A start attaches the new worker's callback under the state lock.
LEMMA TraceStart ==
  ASSUME NEW i \in Worker, NEW d \in Depths, NEW D \in SUBSET Worker, Proper(d, D), Entered(i, d)
  PROVE  Trace(Start(i), d, D, d, D \ {i}) /\ Start(i) \in Seq(Acts)
<1> DEFINE e == More(d, i)
           f == More(e, State)
           E == D \ {i}
<1>1. e \in Depths /\ e[State] = d[State]
  BY InsideMutex
<1>2. f \in Depths /\ f[State] > 0 /\ i \in Lock /\ State \in Lock
  BY <1>1, InsideState DEF Lock
<1>3. Trace(Do("attach", i), f, D, f, E) /\ Do("attach", i) \in Seq(Acts)
  <2>1. Allowed([what |-> "attach", on |-> i], f, D, f, E)
    BY <1>2 DEF Allowed
  <2> QED
    BY <1>2, <2>1, TraceStep
<1>4. E = IF d[State] = 0 THEN {} ELSE E
  BY DEF Proper
<1> HIDE DEF E, f
<1>5. E \in SUBSET Worker
  BY DEF E
<1>6. Trace(Section(State, Do("attach", i)), e, D, e, E) /\ Section(State, Do("attach", i)) \in Seq(Acts)
  BY <1>1, <1>2, <1>3, <1>4, <1>5, TraceSection DEF f
<1>7. /\ Trace(Lifecycle(i, Section(State, Do("attach", i))), d, D, d, IF d[State] = 0 THEN {} ELSE E)
      /\ Lifecycle(i, Section(State, Do("attach", i))) \in Seq(Acts)
  BY <1>5, <1>6, TraceLifecycle DEF e
<1> QED
  BY <1>4, <1>7 DEF Start, E

\* A halt, with the callback detached if the state lock is held.
LEMMA TraceHalt ==
  ASSUME NEW i \in Worker, NEW d \in Depths, NEW D \in SUBSET Worker, Proper(d, D), Entered(i, d),
         d[State] > 0 => i \in D
  PROVE  /\ Trace(Halt(i), d, D, d, D) /\ Halt(i) \in Seq(Acts)
         /\ Trace(Stop(i), d, D, d, D) /\ Stop(i) \in Seq(Acts)
<1> DEFINE e == More(d, i)
<1>1. e \in Depths /\ Proper(e, D) /\ e[State] = d[State]
  BY InsideMutex
<1> HIDE DEF e
<1>2. Trace(Brief, e, D, e, D) /\ Brief \in Seq(Acts)
  BY <1>1, TraceBrief
<1>3. Trace(EngineStop(i), e, D, e, D) /\ EngineStop(i) \in Seq(Acts)
  BY <1>1, TraceEngineStop
<1>4. Trace(Brief \o EngineStop(i), e, D, e, D) /\ Brief \o EngineStop(i) \in Seq(Acts)
  BY <1>2, <1>3, TraceCat
<1>5. /\ Trace((Brief \o EngineStop(i)) \o Brief, e, D, e, D)
      /\ (Brief \o EngineStop(i)) \o Brief \in Seq(Acts)
  BY <1>2, <1>4, TraceCat
<1>6. D = IF d[State] = 0 THEN {} ELSE D
  BY DEF Proper
<1>7. Trace(Halt(i), d, D, d, D) /\ Halt(i) \in Seq(Acts)
  BY <1>5, <1>6, TraceLifecycle DEF Halt, e
<1>8. Trace(Stop(i), d, D, d, D) /\ Stop(i) \in Seq(Acts)
  BY <1>4, <1>6, TraceLifecycle DEF Stop, e
<1> QED
  BY <1>7, <1>8

\* A pause.
LEMMA TracePause ==
  ASSUME NEW i \in Worker, NEW d \in Depths, NEW D \in SUBSET Worker, Proper(d, D), Entered(i, d)
  PROVE  Trace(Pause(i), d, D, d, D) /\ Pause(i) \in Seq(Acts)
<1>1. More(d, i) \in Depths /\ Proper(More(d, i), D)
  BY InsideMutex
<1>2. Trace(Brief, More(d, i), D, More(d, i), D) /\ Brief \in Seq(Acts)
  BY <1>1, TraceBrief
<1>3. D = IF d[State] = 0 THEN {} ELSE D
  BY DEF Proper
<1> QED
  BY <1>2, <1>3, TraceLifecycle DEF Pause

\* A thread that holds nothing may do anything.
LEMMA ZeroFacts ==
  /\ Zero \in Depths /\ Zero[State] = 0 /\ Proper(Zero, {}) /\ {} \in SUBSET Worker
  /\ \A i \in Worker : Entered(i, Zero)
<1>1. State \in Lock /\ 0 \in Nat
  BY DEF Lock
<1>2. Zero \in Depths /\ Zero[State] = 0
  BY <1>1 DEF Zero, Depths
<1> QED
  BY <1>2 DEF Proper, Entered

\* A resume that finds no worker starts one.
LEMMA TraceResume ==
  ASSUME NEW i \in Worker
  PROVE  Trace(Resume(i), Zero, {}, Zero, {}) /\ Resume(i) \in Seq(Acts)
<1> DEFINE e == More(Zero, i)
<1>1. e \in Depths /\ Proper(e, {}) /\ Entered(i, e)
  BY ZeroFacts, InsideMutex
<1> HIDE DEF e
<1>2. Trace(Brief, e, {}, e, {}) /\ Brief \in Seq(Acts)
  BY <1>1, TraceBrief
<1>3. Trace(Start(i), e, {}, e, {} \ {i}) /\ Start(i) \in Seq(Acts)
  BY <1>1, TraceStart
<1>4. {} \ {i} = {}
  OBVIOUS
<1>5. Trace(Brief \o Start(i), e, {}, e, {}) /\ Brief \o Start(i) \in Seq(Acts)
  BY <1>2, <1>3, <1>4, TraceCat
<1>6. /\ Trace(Lifecycle(i, Brief \o Start(i)), Zero, {}, Zero, IF Zero[State] = 0 THEN {} ELSE {})
      /\ Lifecycle(i, Brief \o Start(i)) \in Seq(Acts)
  BY <1>5, ZeroFacts, TraceLifecycle DEF e
<1> QED
  BY <1>6 DEF Resume

\* A callback is detached under the state lock.
LEMMA TraceDetach ==
  ASSUME NEW i \in Worker, NEW d \in Depths, d[State] > 0
  PROVE  Trace(Do("detach", i), d, {}, d, {i}) /\ Do("detach", i) \in Seq(Acts)
<1>1. Allowed([what |-> "detach", on |-> i], d, {}, d, {i})
  BY DEF Allowed
<1>2. i \in Lock /\ {i} \in SUBSET Worker /\ {} \in SUBSET Worker
  BY DEF Lock
<1> QED
  BY <1>1, <1>2, TraceStep

\* A section that detaches a callback.
LEMMA TraceDetachSection ==
  ASSUME NEW i \in Worker, NEW d \in Depths, d[State] = 0
  PROVE  /\ Trace(Section(State, Do("detach", i)), d, {}, d, {})
         /\ Section(State, Do("detach", i)) \in Seq(Acts)
<1> DEFINE f == More(d, State)
<1>1. f \in Depths /\ f[State] > 0 /\ State \in Lock /\ {i} \in SUBSET Worker /\ {} \in SUBSET Worker
  BY InsideState
<1> HIDE DEF f
<1>2. Trace(Do("detach", i), f, {}, f, {i}) /\ Do("detach", i) \in Seq(Acts)
  BY <1>1, TraceDetach
<1>3. /\ Trace(Section(State, Do("detach", i)), d, {}, d, IF d[State] = 0 THEN {} ELSE {i})
      /\ Section(State, Do("detach", i)) \in Seq(Acts)
  BY <1>1, <1>2, TraceSection DEF f
<1> QED
  BY <1>3

\* A deletion.
LEMMA TraceDelete ==
  ASSUME NEW i \in Worker
  PROVE  Trace(Delete(i), Zero, {}, Zero, {}) /\ Delete(i) \in Seq(Acts)
<1> DEFINE e == More(Zero, i)
<1>1. e \in Depths /\ e[State] = 0
  BY ZeroFacts, InsideMutex
<1> HIDE DEF e
<1>2. /\ Trace(Section(State, Do("detach", i)), e, {}, e, {})
      /\ Section(State, Do("detach", i)) \in Seq(Acts)
  BY <1>1, TraceDetachSection
<1>3. /\ Trace(Lifecycle(i, Section(State, Do("detach", i))), Zero, {}, Zero, IF Zero[State] = 0 THEN {} ELSE {})
      /\ Lifecycle(i, Section(State, Do("detach", i))) \in Seq(Acts)
  BY <1>2, ZeroFacts, TraceLifecycle DEF e
<1> QED
  BY <1>3 DEF Delete

\* An edit joins the worker under the state lock, after it detached its callback,
\* and takes no lock under it that it does not hold.
LEMMA TraceUpdate ==
  ASSUME NEW i \in Worker
  PROVE  Trace(Update(i), Zero, {}, Zero, {}) /\ Update(i) \in Seq(Acts)
<1> DEFINE e == More(Zero, i)
           f == More(e, State)
           body == Do("detach", i) \o Halt(i) \o Start(i) \o Pause(i)
<1>1. e \in Depths /\ e[i] > 0 /\ Entered(i, e) /\ e[State] = 0
  BY ZeroFacts, InsideMutex, DepthTypes DEF Lock
<1> HIDE DEF e
<1>2. /\ f \in Depths /\ f[State] > 0 /\ Proper(f, {i}) /\ Proper(f, {}) /\ f[i] > 0
      /\ State \in Lock /\ {i} \in SUBSET Worker /\ {} \in SUBSET Worker
  BY <1>1, InsideState
<1> HIDE DEF f
<1>3. Entered(i, f)
  BY <1>2 DEF Entered
<1>4. Trace(Do("detach", i), f, {}, f, {i}) /\ Do("detach", i) \in Seq(Acts)
  BY <1>2, TraceDetach
<1>5. Trace(Halt(i), f, {i}, f, {i}) /\ Halt(i) \in Seq(Acts)
  BY <1>2, <1>3, TraceHalt
<1>6. Trace(Start(i), f, {i}, f, {i} \ {i}) /\ Start(i) \in Seq(Acts)
  BY <1>2, <1>3, TraceStart
<1>7. Trace(Pause(i), f, {}, f, {}) /\ Pause(i) \in Seq(Acts)
  BY <1>2, <1>3, TracePause
<1>8. {i} \ {i} = {}
  OBVIOUS
<1>9. Trace(Do("detach", i) \o Halt(i), f, {}, f, {i}) /\ Do("detach", i) \o Halt(i) \in Seq(Acts)
  BY <1>4, <1>5, TraceCat
<1>10. /\ Trace((Do("detach", i) \o Halt(i)) \o Start(i), f, {}, f, {})
       /\ (Do("detach", i) \o Halt(i)) \o Start(i) \in Seq(Acts)
  BY <1>6, <1>8, <1>9, TraceCat
<1>11. Trace(body, f, {}, f, {}) /\ body \in Seq(Acts)
  BY <1>7, <1>10, TraceCat
<1> HIDE DEF body
<1>12. /\ Trace(Section(State, body), e, {}, e, IF e[State] = 0 THEN {} ELSE {})
       /\ Section(State, body) \in Seq(Acts)
  BY <1>1, <1>2, <1>11, TraceSection DEF f
<1>13. /\ Trace(Lifecycle(i, Section(State, body)), Zero, {}, Zero, IF Zero[State] = 0 THEN {} ELSE {})
       /\ Lifecycle(i, Section(State, body)) \in Seq(Acts)
  BY <1>12, ZeroFacts, TraceLifecycle DEF e
<1> QED
  BY <1>13 DEF Update, body

\* A Full Bot Reboot holds no lock across the join.
LEMMA TraceReboot ==
  ASSUME NEW i \in Worker
  PROVE  Trace(Reboot(i), Zero, {}, Zero, {}) /\ Reboot(i) \in Seq(Acts)
<1> DEFINE r1 == Section(State, Do("detach", i)) \o Brief
           r2 == r1 \o EngineStop(i)
           r3 == r2 \o Brief
           r4 == r3 \o Brief
           r5 == r4 \o Start(i)
           r6 == r5 \o Brief
           Runs(s) == Trace(s, Zero, {}, Zero, {}) /\ s \in Seq(Acts)
<1>1. Runs(Section(State, Do("detach", i)))
  BY ZeroFacts, TraceDetachSection
<1>2. Runs(Brief)
  BY ZeroFacts, TraceBrief
<1>3. Runs(EngineStop(i))
  BY ZeroFacts, TraceEngineStop
<1>4. Runs(Start(i))
  <2>1. Trace(Start(i), Zero, {}, Zero, {} \ {i}) /\ Start(i) \in Seq(Acts)
    BY ZeroFacts, TraceStart
  <2>2. {} \ {i} = {}
    OBVIOUS
  <2> QED
    BY <2>1, <2>2
<1>5. Runs(r1)
  BY <1>1, <1>2, TraceCat
<1> HIDE DEF r1
<1>6. Runs(r2)
  BY <1>3, <1>5, TraceCat
<1> HIDE DEF r2
<1>7. Runs(r3)
  BY <1>2, <1>6, TraceCat
<1> HIDE DEF r3
<1>8. Runs(r4)
  BY <1>2, <1>7, TraceCat
<1> HIDE DEF r4
<1>9. Runs(r5)
  BY <1>4, <1>8, TraceCat
<1> HIDE DEF r5
<1>10. Runs(r6)
  BY <1>2, <1>9, TraceCat
<1> HIDE DEF r6
<1>11. Runs(r6 \o Brief)
  BY <1>2, <1>10, TraceCat
<1> QED
  BY <1>11 DEF Reboot, r1, r2, r3, r4, r5, r6

\* Every operation but the account restart is safe from beginning to end.
LEMMA TraceScript ==
  ASSUME NEW op \in Requests, OrderedRequests, NEW i \in Worker
  PROVE  Trace(Script(op, i), Zero, {}, Zero, {}) /\ Script(op, i) \in Seq(Acts)
<1>1. op \in {"start", "delete", "stop", "halt", "pause", "resume", "update", "reboot"}
  BY DEF OrderedRequests
<1>2. CASE op = "start"
  <2>1. Trace(Start(i), Zero, {}, Zero, {} \ {i}) /\ Start(i) \in Seq(Acts) /\ {} \ {i} = {}
    BY ZeroFacts, TraceStart
  <2> QED
    BY <1>2, <2>1 DEF Script
<1>3. CASE op = "delete"
  BY <1>3, TraceDelete DEF Script
<1>4. CASE op \in {"stop", "halt"}
  <2>1. /\ Trace(Halt(i), Zero, {}, Zero, {}) /\ Halt(i) \in Seq(Acts)
        /\ Trace(Stop(i), Zero, {}, Zero, {}) /\ Stop(i) \in Seq(Acts)
    BY ZeroFacts, TraceHalt
  <2> QED
    BY <1>4, <2>1 DEF Script
<1>5. CASE op = "pause"
  BY <1>5, ZeroFacts, TracePause DEF Script
<1>6. CASE op = "resume"
  BY <1>6, TraceResume DEF Script
<1>7. CASE op = "update"
  BY <1>7, TraceUpdate DEF Script
<1>8. CASE op = "reboot"
  BY <1>8, TraceReboot DEF Script
<1> QED
  BY <1>1, <1>2, <1>3, <1>4, <1>5, <1>6, <1>7, <1>8
-----------------------------------------------------------------------------
LocksOK ==
  /\ lock \in [Lock -> [owner : Thread \cup {Nobody}, depth : Nat]]
  /\ \A l \in Lock : lock[l].owner = Nobody <=> lock[l].depth = 0
  /\ script \in [Thread -> Seq(Acts)]
  /\ attached \in SUBSET Worker

\* How deep t holds every lock.
Owned(t) == [l \in Lock |-> IF lock[l].owner = t THEN lock[l].depth ELSE 0]

\* t's script is safe to its end from what t holds and has detached.
Follows(t) ==
  \E D \in SUBSET Worker :
    /\ Proper(Owned(t), D)
    /\ D \cap attached = {}
    /\ Trace(script[t], Owned(t), D, Zero, {})

\* A worker is in its callback or in none.
Reporting ==
  \A w \in Worker : \A k \in 1 .. Len(script[w]) :
    script[w][k].on = State /\ script[w][k].what \in {"take", "give"}

\* Whoever has a lock has it to some depth.
LEMMA OwnedFacts ==
  ASSUME LocksOK, NEW t \in Thread
  PROVE  /\ Owned(t) \in Depths
         /\ \A l \in Lock : Owned(t)[l] > 0 <=> lock[l].owner = t
         /\ \A l \in Lock : lock[l].owner = t => Owned(t)[l] = lock[l].depth
<1>1. t # Nobody
  BY DEF Thread
<1>2. \A l \in Lock : lock[l].depth \in Nat /\ (lock[l].owner = Nobody <=> lock[l].depth = 0)
  BY DEF LocksOK
<1>3. Owned(t) \in Depths
  BY <1>2 DEF Owned, Depths
<1> QED
  BY <1>1, <1>2, <1>3 DEF Owned

\* A safe step is from proper to proper.
LEMMA ProperStep ==
  ASSUME NEW a \in Acts, NEW d \in Depths, NEW D, NEW e, NEW E,
         Proper(d, D), Allowed(a, d, D, e, E)
  PROVE  Proper(e, E)
<1>1. a.on \in Lock /\ State \in Lock /\ d[State] \in Nat
  BY DEF Acts, Lock, Depths
<1>2. CASE a.what = "take"
  <2>1. e = More(d, a.on) /\ E = D
    BY <1>2 DEF Allowed
  <2>2. e[State] = d[State] \/ e[State] > 0
    BY <1>1, <2>1, DepthTypes
  <2> QED
    BY <1>1, <2>1, <2>2 DEF Proper
<1>3. CASE a.what # "take"
  BY <1>1, <1>3 DEF Proper, Allowed
<1> QED
  BY <1>2, <1>3

\* The next step of a thread with something left to do.
LEMMA NextStep ==
  ASSUME LocksOK, NEW t \in Thread, Follows(t), script[t] # <<>>
  PROVE  \E D \in SUBSET Worker, f \in Depths, F \in SUBSET Worker :
           /\ Proper(Owned(t), D) /\ D \cap attached = {}
           /\ Allowed(Head(script[t]), Owned(t), D, f, F)
           /\ Proper(f, F)
           /\ Trace(Tail(script[t]), f, F, Zero, {})
           /\ Head(script[t]) \in Acts /\ Tail(script[t]) \in Seq(Acts)
<1>1. PICK D \in SUBSET Worker :
        /\ Proper(Owned(t), D) /\ D \cap attached = {}
        /\ Trace(script[t], Owned(t), D, Zero, {})
  BY DEF Follows
<1>2. script[t] \in Seq(Acts) /\ Owned(t) \in Depths
  BY OwnedFacts DEF LocksOK
<1>3. PICK f \in Depths, F \in SUBSET Worker :
        Allowed(Head(script[t]), Owned(t), D, f, F) /\ Trace(Tail(script[t]), f, F, Zero, {})
  BY <1>1, <1>2, TraceTail
<1>4. Head(script[t]) \in Acts /\ Tail(script[t]) \in Seq(Acts)
  BY <1>2
<1>5. Proper(f, F)
  BY <1>1, <1>2, <1>3, <1>4, ProperStep
<1> QED
  BY <1>1, <1>3, <1>4, <1>5

\* What the others hold and plan is not touched, and a callback is attached only
\* by who holds the state lock.
LEMMA OthersFollow ==
  ASSUME NEW u \in Thread, Follows(u), script'[u] = script[u], Owned(u)' = Owned(u),
         attached' \subseteq attached \/ Owned(u)[State] = 0
  PROVE  Follows(u)'
<1>1. PICK D \in SUBSET Worker :
        /\ Proper(Owned(u), D) /\ D \cap attached = {}
        /\ Trace(script[u], Owned(u), D, Zero, {})
  BY DEF Follows
<1>2. D \cap attached' = {}
  BY <1>1 DEF Proper
<1> DEFINE d == Owned(u)'
<1>3. Proper(d, D) /\ Trace(script'[u], d, D, Zero, {})
  BY <1>1
<1> QED
  BY <1>2, <1>3 DEF Follows

\* Who carries out the first step of its script follows the rest.
LEMMA ActorFollows ==
  ASSUME NEW t \in Thread, NEW s, NEW D \in SUBSET Worker, script'[t] = s,
         Proper(Owned(t)', D), D \cap attached' = {}, Trace(s, Owned(t)', D, Zero, {})
  PROVE  Follows(t)'
BY DEF Follows

IInv == LocksOK /\ (\A u \in Thread : Follows(u)) /\ Reporting

\* A thread that moves on has the rest of its script before it, and no other moves.
LEMMA Advances ==
  ASSUME LocksOK, Reporting, NEW t \in Thread, script[t] # <<>>, Advance(t)
  PROVE  /\ script' \in [Thread -> Seq(Acts)]
         /\ script'[t] = Tail(script[t])
         /\ \A u \in Thread \ {t} : script'[u] = script[u]
         /\ Reporting'
<1>1. script[t] \in Seq(Acts) /\ Tail(script[t]) \in Seq(Acts)
  BY DEF LocksOK
<1>2. /\ script' \in [Thread -> Seq(Acts)] /\ script'[t] = Tail(script[t])
      /\ \A u \in Thread \ {t} : script'[u] = script[u]
  BY <1>1 DEF LocksOK, Advance
<1>3. ASSUME NEW w \in Worker, NEW k \in 1 .. Len(script'[w])
      PROVE  script'[w][k].on = State /\ script'[w][k].what \in {"take", "give"}
  <2>1. CASE w = t
    <3>1. k + 1 \in 1 .. Len(script[w]) /\ script'[w][k] = script[w][k + 1]
      <4>1. k \in 1 .. Len(Tail(script[t]))
        BY <1>2, <2>1
      <4>2. k + 1 \in 1 .. Len(script[t]) /\ Tail(script[t])[k] = script[t][k + 1]
        BY <1>1, <4>1, HeadTailProperties
      <4> QED
        BY <1>2, <2>1, <4>2
    <3>2. script[w][k + 1].on = State /\ script[w][k + 1].what \in {"take", "give"}
      BY <3>1 DEF Reporting
    <3> QED
      BY <3>1, <3>2
  <2>2. CASE w # t
    <3>1. script'[w] = script[w]
      BY <1>2, <2>2 DEF Thread
    <3> QED
      BY <3>1 DEF Reporting
  <2> QED
    BY <2>1, <2>2
<1> QED
  BY <1>2, <1>3 DEF Reporting

\* A thread takes a lock.
LEMMA TakeStep ==
  ASSUME IInv, NEW t \in Thread, Take(t)
  PROVE  IInv'
<1> DEFINE l == Head(script[t]).on
<1>1. /\ script[t] # <<>> /\ Head(script[t]).what = "take" /\ lock[l].owner \in {Nobody, t}
      /\ lock' = [lock EXCEPT ![l] = [owner |-> t, depth |-> @.depth + 1]]
      /\ Advance(t) /\ attached' = attached
  BY DEF Take, At
<1>2. PICK D \in SUBSET Worker, f \in Depths, F \in SUBSET Worker :
        /\ Proper(Owned(t), D) /\ D \cap attached = {}
        /\ Allowed(Head(script[t]), Owned(t), D, f, F)
        /\ Proper(f, F)
        /\ Trace(Tail(script[t]), f, F, Zero, {})
        /\ Head(script[t]) \in Acts /\ Tail(script[t]) \in Seq(Acts)
  BY <1>1, NextStep DEF IInv
<1>3. l \in Lock /\ f = More(Owned(t), l) /\ F = D
  BY <1>1, <1>2 DEF Allowed, Acts
<1> HIDE DEF l
<1>4. /\ script' \in [Thread -> Seq(Acts)] /\ script'[t] = Tail(script[t])
      /\ \A u \in Thread \ {t} : script'[u] = script[u]
      /\ Reporting'
  BY <1>1, Advances DEF IInv
<1>5. /\ lock' \in [Lock -> [owner : Thread \cup {Nobody}, depth : Nat]]
      /\ lock'[l].owner = t /\ lock'[l].depth = lock[l].depth + 1 /\ lock[l].depth \in Nat
      /\ \A m \in Lock \ {l} : lock'[m] = lock[m]
  BY <1>1, <1>3 DEF IInv, LocksOK
<1>6. t # Nobody
  BY DEF Thread
<1>7. LocksOK'
  <2>1. \A m \in Lock : lock'[m].owner = Nobody <=> lock'[m].depth = 0
    BY <1>5, <1>6 DEF IInv, LocksOK
  <2> QED
    BY <1>1, <1>4, <1>5, <2>1 DEF IInv, LocksOK
<1>8. Owned(t)' = f
  <2>1. lock[l].owner = Nobody => lock[l].depth = 0
    BY <1>3 DEF IInv, LocksOK
  <2>2. Owned(t)'  \in [Lock -> Nat] /\ f \in [Lock -> Nat]
    BY <1>2, <1>7, OwnedFacts DEF Depths, LocksOK, Owned
  <2>3. Owned(t)'[l] = f[l]
    BY <1>1, <1>3, <1>5, <1>6, <2>1 DEF Owned, More
  <2>4. \A m \in Lock \ {l} : Owned(t)'[m] = f[m]
    BY <1>3, <1>5 DEF Owned, More
  <2> QED
    BY <2>2, <2>3, <2>4
<1>9. Follows(t)'
  <2>1. D \cap attached' = {} /\ Proper(Owned(t)', D) /\ Trace(Tail(script[t]), Owned(t)', D, Zero, {})
    BY <1>1, <1>2, <1>3, <1>8
  <2> QED
    BY <1>4, <2>1, ActorFollows
<1>10. ASSUME NEW u \in Thread \ {t} PROVE Follows(u)'
  <2>1. u # Nobody
    BY DEF Thread
  <2>2. Owned(u)' = Owned(u)
    BY <1>1, <1>3, <1>5, <2>1 DEF Owned
  <2> QED
    BY <1>1, <1>4, <2>2, OthersFollow DEF IInv
<1> QED
  BY <1>4, <1>7, <1>9, <1>10 DEF IInv

\* A thread gives a lock back that it holds.
LEMMA GiveStep ==
  ASSUME IInv, NEW t \in Thread, Give(t)
  PROVE  IInv'
<1> DEFINE l == Head(script[t]).on
<1>1. /\ script[t] # <<>> /\ Head(script[t]).what = "give"
      /\ lock' = [lock EXCEPT ![l] = [owner |-> IF @.depth = 1 THEN Nobody ELSE t,
                                      depth |-> @.depth - 1]]
      /\ Advance(t) /\ attached' = attached
  BY DEF Give, At
<1>2. PICK D \in SUBSET Worker, f \in Depths, F \in SUBSET Worker :
        /\ Proper(Owned(t), D) /\ D \cap attached = {}
        /\ Allowed(Head(script[t]), Owned(t), D, f, F)
        /\ Proper(f, F)
        /\ Trace(Tail(script[t]), f, F, Zero, {})
        /\ Head(script[t]) \in Acts /\ Tail(script[t]) \in Seq(Acts)
  BY <1>1, NextStep DEF IInv
<1>3. l \in Lock /\ Owned(t)[l] > 0 /\ f = Less(Owned(t), l) /\ F \subseteq D
  BY <1>1, <1>2 DEF Allowed, Acts
<1> HIDE DEF l
<1>4. /\ script' \in [Thread -> Seq(Acts)] /\ script'[t] = Tail(script[t])
      /\ \A u \in Thread \ {t} : script'[u] = script[u]
      /\ Reporting'
  BY <1>1, Advances DEF IInv
<1>5. lock[l].owner = t /\ Owned(t)[l] = lock[l].depth /\ lock[l].depth \in Nat /\ lock[l].depth > 0
  BY <1>3, OwnedFacts DEF IInv, LocksOK
<1>6. t # Nobody
  BY DEF Thread
<1>7. /\ lock' \in [Lock -> [owner : Thread \cup {Nobody}, depth : Nat]]
      /\ lock'[l].depth = lock[l].depth - 1
      /\ lock'[l].owner = IF lock[l].depth = 1 THEN Nobody ELSE t
      /\ \A m \in Lock \ {l} : lock'[m] = lock[m]
  BY <1>1, <1>3, <1>5 DEF IInv, LocksOK
<1>8. LocksOK'
  <2>1. lock'[l].owner = Nobody <=> lock'[l].depth = 0
    BY <1>5, <1>6, <1>7
  <2>2. \A m \in Lock \ {l} : lock'[m].owner = Nobody <=> lock'[m].depth = 0
    BY <1>7 DEF IInv, LocksOK
  <2>3. \A m \in Lock : lock'[m].owner = Nobody <=> lock'[m].depth = 0
    BY <2>1, <2>2
  <2> QED
    BY <1>1, <1>4, <1>7, <2>3 DEF IInv, LocksOK
<1>9. Owned(t)' = f
  <2>1. Owned(t)' \in [Lock -> Nat] /\ f \in [Lock -> Nat]
    BY <1>2, <1>8 DEF Depths, LocksOK, Owned
  <2>2. Owned(t)'[l] = f[l]
    BY <1>3, <1>5, <1>6, <1>7 DEF Owned, Less
  <2>3. \A m \in Lock \ {l} : Owned(t)'[m] = f[m]
    BY <1>3, <1>7 DEF Owned, Less
  <2> QED
    BY <2>1, <2>2, <2>3
<1>10. Follows(t)'
  <2>1. F \cap attached' = {}
    BY <1>1, <1>2, <1>3
  <2> QED
    BY <1>2, <1>4, <1>9, <2>1, ActorFollows
<1>11. ASSUME NEW u \in Thread \ {t} PROVE Follows(u)'
  <2>1. u # Nobody
    BY DEF Thread
  <2>2. Owned(u)' = Owned(u)
    BY <1>3, <1>5, <1>7, <2>1 DEF Owned
  <2> QED
    BY <1>1, <1>4, <2>2, OthersFollow DEF IInv
<1> QED
  BY <1>4, <1>8, <1>10, <1>11 DEF IInv

\* A thread joins a worker, and attaches or detaches a callback.
LEMMA CallbackStep ==
  ASSUME IInv, NEW t \in Thread, Join(t) \/ Attach(t) \/ Detach(t)
  PROVE  IInv'
<1> DEFINE w == Head(script[t]).on
<1>1. /\ script[t] # <<>> /\ lock' = lock /\ Advance(t)
      /\ \/ Head(script[t]).what = "join" /\ attached' = attached
         \/ Head(script[t]).what = "attach" /\ attached' = attached \cup {w}
         \/ Head(script[t]).what = "detach" /\ attached' = attached \ {w}
  BY DEF Join, Attach, Detach, At
<1>2. PICK D \in SUBSET Worker, f \in Depths, F \in SUBSET Worker :
        /\ Proper(Owned(t), D) /\ D \cap attached = {}
        /\ Allowed(Head(script[t]), Owned(t), D, f, F)
        /\ Proper(f, F)
        /\ Trace(Tail(script[t]), f, F, Zero, {})
        /\ Head(script[t]) \in Acts /\ Tail(script[t]) \in Seq(Acts)
  BY <1>1, NextStep DEF IInv
<1>3. w \in Worker /\ f = Owned(t)
  BY <1>1, <1>2 DEF Allowed
<1>4. F \cap attached' = {}
  BY <1>1, <1>2 DEF Allowed
<1>5. Head(script[t]).what = "attach" => Owned(t)[State] > 0
  BY <1>2 DEF Allowed
<1>6. attached' \in SUBSET Worker
  BY <1>1, <1>3 DEF IInv, LocksOK
<1>7. attached' \subseteq attached \/ Owned(t)[State] > 0
  BY <1>1, <1>5
<1> HIDE DEF w
<1>8. /\ script' \in [Thread -> Seq(Acts)] /\ script'[t] = Tail(script[t])
      /\ \A u \in Thread \ {t} : script'[u] = script[u]
      /\ Reporting'
  BY <1>1, Advances DEF IInv
<1>9. LocksOK'
  BY <1>1, <1>6, <1>8 DEF IInv, LocksOK
<1>10. \A u \in Thread : Owned(u)' = Owned(u)
  BY <1>1 DEF Owned
<1>11. Follows(t)'
  <2>1. Owned(t)' = f
    BY <1>3, <1>10
  <2>2. Proper(Owned(t)', F) /\ Trace(Tail(script[t]), Owned(t)', F, Zero, {})
    BY <1>2, <2>1
  <2> QED
    BY <1>4, <1>8, <2>2, ActorFollows
<1>12. ASSUME NEW u \in Thread \ {t} PROVE Follows(u)'
  <2>1. Owned(t)[State] > 0 => Owned(u)[State] = 0
    <3>1. State \in Lock
      BY DEF Lock
    <3>2. Owned(t)[State] > 0 => lock[State].owner = t
      BY <3>1, OwnedFacts DEF IInv
    <3> QED
      BY <3>1, <3>2 DEF Owned
  <2> QED
    BY <1>7, <1>8, <1>10, <2>1, OthersFollow DEF IInv
<1> QED
  BY <1>8, <1>9, <1>11, <1>12 DEF IInv

\* engine.stop() reports for the worker: with the callback set, a short section.
LEMMA ReportStep ==
  ASSUME IInv, NEW t \in Thread, Report(t)
  PROVE  IInv'
<1> DEFINE rest == Tail(script[t])
           new == IF Head(script[t]).on \in attached THEN Brief \o rest ELSE rest
<1>1. /\ script[t] # <<>> /\ Head(script[t]).what = "report" /\ lock' = lock /\ attached' = attached
      /\ script' = [script EXCEPT ![t] = new]
  BY DEF Report, At, IInv, LocksOK
<1>2. PICK D \in SUBSET Worker, f \in Depths, F \in SUBSET Worker :
        /\ Proper(Owned(t), D) /\ D \cap attached = {}
        /\ Allowed(Head(script[t]), Owned(t), D, f, F)
        /\ Proper(f, F)
        /\ Trace(rest, f, F, Zero, {})
        /\ Head(script[t]) \in Acts /\ rest \in Seq(Acts)
  BY <1>1, NextStep DEF IInv
<1> HIDE DEF rest
<1>3. f = Owned(t) /\ F = D
  BY <1>1, <1>2 DEF Allowed
<1>4. Trace(Brief, f, F, f, F) /\ Brief \in Seq(Acts)
  BY <1>2, TraceBrief
<1>5. Trace(Brief \o rest, f, F, Zero, {}) /\ Brief \o rest \in Seq(Acts)
  BY <1>2, <1>4, TraceCat
<1>6. Trace(new, f, F, Zero, {}) /\ new \in Seq(Acts)
  BY <1>2, <1>5
<1> HIDE DEF new
<1>7. /\ script' \in [Thread -> Seq(Acts)] /\ script'[t] = new
      /\ \A u \in Thread \ {t} : script'[u] = script[u]
  BY <1>1, <1>6 DEF IInv, LocksOK
<1>8. t \notin Worker
  <2>1. script[t] \in Seq(Acts) /\ Head(script[t]) = script[t][1] /\ 1 \in 1 .. Len(script[t])
    BY <1>1 DEF IInv, LocksOK
  <2> QED
    BY <1>1, <2>1 DEF IInv, Reporting
<1>9. Reporting'
  <2>1. \A w \in Worker : script'[w] = script[w]
    BY <1>7, <1>8 DEF Thread
  <2> QED
    BY <2>1 DEF IInv, Reporting
<1>10. LocksOK'
  BY <1>1, <1>7 DEF IInv, LocksOK
<1>11. \A u \in Thread : Owned(u)' = Owned(u)
  BY <1>1 DEF Owned
<1>12. Follows(t)'
  <2>1. Owned(t)' = f
    BY <1>3, <1>11
  <2>2. F \cap attached' = {} /\ Proper(Owned(t)', F) /\ Trace(new, Owned(t)', F, Zero, {})
    BY <1>1, <1>2, <1>3, <1>6, <2>1
  <2> QED
    BY <1>7, <2>2, ActorFollows
<1>13. ASSUME NEW u \in Thread \ {t} PROVE Follows(u)'
  BY <1>1, <1>7, <1>11, OthersFollow DEF IInv
<1> QED
  BY <1>9, <1>10, <1>12, <1>13 DEF IInv

\* Brief is two steps on the state lock.
LEMMA BriefSteps ==
  /\ Brief \in Seq(Acts)
  /\ \A k \in 1 .. Len(Brief) : Brief[k].on = State /\ Brief[k].what \in {"take", "give"}
<1> DEFINE a == [what |-> "take", on |-> State]
           b == [what |-> "give", on |-> State]
<1>1. a \in Acts /\ b \in Acts
  BY DEF Acts, Lock
<1> HIDE DEF a, b
<1>2. Brief = (<<a>> \o <<>>) \o <<b>>
  BY DEF Brief, Section, Do, a, b
<1>3. <<a>> \in Seq(Acts) /\ <<b>> \in Seq(Acts) /\ <<a>> \o <<>> = <<a>>
      /\ Len(<<a>>) = 1 /\ Len(<<b>>) = 1 /\ <<a>>[1] = a /\ <<b>>[1] = b
  BY <1>1, ConcatEmptySeq
<1>4. Brief \in Seq(Acts) /\ Len(Brief) = 2 /\ Brief[1] = a /\ Brief[2] = b
  BY <1>2, <1>3, ConcatProperties
<1> QED
  BY <1>4 DEF a, b

\* An operation begins, and so does a worker's callback.
LEMMA BeginStep ==
  ASSUME IInv, OrderedRequests, NEW t \in Thread, Begin(t)
  PROVE  IInv'
<1>1. script[t] = <<>> /\ lock' = lock /\ attached' = attached
  BY DEF Begin
<1>2. Owned(t) = Zero
  <2>1. PICK D \in SUBSET Worker : Trace(<<>>, Owned(t), D, Zero, {})
    BY <1>1 DEF IInv, Follows
  <2>2. Len(<<>>) + 1 = 1
    OBVIOUS
  <2> QED
    BY <2>1, <2>2 DEF Trace
<1>3. PICK s \in Seq(Acts) :
        /\ script' = [script EXCEPT ![t] = s] /\ Trace(s, Zero, {}, Zero, {})
        /\ t \in Worker => s = Brief
  <2>1. CASE t \in Caller /\ \E op \in Requests, i \in Worker : script' = [script EXCEPT ![t] = Script(op, i)]
    <3>1. PICK op \in Requests, i \in Worker : script' = [script EXCEPT ![t] = Script(op, i)]
      BY <2>1
    <3>2. Trace(Script(op, i), Zero, {}, Zero, {}) /\ Script(op, i) \in Seq(Acts)
      BY TraceScript
    <3> QED
      BY <2>1, <3>1, <3>2
  <2>2. CASE t \in attached /\ script' = [script EXCEPT ![t] = Brief]
    <3>1. Trace(Brief, Zero, {}, Zero, {}) /\ Brief \in Seq(Acts)
      BY ZeroFacts, TraceBrief
    <3> QED
      BY <2>2, <3>1
  <2> QED
    BY <2>1, <2>2 DEF Begin
<1>4. /\ script' \in [Thread -> Seq(Acts)] /\ script'[t] = s
      /\ \A u \in Thread \ {t} : script'[u] = script[u]
  BY <1>3 DEF IInv, LocksOK
<1>5. Reporting'
  <2>1. ASSUME NEW w \in Worker
        PROVE  \A k \in 1 .. Len(script'[w]) :
                 script'[w][k].on = State /\ script'[w][k].what \in {"take", "give"}
    <3>1. CASE w = t
      <4>1. script'[w] = Brief
        BY <1>3, <1>4, <3>1
      <4> QED
        BY <4>1, BriefSteps
    <3>2. CASE w # t
      <4>1. script'[w] = script[w]
        BY <1>4, <3>2 DEF Thread
      <4> QED
        BY <4>1 DEF IInv, Reporting
    <3> QED
      BY <3>1, <3>2
  <2> QED
    BY <2>1 DEF Reporting
<1>6. LocksOK'
  BY <1>1, <1>4 DEF IInv, LocksOK
<1>7. \A u \in Thread : Owned(u)' = Owned(u)
  BY <1>1 DEF Owned
<1>8. Follows(t)'
  <2>1. Owned(t)' = Zero
    BY <1>2, <1>7
  <2>2. {} \cap attached' = {} /\ Proper(Owned(t)', {}) /\ Trace(s, Owned(t)', {}, Zero, {})
    BY <1>3, <2>1, ZeroFacts
  <2> QED
    BY <1>4, <2>2, ActorFollows
<1>9. ASSUME NEW u \in Thread \ {t} PROVE Follows(u)'
  BY <1>1, <1>4, <1>7, OthersFollow DEF IInv
<1> QED
  BY <1>5, <1>6, <1>8, <1>9 DEF IInv

\* The invariant is inductive.
LEMMA Invariance ==
  ASSUME OrderedRequests
  PROVE  Spec => []IInv
<1>1. Init => IInv
  <2> SUFFICES ASSUME Init PROVE IInv
    OBVIOUS
  <2>1. <<>> \in Seq(Acts) /\ 0 \in Nat /\ 1 .. Len(<<>>) = {}
    OBVIOUS
  <2>2. LocksOK
    BY <2>1 DEF Init, LocksOK
  <2>3. ASSUME NEW t \in Thread PROVE Follows(t)
    <3>1. Owned(t) = Zero /\ script[t] = <<>>
      BY DEF Init, Owned, Zero
    <3>2. Trace(<<>>, Zero, {}, Zero, {})
      BY ZeroFacts, TraceEmpty
    <3> QED
      BY <3>1, <3>2, ZeroFacts DEF Follows
  <2>4. Reporting
    <3>1. \A w \in Worker : script[w] = <<>>
      BY DEF Init, Thread
    <3> QED
      BY <2>1, <3>1 DEF Reporting
  <2> QED
    BY <2>2, <2>3, <2>4 DEF IInv
<1>2. IInv /\ [Next]_vars => IInv'
  <2>1. CASE UNCHANGED vars
    BY <2>1 DEF vars, IInv, LocksOK, Follows, Reporting, Owned
  <2>2. ASSUME IInv, NEW t \in Thread,
               Begin(t) \/ Take(t) \/ Give(t) \/ Join(t) \/ Report(t) \/ Attach(t) \/ Detach(t)
        PROVE  IInv'
    BY <2>2, BeginStep, TakeStep, GiveStep, CallbackStep, ReportStep
  <2> QED
    BY <2>1, <2>2 DEF Next
<1> QED
  BY <1>1, <1>2, PTL DEF Spec
-----------------------------------------------------------------------------
\* A thread that waits for another's mutex holds nothing, and one that joins a
\* worker whose callback is set does not hold the state lock.
LEMMA Waiting ==
  ASSUME IInv, NEW t \in Thread, NEW u \in Thread
  PROVE  /\ LockedOut(t, u) =>
              \/ lock[State].owner = u /\ lock[State].owner # t
              \/ /\ \A l \in Lock : lock[l].owner # t
                 /\ \E l \in Worker : lock[l].owner = u
         /\ Joining(t, u) => /\ lock[State].owner # t /\ u \in Worker
                             /\ \A v \in Thread : ~Joining(u, v)
                             /\ \A v \in Thread : LockedOut(u, v) => lock[State].owner = v
<1>1. ASSUME LockedOut(t, u)
      PROVE  \/ lock[State].owner = u /\ lock[State].owner # t
             \/ /\ \A l \in Lock : lock[l].owner # t
                /\ \E l \in Worker : lock[l].owner = u
  <2> DEFINE l == Head(script[t]).on
  <2>1. script[t] # <<>> /\ Head(script[t]).what = "take" /\ u # t /\ lock[l].owner = u
    BY <1>1 DEF LockedOut, At
  <2>2. PICK D \in SUBSET Worker, f \in Depths, F \in SUBSET Worker :
          Allowed(Head(script[t]), Owned(t), D, f, F) /\ Head(script[t]) \in Acts
    BY <2>1, NextStep DEF IInv
  <2>3. l \in Lock /\ (l # State => Entered(l, Owned(t)))
    BY <2>1, <2>2 DEF Allowed, Acts
  <2> HIDE DEF l
  <2>4. CASE l = State
    BY <2>1, <2>4
  <2>5. CASE l # State
    <3>1. l \in Worker
      BY <2>3, <2>5 DEF Lock
    <3>2. ~(Owned(t)[l] > 0)
      BY <2>1, <2>3, OwnedFacts DEF IInv
    <3>3. Owned(t) = Zero
      BY <2>3, <2>5, <3>2 DEF Entered
    <3>4. \A m \in Lock : lock[m].owner # t
      BY <3>3, OwnedFacts DEF IInv, Zero
    <3> QED
      BY <2>1, <3>1, <3>4
  <2> QED
    BY <2>4, <2>5
<1>2. ASSUME Joining(t, u)
      PROVE  /\ lock[State].owner # t /\ u \in Worker
             /\ \A v \in Thread : ~Joining(u, v)
             /\ \A v \in Thread : LockedOut(u, v) => lock[State].owner = v
  <2>1. /\ script[t] # <<>> /\ Head(script[t]).what = "join" /\ Head(script[t]).on = u
        /\ u \in attached /\ script[u] # <<>>
    BY <1>2 DEF Joining, At
  <2>2. PICK D \in SUBSET Worker, f \in Depths, F \in SUBSET Worker :
          Allowed(Head(script[t]), Owned(t), D, f, F) /\ D \cap attached = {}
    BY <2>1, NextStep DEF IInv
  <2>3. u \in Worker /\ ~(Owned(t)[State] > 0)
    BY <2>1, <2>2 DEF Allowed
  <2>4. lock[State].owner # t
    BY <2>3, OwnedFacts DEF IInv, Lock
  <2>5. Head(script[u]).on = State /\ Head(script[u]).what # "join"
    <3>1. script[u] \in Seq(Acts)
      BY DEF IInv, LocksOK
    <3>2. 1 \in 1 .. Len(script[u]) /\ Head(script[u]) = script[u][1]
      BY <2>1, <3>1
    <3> QED
      BY <2>3, <3>2 DEF IInv, Reporting
  <2> QED
    BY <2>3, <2>4, <2>5 DEF Joining, LockedOut, At
<1> QED
  BY <1>1, <1>2

\* No state of which the invariant holds has a cycle of threads that wait for
\* one another's locks or join one another.
LEMMA NoCycle == IInv => JoinsAreAnswered
<1> SUFFICES ASSUME IInv, NEW T \in SUBSET Thread, T # {},
                    \A t \in T : \E u \in T : LockedOut(t, u) \/ Joining(t, u)
             PROVE  FALSE
  BY DEF JoinsAreAnswered
<1> DEFINE HasState(v) == lock[State].owner = v
           HasMutex(v) == \E l \in Worker : lock[l].owner = v
<1>1. \A l \in Worker : l \in Lock
  BY DEF Lock
<1>2. State \in Lock
  BY DEF Lock
<1>3. \A v \in T : ~HasState(v)
  <2> SUFFICES ASSUME NEW v \in T, HasState(v) PROVE FALSE
    OBVIOUS
  <2>1. PICK u \in T : LockedOut(v, u) \/ Joining(v, u)
    OBVIOUS
  <2> QED
    BY <1>2, <2>1, Waiting
<1>4. \A v \in T : ~HasMutex(v)
  <2> SUFFICES ASSUME NEW v \in T, HasMutex(v) PROVE FALSE
    OBVIOUS
  <2>1. PICK u \in T : LockedOut(v, u) \/ Joining(v, u)
    OBVIOUS
  <2>2. CASE LockedOut(v, u)
    BY <1>1, <1>3, <2>2, Waiting
  <2>3. CASE Joining(v, u)
    <3>1. PICK w \in T : LockedOut(u, w) \/ Joining(u, w)
      OBVIOUS
    <3> QED
      BY <1>3, <2>3, <3>1, Waiting
  <2> QED
    BY <2>1, <2>2, <2>3
<1>5. PICK v \in T : TRUE
  OBVIOUS
<1>6. PICK u \in T : LockedOut(v, u) \/ Joining(v, u)
  BY <1>5
<1>7. CASE LockedOut(v, u)
  BY <1>3, <1>4, <1>7, Waiting
<1>8. CASE Joining(v, u)
  <2>1. PICK w \in T : LockedOut(u, w) \/ Joining(u, w)
    OBVIOUS
  <2> QED
    BY <1>3, <1>8, <2>1, Waiting
<1> QED
  BY <1>6, <1>7, <1>8

\* No worker whose callback is attached is joined by a thread that, directly or
\* through others, keeps it from finishing its callback.
THEOREM JoinsAreAnsweredTheorem ==
  ASSUME OrderedRequests
  PROVE  Spec => []JoinsAreAnswered
BY Invariance, NoCycle, PTL

\* The lifecycle operations never deadlock on the manager's locks: no mutex is
\* waited for by a thread that holds the state lock or another mutex.
THEOREM NoDeadlockTheorem ==
  ASSUME OrderedRequests
  PROVE  Spec => []NoDeadlock
<1>1. JoinsAreAnswered => NoDeadlock
  BY DEF JoinsAreAnswered, NoDeadlock
<1> QED
  BY <1>1, JoinsAreAnsweredTheorem, PTL
=============================================================================
