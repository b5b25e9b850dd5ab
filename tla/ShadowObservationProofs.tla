---------------------- MODULE ShadowObservationProofs ----------------------
(***************************************************************************)
(* Proofs about ShadowObservation: its type invariant, that it implements  *)
(* ObservationLog, and that no hole in the evidence stays silent, for      *)
(* every number of workers, every period, every lease and every bound.     *)
(***************************************************************************)
EXTENDS ShadowObservation, TLAPS

USE PeriodAssumption, LeaseAssumption, MaxTimeAssumption, MaxEventsAssumption

\* int(epoch // 300) * 300 is a scheduled close, or the epoch itself, and not ahead
\* of the clock.
LEMMA NewestIsPast ==
    ASSUME NEW t \in Times
    PROVE  /\ Newest(t) \in {0} \union Boundaries
           /\ Newest(t) \in Times
           /\ Newest(t) <= t
<1>1. t \in Nat /\ t <= MaxTime + Lease + Period
    BY DEF Times
<1>2. t \div Period \in Nat
    BY <1>1
<1>3. (t \div Period) * Period \in Nat /\ (t \div Period) * Period <= t
    BY <1>1, <1>2
<1>4. Newest(t) \in Times /\ Newest(t) <= t
    BY <1>1, <1>3 DEF Newest, Times
<1>5. Newest(t) \in {0} \union Boundaries
    BY DEF Newest, Boundaries
<1> QED
    BY <1>4, <1>5

USE DEF row, locals, owned, vars, Lifecycle

\* The registration just started has every variable in its type.
LEMMA TypeInit == Init => TypeOK
<1> SUFFICES ASSUME Init PROVE TypeOK
    OBVIOUS
<1>1. 0 \in Times /\ 1 \in Times
    BY DEF Times
<1> QED
    BY <1>1 DEF Init, TypeOK, Statuses

\* Every lifecycle action writes the row within its types.
LEMMA TransitionTypes ==
    ASSUME TypeOK, NEW old, From(old), Happens \/ Undoes,
           NEW new \in Statuses, NEW on \in BOOLEAN, Becomes(new, on)
    PROVE  TypeOK'
<1>1. now' \in Times \ {0} /\ log' = log /\ noted' = noted /\ locals' = locals /\ owned' = owned
    BY DEF TypeOK, From
<1>2. events' \in 0 .. MaxEvents
    <2>1. CASE Happens
        <3>1. events \in 0 .. MaxEvents /\ events < MaxEvents /\ events' = events + 1
            BY <2>1 DEF TypeOK, Happens
        <3> QED
            BY <3>1
    <2>2. CASE Undoes
        BY <2>2 DEF TypeOK, Undoes
    <2> QED
        BY <2>1, <2>2
<1>3. status' \in Statuses /\ desired' \in BOOLEAN /\ last' \in {0} \union Boundaries
    BY DEF TypeOK, Becomes
<1>4. resume' \in Times /\ start' \in Times
    BY DEF TypeOK, Becomes
<1>5. token' \in Nat /\ expiry' \in Nat /\ generation' \in Nat
    BY DEF TypeOK, Becomes
<1> QED
    BY <1>1, <1>2, <1>3, <1>4, <1>5 DEF TypeOK

\* Every action keeps every variable in its type.
LEMMA TypeStep == TypeOK /\ [Next]_vars => TypeOK'
<1> SUFFICES ASSUME TypeOK, [Next]_vars PROVE TypeOK'
    OBVIOUS
<1>1. CASE Tick
    BY <1>1 DEF TypeOK, Tick, Times
<1>2. CASE Operator
    <2>1. desired \in BOOLEAN
        BY DEF TypeOK
    <2>2. {"READY", "PAUSED", "STOPPED", "BLOCKED"} \subseteq Statuses
        BY DEF Statuses
    <2>3. CASE Start
        BY <2>2, <2>3, TransitionTypes DEF Start
    <2>4. CASE Resume
        BY <2>2, <2>4, TransitionTypes DEF Resume
    <2>5. CASE Pause
        BY <2>2, <2>5, TransitionTypes DEF Pause
    <2>6. CASE Stop
        BY <2>2, <2>6, TransitionTypes DEF Stop
    <2>7. CASE Block
        BY <2>2, <2>7, TransitionTypes DEF Block
    <2>8. CASE Validate
        BY <2>1, <2>2, <2>8, TransitionTypes DEF Validate
    <2> QED
        BY <1>2, <2>3, <2>4, <2>5, <2>6, <2>7, <2>8 DEF Operator
<1>3. ASSUME NEW w \in Workers, Works(w) \/ Fails(w) PROVE TypeOK'
    <2> USE <1>3
    <2>0. 0 \in Times
        BY DEF Times
    <2>a. epoch[w] \in Times /\ epoch[w] \in Nat /\ epoch[w] + Lease \in Nat
        BY DEF TypeOK, Times
    <2>b. generation + 1 \in Nat
        BY DEF TypeOK
    <2>c. Cutoff(w) \in {0} \union Boundaries
        BY <2>a, NewestIsPast DEF Cutoff
    <2>1. CASE Sweeps(w)
        BY <2>0, <2>1 DEF TypeOK, Sweeps, Goes
    <2>2. CASE SweepsAway(w)
        BY <2>0, <2>2 DEF TypeOK, SweepsAway, Detaches, Disowns
    <2>3. CASE Heartbeats(w)
        BY <2>a, <2>3 DEF TypeOK, Heartbeats, Goes
    <2>4. CASE LosesLease(w)
        BY <2>0, <2>4 DEF TypeOK, LosesLease, Detaches, Disowns
    <2>5. CASE Claims(w)
        <3>1. noted' \subseteq Boundaries
            BY <2>5 DEF TypeOK, Claims, ClaimGap, Between
        <3>2. own' \in [Workers -> Nat] /\ attached' \in [Workers -> Times]
            BY <2>a, <2>b, <2>5 DEF TypeOK, Claims
        <3>3. token' \in Nat /\ expiry' \in Nat /\ generation' \in Nat
            BY <2>a, <2>b, <2>5 DEF TypeOK, Claims
        <3> QED
            BY <3>1, <3>2, <3>3, <2>5 DEF TypeOK, Claims, Goes
    <2>6. CASE ClaimRefused(w)
        BY <2>0, <2>6 DEF TypeOK, ClaimRefused, Ends, Goes
    <2>7. CASE Evaluates(w)
        BY <2>0, <2>7 DEF TypeOK, Evaluates, Ends, Goes, Missed, Between
    <2>8. CASE Passes(w)
        BY <2>0, <2>8 DEF TypeOK, Passes, Ends, Goes
    <2>9. CASE Commits(w)
        <3>1. last' \in {0} \union Boundaries
            BY <2>c, <2>9 DEF Commits
        <3>2. log' \subseteq Boundaries
            <4>1. last \in Nat
                BY <2>0 DEF TypeOK, Boundaries, Times
            <4>2. Cutoff(w) > last
                BY <2>9 DEF Commits, Fence
            <4>3. Cutoff(w) \in Boundaries
                BY <2>c, <4>1, <4>2
            <4> QED
                BY <4>3, <2>9 DEF TypeOK, Commits
        <3>3. status' \in Statuses
            BY <2>9 DEF Commits, Statuses
        <3> QED
            BY <2>0, <3>1, <3>2, <3>3, <2>9 DEF TypeOK, Commits, Ends, Goes
    <2>10. CASE CommitRefused(w)
        BY <2>0, <2>10 DEF TypeOK, CommitRefused, Ends, Goes
    <2>11. CASE CommitFails(w)
        BY <2>0, <2>11 DEF TypeOK, CommitFails, Ends, Goes, Happens
    <2>12. CASE Stops(w)
        BY <2>0, <2>12 DEF TypeOK, Stops, Detaches, Disowns, Happens
    <2>13. CASE Crashes(w)
        BY <2>0, <2>13 DEF TypeOK, Crashes, Disowns, Ends, Goes, Happens
    <2> QED
        BY <2>1, <2>2, <2>3, <2>4, <2>5, <2>6, <2>7, <2>8, <2>9, <2>10, <2>11, <2>12, <2>13 DEF Works, Fails
<1>4. CASE UNCHANGED vars
    BY <1>4 DEF TypeOK
<1> QED
    BY <1>1, <1>2, <1>3, <1>4 DEF Next

\* The type invariant.
THEOREM TypeCorrect == Spec => []TypeOK
    BY TypeInit, TypeStep, PTL DEF Spec
-----------------------------------------------------------------------------
\* No worker and no row is ahead of the clock.
Clocked == resume <= now /\ \A w \in Workers : epoch[w] <= now

\* No attempt is ahead of the generation.
Counted == \A w \in Workers : attempt[w] <= generation

\* Decisions are taken in time order.
Ordered == \A d \in log : d <= last

\* An attempt of this generation is at a close of this interval of observation:
\* the fence of commit() speaks for the resume_after evaluate() read.
Current ==
    \A w \in Workers :
        step[w] = "commit" /\ attempt[w] = generation => Cutoff(w) >= resume

IInv == TypeOK /\ Clocked /\ Counted /\ Ordered /\ Current

\* The closes are points of the clock.
LEMMA BoundariesAreNumbers == Boundaries \subseteq Nat
<1>1. ASSUME NEW t \in Times PROVE (t \div Period) * Period \in Nat
    <2>1. Times \subseteq Nat
        BY DEF Times
    <2> QED
        BY <2>1, NewestIsPast DEF Newest
<1> QED
    BY <1>1 DEF Boundaries

\* The types that arithmetic needs, as facts of their own.
LEMMA Numbers ==
    ASSUME TypeOK
    PROVE  /\ {now, resume, last, generation} \subseteq Nat
           /\ \A w \in Workers : epoch[w] \in Times /\ epoch[w] \in Nat /\ attempt[w] \in Nat
           /\ \A w \in Workers : /\ Cutoff(w) \in {0} \union Boundaries
                                  /\ Cutoff(w) \in Nat
                                  /\ Cutoff(w) <= epoch[w]
           /\ log \subseteq Nat
<1>1. Times \subseteq Nat /\ 0 \in Nat
    BY DEF Times
<1>2. Boundaries \subseteq Nat
    BY BoundariesAreNumbers
<1>3. now \in Nat /\ resume \in Nat /\ last \in Nat /\ generation \in Nat
    BY <1>1, <1>2 DEF TypeOK
<1>4. \A w \in Workers : epoch[w] \in Times /\ epoch[w] \in Nat /\ attempt[w] \in Nat
    BY <1>1 DEF TypeOK
<1>5. ASSUME NEW w \in Workers
      PROVE  Cutoff(w) \in {0} \union Boundaries /\ Cutoff(w) \in Nat /\ Cutoff(w) <= epoch[w]
    BY <1>1, <1>4, NewestIsPast DEF Cutoff
<1>6. log \subseteq Nat
    BY <1>2 DEF TypeOK
<1> QED
    BY <1>3, <1>4, <1>5, <1>6

\* The inductive invariant holds of the registration just started.
LEMMA Initially == Init => IInv
<1> SUFFICES ASSUME Init PROVE IInv
    OBVIOUS
<1>1. TypeOK
    BY TypeInit
<1>2. Clocked /\ Counted /\ Ordered /\ Current
    BY DEF Init, Clocked, Counted, Ordered, Current
<1> QED
    BY <1>1, <1>2 DEF IInv

\* A lifecycle action moves the generation past every attempt.
LEMMA TransitionKeeps ==
    ASSUME IInv, NEW old, From(old), NEW new, NEW on \in BOOLEAN, Becomes(new, on)
    PROVE  (Clocked /\ Counted /\ Ordered /\ Current)'
<1>1. TypeOK /\ Clocked /\ Counted /\ Ordered
    BY DEF IInv
<1>2. now' = now /\ log' = log /\ epoch' = epoch /\ attempt' = attempt /\ last' = last
    BY DEF From, Becomes
<1>3. generation' = generation + 1 /\ resume' \in {now, resume}
    BY DEF Becomes
<1>4. Clocked'
    BY <1>1, <1>2, <1>3, Numbers DEF Clocked
<1>5. Counted' /\ \A w \in Workers : attempt'[w] # generation'
    BY <1>1, <1>2, <1>3, Numbers DEF Counted
<1>6. Ordered'
    BY <1>1, <1>2 DEF Ordered
<1>7. Current'
    BY <1>5 DEF Current
<1> QED
    BY <1>4, <1>5, <1>6, <1>7

\* Every step keeps the inductive invariant.
LEMMA StepKeeps == IInv /\ [Next]_vars => IInv'
<1> SUFFICES ASSUME IInv, [Next]_vars PROVE IInv'
    OBVIOUS
<1>1. TypeOK /\ Clocked /\ Counted /\ Ordered /\ Current
    BY DEF IInv
<1>2. TypeOK'
    BY <1>1, TypeStep
<1>3. CASE Tick
    <2>1. Clocked'
        BY <1>1, <1>3, Numbers DEF Clocked, Tick
    <2>2. Counted' /\ Ordered' /\ Current'
        BY <1>1, <1>3 DEF Counted, Ordered, Current, Cutoff, Tick
    <2> QED
        BY <1>2, <2>1, <2>2 DEF IInv
<1>4. CASE Operator
    <2>0. desired \in BOOLEAN
        BY <1>1 DEF TypeOK
    <2> SUFFICES (Clocked /\ Counted /\ Ordered /\ Current)'
        BY <1>2 DEF IInv
    <2>1. CASE Start
        BY <2>1, TransitionKeeps DEF Start
    <2>2. CASE Resume
        BY <2>2, TransitionKeeps DEF Resume
    <2>3. CASE Pause
        BY <2>3, TransitionKeeps DEF Pause
    <2>4. CASE Stop
        BY <2>4, TransitionKeeps DEF Stop
    <2>5. CASE Block
        BY <2>5, TransitionKeeps DEF Block
    <2>6. CASE Validate
        BY <2>0, <2>6, TransitionKeeps DEF Validate
    <2> QED
        BY <1>4, <2>1, <2>2, <2>3, <2>4, <2>5, <2>6 DEF Operator
<1>5. ASSUME NEW w \in Workers, Works(w) \/ Fails(w) PROVE IInv'
    <2> SUFFICES Clocked' /\ Counted' /\ Ordered' /\ Current'
        BY <1>2 DEF IInv
    <2>1. CASE Sweeps(w)
        BY <1>1, <2>1, Numbers DEF TypeOK, Clocked, Counted, Ordered, Current, Cutoff, Sweeps, Goes
    <2>2. CASE SweepsAway(w) \/ LosesLease(w) \/ Stops(w)
        BY <1>1, <2>2 DEF Clocked, Counted, Ordered, Current, Cutoff, SweepsAway, LosesLease, Stops, Detaches, Disowns
    <2>3. CASE Heartbeats(w)
        BY <1>1, <2>3 DEF TypeOK, Clocked, Counted, Ordered, Current, Cutoff, Heartbeats, Goes
    <2>4. CASE Claims(w)
        BY <1>1, <2>4, Numbers DEF TypeOK, Clocked, Counted, Ordered, Current, Cutoff, Claims, Goes
    <2>5. CASE ClaimRefused(w) \/ Passes(w) \/ CommitRefused(w) \/ CommitFails(w) \/ Crashes(w)
        BY <1>1, <2>5, Numbers DEF TypeOK, Clocked, Counted, Ordered, Current, Cutoff,
           ClaimRefused, Passes, CommitRefused, CommitFails, Crashes, Ends, Goes
    <2>6. CASE Evaluates(w)
        BY <1>1, <2>6, Numbers DEF TypeOK, Clocked, Counted, Ordered, Current, Cutoff, Evaluates, Ends, Goes
    <2>7. CASE Commits(w)
        BY <1>1, <2>7, Numbers DEF TypeOK, Clocked, Counted, Ordered, Current, Cutoff, Commits, Fence, Ends, Goes
    <2> QED
        BY <1>5, <2>1, <2>2, <2>3, <2>4, <2>5, <2>6, <2>7 DEF Works, Fails
<1>6. CASE UNCHANGED vars
    BY <1>1, <1>2, <1>6 DEF IInv, Clocked, Counted, Ordered, Current, Cutoff
<1> QED
    BY <1>3, <1>4, <1>5, <1>6 DEF Next

\* The inductive invariant: what was read from the clock is past, no attempt is ahead
\* of the generation, decisions are in order, and an attempt of the present
\* generation is about a close of the present interval of observation.
THEOREM Invariance == Spec => []IInv
    BY Initially, StepKeeps, PTL DEF Spec
-----------------------------------------------------------------------------
\* The refinement of ObservationLog.

\* The registration just started maps to an empty log that observes from now on.
LEMMA MapsInit == Init => Evidence!Init
<1> SUFFICES ASSUME Init PROVE Evidence!Init
    OBVIOUS
<1>1. Boundaries \subseteq Nat
    BY BoundariesAreNumbers
<1>2. Open = {1} \intersect Boundaries
    <2>1. ASSUME NEW b \in Boundaries PROVE b \in Open <=> b = 1
        BY <1>1 DEF Init, Open
    <2> QED
        BY <2>1 DEF Open
<1> QED
    BY <1>2 DEF Init, Evidence!Init, Evidence!Present

\* A step that leaves the clock, the observation and the log alone.
LEMMA Stutters ==
    ASSUME UNCHANGED <<now, desired, resume, log>>
    PROVE  UNCHANGED Evidence!vars
<1>1. Open' = Open
    BY DEF Open
<1> QED
    BY <1>1 DEF Evidence!vars

\* A lifecycle action gives up every close but the present one.
LEMMA TransitionMaps ==
    ASSUME TypeOK, NEW old, From(old), NEW new, NEW on \in BOOLEAN, Becomes(new, on)
    PROVE  Evidence!Next
<1>1. now \in Nat /\ now' = now /\ log' = log
    BY Numbers DEF From
<1>2. desired' = on /\ (on => resume' = now)
    BY DEF Becomes
<1>3. Boundaries \subseteq Int
    BY BoundariesAreNumbers
<1>4. CASE on
    <2>1. ASSUME NEW b \in Boundaries PROVE b \in Open' <=> b = now
        BY <1>1, <1>2, <1>3, <1>4 DEF Open
    <2>2. Open' = {now} \intersect Boundaries
        BY <2>1 DEF Open
    <2> QED
        BY <1>1, <1>2, <1>4, <2>2 DEF Evidence!Next, Evidence!Switch, Evidence!Present
<1>5. CASE ~on
    <2>1. Open' = {}
        BY <1>2, <1>5 DEF Open
    <2> QED
        BY <1>1, <1>2, <1>5, <2>1 DEF Evidence!Next, Evidence!Switch
<1> QED
    BY <1>4, <1>5

\* Every step of the registration is a step of the observation log or leaves it alone.
LEMMA MapsStep == IInv /\ [Next]_vars => [Evidence!Next]_Evidence!vars
<1> SUFFICES ASSUME IInv, [Next]_vars PROVE Evidence!Next \/ UNCHANGED Evidence!vars
    OBVIOUS
<1>1. TypeOK /\ Clocked /\ Counted /\ Ordered /\ Current
    BY DEF IInv
<1>2. Boundaries \subseteq Int
    BY BoundariesAreNumbers
<1>3. CASE Tick
    <2>1. now \in Nat /\ resume \in Nat /\ resume <= now
        BY <1>1, Numbers DEF Clocked
    <2>2. now' = now + 1 /\ desired' = desired /\ resume' = resume /\ log' = log
        BY <1>3 DEF Tick
    <2>3. CASE desired
        <3>1. Open' = Open \union ({now + 1} \intersect Boundaries)
            <4>1. ASSUME NEW b \in Boundaries PROVE b \in Open' <=> b \in Open \/ b = now + 1
                BY <1>2, <2>1, <2>2, <2>3 DEF Open
            <4> QED
                BY <4>1 DEF Open
        <3> QED
            BY <2>2, <2>3, <3>1 DEF Evidence!Next, Evidence!Tick, Evidence!Present
    <2>4. CASE ~desired
        <3>1. Open' = Open
            BY <2>2, <2>4 DEF Open
        <3> QED
            BY <2>2, <2>4, <3>1 DEF Evidence!Next, Evidence!Tick
    <2> QED
        BY <2>3, <2>4
<1>4. CASE Operator
    <2>0. desired \in BOOLEAN
        BY <1>1 DEF TypeOK
    <2>1. CASE Start
        BY <1>1, <2>1, TransitionMaps DEF Start
    <2>2. CASE Resume
        BY <1>1, <2>2, TransitionMaps DEF Resume
    <2>3. CASE Pause
        BY <1>1, <2>3, TransitionMaps DEF Pause
    <2>4. CASE Stop
        BY <1>1, <2>4, TransitionMaps DEF Stop
    <2>5. CASE Block
        BY <1>1, <2>5, TransitionMaps DEF Block
    <2>6. CASE Validate
        BY <1>1, <2>0, <2>6, TransitionMaps DEF Validate
    <2> QED
        BY <1>4, <2>1, <2>2, <2>3, <2>4, <2>5, <2>6 DEF Operator
<1>5. ASSUME NEW w \in Workers, Works(w) \/ Fails(w)
      PROVE  Evidence!Next \/ UNCHANGED Evidence!vars
    <2>1. CASE Commits(w)
        <3>1. Cutoff(w) \in Open
            <4>1. Cutoff(w) >= resume /\ desired /\ Cutoff(w) > last
                BY <1>1, <2>1 DEF Current, Commits, Fence, Holds
            <4>2. Cutoff(w) <= now
                BY <1>1, Numbers DEF Clocked
            <4>3. Cutoff(w) \in Boundaries
                BY <1>1, <4>1, Numbers
            <4> QED
                BY <1>1, <4>1, <4>2, <4>3, Numbers DEF Open
        <3>2. \A d \in log : d < Cutoff(w)
            BY <1>1, <2>1, Numbers DEF Ordered, Commits, Fence
        <3>3. log' = log \union {Cutoff(w)} /\ now' = now /\ desired' = desired /\ Open' = Open
            BY <2>1 DEF Commits, Open
        <3>4. Evidence!Decide(Cutoff(w)) /\ Cutoff(w) \in Boundaries
            BY <3>1, <3>2, <3>3 DEF Evidence!Decide, Open
        <3> QED
            BY <3>4 DEF Evidence!Next
    <2>2. CASE UNCHANGED <<now, desired, resume, log>>
        BY <2>2, Stutters
    <2>3. Commits(w) \/ UNCHANGED <<now, desired, resume, log>>
        BY <1>5 DEF Works, Fails, Sweeps, SweepsAway, Heartbeats, LosesLease, Claims, ClaimRefused,
           Evaluates, Passes, CommitRefused, CommitFails, Stops, Crashes, Detaches
    <2> QED
        BY <2>1, <2>2, <2>3
<1>6. CASE UNCHANGED vars
    BY <1>6, Stutters
<1> QED
    BY <1>3, <1>4, <1>5, <1>6 DEF Next

\* Every decision in the evidence was taken once, in time order, and for a close that
\* came due while the registration was observing and has been ever since.
THEOREM Refinement == Spec => DecidesOnlyObserved
<1>1. Spec => []IInv
    BY Invariance
<1> QED
    BY <1>1, MapsInit, MapsStep, PTL DEF Spec, DecidesOnlyObserved, Evidence!Spec
-----------------------------------------------------------------------------
(* No silent hole.                                                         *)

\* The last decision the row names is in the log.
LastDecided == last # 0 => last \in log

\* The observation began before the present interval of it and before any decision.
Started == start # 0 /\ start <= resume /\ \A d \in log : start <= d

\* A token is a generation that has been, and no two workers hold the same.
Tokens ==
    /\ token <= generation
    /\ \A w \in Workers : own[w] <= generation
    /\ \A v, w \in Workers : own[v] # 0 /\ own[v] = own[w] => v = w

Owner(w) == own[w] # 0 /\ own[w] = token

\* What came due between the last decision and the worker's is on record.
Bridged(w) == last # 0 => Between(last, Cutoff(w)) \subseteq noted

\* The worker that holds the lease knows the last decision, or has bridged the
\* interval to its own when it claimed; when it is about to commit, it has in any case.
Informed ==
    \A w \in Workers :
        /\ Owner(w) /\ step[w] = "lease" => before[w] = last
        /\ Owner(w) /\ step[w] = "look" => before[w] = last \/ Bridged(w)
        /\ Owner(w) /\ step[w] = "commit" => Bridged(w)

HInv == IInv /\ LastDecided /\ Started /\ Tokens /\ Informed /\ NoSilentHole

\* Two scheduled closes are at least a period apart.
LEMMA ClosesAreApart ==
    ASSUME NEW a \in Boundaries, NEW b \in Boundaries, a < b
    PROVE  a + Period <= b
<1>1. PICK s \in Times : a = (s \div Period) * Period
    BY DEF Boundaries
<1>2. PICK t \in Times : b = (t \div Period) * Period
    BY DEF Boundaries
<1> DEFINE i == s \div Period
           j == t \div Period
<1>3. s \in Nat /\ t \in Nat
    BY DEF Times
<1>4. i \in Nat /\ j \in Nat
    BY <1>3
<1>5. a = i * Period /\ b = j * Period
    BY <1>1, <1>2
<1> HIDE DEF i, j
<1>6. i < j
    <2>1. CASE j <= i
        <3>1. j * Period <= i * Period
            BY <1>4, <2>1
        <3>2. a \in Int /\ b \in Int
            BY <1>4, <1>5
        <3> QED
            BY <1>5, <3>1, <3>2
    <2> QED
        BY <1>4, <2>1
<1>7. (i + 1) * Period <= j * Period
    BY <1>4, <1>6
<1>8. (i + 1) * Period = i * Period + Period
    BY <1>4
<1> QED
    BY <1>5, <1>7, <1>8

\* Nothing is due between two closes that are a period apart or less.
LEMMA NothingBetween ==
    ASSUME NEW a \in Boundaries, NEW b \in Nat, b - a <= Period
    PROVE  Between(a, b) = {}
<1>1. ASSUME NEW c \in Between(a, b) PROVE FALSE
    <2>1. c \in Boundaries /\ a < c /\ c < b
        BY <1>1 DEF Between
    <2>2. a + Period <= c
        BY <2>1, ClosesAreApart
    <2>3. a \in Nat /\ c \in Nat
        BY <2>1, BoundariesAreNumbers
    <2> QED
        BY <2>1, <2>2, <2>3
<1> QED
    BY <1>1

\* A wider interval has every close of a narrower one.
LEMMA Wider ==
    ASSUME NEW a \in Nat, NEW b \in Nat, NEW c \in Nat, NEW d \in Nat, c <= a, b <= d
    PROVE  Between(a, b) \subseteq Between(c, d)
<1>1. ASSUME NEW x \in Boundaries, a < x, x < b PROVE c < x /\ x < d
    BY <1>1, BoundariesAreNumbers
<1> QED
    BY <1>1 DEF Between

\* There is no close between two points that are not in order.
LEMMA Backwards ==
    ASSUME NEW a \in Nat, NEW b \in Nat, b <= a
    PROVE  Between(a, b) = {}
<1>1. ASSUME NEW x \in Boundaries, a < x, x < b PROVE FALSE
    BY <1>1, BoundariesAreNumbers
<1> QED
    BY <1>1 DEF Between

\* The registration just started has no hole.
LEMMA HoleInit == Init => HInv
<1> SUFFICES ASSUME Init PROVE HInv
    OBVIOUS
<1>1. IInv
    BY Initially
<1>2. LastDecided /\ Started /\ Tokens /\ Informed /\ NoSilentHole
    BY DEF Init, LastDecided, Started, Tokens, Informed, NoSilentHole, Owner
<1> QED
    BY <1>1, <1>2 DEF HInv

\* A lifecycle action leaves no owner, and the evidence as it is.
LEMMA TransitionHole ==
    ASSUME HInv, NEW old, From(old), NEW new, NEW on \in BOOLEAN, Becomes(new, on)
    PROVE  (LastDecided /\ Started /\ Tokens /\ Informed /\ NoSilentHole)'
<1>1. IInv /\ TypeOK /\ Clocked /\ LastDecided /\ Started /\ Tokens /\ NoSilentHole
    BY DEF HInv, IInv
<1>2. now' = now /\ log' = log /\ noted' = noted /\ own' = own /\ last' = last
    BY DEF From, Becomes
<1>3. token' = 0 /\ generation' = generation + 1
    BY DEF Becomes
<1>4. LastDecided' /\ NoSilentHole'
    BY <1>1, <1>2 DEF LastDecided, NoSilentHole
<1>5. Started'
    <2>1. start' = start
        BY <1>1 DEF Started, Becomes
    <2>2. resume' = resume \/ resume' = now
        BY DEF Becomes
    <2>3. start \in Nat /\ resume \in Nat /\ now \in Nat
        BY <1>1, Numbers DEF TypeOK, Times
    <2>4. start <= resume /\ resume <= now
        BY <1>1 DEF Started, Clocked
    <2>5. start' <= resume'
        BY <2>1, <2>2, <2>3, <2>4
    <2> QED
        BY <1>1, <1>2, <2>1, <2>5 DEF Started
<1>6. Tokens'
    <2>1. generation \in Nat /\ own \in [Workers -> Nat]
        BY <1>1 DEF TypeOK
    <2>2. \A w \in Workers : own'[w] <= generation'
        BY <1>1, <1>2, <1>3, <2>1 DEF Tokens
    <2>3. token' <= generation'
        BY <1>3, <2>1
    <2> QED
        BY <1>1, <1>2, <2>2, <2>3 DEF Tokens
<1>7. Informed'
    BY <1>3 DEF Informed, Owner
<1> QED
    BY <1>4, <1>5, <1>6, <1>7

\* A claim puts on record whatever came due since the last decision.
LEMMA ClaimBridges ==
    ASSUME HInv, NEW w \in Workers, Claims(w)
    PROVE  Bridged(w)'
<1>1. TypeOK /\ Clocked /\ LastDecided /\ Started
    BY DEF HInv, IInv
<1>2. last' = last /\ Cutoff(w)' = Cutoff(w) /\ noted' = noted \union ClaimGap(epoch[w])
    BY DEF Claims, Cutoff
<1> SUFFICES ASSUME last # 0 PROVE Between(last, Cutoff(w)) \subseteq noted'
    BY <1>2 DEF Bridged
<1>3. last \in Boundaries /\ last \in log
    BY <1>1 DEF TypeOK, LastDecided
<1>4. epoch[w] \in Nat /\ Cutoff(w) \in Nat /\ Cutoff(w) <= epoch[w] /\ last \in Nat /\ start \in Nat
    BY <1>1, Numbers DEF TypeOK, Times
<1>5. Between(last, Cutoff(w)) \subseteq Between(last, epoch[w])
    BY <1>4, Wider
<1>6. start <= last /\ start # 0
    BY <1>1, <1>3 DEF Started
<1>7. CASE token # 0
    BY <1>2, <1>5, <1>7 DEF ClaimGap
<1>8. CASE token = 0 /\ epoch[w] - start > Period
    <2>1. Between(last, epoch[w]) \subseteq Between(start, epoch[w])
        BY <1>4, <1>6, Wider
    <2> QED
        BY <1>2, <1>5, <1>6, <1>8, <2>1 DEF ClaimGap
<1>9. CASE ~(epoch[w] - start > Period)
    <2>1. epoch[w] - last <= Period
        BY <1>4, <1>6, <1>9
    <2>2. Between(last, epoch[w]) = {}
        BY <1>3, <1>4, <2>1, NothingBetween
    <2> QED
        BY <1>5, <2>2
<1> QED
    BY <1>7, <1>8, <1>9

\* An evaluation puts on record whatever came due since the decision it read.
LEMMA EvaluationBridges ==
    ASSUME HInv, NEW w \in Workers, Evaluates(w), before[w] = last
    PROVE  Bridged(w)'
<1>1. TypeOK
    BY DEF HInv, IInv
<1>2. last' = last /\ noted' = noted \union Missed(w)
    BY DEF Evaluates
<1>3. CASE step'[w] = "commit" /\ epoch' = epoch
    <2>1. Cutoff(w)' = Cutoff(w)
        BY <1>3 DEF Cutoff
    <2> SUFFICES ASSUME last # 0 PROVE Between(last, Cutoff(w)) \subseteq noted'
        BY <1>2, <2>1 DEF Bridged
    <2>2. last \in Boundaries /\ Cutoff(w) \in Nat /\ last \in Nat
        BY <1>1, Numbers DEF TypeOK
    <2>3. CASE Cutoff(w) - last > Period
        BY <1>2, <2>3 DEF Missed
    <2>4. CASE ~(Cutoff(w) - last > Period)
        <3>1. Between(last, Cutoff(w)) = {}
            BY <2>2, <2>4, NothingBetween
        <3> QED
            BY <3>1
    <2> QED
        BY <2>3, <2>4
<1>4. CASE epoch'[w] = 0
    <2>1. Cutoff(w)' = 0
        BY <1>4 DEF Cutoff, Newest
    <2>2. Between(last, 0) = {}
        BY <1>1, Numbers, Backwards
    <2> QED
        BY <1>2, <2>1, <2>2 DEF Bridged
<1> QED
    BY <1>1, <1>3, <1>4 DEF Evaluates, Goes, Ends, TypeOK

\* A commit closes the interval to the last decision.
LEMMA CommitCloses ==
    ASSUME HInv, NEW w \in Workers, Commits(w)
    PROVE  LastDecided' /\ Started' /\ NoSilentHole'
<1> DEFINE c == Cutoff(w)
<1>1. TypeOK /\ Ordered /\ Current /\ LastDecided /\ Started /\ Informed /\ NoSilentHole
    BY DEF HInv, IInv
<1>2. /\ log' = log \union {c} /\ last' = c /\ noted' = noted
      /\ start' = start /\ resume' = resume
    BY DEF Commits
<1>3. Owner(w) /\ step[w] = "commit" /\ c > last /\ c >= resume
    BY <1>1 DEF Commits, Fence, Holds, Owner, Current
<1>4. {c, last, resume, start} \subseteq Nat /\ log \subseteq Nat
    BY <1>1, Numbers DEF TypeOK, Times
<1> HIDE DEF c
<1>5. LastDecided'
    BY <1>2 DEF LastDecided
<1>6. Started'
    BY <1>1, <1>2, <1>3, <1>4 DEF Started
<1>7. \A d \in log : d <= last /\ d < c
    BY <1>1, <1>3, <1>4 DEF Ordered
<1>8. ASSUME NEW d \in log PROVE Between(d, c) \subseteq log \union noted
    <2>1. last # 0
        BY <1>1, <1>4, <1>7, <1>8, BoundariesAreNumbers DEF TypeOK, Boundaries
    <2>2. Between(d, last) \subseteq log \union noted /\ last \in log
        BY <1>1, <1>8, <2>1 DEF LastDecided, NoSilentHole
    <2>3. Between(last, c) \subseteq noted
        BY <1>1, <1>3, <2>1 DEF Informed, Bridged, c
    <2>4. ASSUME NEW b \in Between(d, c) PROVE b \in Between(d, last) \/ b = last \/ b \in Between(last, c)
        BY <1>4, <2>4, BoundariesAreNumbers DEF Between
    <2> QED
        BY <2>2, <2>3, <2>4
<1>9. ASSUME NEW d \in log \union {c} PROVE Between(c, d) = {}
    <2>1. d \in Nat /\ c \in Nat /\ d <= c
        BY <1>4, <1>7, <1>9
    <2> QED
        BY <2>1, Backwards
<1>10. NoSilentHole'
    <2>1. ASSUME NEW d \in log \union {c}, NEW e \in log \union {c}
          PROVE  Between(d, e) \subseteq log \union {c} \union noted
        <3>1. CASE d \in log /\ e \in log
            BY <1>1, <3>1 DEF NoSilentHole
        <3>2. CASE d \in log /\ e = c
            BY <1>8, <3>2
        <3>3. CASE d = c
            BY <1>9, <3>3
        <3> QED
            BY <3>1, <3>2, <3>3
    <2> QED
        BY <1>2, <2>1 DEF NoSilentHole
<1> QED
    BY <1>5, <1>6, <1>10

\* What one worker does to the others: of a worker whose lease and locals stay, the
\* knowledge stays, unless another one decides.
LEMMA OthersInformed ==
    ASSUME HInv, NEW v \in Workers,
           own'[v] = own[v], step'[v] = step[v], epoch'[v] = epoch[v], before'[v] = before[v],
           own[v] # 0 => token' = token \/ token' # own[v],
           Owner(v) => last' = last, noted \subseteq noted'
    PROVE  /\ (Owner(v) /\ step[v] = "lease" => before[v] = last)'
           /\ (Owner(v) /\ step[v] = "look" => before[v] = last \/ Bridged(v))'
           /\ (Owner(v) /\ step[v] = "commit" => Bridged(v))'
<1>1. Cutoff(v)' = Cutoff(v)
    BY DEF Cutoff
<1>2. Owner(v)' => Owner(v) /\ last' = last
    BY DEF Owner
<1>3. Owner(v)' /\ Bridged(v) => Bridged(v)'
    BY <1>1, <1>2 DEF Bridged
<1> QED
    BY <1>2, <1>3 DEF HInv, Informed

\* A step of a worker leaves its own knowledge as the inductive invariant says.
LEMMA SelfInformed ==
    ASSUME HInv, NEW w \in Workers, Works(w) \/ Fails(w)
    PROVE  /\ (Owner(w) /\ step[w] = "lease" => before[w] = last)'
           /\ (Owner(w) /\ step[w] = "look" => before[w] = last \/ Bridged(w))'
           /\ (Owner(w) /\ step[w] = "commit" => Bridged(w))'
<1>1. TypeOK /\ Informed
    BY DEF HInv, IInv
<1>2. CASE Sweeps(w)
    BY <1>1, <1>2 DEF TypeOK, Sweeps, Goes
<1>3. CASE SweepsAway(w) \/ LosesLease(w) \/ Stops(w)
    BY <1>1, <1>3 DEF TypeOK, SweepsAway, LosesLease, Stops, Detaches, Disowns, Owner
<1>4. CASE Heartbeats(w)
    BY <1>1, <1>4 DEF TypeOK, Heartbeats, Goes, Holds, Informed, Owner
<1>5. CASE Claims(w)
    BY <1>1, <1>5, ClaimBridges DEF TypeOK, Claims, Goes
<1>6. CASE ClaimRefused(w) \/ Passes(w) \/ CommitRefused(w) \/ CommitFails(w) \/ Crashes(w) \/ Commits(w)
    BY <1>1, <1>6 DEF TypeOK, ClaimRefused, Passes, CommitRefused, CommitFails, Crashes, Commits, Ends, Goes
<1>7. CASE Evaluates(w)
    <2>1. own' = own /\ token' = token /\ step[w] = "look" /\ step'[w] \in {"commit", "idle"}
        BY <1>1, <1>7 DEF TypeOK, Evaluates, Ends, Goes
    <2> SUFFICES ASSUME Owner(w), step'[w] = "commit" PROVE Bridged(w)'
        BY <2>1 DEF Owner
    <2>2. CASE before[w] = last
        BY <1>7, <2>2, EvaluationBridges
    <2>3. CASE Bridged(w)
        <3>1. epoch' = epoch /\ last' = last /\ noted \subseteq noted'
            BY <1>1, <1>7 DEF TypeOK, Evaluates, Ends, Goes
        <3> QED
            BY <2>3, <3>1 DEF Bridged, Cutoff
    <2> QED
        BY <1>1, <2>1, <2>2, <2>3 DEF Informed
<1> QED
    BY <1>2, <1>3, <1>4, <1>5, <1>6, <1>7 DEF Works, Fails

\* A step of one worker keeps what the proof says of all.
LEMMA WorkerHole ==
    ASSUME HInv, NEW w \in Workers, Works(w) \/ Fails(w)
    PROVE  (LastDecided /\ Started /\ Tokens /\ Informed /\ NoSilentHole)'
<1>1. TypeOK /\ LastDecided /\ Started /\ Tokens /\ Informed /\ NoSilentHole
    BY DEF HInv, IInv
<1>2. noted \subseteq noted' /\ start' = start /\ resume' = resume
    BY DEF Works, Fails, Sweeps, SweepsAway, Heartbeats, LosesLease, Claims, ClaimRefused,
       Evaluates, Passes, Commits, CommitRefused, CommitFails, Stops, Crashes, Detaches
<1>3. Commits(w) \/ UNCHANGED <<log, last>>
    BY DEF Works, Fails, Sweeps, SweepsAway, Heartbeats, LosesLease, Claims, ClaimRefused,
       Evaluates, Passes, CommitRefused, CommitFails, Stops, Crashes, Detaches
<1>4. \/ /\ token' = token /\ generation' = generation
         /\ own' = own \/ own' = [own EXCEPT ![w] = 0]
      \/ /\ token' = generation + 1 /\ generation' = generation + 1
         /\ own' = [own EXCEPT ![w] = generation + 1]
    BY DEF Works, Fails, Sweeps, SweepsAway, Heartbeats, LosesLease, Claims, ClaimRefused,
       Evaluates, Passes, Commits, CommitRefused, CommitFails, Stops, Crashes, Detaches, Disowns
<1>5. ASSUME NEW v \in Workers, v # w
      PROVE  own'[v] = own[v] /\ step'[v] = step[v] /\ epoch'[v] = epoch[v] /\ before'[v] = before[v]
    BY <1>1, <1>5 DEF TypeOK, Works, Fails, Sweeps, SweepsAway, Heartbeats, LosesLease, Claims, ClaimRefused,
       Evaluates, Passes, Commits, CommitRefused, CommitFails, Stops, Crashes, Detaches, Disowns, Ends, Goes
<1>6. LastDecided' /\ Started' /\ NoSilentHole'
    <2>1. CASE Commits(w)
        BY <2>1, CommitCloses
    <2>2. CASE UNCHANGED <<log, last>>
        BY <1>1, <1>2, <2>2 DEF LastDecided, Started, NoSilentHole
    <2> QED
        BY <1>3, <2>1, <2>2
<1>7. generation \in Nat /\ token \in Nat /\ own \in [Workers -> Nat]
    BY <1>1 DEF TypeOK
<1>8. Tokens'
    BY <1>1, <1>4, <1>7 DEF Tokens
<1>9. ASSUME NEW v \in Workers, v # w
      PROVE  /\ own[v] # 0 => token' = token \/ token' # own[v]
             /\ Owner(v) => last' = last
    <2>1. own[v] <= generation
        BY <1>1 DEF Tokens
    <2>2. Owner(v) => ~Commits(w)
        BY <1>1, <1>9 DEF Tokens, Owner, Commits, Fence, Holds
    <2> QED
        BY <1>3, <1>4, <1>7, <2>1, <2>2
<1>10. Informed'
    <2>1. ASSUME NEW v \in Workers
          PROVE  /\ (Owner(v) /\ step[v] = "lease" => before[v] = last)'
                 /\ (Owner(v) /\ step[v] = "look" => before[v] = last \/ Bridged(v))'
                 /\ (Owner(v) /\ step[v] = "commit" => Bridged(v))'
        <3>1. CASE v = w
            BY <3>1, SelfInformed
        <3>2. CASE v # w
            BY <1>2, <1>5, <1>9, <3>2, OthersInformed
        <3> QED
            BY <3>1, <3>2
    <2> QED
        BY <2>1 DEF Informed
<1> QED
    BY <1>6, <1>8, <1>10

\* Every step keeps it.
LEMMA HoleStep == HInv /\ [Next]_vars => HInv'
<1> SUFFICES ASSUME HInv, [Next]_vars PROVE HInv'
    OBVIOUS
<1>1. IInv /\ TypeOK /\ LastDecided /\ Started /\ Tokens /\ Informed /\ NoSilentHole
    BY DEF HInv, IInv
<1>2. IInv'
    BY <1>1, StepKeeps
<1> SUFFICES (LastDecided /\ Started /\ Tokens /\ Informed /\ NoSilentHole)'
    BY <1>2 DEF HInv
<1>3. CASE Tick \/ UNCHANGED vars
    BY <1>1, <1>3 DEF Tick, LastDecided, Started, Tokens, Informed, NoSilentHole, Owner, Bridged, Cutoff
<1>4. CASE Operator
    <2>1. desired \in BOOLEAN
        BY <1>1 DEF TypeOK
    <2>2. \E old, new : \E on \in BOOLEAN : From(old) /\ Becomes(new, on)
        BY <1>4, <2>1 DEF Operator, Start, Resume, Pause, Stop, Block, Validate
    <2> QED
        BY <2>2, TransitionHole
<1>5. CASE \E w \in Workers : Works(w) \/ Fails(w)
    BY <1>5, WorkerHole
<1> QED
    BY <1>3, <1>4, <1>5 DEF Next

\* Every close between two decisions is decided or on record as missed, for any
\* number of workers and any length of period and lease: through crashes, take-overs,
\* releases, pauses and failing commits no hole in the evidence stays silent.
THEOREM NoSilentHoleTheorem == Spec => []NoSilentHole
<1>1. HInv => NoSilentHole
    BY DEF HInv
<1> QED
    BY <1>1, HoleInit, HoleStep, PTL DEF Spec
-----------------------------------------------------------------------------
\* A lease is never out for longer than its length: a dead worker's registration is
\* claimable again by then, however old the clock is by which it was last renewed.
LeasesRunOut == expiry <= now + Lease

\* A claim and a heartbeat count from the clock their tick read, which is past.
LEMMA LeaseStep == IInv /\ LeasesRunOut /\ [Next]_vars => LeasesRunOut'
<1> SUFFICES ASSUME IInv, LeasesRunOut, [Next]_vars PROVE LeasesRunOut'
    OBVIOUS
<1>0. /\ now \in Nat /\ expiry \in Nat /\ TypeOK /\ Lease \in Nat
      /\ \A w \in Workers : epoch[w] \in Nat /\ epoch[w] <= now
    BY Numbers DEF IInv, Clocked, TypeOK, Times
<1>1. CASE Tick
    BY <1>0, <1>1 DEF Tick, LeasesRunOut
<1>2. CASE Operator
    <2>1. now' = now /\ expiry' = 0
        BY <1>2 DEF Operator, Start, Resume, Pause, Stop, Block, Validate, From, Becomes
    <2> QED
        BY <1>0, <2>1 DEF LeasesRunOut
<1>3. ASSUME NEW w \in Workers, Works(w) \/ Fails(w) PROVE LeasesRunOut'
    <2>1. CASE Heartbeats(w) \/ Claims(w)
        <3>1. now' = now /\ expiry' = epoch[w] + Lease
            BY <2>1 DEF Heartbeats, Claims
        <3> QED
            BY <1>0, <3>1 DEF LeasesRunOut
    <2>2. CASE SweepsAway(w) \/ LosesLease(w) \/ Stops(w)
        <3>1. now' = now /\ expiry' \in {0, expiry}
            BY <2>2 DEF SweepsAway, LosesLease, Stops, Detaches
        <3> QED
            BY <1>0, <3>1 DEF LeasesRunOut
    <2>3. CASE Sweeps(w) \/ ClaimRefused(w) \/ Evaluates(w) \/ Passes(w) \/ Commits(w)
               \/ CommitRefused(w) \/ CommitFails(w) \/ Crashes(w)
        <3>1. now' = now /\ expiry' = expiry
            BY <2>3 DEF Sweeps, ClaimRefused, Evaluates, Passes, Commits, CommitRefused, CommitFails,
               Crashes, row
        <3> QED
            BY <3>1 DEF LeasesRunOut
    <2> QED
        BY <1>3, <2>1, <2>2, <2>3 DEF Works, Fails
<1>4. CASE UNCHANGED vars
    BY <1>4 DEF vars, row, LeasesRunOut
<1> QED
    BY <1>1, <1>2, <1>3, <1>4 DEF Next

\* No worker, dead, slow or superseded, keeps the registration from the others for
\* longer than one lease, which is the safety part of Adopted.
THEOREM LeasesRunOutTheorem == Spec => []LeasesRunOut
<1>1. Init => LeasesRunOut
    BY DEF Init, LeasesRunOut
<1> QED
    BY <1>1, LeaseStep, Invariance, PTL DEF Spec
=============================================================================
