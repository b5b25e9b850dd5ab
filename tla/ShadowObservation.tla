------------------------- MODULE ShadowObservation -------------------------
(***************************************************************************)
(* One shadow registration (services/shadow_observation_store.py and       *)
(* shadow_router.py) and the workers that observe it                       *)
(* (shadow_observation_worker.py).  Every store call is a transaction; the *)
(* worker reads, evaluates and commits in separate ones, and anything may  *)
(* happen in between.  A commit is fenced by the registration's generation *)
(* and by the lease token.  A token is the generation its claim made, so   *)
(* no two are equal; 0 stands for NULL.                                    *)
(***************************************************************************)
EXTENDS Integers

CONSTANTS
    Workers,      \* the worker processes that share the shadow database
    Period,       \* from one scheduled candle close to the next (300 s)
    Lease,        \* lease_seconds
    MaxTime,      \* the last clock reading at which anything fails (bound)
    MaxEvents     \* what is done to the registration and fails in a worker (bound)

ASSUME PeriodAssumption == Period \in Nat \ {0}
ASSUME LeaseAssumption == Lease \in Nat \ {0}
ASSUME MaxTimeAssumption == MaxTime \in Nat \ {0}
ASSUME MaxEventsAssumption == MaxEvents \in Nat

VARIABLES
    now,
    status,     \* the row of shadow_registrations,
    desired,    \*   desired_observing
    start,      \*   observation_start
    resume,     \*   resume_after
    last,       \*   last_decision_time
    token,      \*   lease_token
    expiry,     \*   lease_expiry
    generation,
    log,        \* the closes in shadow_observations
    noted,      \* the closes an OBSERVATION_GAP event speaks of
    step,       \* where each worker's tick() is
    epoch,      \* the clock that tick read
    since,      \* the resume_after it read
    before,     \* the last_decision_time it read
    own,        \* the token in _owned, 0 without one
    attached,   \* attached_at
    attempt,    \* the generation evaluate() read
    events      \* how many of them there were

row == <<status, desired, start, resume, last, token, expiry, generation>>
locals == <<step, epoch, since, before, attempt>>
owned == <<own, attached>>
vars == <<now, row, log, noted, locals, owned, events>>

\* No lease is still running when the clock stops, and one more close has come.
Times == 0 .. MaxTime + Lease + Period

Statuses == {"READY", "OBSERVING", "PAUSED", "BLOCKED", "STOPPED"}

\* int(epoch // 300) * 300
Newest(t) == (t \div Period) * Period

Boundaries == {(t \div Period) * Period : t \in Times} \ {0}

Between(a, b) == {c \in Boundaries : a < c /\ c < b}

TypeOK ==
    /\ now \in Times \ {0}
    /\ status \in Statuses
    /\ desired \in BOOLEAN
    /\ start \in Times
    /\ resume \in Times
    /\ last \in {0} \union Boundaries
    /\ token \in Nat
    /\ expiry \in Nat
    /\ generation \in Nat
    /\ log \subseteq Boundaries
    /\ noted \subseteq Boundaries
    /\ step \in [Workers -> {"idle", "lease", "look", "commit"}]
    /\ epoch \in [Workers -> Times]
    /\ since \in [Workers -> Times]
    /\ before \in [Workers -> {0} \union Boundaries]
    /\ own \in [Workers -> Nat]
    /\ attached \in [Workers -> Times]
    /\ attempt \in [Workers -> Nat]
    /\ events \in 0 .. MaxEvents

\* Registered, validated and just started.
Init ==
    /\ now = 1
    /\ status = "READY"
    /\ desired = TRUE
    /\ start = 1
    /\ resume = 1
    /\ last = 0
    /\ token = 0
    /\ expiry = 0
    /\ generation = 2
    /\ log = {}
    /\ noted = {}
    /\ step = [w \in Workers |-> "idle"]
    /\ epoch = [w \in Workers |-> 0]
    /\ since = [w \in Workers |-> 0]
    /\ before = [w \in Workers |-> 0]
    /\ own = [w \in Workers |-> 0]
    /\ attached = [w \in Workers |-> 0]
    /\ attempt = [w \in Workers |-> 0]
    /\ events = 0

Tick ==
    /\ now + 1 \in Times
    /\ now' = now + 1
    /\ UNCHANGED <<row, log, noted, locals, owned, events>>

Happens ==
    /\ now <= MaxTime
    /\ events < MaxEvents
    /\ events' = events + 1
-----------------------------------------------------------------------------
\* transition(): every action that is taken drops the lease and moves the
\* generation.  The observation is from now on; nothing before counts.

Becomes(new, on) ==
    /\ status' = new
    /\ desired' = on
    /\ resume' = IF on THEN now ELSE resume
    /\ start' = IF on /\ start = 0 THEN now ELSE start
    /\ token' = 0
    /\ expiry' = 0
    /\ generation' = generation + 1
    /\ UNCHANGED last

From(old) ==
    /\ status \in old
    /\ UNCHANGED <<now, log, noted, locals, owned>>

\* What takes back a pause or a block is not counted: it happens at most once for each.
Undoes == UNCHANGED events

Start == From({"READY"}) /\ Undoes /\ ~desired /\ Becomes("READY", TRUE)
Resume == From({"PAUSED"}) /\ Undoes /\ Becomes("READY", TRUE)
Pause == From({"READY", "OBSERVING", "BLOCKED"}) /\ Happens /\ Becomes("PAUSED", FALSE)
Stop == From(Statuses \ {"STOPPED"}) /\ Happens /\ Becomes("STOPPED", FALSE)
Block == From({"READY", "OBSERVING"}) /\ Happens /\ Becomes("BLOCKED", FALSE)

Validate ==
    /\ From({"READY", "BLOCKED"})
    /\ \/ status = "BLOCKED" /\ ~desired /\ Undoes /\ Becomes("READY", FALSE)
       \/ Happens /\ \E new \in {"READY", "BLOCKED"} : Becomes(new, desired)

Operator == Start \/ Resume \/ Pause \/ Stop \/ Block \/ Validate
-----------------------------------------------------------------------------
\* tick() of a worker.

Goes(w, place) == step' = [step EXCEPT ![w] = place]

\* The tick is over with the registration, and its locals are gone.
Ends(w) ==
    /\ Goes(w, "idle")
    /\ epoch' = [epoch EXCEPT ![w] = 0]
    /\ since' = [since EXCEPT ![w] = 0]
    /\ before' = [before EXCEPT ![w] = 0]
    /\ attempt' = [attempt EXCEPT ![w] = 0]

Disowns(w) ==
    /\ own' = [own EXCEPT ![w] = 0]
    /\ attached' = [attached EXCEPT ![w] = 0]

\* What no store call but transition() writes.
Lifecycle == <<desired, start, resume>>

\* _detach(): the lease is released if it is still this worker's.
Detaches(w) ==
    /\ expiry' = IF token = own[w] THEN 0 ELSE expiry
    /\ Disowns(w)
    /\ UNCHANGED <<now, Lifecycle, status, last, token, generation, log, noted, locals>>

Sweeps(w) ==
    /\ step[w] = "idle"
    /\ desired
    /\ epoch' = [epoch EXCEPT ![w] = now]
    /\ since' = [since EXCEPT ![w] = resume]
    /\ before' = [before EXCEPT ![w] = last]
    /\ Goes(w, "lease")
    /\ UNCHANGED <<now, row, log, noted, attempt, owned, events>>

SweepsAway(w) ==
    /\ step[w] = "idle"
    /\ ~desired
    /\ own[w] # 0
    /\ Detaches(w)
    /\ UNCHANGED events

Holds(w, t) == desired /\ own[w] # 0 /\ token = own[w] /\ expiry > t

Heartbeats(w) ==
    /\ step[w] = "lease"
    /\ Holds(w, epoch[w])
    /\ expiry' = epoch[w] + Lease
    /\ Goes(w, "look")
    /\ UNCHANGED <<now, Lifecycle, status, last, token, generation, log, noted>>
    /\ UNCHANGED <<epoch, since, before, attempt, owned, events>>

LosesLease(w) ==
    /\ step[w] = "lease"
    /\ own[w] # 0
    /\ ~Holds(w, epoch[w])
    /\ Detaches(w)
    /\ UNCHANGED events

\* A plausible bug: a row that names a token counts as leased.
Unnamed(t) == desired /\ token = 0

Claimable(t) == desired /\ expiry <= t

\* A plausible bug: the interval is recorded by the clock, not by its closes.
ClockGap(t) == last .. t

\* The interval without a worker is on record, from the last decision, or from the
\* start when the first worker comes late.
ClaimGap(t) ==
    IF token # 0 THEN Between(last, t)
    ELSE IF start # 0 /\ t - start > Period THEN Between(start, t) ELSE {}

Claims(w) ==
    /\ step[w] = "lease"
    /\ own[w] = 0
    /\ Claimable(epoch[w])
    /\ noted' = noted \union ClaimGap(epoch[w])
    /\ token' = generation + 1
    /\ expiry' = epoch[w] + Lease
    /\ generation' = generation + 1
    /\ own' = [own EXCEPT ![w] = generation + 1]
    /\ attached' = [attached EXCEPT ![w] = epoch[w]]
    /\ Goes(w, "look")
    /\ UNCHANGED <<now, Lifecycle, status, last, log, epoch, since, before, attempt, events>>

ClaimRefused(w) ==
    /\ step[w] = "lease"
    /\ own[w] = 0
    /\ ~Claimable(epoch[w])
    /\ Ends(w)
    /\ UNCHANGED <<now, row, log, noted, owned, events>>

Cutoff(w) == Newest(epoch[w])

\* A scheduled close that came after this worker attached, in this interval of
\* observation, and after the last decision.
Due(w) == Cutoff(w) >= attached[w] /\ Cutoff(w) >= since[w] /\ Cutoff(w) > before[w]

\* A plausible bug: one missed close is not worth an event.
MissedTwo(w) ==
    IF before[w] # 0 /\ Cutoff(w) - before[w] > 2 * Period
    THEN Between(before[w], Cutoff(w))
    ELSE {}

Missed(w) ==
    IF before[w] # 0 /\ Cutoff(w) - before[w] > Period
    THEN Between(before[w], Cutoff(w))
    ELSE {}

\* The closes since the last decision are on record as missed, and evaluate()
\* reads the row again; a close already decided is a replay.
Evaluates(w) ==
    /\ step[w] = "look"
    /\ Due(w)
    /\ noted' = noted \union Missed(w)
    /\ IF desired /\ Cutoff(w) >= resume /\ Cutoff(w) \notin log
       THEN /\ Goes(w, "commit")
            /\ attempt' = [attempt EXCEPT ![w] = generation]
            /\ since' = [since EXCEPT ![w] = 0]
            /\ before' = [before EXCEPT ![w] = 0]
            /\ UNCHANGED epoch
       ELSE Ends(w)
    /\ UNCHANGED <<now, row, log, owned, events>>

\* Nothing is due, or the candle is not there yet and is waited for.
Passes(w) ==
    /\ step[w] = "look"
    /\ Ends(w)
    /\ UNCHANGED <<now, row, log, noted, owned, events>>

\* A plausible bug: a registration that is observed takes any newer decision.
Unfenced(w) == desired /\ Cutoff(w) > last

\* commit(): this generation, this lease, and time order.
Fence(w) ==
    /\ Holds(w, now)
    /\ generation = attempt[w]
    /\ Cutoff(w) > last

Commits(w) ==
    /\ step[w] = "commit"
    /\ Fence(w)
    /\ log' = log \union {Cutoff(w)}
    /\ last' = Cutoff(w)
    /\ status' \in {"OBSERVING", "BLOCKED"}
    /\ Ends(w)
    /\ UNCHANGED <<now, Lifecycle, token, expiry, generation, noted, owned, events>>

\* STALE_SHADOW_ATTEMPT or OUT_OF_ORDER_OBSERVATION.
CommitRefused(w) ==
    /\ step[w] = "commit"
    /\ ~Fence(w)
    /\ Ends(w)
    /\ UNCHANGED <<now, row, log, noted, owned, events>>

\* The database is unavailable.
CommitFails(w) ==
    /\ step[w] = "commit"
    /\ Happens
    /\ Ends(w)
    /\ UNCHANGED <<now, row, log, noted, owned>>

\* stop(): the worker leaves between two ticks; another process may start in its place.
Stops(w) ==
    /\ step[w] = "idle"
    /\ own[w] # 0
    /\ Happens
    /\ Detaches(w)

\* The process dies; its successor owns nothing.
Crashes(w) ==
    /\ Happens
    /\ Disowns(w)
    /\ Ends(w)
    /\ UNCHANGED <<now, row, log, noted>>

Works(w) ==
    \/ Sweeps(w) \/ SweepsAway(w) \/ Heartbeats(w) \/ LosesLease(w) \/ Claims(w)
    \/ ClaimRefused(w) \/ Evaluates(w) \/ Passes(w) \/ Commits(w) \/ CommitRefused(w)

Fails(w) == CommitFails(w) \/ Stops(w) \/ Crashes(w)

Next == Tick \/ Operator \/ \E w \in Workers : Works(w) \/ Fails(w)

\* The clock runs and so does every worker's loop.
Fairness == WF_vars(Tick) /\ \A w \in Workers : WF_vars(Works(w))

Spec == Init /\ [][Next]_vars /\ Fairness
-----------------------------------------------------------------------------

\* A close that was decided came due while the registration was observing, and no
\* pause, stop or validation fell between its coming due and its commit, although
\* the worker read, evaluated and committed in three transactions.
Open == {b \in Boundaries : desired /\ resume <= b /\ b <= now}

Evidence == INSTANCE ObservationLog WITH observing <- desired, open <- Open

DecidesOnlyObserved == Evidence!Spec

\* Every close between two decisions is decided or on record as missed: through
\* crashes, take-overs, pauses and failing commits there is no silent hole.
NoSilentHole ==
    \A d \in log, e \in log : Between(d, e) \subseteq log \union noted

\* A registration that is to be observed does not stay with a dead worker: a live
\* one holds its lease again and again.
Adopted == []<>(desired => \E w \in Workers : own[w] # 0 /\ own[w] = token)
=============================================================================
