--------------------------- MODULE SignalPipeline ---------------------------
(***************************************************************************)
(* SignalPipeline.process() (services/signal_pipeline.py) over the forward *)
(* execution engine, one commit of the ledger or of the store per step.    *)
(* The process lock serialises calls; the quote thread and a crash come in *)
(* between any two steps.  Which gate refuses an entry depends on prices   *)
(* and account history and is a choice here.                               *)
(***************************************************************************)
EXTENDS ForwardExecution

CONSTANT MaxFaults    \* crashes and writes that fail (bound)

ASSUME MaxFaultsAssumption == MaxFaults \in Nat

VARIABLES
    pc,       \* where the thread that trades the instance is
    call,     \* the alert it is processing
    snap,     \* the intents _checkpoint_intents() has copied
    paused,   \* TradingControl: entries are not allowed
    faults,   \* crashes and failed writes so far
    unsaved   \* a checkpoint of the intents has failed

Steps ==
    {"idle", "exit", "signal", "process", "claim", "open", "snap", "save",
     "promote", "refused", "reject", "closing", "closed", "done", "error"}

PipelineTypeOK ==
    /\ pc \in Steps
    /\ call \in Alerts
    /\ snap \in Intents \union {NoIntent}
    /\ paused \in BOOLEAN
    /\ faults \in 0 .. MaxFaults
    /\ unsaved \in BOOLEAN

counts == <<faults, unsaved>>

side == call[2]

\* An explicit close, or the opposite side of an open position.
IsClose ==
    \/ side \in {"close", "flatten"}
    \/ \E p \in book : p.side # side

\* insert_webhook_event(): a second row of one status raises DuplicateOrderIntent,
\* which only the claim's caller catches; anywhere else it ends the worker.
Insert(status, next) ==
    IF <<call, status>> \in events
    THEN pc' = "error" /\ UNCHANGED events
    ELSE pc' = next /\ events' = events \union {<<call, status>>}

\* reject() from a gate.
Refuse == Insert("rejected", "done")

\* The emergency controls and the quality of the quote.
EntryGate == Refuse

DuplicateGate ==
    /\ ~paused
    /\ Seen(call)
    /\ Insert("duplicate", "done")

\* Positions, correlation, events, drawdown, sessions, loss limits, cooldown.
AccountGates == ~paused /\ ~Seen(call) /\ Refuse

\* The stop, the size, exposure, venue rules, the risk engine, the global guard.
SizingGates == ~paused /\ ~Seen(call) /\ book = {} /\ Refuse

Approved ==
    /\ ~paused
    /\ ~Seen(call)
    /\ book = {}
    /\ pc' = "claim"
    /\ UNCHANGED events

Process ==
    /\ pc = "process"
    /\ IF IsClose
       THEN pc' = "closing" /\ UNCHANGED events
       ELSE EntryGate \/ DuplicateGate \/ AccountGates \/ SizingGates \/ Approved
    /\ UNCHANGED <<executions, book, execution, call, snap, paused, counts>>

\* A plausible bug: a claim that exists counts as one's own.
ClaimTwice ==
    /\ pc = "claim"
    /\ pc' = "open"
    /\ events' = events \union {<<call, "claimed">>}
    /\ UNCHANGED <<executions, book, execution, call, snap, paused, counts>>

\* An existing claim ends the call without a row and without an error.
Claim ==
    /\ pc = "claim"
    /\ IF <<call, "claimed">> \in events
       THEN pc' = "done" /\ UNCHANGED events
       ELSE pc' = "open" /\ events' = events \union {<<call, "claimed">>}
    /\ UNCHANGED <<executions, book, execution, call, snap, paused, counts>>

Open ==
    /\ pc = "open"
    /\ \/ /\ pc' = IF intent = NoIntent THEN "snap" ELSE "promote"
          /\ Park(call, side)
       \/ /\ pc' = "refused"
          /\ UNCHANGED <<ledger, execution>>
    /\ UNCHANGED <<call, snap, paused, counts>>

\* _checkpoint_intents(): copy under the lock, save without it.
Snapshot ==
    /\ pc = "snap"
    /\ LockFree
    /\ snap' = intent
    /\ pc' = "save"
    /\ UNCHANGED <<ledger, execution, call, paused, counts>>

Save ==
    /\ pc = "save"
    /\ saved' = snap
    /\ snap' = NoIntent
    /\ pc' = "promote"
    /\ UNCHANGED <<ledger, intent, quote, copied, call, paused, counts>>

\* The checkpoint raises: the claim is released and the error propagates.
SaveRaises ==
    /\ pc = "save"
    /\ faults < MaxFaults
    /\ faults' = faults + 1
    /\ unsaved' = TRUE
    /\ snap' = NoIntent
    /\ Release(call)
    /\ pc' = "error"
    /\ UNCHANGED <<executions, book, execution, call, paused>>

Promoted ==
    /\ pc = "promote"
    /\ Promote(call, "pending")
    /\ pc' = "done"
    /\ UNCHANGED <<executions, book, execution, call, snap, paused, counts>>

\* Plausible bugs: the refused order's claim stays, or nothing is recorded.
RefusedKeepsClaim ==
    /\ pc = "refused"
    /\ pc' = "reject"
    /\ UNCHANGED <<ledger, execution, call, snap, paused, counts>>

RefusedSilently ==
    /\ pc = "refused"
    /\ Release(call)
    /\ pc' = "done"
    /\ UNCHANGED <<executions, book, execution, call, snap, paused, counts>>

\* A refused order gives its claim back before it is recorded as rejected.
Refused ==
    /\ pc = "refused"
    /\ Release(call)
    /\ pc' = "reject"
    /\ UNCHANGED <<executions, book, execution, call, snap, paused, counts>>

Reject ==
    /\ pc = "reject"
    /\ Insert("rejected", "done")
    /\ UNCHANGED <<executions, book, execution, call, snap, paused, counts>>

\* An exit is never gated; an execution id used before makes the commit raise.
Close ==
    /\ pc = "closing"
    /\ IF Unused(call)
       THEN /\ \E p \in book : CommitClose(call, p)
            /\ pc' = "closed"
       ELSE /\ pc' = "error"
            /\ UNCHANGED <<executions, book>>
    /\ UNCHANGED <<events, execution, call, snap, paused, counts>>

\* The exit is recorded; after a protective one the strategy's turn comes.
Closed ==
    /\ pc = "closed"
    /\ Insert("accepted", IF side = "close" THEN "signal" ELSE "done")
    /\ UNCHANGED <<executions, book, execution, call, snap, paused, counts>>

PipelineStep ==
    Process \/ Claim \/ Open \/ Snapshot \/ Save \/ SaveRaises \/ Promoted
    \/ Refused \/ Reject \/ Close \/ Closed
=============================================================================
