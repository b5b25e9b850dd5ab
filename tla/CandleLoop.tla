----------------------------- MODULE CandleLoop -----------------------------
(***************************************************************************)
(* A Trading Instance in forward paper mode: the engine thread takes the   *)
(* closed candles one by one (services/auto_engine.py), exits and signals  *)
(* go through the pipeline, the quote thread fills what was parked, and a  *)
(* durable cursor says where to resume after a crash or a restart.         *)
(***************************************************************************)
EXTENDS SignalPipeline

VARIABLES
    signal,   \* what the strategy says on each candle, on a replay too
    closed,   \* how many candles the provider has closed
    cursor,   \* last_processed_candle, durable
    held,     \* candles without a signal to act on
    gated     \* candles whose entry a gate of the engine refused: their bot_logs rows

vars == <<events, executions, book, intent, saved, quote, copied, pc, call,
          snap, paused, faults, unsaved, signal, closed, cursor, held, gated>>

loop == <<signal, closed, cursor, held, gated>>
candle == cursor + 1

TypeOK ==
    /\ LedgerTypeOK
    /\ ExecutionTypeOK
    /\ PipelineTypeOK
    /\ signal \in [Candles -> {"none", "buy", "sell", "flatten"}]
    /\ closed \in 0 .. Last
    /\ cursor \in 0 .. closed
    /\ held \subseteq Candles
    /\ gated \subseteq Candles

Init ==
    /\ LedgerInit
    /\ ExecutionInit
    /\ pc = "idle"
    /\ call = <<1, "close">>
    /\ snap = NoIntent
    /\ paused = FALSE
    /\ faults = 0
    /\ unsaved = FALSE
    /\ signal \in [Candles -> {"none", "buy", "sell", "flatten"}]
    /\ closed = 0
    /\ cursor = 0
    /\ held = {}
    /\ gated = {}

CandleCloses ==
    /\ closed < Last
    /\ closed' = closed + 1
    /\ UNCHANGED <<ledger, execution, pc, call, snap, paused, counts, signal, cursor, held, gated>>

\* A plausible bug: a row is taken only when a newer one exists.
TakeCandleButLast ==
    /\ pc = "idle"
    /\ cursor + 1 < closed
    /\ pc' = "exit"
    /\ UNCHANGED <<ledger, execution, call, snap, paused, counts, loop>>

\* _ingest() of the rows newer than the cursor.
TakeCandle ==
    /\ pc = "idle"
    /\ cursor < closed
    /\ pc' = "exit"
    /\ UNCHANGED <<ledger, execution, call, snap, paused, counts, loop>>

\* _check_exit(): the bar may reach the stop or the target of a position.
CheckExit ==
    /\ pc = "exit"
    /\ \/ /\ book # {}
          /\ call' = <<candle, "close">>
          /\ pc' = "closing"
       \/ /\ pc' = "signal"
          /\ UNCHANGED call
    /\ UNCHANGED <<ledger, execution, snap, paused, counts, loop>>

Aligned ==
    IF book = {}
    THEN signal[candle] = "flatten"
    ELSE \E p \in book : p.side = signal[candle]

\* on_bar() and _on_signal(): a strategy that follows its position's life does not
\* look at a candle on which one is managed or was closed.
OnSignal ==
    /\ pc = "signal"
    /\ \/ /\ signal[candle] = "none" \/ Aligned \/ book # {} \/ call = <<candle, "close">>
          /\ pc' = "done"
          /\ held' = held \union {candle}
          /\ UNCHANGED call
       \/ /\ signal[candle] # "none" /\ ~Aligned
          /\ pc' = "process"
          /\ call' = <<candle, signal[candle]>>
          /\ UNCHANGED held
    /\ UNCHANGED <<ledger, execution, snap, paused, counts, signal, closed, cursor, gated>>

\* An entry from flat meets the decision gate and the context gate before the
\* pipeline. What they decide rests on scores and prices, is open, and need not be
\* the same on a replay.
AtGates == pc = "signal" /\ book = {} /\ signal[candle] \in Sides

\* A gate ends it: a log line, and no webhook row.
GateRejects ==
    /\ AtGates
    /\ gated' = gated \union {candle}
    /\ pc' = "done"
    /\ UNCHANGED <<ledger, execution, call, snap, paused, counts, signal, closed, cursor, held>>

\* A plausible bug: the cursor is the candle that comes next.
CheckpointPastCandle ==
    /\ pc = "done"
    /\ cursor' = candle + 1
    /\ pc' = "idle"
    /\ UNCHANGED <<ledger, execution, call, snap, paused, counts, signal, closed, held, gated>>

\* _checkpoint_candle(): the cursor moves when the candle is done.
Checkpoint ==
    /\ pc = "done"
    /\ cursor' = candle
    /\ pc' = "idle"
    /\ UNCHANGED <<ledger, execution, call, snap, paused, counts, signal, closed, held, gated>>

\* The write of the cursor, or of a gate's log line, fails: the worker ends in
\* "error".
CheckpointFails ==
    /\ pc = "done" \/ AtGates
    /\ faults < MaxFaults
    /\ faults' = faults + 1
    /\ pc' = "error"
    /\ UNCHANGED <<ledger, execution, call, snap, paused, unsaved, loop>>

\* The supervisor replaces the worker: new engine, pipeline and executor.
Restart ==
    /\ pc = "error"
    /\ quote = "idle"
    /\ Reload
    /\ pc' = "idle"
    /\ UNCHANGED <<ledger, call, snap, paused, counts, loop>>

\* The process dies between any two commits.
Crash ==
    /\ faults < MaxFaults
    /\ faults' = faults + 1
    /\ Reload
    /\ snap' = NoIntent
    /\ pc' = "idle"
    /\ UNCHANGED <<ledger, call, paused, unsaved, loop>>

PauseOrResume ==
    /\ paused' = ~paused
    /\ UNCHANGED <<ledger, execution, pc, call, snap, counts, loop>>

EngineStep ==
    \/ TakeCandle \/ CheckExit \/ OnSignal \/ GateRejects \/ Checkpoint
    \/ PipelineStep /\ UNCHANGED loop

Quote == QuoteStep /\ UNCHANGED <<pc, call, snap, paused, counts, loop>>

QuoteFails ==
    /\ faults < MaxFaults
    /\ faults' = faults + 1
    /\ QuoteSaveFails
    /\ UNCHANGED <<pc, call, snap, paused, unsaved, loop>>

Next ==
    \/ CandleCloses \/ EngineStep \/ CheckpointFails \/ Quote \/ QuoteFails
    \/ Restart \/ Crash \/ PauseOrResume

\* The engine thread and the supervisor run, candles close, and a quote that
\* can fill what is parked arrives.
Fairness ==
    /\ WF_vars(EngineStep)
    /\ WF_vars(Restart)
    /\ WF_vars(CandleCloses)
    /\ WF_vars(Quote)

Spec == Init /\ [][Next]_vars /\ Fairness
-----------------------------------------------------------------------------
(* What the instance promises. *)

Orders == INSTANCE AccountBook
    WITH Keys <- Alerts, used <- executions, open <- {p.alert : p \in book}

\* Through crashes, replays of a candle, stale checkpoints of intents and quotes
\* that race the engine, every alert is executed at most once and the instance
\* never has two open positions.
ExecutesOnce == Orders!Spec

\* The durable cursor never leaves behind an entry signal without a trace: each
\* candle it has passed was a hold, or a gate of the engine has logged why it ended
\* there, or its alert has a row.
DecisionsLeaveRows ==
    \A c \in 1 .. cursor :
        signal[c] \in Sides /\ c \notin held \union gated =>
            \E s \in Statuses \ {"filled"} : <<<<c, signal[c]>>, s>> \in events

\* A claim is held by the call in progress, or by one a crash cut short.
ClaimsAreTransient ==
    \A a \in Alerts :
        <<a, "claimed">> \in events =>
            \/ faults > 0
            \/ a = call /\ pc \in {"open", "snap", "save", "promote", "refused"}

\* What a quote may fill was claimed: its alert has a row that keeps a replay of
\* its candle from ordering again.  A checkpoint that fails gives the claim back
\* while its intent is still in memory, and ends this.
ParkedIsClaimed ==
    ~unsaved =>
        \A i \in {intent, saved} \ {NoIntent} :
            \E s \in {"claimed", "pending"} : <<i.alert, s>> \in events

\* Without a crash or a failing write the worker never ends in an error, every
\* candle is worked off, and what is parked is filled or dropped.
FaultFreeProgress ==
    [](faults = 0) =>
        /\ [](pc # "error")
        /\ <>[](cursor = Last)
        /\ []<>(intent = NoIntent)

\* Whatever crashed, a parked intent is settled: filled, dropped because a
\* position exists, or left only because its key was executed before.
ParkedIsSettled ==
    []<>(intent = NoIntent \/ ~Unused(intent.alert))
=============================================================================
