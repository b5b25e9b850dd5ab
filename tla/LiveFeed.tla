------------------------------ MODULE LiveFeed ------------------------------
(***************************************************************************)
(* A live engine and a lab on one public stream: the hub wakes the engine  *)
(* (candle_notice) and queues the candle for the lab; the engine reads the *)
(* stream's candles itself, from its own cursor (services/auto_engine.py,  *)
(* _run_live()).                                                           *)
(***************************************************************************)
EXTENDS MarketHub

VARIABLES
    engine,      \* _run_live()'s loop: "fetch", "wait" or "clear"
    cursor,      \* last_ts, the last candle processed
    ready        \* _candle_ready

loop == <<engine, cursor, ready>>
vars == <<stream, hub, loop, faults>>

TypeOK ==
    /\ StreamTypeOK
    /\ HubTypeOK
    /\ engine \in {"fetch", "wait", "clear"}
    /\ cursor \in 0 .. venue
    /\ ready \in BOOLEAN

Init ==
    /\ StreamInit
    /\ HubInit
    /\ engine = "fetch"
    /\ cursor = 0
    /\ ready = FALSE

\* The stream's bar_sink is the hub's on_bar(): the notice, then the queue.
Delivers ==
    /\ Delivered
    /\ ready' = TRUE
    /\ OnBar(fresh)
    /\ UNCHANGED <<engine, cursor>>

Unseen == {c \in bars : c > cursor}

\* _require_continuity(): the candles run on from the cursor without a gap.
Continuous == Unseen = cursor + 1 .. cursor + Cardinality(Unseen)

\* A plausible bug: one candle for each time the event is set.
FetchesOne ==
    /\ engine = "fetch"
    /\ Continuous
    /\ cursor' = cursor + (IF Unseen = {} THEN 0 ELSE 1)
    /\ engine' = "wait"
    /\ UNCHANGED <<stream, hub, faults, ready>>

\* The loop's fetch and _ingest().  A gap raises EngineFeedError, and the engine
\* comes back until the gap is gone.
Fetches ==
    /\ engine = "fetch"
    /\ Continuous
    /\ cursor' = cursor + Cardinality(Unseen)
    /\ engine' = "wait"
    /\ UNCHANGED <<stream, hub, faults, ready>>

Wakes ==
    /\ engine = "wait"
    /\ ready
    /\ engine' = "clear"
    /\ UNCHANGED <<stream, hub, faults, cursor, ready>>

\* live_poll_s has passed.
Polls ==
    /\ engine = "wait"
    /\ engine' = "clear"
    /\ UNCHANGED <<stream, hub, faults, cursor, ready>>

Clears ==
    /\ engine = "clear"
    /\ ready' = FALSE
    /\ engine' = "fetch"
    /\ UNCHANGED <<stream, hub, faults, cursor>>

EngineStep == Fetches \/ Wakes \/ Clears
StreamStep == ReaderStep \/ VenueCloses

Next ==
    \/ StreamStep /\ UNCHANGED <<hub, loop>>
    \/ (RestFails \/ Drops) /\ UNCHANGED <<hub, loop>>
    \/ Delivers
    \/ (HolderStep \/ TriesLock \/ TimerFires) /\ UNCHANGED loop
    \/ EngineStep \/ Polls

\* Every thread runs, REST and the venue answer, and the sink, which raises
\* within the bound, accepts in the end.  The engine's poll is not relied on.
Fairness ==
    /\ WF_vars(StreamStep /\ UNCHANGED <<hub, loop>>)
    /\ WF_vars(Delivers)
    /\ WF_vars(HolderStep /\ UNCHANGED loop)
    /\ WF_vars(TriesLock /\ UNCHANGED loop)
    /\ WF_vars(TimerFires /\ UNCHANGED loop)
    /\ WF_vars(EngineStep)

Spec == Init /\ [][Next]_vars /\ Fairness
-----------------------------------------------------------------------------

\* Outside the moment in which a new connection is not yet marked unproven, and
\* when REST has never answered late, a feed that reports itself reliable has
\* every candle the venue closed, or it is still in the socket.
ReliableIsComplete ==
    Reliable /\ reader # "connected" /\ ~late =>
        0 .. venue \subseteq bars \union unread

\* The lab is given what the stream offered: each candle once, in that order,
\* through raising sinks, retries and deliveries that race.
FanOutKeepsOrder == got \o hand \o pending = offered

\* Nothing stays in the queue of a lab whose sink accepts again.
LabCatchesUp == []<>(got = offered)

\* Once the gaps are gone for good, the engine processes every candle the stream
\* has, woken by the notices alone: none is lost between the fetch, the wait and
\* the clearing of the event, and several notices may be one.
EngineSeesEveryCandle ==
    <>[](Gaps = {}) => \A c \in 1 .. Closes : c \in bars ~> cursor >= c
=============================================================================
