---------------------------- MODULE PaperLedger ----------------------------
(***************************************************************************)
(* The durable tables of one Trading Instance's paper account              *)
(* (data/ledger.py, SqliteLedger, through the instance's InstanceLedger):  *)
(* webhook_events, paper_executions and the open rows of positions, each   *)
(* with its trade.  Prices and amounts are left out.                       *)
(***************************************************************************)
EXTENDS Naturals

CONSTANT Last               \* how many candles close (bound)

ASSUME LastAssumption == Last \in Nat \ {0}

Candles == 1 .. Last
Sides == {"buy", "sell"}

\* AutoStrategyEngine._auto_execution_id: the key of what is done about one
\* candle, the same whenever the candle is replayed.
Alerts == Candles \X {"buy", "sell", "flatten", "close"}

Statuses == {"claimed", "pending", "accepted", "rejected", "duplicate", "filled"}

VARIABLES
    events,      \* webhook_events: <<alert, status>>, unique for an instance
    executions,  \* paper_executions: the execution ids, a primary key
    book         \* open positions, each with its open trade: [alert, side]

ledger == <<events, executions, book>>

LedgerTypeOK ==
    /\ events \subseteq Alerts \X Statuses
    /\ executions \subseteq Alerts
    /\ book \subseteq [alert : Alerts, side : Sides]

LedgerInit ==
    /\ events = {}
    /\ executions = {}
    /\ book = {}

\* webhook_seen(): a rejection and a claim do not count, and the row of a fill
\* has an alert id of its own.
Seen(a) ==
    \E s \in {"pending", "accepted", "duplicate"} : <<a, s>> \in events

\* promote_webhook_event(): the claim row becomes the order's one row.
Promote(a, status) ==
    events' = (events \ {<<a, "claimed">>}) \union {<<a, status>>}

\* release_webhook_claim()
Release(a) ==
    events' = events \ {<<a, "claimed">>}

\* A plausible bug: the execution rows get an id of their own.
UnusedAlways(id) == id \in Alerts

\* paper_executions' primary key.
Unused(id) == id \notin executions

\* open_position_and_trade(): position, trade, execution and outbox row in one
\* transaction, rolled back as a whole.
CommitOpen(id, side) ==
    /\ Unused(id)
    /\ executions' = executions \union {id}
    /\ book' = book \union {[alert |-> id, side |-> side]}

\* close_position_and_trade()
CommitClose(id, p) ==
    /\ Unused(id)
    /\ executions' = executions \union {id}
    /\ book' = book \ {p}
=============================================================================
