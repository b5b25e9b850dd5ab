---------------------------- MODULE PublicStream ----------------------------
(***************************************************************************)
(* PriceActionPublicStream (services/price_action_stream.py): the market   *)
(* reader of one symbol and timeframe.  A dropped socket loses what it     *)
(* carried; after a reconnect, and after a closed candle that reveals a    *)
(* gap, REST repairs the history.  Candle 0 is the bootstrapped history.   *)
(* Prices, quotes and ages are left out.                                   *)
(***************************************************************************)
EXTENDS FiniteSetsExt, Integers

CONSTANTS
    Closes,       \* how many candles the venue closes (bound)
    MaxFaults   \* dropped sockets, failing or late REST answers, raising sinks (bound)

ASSUME ClosesAssumption == Closes \in Nat
ASSUME MaxFaultsAssumption == MaxFaults \in Nat

VARIABLES
    venue,      \* the newest candle the venue has closed
    unread,     \* closed-candle events in the socket
    bars,       \* _bars
    state,      \* the transport state
    complete,   \* reconciliation_complete
    reader,     \* where _stream_channel("market") is
    rows,       \* what REST answered
    fresh,      \* a merged candle bar_sink has not seen, 0 if none
    faults,
    late        \* a REST answer has missed the newest candle

stream == <<venue, unread, bars, state, complete, reader, rows, fresh, late>>

StreamTypeOK ==
    /\ venue \in 0 .. Closes
    /\ unread \subseteq 1 .. Closes
    /\ bars \subseteq 0 .. Closes
    /\ state \in {"CONNECTING", "CONNECTED", "DELAYED", "RECONNECTING"}
    /\ complete \in BOOLEAN
    /\ reader \in {"connect", "connected", "ask", "merge", "read"}
    /\ rows \subseteq 0 .. Closes
    /\ fresh \in 0 .. Closes
    /\ faults \in 0 .. MaxFaults
    /\ late \in BOOLEAN

StreamInit ==
    /\ venue = 0
    /\ unread = {}
    /\ bars = {0}
    /\ state = "CONNECTING"
    /\ complete = FALSE
    /\ reader = "connect"
    /\ rows = {}
    /\ fresh = 0
    /\ faults = 0
    /\ late = FALSE

\* _unresolved_gaps(): between two candles it holds.
Gaps == (Min(bars) .. Max(bars)) \ bars

\* status() of a fresh stream: what gates entries.
Reliable == state = "CONNECTED" /\ complete /\ Gaps = {}

Fault == faults < MaxFaults /\ faults' = faults + 1

VenueCloses ==
    /\ venue < Closes
    /\ venue' = venue + 1
    /\ unread' = IF reader = "connect" THEN unread ELSE unread \union {venue + 1}
    /\ UNCHANGED <<bars, state, complete, reader, rows, fresh, faults, late>>

\* _refresh_transport_state() with every channel connected.
Transport(reconciled) == IF reconciled THEN "CONNECTED" ELSE "DELAYED"

Connects ==
    /\ reader = "connect"
    /\ reader' = "connected"
    /\ state' = Transport(complete)
    /\ UNCHANGED <<venue, unread, bars, complete, rows, fresh, faults, late>>

\* A plausible bug: what was reconciled before the drop still counts.
ConnectsAgain ==
    /\ reader = "connected"
    /\ reader' = IF complete THEN "read" ELSE "ask"
    /\ UNCHANGED <<venue, unread, bars, state, complete, rows, fresh, faults, late>>

\* The new connection proves nothing until it is reconciled.
Unproven ==
    /\ reader = "connected"
    /\ reader' = "ask"
    /\ complete' = FALSE
    /\ UNCHANGED <<venue, unread, bars, state, rows, fresh, faults, late>>

\* reconcile() asks REST, which may not have the newest candle yet.
RestAnswers ==
    /\ reader = "ask"
    /\ reader' = "merge"
    /\ \/ rows' = 0 .. venue /\ UNCHANGED <<faults, late>>
       \/ rows' = 0 .. venue - 1 /\ late' = TRUE /\ Fault
    /\ UNCHANGED <<venue, unread, bars, state, complete, fresh>>

RestFails ==
    /\ reader = "ask"
    /\ Fault
    /\ complete' = FALSE
    /\ state' = "DELAYED"
    /\ reader' = "read"
    /\ UNCHANGED <<venue, unread, bars, rows, fresh, late>>

MergesRow ==
    /\ reader = "merge"
    /\ fresh = 0
    /\ rows \ bars # {}
    /\ fresh' = Min(rows \ bars)
    /\ bars' = bars \union {fresh'}
    /\ UNCHANGED <<venue, unread, state, complete, reader, rows, faults, late>>

Reconciled ==
    /\ reader = "merge"
    /\ fresh = 0
    /\ rows \subseteq bars
    /\ rows' = {}
    /\ complete' = (Gaps = {})
    /\ state' = Transport(complete')
    /\ reader' = "read"
    /\ UNCHANGED <<venue, unread, bars, fresh, faults, late>>

\* After a closed candle a delayed stream reconciles again.
AfterClosed(next) == reader' = IF next = "DELAYED" THEN "ask" ELSE "read"

\* ingest_event() of a closed candle: a known one is a duplicate, one beyond the
\* next reveals a gap.
Reads ==
    /\ reader = "read"
    /\ fresh = 0
    /\ unread # {}
    /\ unread' = unread \ {Min(unread)}
    /\ IF Min(unread) \in bars
       THEN /\ AfterClosed(state)
            /\ UNCHANGED <<bars, state, complete, fresh>>
       ELSE /\ fresh' = Min(unread)
            /\ bars' = bars \union {Min(unread)}
            /\ IF Min(unread) > Max(bars) + 1
               THEN complete' = FALSE /\ state' = "DELAYED"
               ELSE UNCHANGED <<complete, state>>
            /\ UNCHANGED reader
    /\ UNCHANGED <<venue, rows, faults, late>>

\* The rest of the handler, once bar_sink has returned.
Delivered ==
    /\ fresh # 0
    /\ fresh' = 0
    /\ IF reader = "read" THEN AfterClosed(state) ELSE UNCHANGED reader
    /\ UNCHANGED <<venue, unread, bars, state, complete, rows, faults, late>>

\* The socket drops; the reader backs off and connects again.
Drops ==
    /\ reader = "read"
    /\ fresh = 0
    /\ Fault
    /\ reader' = "connect"
    /\ state' = "RECONNECTING"
    /\ unread' = {}
    /\ UNCHANGED <<venue, bars, complete, rows, fresh, late>>

ReaderStep ==
    Connects \/ Unproven \/ RestAnswers \/ MergesRow \/ Reconciled \/ Reads
=============================================================================
