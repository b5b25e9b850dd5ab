----------------------------- MODULE MarketHub -----------------------------
(***************************************************************************)
(* ForwardPaperMarketDataHub (services/forward_paper_hub.py): the delivery *)
(* of closed candles to one consumer with a bar_sink.  Pool threads and    *)
(* the retry timer run _deliver_pending() at the same time; the delivery   *)
(* lock, taken without waiting, admits one, and the sink runs outside the  *)
(* hub's lock and may raise.                                               *)
(***************************************************************************)
EXTENDS PublicStream, SequencesExt

VARIABLES
    offered,    \* the candles on_bar() was called with, in order
    pending,    \* consumer.pending
    calls,      \* calls of _deliver_pending() that have not tried the lock
    holder,     \* what the holder of delivery_lock does, "none" without one
    hand,       \* the candle it has taken, in a sequence
    timer,      \* the retry timer is armed
    got         \* the candles the sink has accepted, in order

hub == <<offered, pending, calls, holder, hand, timer, got>>

HubTypeOK ==
    /\ offered \in Seq(1 .. Closes)
    /\ pending \in Seq(1 .. Closes)
    /\ got \in Seq(1 .. Closes)
    /\ hand \in Seq(1 .. Closes) /\ Len(hand) <= 1
    /\ calls \in Nat
    /\ holder \in {"none", "take", "sink", "refused", "leave"}
    /\ timer \in BOOLEAN

HubInit ==
    /\ offered = <<>>
    /\ pending = <<>>
    /\ calls = 0
    /\ holder = "none"
    /\ hand = <<>>
    /\ timer = FALSE
    /\ got = <<>>

\* on_bar(): queued once per candle, and a delivery is submitted to the pool.
OnBar(c) ==
    /\ offered' = Append(offered, c)
    /\ pending' = IF c \in ToSet(pending) THEN pending ELSE Append(pending, c)
    /\ calls' = calls + 1
    /\ UNCHANGED <<holder, hand, timer, got>>

\* A plausible bug: a call that finds the lock taken just returns.
GivesUp ==
    /\ calls > 0
    /\ calls' = calls - 1
    /\ holder' = IF holder = "none" THEN "take" ELSE holder
    /\ UNCHANGED <<offered, pending, hand, timer, got, faults, stream>>

\* _deliver_pending() tries the lock; when it is taken the retry timer looks again.
TriesLock ==
    /\ calls > 0
    /\ calls' = calls - 1
    /\ IF holder = "none"
       THEN holder' = "take" /\ UNCHANGED timer
       ELSE timer' = TRUE /\ UNCHANGED holder
    /\ UNCHANGED <<offered, pending, hand, got, faults, stream>>

\* A plausible bug: the whole backlog is taken out of the queue at once.
TakesAll ==
    /\ holder = "take"
    /\ hand' = pending
    /\ pending' = <<>>
    /\ holder' = IF pending = <<>> THEN "leave" ELSE "sink"
    /\ UNCHANGED <<offered, calls, timer, got, faults, stream>>

Takes ==
    /\ holder = "take"
    /\ IF pending = <<>>
       THEN holder' = "leave" /\ UNCHANGED <<pending, hand>>
       ELSE holder' = "sink" /\ hand' = <<Head(pending)>> /\ pending' = Tail(pending)
    /\ UNCHANGED <<offered, calls, timer, got, faults, stream>>

SinkAccepts ==
    /\ holder = "sink"
    /\ got' = got \o hand
    /\ hand' = <<>>
    /\ holder' = "take"
    /\ UNCHANGED <<offered, pending, calls, timer, faults, stream>>

\* A plausible bug: the refused candle queues up behind the newer ones.
RequeuesLast ==
    /\ holder = "sink"
    /\ Fault
    /\ pending' = pending \o hand
    /\ hand' = <<>>
    /\ holder' = "refused"
    /\ UNCHANGED <<offered, calls, timer, got, stream>>

\* The sink raises: the candle goes back to the front.
SinkRefuses ==
    /\ holder = "sink"
    /\ Fault
    /\ pending' = hand \o pending
    /\ hand' = <<>>
    /\ holder' = "refused"
    /\ UNCHANGED <<offered, calls, timer, got, stream>>

\* _retry_later(), still under the delivery lock.
ArmsTimer ==
    /\ holder = "refused"
    /\ timer' = TRUE
    /\ holder' = "leave"
    /\ UNCHANGED <<offered, pending, calls, hand, got, faults, stream>>

Leaves ==
    /\ holder = "leave"
    /\ holder' = "none"
    /\ UNCHANGED <<offered, pending, calls, hand, timer, got, faults, stream>>

\* retry_failed(): consumers with something pending are delivered again.
TimerFires ==
    /\ timer
    /\ timer' = FALSE
    /\ calls' = IF pending = <<>> THEN calls ELSE calls + 1
    /\ UNCHANGED <<offered, pending, holder, hand, got, faults, stream>>

\* A pool thread or the timer, whoever holds the delivery lock.
HolderStep == Takes \/ SinkAccepts \/ SinkRefuses \/ ArmsTimer \/ Leaves
=============================================================================
