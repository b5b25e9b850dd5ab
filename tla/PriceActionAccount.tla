------------------------- MODULE PriceActionAccount -------------------------
(***************************************************************************)
(* The Price Action paper account: the broker's orders and position        *)
(* (execution/paper_broker_v2.py) and the lab's metadata about its own     *)
(* orders (services/price_action_lab.py) are two records, written over two *)
(* connections under two locks.  The runtime thread handles quotes and     *)
(* closed candles; HTTP handlers reconcile, approve, submit and cancel     *)
(* beside it.  One symbol and one session; prices are left to choice.      *)
(***************************************************************************)
EXTENDS Naturals, FiniteSets, FiniteSetsExt

CONSTANTS
    Proposals,   \* eligible setups, each of a zone of its own
    MaxOrders,   \* bound: orders the broker ever holds
    MaxFaults    \* bound: crashes

ASSUME AccountAssumption ==
    /\ MaxOrders \in Nat
    /\ MaxFaults \in Nat
    /\ "manual" \notin Proposals /\ "none" \notin Proposals

Threads == {"runtime", "http"}
Orders == 1 .. MaxOrders

VARIABLES
    by,        \* the proposal an order was submitted for, "manual", or "none" yet
    status,    \* v2_orders.status; "ended" is cancelled or rejected
    position,  \* the orders whose fills make up the open position
    meta,      \* pa_order_meta.status; "cancelled" is every end without an exit
    awaiting,  \* candidates in PENDING_APPROVAL
    offered,   \* proposals some closed candle has already attested
    lock,      \* the lab's lock
    pc,        \* what each thread does
    flat,      \* reconcile_pending_orders() of the thread read no position
    todo,      \* the orders its loop has still to visit
    item,      \* the proposal it places
    filled,    \* the fills of the last quote the runtime has still to record
    exited,    \* so the protective exit
    checked,   \* a manual order has passed its check
    faults

broker == <<by, status, position>>
lab == <<meta, awaiting, offered>>
loop == <<flat, todo, item>>
news == <<filled, exited>>
vars == <<broker, lab, lock, pc, loop, news, checked, faults>>

TypeOK ==
    /\ by \in [Orders -> Proposals \cup {"manual", "none"}]
    /\ status \in [Orders -> {"none", "open", "partial", "filled", "ended"}]
    /\ position \subseteq Orders
    /\ meta \in [Orders -> {"none", "pending", "entered", "completed", "cancelled"}]
    /\ awaiting \subseteq Proposals
    /\ offered \subseteq Proposals
    /\ lock \in Threads \cup {"none"}
    /\ pc \in [Threads -> {"idle", "record", "read", "lock", "judge", "kill", "cancel",
                           "propose", "submit", "insert", "mark"}]
    /\ flat \in [Threads -> BOOLEAN]
    /\ todo \in [Threads -> SUBSET Orders]
    /\ item \in [Threads -> Proposals \cup {"none"}]
    /\ filled \subseteq Orders
    /\ exited \in BOOLEAN
    /\ checked \in BOOLEAN
    /\ faults \in 0 .. MaxFaults

Init ==
    /\ by = [o \in Orders |-> "none"]
    /\ status = [o \in Orders |-> "none"]
    /\ position = {}
    /\ meta = [o \in Orders |-> "none"]
    /\ awaiting = {}
    /\ offered = {}
    /\ lock = "none"
    /\ pc = [t \in Threads |-> "idle"]
    /\ flat = [t \in Threads |-> TRUE]
    /\ todo = [t \in Threads |-> {}]
    /\ item = [t \in Threads |-> "none"]
    /\ filled = {}
    /\ exited = FALSE
    /\ checked = FALSE
    /\ faults = 0

Working(s) == s \in {"open", "partial"}
Unfinished(s) == s \in {"pending", "entered"}
Book == {o \in Orders : Working(status[o])}
Free == {o \in Orders : by[o] = "none"}
Goes(t, step) == pc' = [pc EXCEPT ![t] = step]

---------------------------------------------------------------------------
\* The broker: each of these is one transaction under the broker's lock.

\* What is open once the entries in F have filled: a second order of one symbol
\* adds to the position, reduces it, closes it or turns it round.
PositionsAfter(F) ==
    IF F = {} \/ Cardinality(position \cup F) = 1
    THEN {position \cup F}
    ELSE SUBSET (position \cup F)

\* _fill(): entirely, in part for want of volume, or refused for want of margin.
StatusAfter(F, P, R) ==
    [o \in Orders |-> CASE o \in P -> "partial"
                       [] o \in F \ P -> "filled"
                       [] o \in R -> "ended"
                       [] OTHER -> status[o]]

\* The orders in F fill, P of them in part, then stop and target are tried; an entry
\* whose price has crossed its stop is refused too.
Trades(F, P, exit) ==
    /\ \E R \in SUBSET (Book \ F) : status' = StatusAfter(F, P, R)
    /\ \E after \in PositionsAfter(F) :
           /\ exit => after # {}
           /\ position' = IF exit THEN {} ELSE after
    /\ UNCHANGED by

\* cancel() raises for an order that is not open.
Cancelled(o) == IF Working(status[o]) THEN [status EXCEPT ![o] = "ended"] ELSE status

\* POST /paper/process: a candle fills and exits with no word to the metadata.
ProcessesCandle ==
    /\ \E F \in SUBSET Book, exit \in BOOLEAN : \E P \in SUBSET F : Trades(F, P, exit)
    /\ UNCHANGED <<lab, lock, pc, loop, news, checked, faults>>

\* POST /paper/orders/{id}/cancel
ManualCancels ==
    /\ \E o \in Book : status' = Cancelled(o)
    /\ UNCHANGED <<by, position, lab, lock, pc, loop, news, checked, faults>>

\* POST /paper/orders: no lock is held from the check to the submission.
ManualChecks ==
    /\ ~checked
    /\ Book = {} /\ position = {}
    /\ Free # {}
    /\ checked' = TRUE
    /\ UNCHANGED <<broker, lab, lock, pc, loop, news, faults>>

ManualSubmits ==
    /\ checked
    /\ checked' = FALSE
    /\ IF Free = {}
       THEN UNCHANGED broker
       ELSE /\ by' = [by EXCEPT ![Min(Free)] = "manual"]
            /\ status' = [status EXCEPT ![Min(Free)] = "open"]
            /\ UNCHANGED position
    /\ UNCHANGED <<lab, lock, pc, loop, news, faults>>

---------------------------------------------------------------------------
\* The runtime's quotes.

\* process_quote() up to the broker's commit: a quote fills an order entirely.
Quote ==
    /\ pc["runtime"] = "idle"
    /\ \E F \in SUBSET Book, exit \in BOOLEAN :
           /\ Trades(F, {}, exit)
           /\ filled' = F
           /\ exited' = exit
           /\ IF F # {} \/ exit THEN Goes("runtime", "record") ELSE UNCHANGED pc
    /\ UNCHANGED <<lab, lock, loop, checked, faults>>

RecordsFill ==
    /\ pc["runtime"] = "record"
    /\ lock = "none"
    /\ \E o \in filled :
           /\ meta' = IF meta[o] = "none" THEN meta ELSE [meta EXCEPT ![o] = "entered"]
           /\ filled' = filled \ {o}
           /\ IF filled = {o} /\ ~exited THEN Goes("runtime", "idle") ELSE UNCHANGED pc
    /\ UNCHANGED <<broker, awaiting, offered, lock, loop, exited, checked, faults>>

\* The exit comes last and completes whatever has entered.
RecordsExit ==
    /\ pc["runtime"] = "record"
    /\ lock = "none"
    /\ filled = {} /\ exited
    /\ meta' = [o \in Orders |-> IF meta[o] = "entered" THEN "completed" ELSE meta[o]]
    /\ exited' = FALSE
    /\ Goes("runtime", "idle")
    /\ UNCHANGED <<broker, awaiting, offered, lock, loop, filled, checked, faults>>

---------------------------------------------------------------------------
\* reconcile_pending_orders(), by the runtime on a closed candle or over HTTP.

\* The positions are read before the lock is taken.
ReadsPositions(t) ==
    /\ flat' = [flat EXCEPT ![t] = position = {}]
    /\ Goes(t, "lock")
    /\ UNCHANGED <<broker, lab, lock, todo, item, news, checked, faults>>

BarCloses ==
    /\ pc["runtime"] = "idle"
    /\ ReadsPositions("runtime")

\* reconcile_paper_orders() passes through the runtime's lock first.
HttpReconciles ==
    /\ pc["http"] = "idle"
    /\ pc["runtime"] = "idle"
    /\ Goes("http", "read")
    /\ UNCHANGED <<broker, lab, lock, loop, news, checked, faults>>

HttpReads ==
    /\ pc["http"] = "read"
    /\ ReadsPositions("http")

TakesLock(t) ==
    /\ pc[t] = "lock"
    /\ lock = "none"
    /\ lock' = t
    /\ todo' = [todo EXCEPT ![t] = {o \in Orders : meta[o] # "none"}]
    /\ Goes(t, "judge")
    /\ UNCHANGED <<broker, lab, flat, item, news, checked, faults>>

\* A plausible bug: the broker's word is written as it stands.
SettledAsIs(t, o) == status[o]

\* A plausible bug: an order that has filled is taken to be in the position.
SettledOpen(t, o) == IF status[o] = "filled" THEN "entered" ELSE "cancelled"

\* What the metadata of an order the broker has closed becomes.
Settled(t, o) ==
    IF status[o] = "filled"
    THEN IF flat[t] THEN "completed" ELSE "entered"
    ELSE "cancelled"

\* The broker's order is read; to end one that is open takes a second call.
Judges(t) ==
    /\ pc[t] = "judge"
    /\ todo[t] # {}
    /\ LET o == Min(todo[t]) IN
       \/ /\ Working(status[o])
          /\ Goes(t, "kill")
          /\ UNCHANGED <<meta, todo>>
       \/ /\ Working(status[o]) => Unfinished(meta[o])
          /\ meta' = IF Unfinished(meta[o]) /\ ~Working(status[o])
                     THEN [meta EXCEPT ![o] = Settled(t, o)] ELSE meta
          /\ todo' = [todo EXCEPT ![t] = @ \ {o}]
          /\ UNCHANGED pc
    /\ UNCHANGED <<broker, awaiting, offered, lock, flat, item, news, checked, faults>>

\* Expired, invalidated, breached or paused: cancel() may find the order filled
\* by now, its error is swallowed and the verdict stands.
Kills(t) ==
    /\ pc[t] = "kill"
    /\ LET o == Min(todo[t]) IN
           /\ status' = Cancelled(o)
           /\ meta' = IF Unfinished(meta[o]) THEN [meta EXCEPT ![o] = "cancelled"] ELSE meta
           /\ todo' = [todo EXCEPT ![t] = @ \ {o}]
    /\ Goes(t, "judge")
    /\ UNCHANGED <<by, position, awaiting, offered, lock, flat, item, news, checked, faults>>

LeavesLoop(t) ==
    /\ lock' = "none"
    /\ Goes(t, IF t = "runtime" THEN "propose" ELSE "idle")

\* Beside a position, entries that have not begun to fill are listed for cancelling.
Repairs(t) ==
    /\ pc[t] = "judge"
    /\ todo[t] = {}
    /\ flat' = [flat EXCEPT ![t] = TRUE]
    /\ LET beside == {o \in Orders : status[o] = "open" /\ position # {}} IN
           /\ todo' = [todo EXCEPT ![t] = beside]
           /\ IF beside = {} THEN LeavesLoop(t) ELSE Goes(t, "cancel") /\ UNCHANGED lock
    /\ UNCHANGED <<broker, lab, item, news, checked, faults>>

CancelsListed(t) ==
    /\ pc[t] = "cancel"
    /\ LET o == Min(todo[t]) IN
           /\ Working(status[o])
           /\ status' = Cancelled(o)
           /\ meta' = IF meta[o] = "none" THEN meta ELSE [meta EXCEPT ![o] = "cancelled"]
           /\ todo' = [todo EXCEPT ![t] = @ \ {o}]
           /\ IF todo[t] = {o} THEN LeavesLoop(t) ELSE UNCHANGED <<lock, pc>>
    /\ UNCHANGED <<by, position, awaiting, offered, flat, item, news, checked, faults>>

\* An order of the list that is no longer open raises out of the whole call.
CancelRaises(t) ==
    /\ pc[t] = "cancel"
    /\ ~Working(status[Min(todo[t])])
    /\ todo' = [todo EXCEPT ![t] = {}]
    /\ lock' = "none"
    /\ Goes(t, "idle")
    /\ UNCHANGED <<broker, lab, flat, item, news, checked, faults>>

---------------------------------------------------------------------------
\* Placing a proposal, by a closed candle or by an approval.

\* A plausible bug: only a position is taken to be an exposure.
PositionOnly(p) ==
    /\ \A o \in Orders : by[o] = p => meta[o] = "none"
    /\ position = {}

\* What _place_proposal() checks under the lab's lock: no order of this zone is on
\* record, no entry works and no position is open.
Placeable(p) ==
    /\ \A o \in Orders : by[o] = p => meta[o] = "none"
    /\ Book = {}
    /\ position = {}

Places(t, p) ==
    /\ lock = "none"
    /\ Placeable(p)
    /\ lock' = t
    /\ item' = [item EXCEPT ![t] = p]
    /\ Goes(t, "submit")

\* synchronize_strategy() looks at a proposal its candle attests once: it is placed
\* or left for approval; one refused leaves nothing that is read again.
Proposes ==
    /\ pc["runtime"] = "propose"
    /\ lock = "none"
    /\ \/ /\ Goes("runtime", "mark")
          /\ \/ UNCHANGED <<awaiting, offered>>
             \/ \E p \in Proposals \ offered :
                    /\ offered' = offered \cup {p}
                    /\ awaiting' = awaiting \cup {p}
          /\ UNCHANGED <<lock, item>>
       \/ \E p \in Proposals \ offered :
              /\ offered' = offered \cup {p}
              /\ Places("runtime", p)
              /\ UNCHANGED awaiting
    /\ UNCHANGED <<broker, meta, flat, todo, news, checked, faults>>

\* approve_candidate(): one refused stays PENDING_APPROVAL, for its row is kept.
Approves ==
    /\ pc["http"] = "idle"
    /\ \E p \in awaiting : Places("http", p)
    /\ UNCHANGED <<broker, lab, flat, todo, news, checked, faults>>

\* A plausible bug: a decision that is submitted again is a new order.
SubmitsAgain(t) ==
    /\ pc[t] = "submit"
    /\ Free # {}
    /\ by' = [by EXCEPT ![Min(Free)] = item[t]]
    /\ status' = [status EXCEPT ![Min(Free)] = "open"]
    /\ todo' = [todo EXCEPT ![t] = {Min(Free)}]
    /\ Goes(t, "insert")
    /\ UNCHANGED <<position, lab, lock, flat, item, news, checked, faults>>

\* submit(): the order of a decision the broker knows is returned as it stands.
Submits(t) ==
    /\ pc[t] = "submit"
    /\ LET known == {o \in Orders : by[o] = item[t]} IN
       \/ /\ known # {}
          /\ todo' = [todo EXCEPT ![t] = known]
          /\ UNCHANGED <<by, status>>
       \/ /\ known = {} /\ Free # {}
          /\ by' = [by EXCEPT ![Min(Free)] = item[t]]
          /\ status' = [status EXCEPT ![Min(Free)] = "open"]
          /\ todo' = [todo EXCEPT ![t] = {Min(Free)}]
    /\ Goes(t, "insert")
    /\ UNCHANGED <<position, lab, lock, flat, item, news, checked, faults>>

LeavesPlacing(t) ==
    /\ lock' = "none"
    /\ Goes(t, IF t = "runtime" THEN "mark" ELSE "idle")
    /\ item' = [item EXCEPT ![t] = "none"]
    /\ todo' = [todo EXCEPT ![t] = {}]

Inserts(t) ==
    /\ pc[t] = "insert"
    /\ meta' = [meta EXCEPT ![Min(todo[t])] = "pending"]
    /\ awaiting' = awaiting \ {item[t]}
    /\ LeavesPlacing(t)
    /\ UNCHANGED <<broker, offered, flat, news, checked, faults>>

\* submit() raises for want of margin, or the bound on orders is reached.
NotSubmitted(t) ==
    /\ pc[t] = "submit"
    /\ LeavesPlacing(t)
    /\ UNCHANGED <<broker, lab, flat, news, checked, faults>>

\* process_mark() at the end of a candle liquidates; the metadata is not told.
Marks ==
    /\ pc["runtime"] = "mark"
    /\ position' \in {position, {}}
    /\ Goes("runtime", "idle")
    /\ UNCHANGED <<by, status, lab, lock, loop, news, checked, faults>>

\* The process dies and comes back: what is committed stays.
Crashes ==
    /\ faults < MaxFaults
    /\ faults' = faults + 1
    /\ lock' = "none"
    /\ pc' = [t \in Threads |-> "idle"]
    /\ flat' = [t \in Threads |-> TRUE]
    /\ todo' = [t \in Threads |-> {}]
    /\ item' = [t \in Threads |-> "none"]
    /\ filled' = {}
    /\ exited' = FALSE
    /\ checked' = FALSE
    /\ UNCHANGED <<broker, lab>>

---------------------------------------------------------------------------
Step(t) ==
    \/ TakesLock(t) \/ Judges(t) \/ Kills(t) \/ Repairs(t)
    \/ CancelsListed(t) \/ CancelRaises(t)
    \/ Submits(t) \/ NotSubmitted(t) \/ Inserts(t)

RuntimeStep == RecordsFill \/ RecordsExit \/ Proposes \/ Marks \/ Step("runtime")

Next ==
    \/ Quote \/ BarCloses \/ RuntimeStep
    \/ HttpReconciles \/ HttpReads \/ Approves \/ Step("http")
    \/ ProcessesCandle \/ ManualCancels \/ ManualChecks \/ ManualSubmits
    \/ Crashes

\* Candles keep closing, and a call that has begun is carried on.
Spec ==
    /\ Init /\ [][Next]_vars
    /\ WF_vars(BarCloses)
    /\ SF_vars(RuntimeStep)
    /\ WF_vars(HttpReads \/ Step("http"))

---------------------------------------------------------------------------
\* A decision is one order at the broker, although the process may die between
\* the broker's commit and the lab's, and the candidate then be approved again.
PlacedOnce ==
    \A p \in Proposals : Cardinality({o \in Orders : by[o] = p}) <= 1

\* Of the strategy's own orders at most one works or is in the position, whoever
\* places them and whatever the metadata has missed: stop and target of a position
\* have one owner.
OneStrategyExposure ==
    Cardinality({o \in Book \cup position : by[o] \in Proposals}) <= 1

\* Metadata of an order that is over does not stay open (and count as risk) for
\* good, although liquidation, the process route and a crash never tell it.
MetadataSettles ==
    \A o \in Orders :
        (Unfinished(meta[o]) /\ ~Working(status[o]) /\ position = {})
            ~> (~Unfinished(meta[o]) \/ position # {})
=============================================================================
