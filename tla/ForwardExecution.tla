------------------------- MODULE ForwardExecution -------------------------
(***************************************************************************)
(* ForwardPaperExecutionEngine (execution/paper_engine.py): an approved    *)
(* entry is parked as an intent and a later public quote fills it.  The    *)
(* quote thread holds the intent lock for the whole of process_quote();    *)
(* the thread that parks holds it only while it parks.                     *)
(***************************************************************************)
EXTENDS PaperLedger

CONSTANT NoIntent

VARIABLES
    intent,   \* _intents of the instance's symbol, in memory
    saved,    \* the pending orders the store holds
    quote,    \* process_quote(): "idle", "filled" (ledger committed),
              \* "popped" (intent gone), "saving" (intents copied)
    copied    \* what the quote thread is about to save

execution == <<intent, saved, quote, copied>>

Intents == [alert : Alerts, side : Sides]

ExecutionTypeOK ==
    /\ intent \in Intents \union {NoIntent}
    /\ saved \in Intents \union {NoIntent}
    /\ quote \in {"idle", "filled", "popped", "saving"}
    /\ copied \in Intents \union {NoIntent}

ExecutionInit ==
    /\ intent = NoIntent
    /\ saved = NoIntent
    /\ quote = "idle"
    /\ copied = NoIntent

\* process_quote() saves outside the lock.
LockFree == quote # "filled"

\* open(): an intent already parked for the symbol is returned instead.
Park(a, side) ==
    /\ LockFree
    /\ intent' = IF intent = NoIntent THEN [alert |-> a, side |-> side] ELSE intent
    /\ UNCHANGED <<saved, quote, copied, ledger>>

\* A plausible bug: only the intent's own position settles it.
RecoversOwn ==
    /\ quote = "idle"
    /\ intent # NoIntent
    /\ \E p \in book : p.alert = intent.alert
    /\ intent' = NoIntent
    /\ quote' = "popped"
    /\ UNCHANGED <<saved, copied, ledger>>

\* process_quote() meets a position: the entry was filled before a crash, or
\* another one was; either way the intent is dropped.
QuoteRecovers ==
    /\ quote = "idle"
    /\ intent # NoIntent
    /\ book # {}
    /\ intent' = NoIntent
    /\ quote' = "popped"
    /\ UNCHANGED <<saved, copied, ledger>>

\* process_quote() fills.  A fill the model refuses, a limit not crossed, and a
\* key already executed (the insert raises) all leave the intent where it is.
QuoteFills ==
    /\ quote = "idle"
    /\ intent # NoIntent
    /\ book = {}
    /\ CommitOpen(intent.alert, intent.side)
    /\ quote' = "filled"
    /\ UNCHANGED <<intent, saved, copied, events>>

QuoteRecords ==
    /\ quote = "filled"
    /\ events' = events \union {<<intent.alert, "filled">>}
    /\ intent' = NoIntent
    /\ quote' = "popped"
    /\ UNCHANGED <<saved, copied, executions, book>>

QuoteCopies ==
    /\ quote = "popped"
    /\ copied' = intent
    /\ quote' = "saving"
    /\ UNCHANGED <<intent, saved, ledger>>

QuoteSaves ==
    /\ quote = "saving"
    /\ saved' = copied
    /\ copied' = NoIntent
    /\ quote' = "idle"
    /\ UNCHANGED <<intent, ledger>>

\* The store refuses; the quote's caller logs it.
QuoteSaveFails ==
    /\ quote = "saving"
    /\ copied' = NoIntent
    /\ quote' = "idle"
    /\ UNCHANGED <<intent, saved, ledger>>

QuoteStep == QuoteRecovers \/ QuoteFills \/ QuoteRecords \/ QuoteCopies \/ QuoteSaves

\* A new engine starts from the checkpointed intents.
Reload ==
    /\ intent' = saved
    /\ quote' = "idle"
    /\ copied' = NoIntent
    /\ UNCHANGED saved
=============================================================================
