--------------------------- MODULE ObservationLog ---------------------------
(***************************************************************************)
(* What a shadow registration promises of its evidence: a candle close is  *)
(* decided once, in time order, and only if it came due while the          *)
(* registration was observing and has been ever since.                     *)
(***************************************************************************)
EXTENDS Integers

CONSTANT Boundaries   \* the scheduled candle closes

VARIABLES
    now,
    observing,
    open,       \* the closes that may still be decided
    log         \* the closes decided

vars == <<now, observing, open, log>>

\* The close of this very moment, if there is one.
Present(t) == {t} \intersect Boundaries

Init ==
    /\ now = 1
    /\ observing = TRUE
    /\ open = Present(1)
    /\ log = {}

Tick ==
    /\ now' = now + 1
    /\ open' = IF observing THEN open \union Present(now + 1) ELSE open
    /\ UNCHANGED <<observing, log>>

\* Starting, pausing or resuming gives up what was not decided.
Switch ==
    /\ observing' \in BOOLEAN
    /\ open' = IF observing' THEN Present(now) ELSE {}
    /\ UNCHANGED <<now, log>>

Decide(b) ==
    /\ b \in open
    /\ \A d \in log : d < b
    /\ log' = log \union {b}
    /\ UNCHANGED <<now, observing, open>>

Next == Tick \/ Switch \/ \E b \in Boundaries : Decide(b)

Spec == Init /\ [][Next]_vars
=============================================================================
