---------------------------- MODULE AccountBook ----------------------------
(***************************************************************************)
(* What a paper account promises, whatever happens to the process that     *)
(* trades it: every order key is executed at most once, for an entry or    *)
(* for an exit, and a symbol never has two open positions.                 *)
(***************************************************************************)
CONSTANT Keys

VARIABLES
    used,   \* the order keys that were executed
    open    \* the keys of the entries whose position is open

Init ==
    /\ used = {}
    /\ open = {}

Enter(k) ==
    /\ k \notin used
    /\ open = {}
    /\ used' = used \union {k}
    /\ open' = {k}

Leave(k) ==
    /\ k \notin used
    /\ open # {}
    /\ used' = used \union {k}
    /\ open' = {}

Next ==
    \E k \in Keys : Enter(k) \/ Leave(k)

Spec == Init /\ [][Next]_<<used, open>>
=============================================================================
