----------------------------- MODULE FactLedger -----------------------------
(***************************************************************************)
(* What readers of the star schema rely on: fact_trades joined with its    *)
(* dimensions reads like one table with a row per trade, keyed by natural  *)
(* ids.  A loader may withdraw the trades it has staged and then publish   *)
(* them, all in one step; nothing else ever shows.  StarSchemaLoad is      *)
(* shown to implement this with surrogate keys.                            *)
(***************************************************************************)
CONSTANTS
    Loaders,       \* the processes that load
    Trades,        \* trade ids
    NoRow          \* a trade without a row

VARIABLES
    ledger,        \* per trade, what its row says, or NoRow
    staged         \* per loader, {<<trade, what its row shall say>>}

Ids(l) == {t \in Trades : \E p \in staged[l] : p[1] = t}

Init ==
    /\ ledger = [t \in Trades |-> NoRow]
    /\ staged = [l \in Loaders |-> {}]

\* A loader stages other rows; no row changes.
Stage ==
    /\ \E l \in Loaders : \A k \in Loaders \ {l} : staged'[k] = staged[k]
    /\ UNCHANGED ledger

Withdraw(l) ==
    /\ ledger' = [t \in Trades |-> IF t \in Ids(l) THEN NoRow ELSE ledger[t]]
    /\ UNCHANGED staged

\* All staged rows appear, one for each trade, where there was none.
Publish(l) ==
    /\ \A p, q \in staged[l] : p[1] = q[1] => p = q
    /\ \A t \in Ids(l) : ledger[t] = NoRow
    /\ ledger' = [t \in Trades |-> IF t \in Ids(l)
                                   THEN (CHOOSE p \in staged[l] : p[1] = t)[2]
                                   ELSE ledger[t]]
    /\ UNCHANGED staged

Next == Stage \/ \E l \in Loaders : Withdraw(l) \/ Publish(l)

Spec == Init /\ [][Next]_<<ledger, staged>>

=============================================================================
