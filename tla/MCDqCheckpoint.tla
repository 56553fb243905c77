--------------------------- MODULE MCDqCheckpoint ---------------------------
(* Instances of DqCheckpoint: rules of each type at the three checkpoints,   *)
(* as in dq/rules_config.yaml, and a table lookup as in the example of       *)
(* dq/validators/referential_integrity.py, for one run, and fewer for two.   *)
EXTENDS DqCheckpoint, TLC

CONSTANTS None,   \* Null
          b1, b2  \* batch ids

MCStages == <<"post_ingest", "post_clean", "pre_load">>

MCRule(type, stage, severity, fields) ==
    [type |-> type, stage |-> stage, severity |-> severity, fields |-> fields,
     min |-> None, max |-> None, allowed |-> {}, mode |-> "static_values", expr |-> None]

MCRules == <<
    MCRule("null_check", "post_ingest", "CRITICAL", {"notional"}),
    [MCRule("referential_integrity", "post_ingest", "ERROR", {"product_id"})
        EXCEPT !.allowed = {"BOND", "SWAP"}],
    [MCRule("range_check", "post_clean", "ERROR", {"notional"}) EXCEPT !.min = 1, !.max = 9],
    [MCRule("cross_field", "post_clean", "WARN", {"trade_date", "settlement_date"})
        EXCEPT !.expr = [low |-> "trade_date", high |-> "settlement_date"]],
    [MCRule("referential_integrity", "post_clean", "ERROR", {"product_id"})
        EXCEPT !.mode = "duckdb_table"],
    [MCRule("referential_integrity", "pre_load", "ERROR", {"product_id"})
        EXCEPT !.mode = "duckdb_table"],
    [MCRule("range_check", "pre_load", "ERROR", {"notional"}) EXCEPT !.min = 1],
    [MCRule("cross_field", "pre_load", "WARN", {"trade_date"})
        EXCEPT !.expr = [low |-> "trade_date", high |-> "value_date"]] >>

Trade(notional, product, traded, settled) ==
    [notional |-> notional, product_id |-> product, trade_date |-> traded,
     settlement_date |-> settled]

Frame(rows) == [columns |-> {"notional", "product_id", "trade_date", "settlement_date"},
                rows |-> rows]
Narrow(rows) == [columns |-> {"product_id"},
                 rows |-> [i \in DOMAIN rows |-> [product_id |-> rows[i].product_id]]]

Nulls == Trade(None, None, 1, None)
Large == Trade(10, "bond", 1, 1)
Late  == Trade(0, "GOLD", 2, 1)
Early == Trade(5, "BOND", 2, 1)
Worse == Trade(10, "bond", 2, 1)

MCFrames ==
    [s \in {"post_ingest"} |-> {Frame(<<Nulls, Nulls, Nulls>>), Frame(<<Large, Late>>)}] @@
    [s \in {"post_clean"} |-> {Frame(<<>>), Frame(<<Large, Early>>), Narrow(<<Late, Large>>)}] @@
    [s \in {"pre_load"} |-> {Frame(<<Late, Nulls>>)}]

MCUpper == [n \in {"BOND", "SWAP", "GOLD", "bond"} |-> IF n = "bond" THEN "BOND" ELSE n]

(* Fewer rules, one of a severity that is not counted, for two runs: the      *)
(* second one looks up the products that the first one loaded.               *)
SharedRules == <<
    MCRule("null_check", "post_ingest", "CRITICAL", {"notional"}),
    [MCRule("referential_integrity", "post_ingest", "INFO", {"product_id"})
        EXCEPT !.mode = "duckdb_table"],
    [MCRule("range_check", "pre_load", "WARN", {"notional"}) EXCEPT !.min = 1, !.max = 9],
    [MCRule("cross_field", "pre_load", "ERROR", {"trade_date", "settlement_date"})
        EXCEPT !.expr = [low |-> "trade_date", high |-> "settlement_date"]] >>

SharedStages == <<"post_ingest", "pre_load">>

SharedFrames ==
    [s \in {"post_ingest"} |-> {Frame(<<Nulls, Large>>), Narrow(<<Large>>)}] @@
    [s \in {"pre_load"} |-> {Frame(<<Worse, Early>>)}]

SharedCatalogues == {{"SWAP"}}
MCCatalogues == {{}, {"bond", "SWAP"}}
Symmetry == Permutations({b1, b2})
=============================================================================
