----------------------------- MODULE MCLineage -----------------------------
(* Instances of Lineage: the transforms of pipeline_config.yaml, all of them *)
(* or one stage, on complete files and on files that lack a column.          *)
EXTENDS Lineage, TLC

Clean  == <<"NullFill", "TypeCast", "Dedup">>
Enrich == <<"FxConvert", "DateExpand", "LeiLookup", "ExposureRollup", "PositionNet">>
Load   == <<"WriteStarSchema">>

\* the configured order, and each stage alone
DailyPlans == {Clean \o Enrich \o Load, Clean, Enrich, Load}

AllColumns == {"trade_id", "trade_date", "settlement_date", "counterparty_id", "product_id",
               "currency", "direction", "notional"}

File(missing, withNulls) ==
    [columns |-> AllColumns \ missing, nulls |-> withNulls, empty |-> FALSE]

EmptyFile == [columns |-> AllColumns, nulls |-> {}, empty |-> TRUE]

\* complete files with and without nulls, and files that lack what a
\* transform needs or asks for; a file without rows
DailyFiles == {File({}, {}), File({}, {"notional", "currency"}),
               File({"settlement_date"}, {"direction"}), File({"notional"}, {"currency"}),
               File({"currency"}, {"notional"}), File({"counterparty_id"}, {}),
               EmptyFile}

FillList     == <<"notional", "currency", "direction">>
CastList     == <<"notional", "trade_id">>
CalendarList == <<"trade_year">>
LeiList      == <<"lei_code">>

\* then a run of one stage, on a file that may lack a column
MCPlans  == <<DailyPlans, {Clean, Enrich}>>
MCInputs == <<DailyFiles, {File({"counterparty_id"}, {}), File({"notional"}, {"currency"})}>>
OnePlan  == <<DailyPlans>>
OneInput == <<DailyFiles>>
=============================================================================
