---------------------------- MODULE MCCleanStage ----------------------------
(* Instances of CleanStage: all files of up to three lines over a list of rows *)
(* that can be duplicates, ties, failed casts, and equal but for nulls.        *)
EXTENDS CleanStage, TLC

MCColumns == <<"trade_id", "trade_date", "notional">>
MCValues  == {"T1", "T2", "may", "june", "5", "7", "abc"}

Row(id, date, amount) ==
    ("trade_id" :> id) @@ ("trade_date" :> date) @@ ("notional" :> amount)

\* the sixth has a trade id for a date, and reads as the fifth without its null
MCRows == <<Row("T1", "may", "5"), Row("T1", "may", "7"), Row("T1", "june", "5"),
            Row("T1", "june", "abc"), Row("T1", "null", "5"), Row("null", "T1", "5"),
            Row("T2", "may", "null"), Row("null", "may", "7")>>

MCCastable == ("trade_id" :> MCValues) @@ ("trade_date" :> {"may", "june"})
                @@ ("notional" :> {"5", "7"})

MCFills == ("notional" :> "7")
MCRank  == [v \in MCValues \union {"null"} |->
               IF v = "june" THEN 2 ELSE IF v = "may" THEN 1 ELSE 0]

File(lines) == [columns |-> {"trade_id", "trade_date", "notional"}, lines |-> lines]

\* a file that lacks the column to rank by
Undated == [columns |-> {"trade_id", "notional"},
            lines |-> <<Row("T1", "null", "5"), Row("T1", "null", "7")>>]

\* the order of the lines is of no interest
MCFiles ==
    {Undated} \union {File(<<MCRows[i], MCRows[j], MCRows[k]>>) :
        <<i, j, k>> \in {t \in (1 .. 8) \X (1 .. 8) \X (1 .. 8) : t[1] <= t[2] /\ t[2] <= t[3]}}
=============================================================================
