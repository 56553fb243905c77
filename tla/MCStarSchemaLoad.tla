-------------------------- MODULE MCStarSchemaLoad --------------------------
(* Frames for StarSchemaLoad: overlapping clean frames that share products,   *)
(* and the frames that fact_trades refuses.                                   *)
EXTENDS StarSchemaLoad, TLC

CONSTANTS t1, t2, t3, p1, p2, d1, b1, b2

Row(id, product) ==
    [id |-> id, refs |-> [d \in Dimensions |-> IF d = "product" THEN product ELSE p1],
     date |-> d1, valid |-> TRUE]

Frame(rows) == [rows |-> rows, complete |-> TRUE]

\* overlapping trades, a product that comes up late, a product that is NULL
CleanFrames ==
    {Frame(<<Row(t1, p1), Row(t2, p2)>>), Frame(<<Row(t2, p1)>>),
     Frame(<<Row(t3, p2), Row(t1, Null)>>)}

\* no rows; a missing id, a duplicate id, a bad direction, a raw file without
\* the enriched columns (Pipeline.run with stage_filter = "load")
RefusedFrames ==
    {NoFrame, Frame(<<Row(Null, p1)>>), Frame(<<Row(t1, p1), Row(t1, p2)>>),
     Frame(<<[Row(t2, p2) EXCEPT !.valid = FALSE]>>),
     [rows |-> <<Row(t1, p1)>>, complete |-> FALSE]}

AllFrames == CleanFrames \union RefusedFrames
=============================================================================
