--------------------------- MODULE MCDemoDatabase ---------------------------
(* Instances of DemoDatabase: a feed with a corrected trade, and a later one   *)
(* with other products, a trade of two latest lines and a line without trade   *)
EXTENDS DemoDatabase, TLC

Symmetric == Permutations(Sessions)

Line(t, p, d) == [trade |-> t, product |-> p, date |-> d]

MCContent ==
    <<<<Line(1, 2, 1), Line(1, 3, 2), Line(2, 2, 1)>>,
      <<Line(2, 1, 1), Line(2, 3, 1), Line(None, 2, 1)>>>>
=============================================================================
