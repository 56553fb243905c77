---------------------------- MODULE MCGraphStore ----------------------------
(* Instances of GraphStore: trackers with parallel edges, with a pair that     *)
(* comes back in another batch, and with a source that is first met as a target; *)
(* two columns that share their name in the database                            *)
EXTENDS GraphStore

Hop(from, to, name) == [source |-> from, target |-> to, transform |-> name]

MCSafeUri == [c \in Columns |-> IF c = "clean/usd" THEN "clean_usd" ELSE c]

\* the last one's edges, listed by node, have other places than in the tracker
MCRuns ==
    {[batch |-> "b1", edges |-> <<Hop("raw", "clean_usd", "cast")>>],
     [batch |-> "b2", edges |-> <<Hop("raw", "clean_usd", "fill"), Hop("raw", "clean_usd", "cast")>>],
     [batch |-> "b2", edges |-> <<Hop("raw", "clean/usd", "fill"), Hop("clean_usd", "fact", "load"),
                                  Hop("raw", "clean_usd", "cast")>>]}
=============================================================================
