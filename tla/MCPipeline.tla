----------------------------- MODULE MCPipeline -----------------------------
(* Instances of Pipeline: the clean / load part of pipeline_config.yaml, and a *)
(* configuration with the mistakes the code handles (an unknown transform, a   *)
(* checkpoint without rules, a checkpoint whose rule raises).                  *)
EXTENDS Pipeline, TLC

CONSTANTS r1, r2

\* pipeline_config.yaml, with one diverting transform and the load
DailyStages ==
    << [name |-> "clean", transforms |-> <<"TypeCast">>, checkpoint |-> "post_clean"],
       [name |-> "load", transforms |-> <<"WriteStarSchema">>, checkpoint |-> "pre_load"] >>

\* an empty stage with an unruled checkpoint, a load ahead of a stage with a
\* name the registry lacks
OddStages ==
    << [name |-> "ingest", transforms |-> <<>>, checkpoint |-> "post_ingest"],
       [name |-> "load", transforms |-> <<"WriteStarSchema">>, checkpoint |-> "pre_load"],
       [name |-> "audit", transforms |-> <<"Typo">>, checkpoint |-> "none"] >>

RowSymmetry == Permutations(Rows)
=============================================================================
