--------------------------- MODULE PipelineProofs ---------------------------
(* Theorems about Pipeline, for every configuration of stages, every set of   *)
(* trades and every max_attempts.                                             *)
EXTENDS Pipeline, FiniteSetTheorems, TLAPS

\* A set of rows has a size that is a natural number.
LEMMA RowCount == \A S \in SUBSET Rows : Cardinality(S) \in Nat
  BY RowsAssumption, FS_Subset, FS_CardinalityType DEF RowsAssumption

\* The configuration's parts are where the run looks for them.
LEMMA ConfigType ==
  ASSUME NEW i \in DOMAIN Stages
  PROVE  /\ Stages[i].name \in StageNames
         /\ Stages[i].transforms \in Seq(Transforms)
         /\ Stages[i].checkpoint \in Checkpoints \union {NoCheckpoint}
  <1>1. Stages[i] \in StageType
    BY StagesAssumption DEF StagesAssumption
  <1> QED
    BY <1>1 DEF StageType

LEMMA InitType == Init => TypeOK /\ PlaceOK
  <1> SUFFICES ASSUME Init PROVE TypeOK /\ PlaceOK
    OBVIOUS
  <1>1. /\ 1 \in Batches
        /\ 1 \in 1 .. Len(Stages) + 1
        /\ 1 \in 1 .. MaxAttempts
        /\ 1 \in Nat \ {0}
        /\ 0 \in Nat
    BY StagesAssumption, BoundsAssumption
       DEF StagesAssumption, BoundsAssumption, Batches
  <1>2. StoresType
    BY DEF Init, StoresType
  <1>3. ProcessType
    BY DEF Init, ProcessType
  <1>4. RunType
    <2>1. <<>> \in Seq(ResultType)
      OBVIOUS
    <2> QED
      BY <2>1, Zenon DEF Init, RunType, Outcomes
  <1>5. PlaceType
    BY <1>1, Zenon DEF Init, PlaceType
  <1>6. EnvType
    BY <1>1, Zenon DEF Init, EnvType
  <1>7. FlagsType
    BY Zenon DEF Init, FlagsType
  <1>8. PlaceOK
    BY DEF Init, PlaceOK, Running
  <1> QED
    BY <1>2, <1>3, <1>4, <1>5, <1>6, <1>7, <1>8 DEF TypeOK

\* What a stage in progress can rely on: it is a configured stage of a batch.
LEMMA InStage ==
  ASSUME TypeOK, PlaceOK,
         pc \in {"transform", "deadletter", "retry", "settle", "checkpoint", "score"}
  PROVE  /\ batch \in Batches
         /\ stage \in DOMAIN Stages
         /\ stage + 1 \in 1 .. Len(Stages) + 1
         /\ Stages[stage].name \in StageNames
         /\ StageList \in Seq(Transforms)
         /\ Checkpoint \in Checkpoints \union {NoCheckpoint}
  <1>1. batch \in Batches /\ stage \in DOMAIN Stages
    BY DEF PlaceOK, Running
  <1>2. stage + 1 \in 1 .. Len(Stages) + 1
    BY <1>1, StagesAssumption DEF StagesAssumption
  <1> QED
    BY <1>1, <1>2, ConfigType DEF StageList, Checkpoint

\* A transform in progress is one the stage lists.
LEMMA InTransform ==
  ASSUME TypeOK, PlaceOK, pc \in {"transform", "deadletter", "retry"}
  PROVE  next \in DOMAIN StageList /\ Current \in Transforms
  <1>1. next \in DOMAIN StageList
    BY DEF PlaceOK
  <1> QED
    BY <1>1, InStage DEF Current

\* DeadLetterQueue.write keeps the tree and its two counters well typed.
LEMMA WriteDlqType ==
  ASSUME TypeOK, PlaceOK, pc \in {"transform", "deadletter"},
         NEW rows \in SUBSET Rows, NEW reason \in Reasons, WriteDlq(rows, reason)
  PROVE  /\ dlqRows' \subseteq LetterType
         /\ dlqSize' \in [Batches -> Nat]
         /\ dlqCount' \in [Batches -> Nat]
  <1>1. batch \in Batches /\ Current \in Transforms
    BY InStage, InTransform
  <1>2. Cardinality(rows) \in Nat
    BY RowCount
  <1>3. dlqRows' \subseteq LetterType
    BY <1>1 DEF WriteDlq, LetterType, TypeOK, StoresType
  <1> QED
    BY <1>1, <1>2, <1>3 DEF WriteDlq, TypeOK, StoresType, ProcessType

\* A StageResult of the stage in progress is well typed.
LEMMA ResultTyped ==
  ASSUME TypeOK, PlaceOK, pc \in {"retry", "settle"}, NEW status \in Statuses
  PROVE  Result(status) \in ResultType
  BY InStage DEF Result, ResultType, TypeOK, ProcessType

\* The rows that _write_run_metadata inserts are well typed.
LEMMA RunRowsTyped ==
  ASSUME TypeOK, PlaceOK, pc = "metadata"
  PROVE  RunRows \in Seq(RowType)
  <1>1. batch \in Batches /\ results \in Seq(ResultType)
    BY DEF TypeOK, RunType, PlaceOK, Running
  <1>2. \A k \in 1 .. Len(results) :
           [batch |-> batch, stage |-> results[k].stage,
            status |-> results[k].status, dead |-> results[k].dead] \in RowType
    <2> SUFFICES ASSUME NEW k \in 1 .. Len(results)
                 PROVE  [batch |-> batch, stage |-> results[k].stage,
                         status |-> results[k].status, dead |-> results[k].dead] \in RowType
      OBVIOUS
    <2>1. results[k] \in ResultType
      BY <1>1
    <2> QED
      BY <1>1, <2>1 DEF ResultType, RowType
  <1>3. DOMAIN results = 1 .. Len(results)
    BY <1>1
  <1>4. RunRows \in [1 .. Len(results) -> RowType]
    BY <1>2, <1>3 DEF RunRows
  <1>5. Len(results) \in Nat
    BY <1>1
  <1> QED
    BY <1>4, <1>5

\* Types and the place in the configuration survive every step.
LEMMA TypeStep == TypeOK /\ PlaceOK /\ [Next]_vars => TypeOK' /\ PlaceOK'
  <1> SUFFICES ASSUME TypeOK, PlaceOK, [Next]_vars PROVE TypeOK' /\ PlaceOK'
    OBVIOUS
  <1>z. /\ 1 \in 1 .. Len(Stages) + 1
        /\ 1 \in 1 .. MaxAttempts
        /\ 1 \in Nat \ {0}
    BY StagesAssumption, BoundsAssumption DEF StagesAssumption, BoundsAssumption
  <1>1. ASSUME StartProcess PROVE TypeOK' /\ PlaceOK'
    <2>1. StoresType' /\ EnvType'
      BY <1>1, Zenon DEF TypeOK, StartProcess, StoresType, EnvType, stores, process,
         run, place, env
    <2>2. ProcessType'
      BY <1>1 DEF TypeOK, StartProcess, ProcessType, stores, process, run, env
    <2>3. RunType'
      BY <1>1 DEF TypeOK, StartProcess, RunType, Outcomes, stores, process, run, env
    <2>4. PlaceType'
      BY <1>1 DEF TypeOK, StartProcess, PlaceType, Running, stores, process, run, env,
         RunType
    <2>5. FlagsType'
      BY <1>1, Zenon DEF TypeOK, StartProcess, FlagsType, stores, process, run, place, env
    <2>6. PlaceOK'
      BY <1>1 DEF PlaceOK, StartProcess, TypeOK, RunType, PlaceType, Running,
         StageList, Checkpoint, run, place, env, Halt, NextStage, NoBatch
    <2> QED
      BY <2>1, <2>2, <2>3, <2>4, <2>5, <2>6 DEF TypeOK
  <1>2. ASSUME StartRun PROVE TypeOK' /\ PlaceOK'
    <2>1. StoresType' /\ ProcessType'
      BY <1>2, Zenon DEF TypeOK, StartRun, StoresType, ProcessType, stores, process,
         run, place, env
    <2>2. RunType'
      <3>1. /\ batch' \in Batches
            /\ stageFilter' \in StageNames \union {AllStages}
            /\ input' \subseteq Rows /\ frame' \subseteq Rows
            /\ results' = <<>> /\ dqResults' = {} /\ edges' = {}
            /\ outcome' \in Outcomes
        BY <1>2 DEF TypeOK, EnvType, StartRun, Outcomes
      <3>2. <<>> \in Seq(ResultType)
        OBVIOUS
      <3> QED
        BY <3>1, <3>2 DEF RunType
    <2>3. PlaceType'
      BY <1>2, <1>z DEF TypeOK, StartRun, PlaceType, Running, stores, process, run,
         env, RunType
    <2>4. EnvType'
      BY <1>2 DEF TypeOK, StartRun, EnvType, stores, process, run, env
    <2>5. FlagsType'
      BY <1>2, Zenon DEF TypeOK, StartRun, FlagsType, stores, process, run, place, env
    <2>6. PlaceOK'
      BY <1>2 DEF PlaceOK, StartRun, TypeOK, EnvType, Running
    <2> QED
      BY <2>1, <2>2, <2>3, <2>4, <2>5, <2>6 DEF TypeOK
  <1>3. ASSUME StopProcess PROVE TypeOK' /\ PlaceOK'
    <2>1. StoresType' /\ EnvType'
      BY <1>3, Zenon DEF TypeOK, StopProcess, StoresType, EnvType, stores, process,
         run, place, env
    <2>2. ProcessType'
      BY <1>3 DEF TypeOK, StopProcess, ProcessType, stores, process, run, env
    <2>3. RunType'
      BY <1>3 DEF TypeOK, StopProcess, RunType, Outcomes, stores, process, run, env
    <2>4. PlaceType'
      BY <1>3, <1>z DEF TypeOK, StopProcess, PlaceType, Running, stores, process, run,
         env, RunType
    <2>5. FlagsType'
      BY <1>3, Zenon DEF TypeOK, StopProcess, FlagsType, stores, process, run, place, env
    <2>6. PlaceOK'
      BY <1>3 DEF PlaceOK, StopProcess, TypeOK, RunType, PlaceType, Running,
         StageList, Checkpoint, run, place, env, Halt, NextStage, NoBatch
    <2> QED
      BY <2>1, <2>2, <2>3, <2>4, <2>5, <2>6 DEF TypeOK
  <1>4. ASSUME SkipStage PROVE TypeOK' /\ PlaceOK'
    <2>1. StoresType' /\ ProcessType' /\ RunType' /\ EnvType' /\ FlagsType'
      BY <1>4, Zenon DEF TypeOK, SkipStage, StoresType, ProcessType, RunType, EnvType,
         FlagsType, stores, process, run, place, env
    <2>2. PlaceType'
      BY <1>4, StagesAssumption DEF TypeOK, SkipStage, PlaceType, StagesAssumption,
         stores, process, run, env, RunType
    <2>3. PlaceOK'
      BY <1>4, StagesAssumption DEF PlaceOK, SkipStage, TypeOK, RunType, PlaceType,
         Running, StageList, Checkpoint, run, place, env, Halt, NextStage, NoBatch
    <2> QED
      BY <2>1, <2>2, <2>3 DEF TypeOK
  <1>5. ASSUME EnterStage PROVE TypeOK' /\ PlaceOK'
    <2>1. StoresType' /\ ProcessType' /\ RunType' /\ EnvType' /\ FlagsType'
      BY <1>5, Zenon DEF TypeOK, EnterStage, StoresType, ProcessType, RunType,
         EnvType, FlagsType, stores, process, run, place, env
    <2>2. PlaceType'
      BY <1>5, <1>z DEF TypeOK, EnterStage, PlaceType, Running, stores, process, run,
         env, RunType
    <2>3. PlaceOK'
      <3>1. stage \in DOMAIN Stages
        BY <1>5, StagesAssumption DEF TypeOK, PlaceType, EnterStage, StagesAssumption
      <3>2. StageList \in Seq(Transforms)
        BY <3>1, ConfigType DEF StageList
      <3> QED
        BY <1>5, <3>1, <3>2
           DEF TypeOK, EnterStage, PlaceType, PlaceOK, StageList, Running, run
    <2> QED
      BY <2>1, <2>2, <2>3 DEF TypeOK
  <1>6. ASSUME UnknownTransform PROVE TypeOK' /\ PlaceOK'
    <2>1. StoresType' /\ ProcessType' /\ EnvType' /\ FlagsType'
      BY <1>6, Zenon DEF TypeOK, UnknownTransform, StoresType, ProcessType, EnvType,
         FlagsType, stores, process, run, place, env
    <2>2. RunType'
      BY <1>6 DEF TypeOK, UnknownTransform, RunType, Outcomes, stores, process, run,
         env
    <2>3. PlaceType'
      BY <1>6 DEF TypeOK, UnknownTransform, PlaceType, Running, stores, process, run,
         env, RunType
    <2>4. PlaceOK'
      BY <1>6 DEF PlaceOK, UnknownTransform, TypeOK, RunType, PlaceType, Running,
         StageList, Checkpoint, run, place, env, Halt, NextStage, NoBatch
    <2> QED
      BY <2>1, <2>2, <2>3, <2>4 DEF TypeOK
  <1>7. ASSUME StageNotCounted PROVE TypeOK' /\ PlaceOK'
    <2>1. StoresType' /\ ProcessType' /\ RunType' /\ EnvType'
      BY <1>7, Zenon DEF TypeOK, StageNotCounted, StoresType, ProcessType, RunType,
         EnvType, stores, process, run, place, env
    <2>2. PlaceType'
      BY <1>7 DEF TypeOK, StageNotCounted, PlaceType, Halt, Running, stores, process,
         run, env, RunType
    <2>3. FlagsType'
      BY <1>7, Zenon DEF TypeOK, StageNotCounted, FlagsType, stores, process, run, place, env,
         Halt
    <2>4. PlaceOK'
      BY <1>7 DEF PlaceOK, StageNotCounted, TypeOK, RunType, PlaceType, Running,
         StageList, Checkpoint, run, place, env, Halt, NextStage, NoBatch
    <2> QED
      BY <2>1, <2>2, <2>3, <2>4 DEF TypeOK
  <1>8. ASSUME StagesExhausted PROVE TypeOK' /\ PlaceOK'
    <2>1. StoresType' /\ ProcessType' /\ RunType' /\ EnvType' /\ FlagsType'
      BY <1>8, Zenon DEF TypeOK, StagesExhausted, StoresType, ProcessType, RunType,
         EnvType, FlagsType, stores, process, run, place, env
    <2>2. PlaceType'
      BY <1>8 DEF TypeOK, StagesExhausted, PlaceType, Running, stores, process, run,
         env, RunType
    <2>3. PlaceOK'
      BY <1>8 DEF PlaceOK, StagesExhausted, TypeOK, RunType, PlaceType, Running,
         StageList, Checkpoint, run, place, env, Halt, NextStage, NoBatch
    <2> QED
      BY <2>1, <2>2, <2>3 DEF TypeOK
  <1>9. ASSUME StageSucceeds PROVE TypeOK' /\ PlaceOK'
    <2>1. StoresType' /\ ProcessType' /\ EnvType' /\ FlagsType'
      BY <1>9, Zenon DEF TypeOK, StageSucceeds, StoresType, ProcessType, EnvType,
         FlagsType, stores, process, run, place, env
    <2>2. RunType'
      BY <1>9, InStage, ResultTyped DEF TypeOK, StageSucceeds, RunType, Statuses,
         stores, process, run, env
    <2>3. PlaceType'
      BY <1>9 DEF TypeOK, StageSucceeds, PlaceType, Running, stores, process, run,
         env, RunType
    <2>4. PlaceOK'
      BY <1>9, InStage DEF PlaceOK, StageSucceeds, TypeOK, RunType, PlaceType,
         Running, StageList, Checkpoint, run, place, env, Halt, NextStage, NoBatch
    <2> QED
      BY <2>1, <2>2, <2>3, <2>4 DEF TypeOK
  <1>10. ASSUME StageFails PROVE TypeOK' /\ PlaceOK'
    <2>1. StoresType' /\ ProcessType' /\ EnvType'
      BY <1>10, Zenon DEF TypeOK, StageFails, StoresType, ProcessType, EnvType,
         stores, process, run, place, env
    <2>2. RunType'
      BY <1>10, InStage, ResultTyped DEF TypeOK, StageFails, RunType, Statuses,
         stores, process, run, env
    <2>3. PlaceType'
      BY <1>10 DEF TypeOK, StageFails, PlaceType, Halt, Running, stores, process, run,
         env, RunType
    <2>4. FlagsType'
      BY <1>10, Zenon DEF TypeOK, StageFails, FlagsType, stores, process, run, place, env,
         Halt
    <2>5. PlaceOK'
      BY <1>10, InStage DEF PlaceOK, StageFails, TypeOK, RunType, PlaceType, Running,
         StageList, Checkpoint, run, place, env, Halt, NextStage, NoBatch
    <2> QED
      BY <2>1, <2>2, <2>3, <2>4, <2>5 DEF TypeOK
  <1>11. ASSUME DivertRows PROVE TypeOK' /\ PlaceOK'
    <2>1. RunType' /\ EnvType' /\ FlagsType'
      BY <1>11, Zenon DEF TypeOK, DivertRows, RunType, EnvType, FlagsType, stores,
         process, run, place, env
    <2>2. StoresType'
      BY <1>11, InTransform, WriteDlqType DEF TypeOK, DivertRows, StoresType,
         WriteDlq, Reasons, stores, process, run, env, RunType
    <2>3. ProcessType'
      BY <1>11, InTransform, WriteDlqType DEF TypeOK, DivertRows, ProcessType,
         WriteDlq, Reasons, stores, process, run, env, RunType
    <2>4. PlaceType'
      BY <1>11 DEF TypeOK, DivertRows, PlaceType, Effects, stores, process, run, env,
         RunType
    <2>5. PlaceOK'
      BY <1>11, InStage DEF PlaceOK, DivertRows, TypeOK, RunType, PlaceType, Running,
         StageList, Checkpoint, run, place, env, Halt, NextStage, NoBatch
    <2> QED
      BY <2>1, <2>2, <2>3, <2>4, <2>5 DEF TypeOK
  <1>12. ASSUME DeleteFacts PROVE TypeOK' /\ PlaceOK'
    <2>1. ProcessType' /\ RunType' /\ EnvType' /\ FlagsType'
      BY <1>12, Zenon DEF TypeOK, DeleteFacts, ProcessType, RunType, EnvType,
         FlagsType, stores, process, run, place, env
    <2>2. StoresType'
      BY <1>12 DEF TypeOK, DeleteFacts, StoresType, stores, process, run, env
    <2>3. PlaceType'
      BY <1>12 DEF TypeOK, DeleteFacts, PlaceType, Effects, stores, process, run, env,
         RunType
    <2>4. PlaceOK'
      BY <1>12, InStage DEF PlaceOK, DeleteFacts, TypeOK, RunType, PlaceType, Running,
         StageList, Checkpoint, run, place, env, Halt, NextStage, NoBatch
    <2> QED
      BY <2>1, <2>2, <2>3, <2>4 DEF TypeOK
  <1>13. ASSUME InsertFacts PROVE TypeOK' /\ PlaceOK'
    <2>1. ProcessType' /\ RunType' /\ EnvType' /\ FlagsType'
      BY <1>13, Zenon DEF TypeOK, InsertFacts, ProcessType, RunType, EnvType,
         FlagsType, stores, process, run, place, env
    <2>2. StoresType'
      BY <1>13, InStage, InTransform DEF TypeOK, InsertFacts, StoresType, stores,
         process, run, env
    <2>3. PlaceType'
      BY <1>13 DEF TypeOK, InsertFacts, PlaceType, Effects, stores, process, run, env,
         RunType
    <2>4. PlaceOK'
      BY <1>13, InStage DEF PlaceOK, InsertFacts, TypeOK, RunType, PlaceType, Running,
         StageList, Checkpoint, run, place, env, Halt, NextStage, NoBatch
    <2> QED
      BY <2>1, <2>2, <2>3, <2>4 DEF TypeOK
  <1>14. ASSUME EmitLineage PROVE TypeOK' /\ PlaceOK'
    <2>1. StoresType' /\ ProcessType' /\ PlaceType' /\ EnvType' /\ FlagsType'
      BY <1>14, Zenon DEF TypeOK, EmitLineage, StoresType, ProcessType, PlaceType,
         EnvType, FlagsType, stores, process, run, place, env
    <2>2. RunType'
      BY <1>14, InStage, InTransform DEF TypeOK, EmitLineage, RunType, stores,
         process, run, env
    <2>3. PlaceOK'
      BY <1>14, InStage DEF PlaceOK, EmitLineage, TypeOK, RunType, PlaceType, Running,
         StageList, Checkpoint, run, place, env, Halt, NextStage, NoBatch
    <2> QED
      BY <2>1, <2>2, <2>3 DEF TypeOK
  <1>15. ASSUME AttemptSucceeds PROVE TypeOK' /\ PlaceOK'
    <2>1. StoresType' /\ ProcessType' /\ EnvType' /\ FlagsType'
      BY <1>15, Zenon DEF TypeOK, AttemptSucceeds, StoresType, ProcessType, EnvType,
         FlagsType, stores, process, run, place, env
    <2>2. RunType'
      BY <1>15 DEF TypeOK, AttemptSucceeds, RunType, PlaceType
    <2>3. PlaceType'
      BY <1>15, <1>z DEF TypeOK, AttemptSucceeds, PlaceType, Running, stores, process,
         run, env, RunType
    <2>4. PlaceOK'
      BY <1>15, InStage DEF PlaceOK, AttemptSucceeds, TypeOK, RunType, PlaceType,
         Running, StageList, Checkpoint, run, place, env, Halt, NextStage, NoBatch
    <2> QED
      BY <2>1, <2>2, <2>3, <2>4 DEF TypeOK
  <1>16. ASSUME AttemptFails PROVE TypeOK' /\ PlaceOK'
    <2>1. StoresType' /\ ProcessType' /\ RunType' /\ EnvType' /\ FlagsType'
      BY <1>16, Zenon DEF TypeOK, AttemptFails, StoresType, ProcessType, RunType,
         EnvType, FlagsType, stores, process, run, place, env
    <2>2. PlaceType'
      BY <1>16 DEF TypeOK, AttemptFails, PlaceType, Running, stores, process, run,
         env, RunType
    <2>3. PlaceOK'
      BY <1>16, InStage DEF PlaceOK, AttemptFails, TypeOK, RunType, PlaceType,
         Running, StageList, Checkpoint, run, place, env, Halt, NextStage, NoBatch
    <2> QED
      BY <2>1, <2>2, <2>3 DEF TypeOK
  <1>17. ASSUME AttemptNotCounted PROVE TypeOK' /\ PlaceOK'
    <2>1. StoresType' /\ ProcessType' /\ RunType' /\ EnvType' /\ FlagsType'
      BY <1>17, Zenon DEF TypeOK, AttemptNotCounted, StoresType, ProcessType, RunType,
         EnvType, FlagsType, stores, process, run, place, env
    <2>2. PlaceType'
      BY <1>17 DEF TypeOK, AttemptNotCounted, PlaceType, Running, stores, process,
         run, env, RunType
    <2>3. PlaceOK'
      BY <1>17 DEF PlaceOK, AttemptNotCounted, TypeOK, RunType, PlaceType, Running,
         StageList, Checkpoint, run, place, env, Halt, NextStage, NoBatch
    <2> QED
      BY <2>1, <2>2, <2>3 DEF TypeOK
  <1>18. ASSUME DeadLetterFrame PROVE TypeOK' /\ PlaceOK'
    <2>1. RunType' /\ EnvType' /\ FlagsType'
      BY <1>18, Zenon DEF TypeOK, DeadLetterFrame, RunType, EnvType, FlagsType,
         stores, process, run, place, env
    <2>2. StoresType'
      BY <1>18, InTransform, WriteDlqType DEF TypeOK, DeadLetterFrame, StoresType,
         WriteDlq, Reasons, stores, process, run, env, RunType
    <2>3. ProcessType'
      BY <1>18, InTransform, WriteDlqType DEF TypeOK, DeadLetterFrame, ProcessType,
         WriteDlq, Reasons, stores, process, run, env, RunType
    <2>4. PlaceType'
      BY <1>18 DEF TypeOK, DeadLetterFrame, PlaceType, Running, stores, process, run,
         env, RunType
    <2>5. PlaceOK'
      BY <1>18, InStage DEF PlaceOK, DeadLetterFrame, TypeOK, RunType, PlaceType,
         Running, StageList, Checkpoint, run, place, env, Halt, NextStage, NoBatch
    <2> QED
      BY <2>1, <2>2, <2>3, <2>4, <2>5 DEF TypeOK
  <1>19. ASSUME DeadLetterLost PROVE TypeOK' /\ PlaceOK'
    <2>1. StoresType' /\ ProcessType' /\ RunType' /\ EnvType' /\ FlagsType'
      BY <1>19, Zenon DEF TypeOK, DeadLetterLost, StoresType, ProcessType, RunType,
         EnvType, FlagsType, stores, process, run, place, env
    <2>2. PlaceType'
      BY <1>19 DEF TypeOK, DeadLetterLost, PlaceType, Running, stores, process, run,
         env, RunType
    <2>3. PlaceOK'
      BY <1>19, InStage DEF PlaceOK, DeadLetterLost, TypeOK, RunType, PlaceType,
         Running, StageList, Checkpoint, run, place, env, Halt, NextStage, NoBatch
    <2> QED
      BY <2>1, <2>2, <2>3 DEF TypeOK
  <1>20. ASSUME Retry PROVE TypeOK' /\ PlaceOK'
    <2>1. StoresType' /\ ProcessType' /\ RunType' /\ EnvType' /\ FlagsType'
      BY <1>20, Zenon DEF TypeOK, Retry, StoresType, ProcessType, RunType, EnvType,
         FlagsType, stores, process, run, place, env
    <2>2. PlaceType'
      BY <1>20, BoundsAssumption DEF TypeOK, Retry, PlaceType, BoundsAssumption,
         RunType, Running, stores, process, run, env
    <2>3. PlaceOK'
      BY <1>20, InStage DEF PlaceOK, Retry, TypeOK, RunType, PlaceType, Running,
         StageList, Checkpoint, run, place, env, Halt, NextStage, NoBatch
    <2> QED
      BY <2>1, <2>2, <2>3 DEF TypeOK
  <1>21. ASSUME SkipCheckpoint PROVE TypeOK' /\ PlaceOK'
    <2>1. StoresType' /\ ProcessType' /\ RunType' /\ EnvType' /\ FlagsType'
      BY <1>21, Zenon DEF TypeOK, SkipCheckpoint, StoresType, ProcessType, RunType,
         EnvType, FlagsType, stores, process, run, place, env
    <2>2. PlaceType'
      BY <1>21, InStage, InTransform DEF TypeOK, SkipCheckpoint, PlaceType, NextStage,
         Running, stores, process, run, env, RunType
    <2>3. PlaceOK'
      BY <1>21, InStage DEF PlaceOK, SkipCheckpoint, TypeOK, RunType, PlaceType,
         Running, StageList, Checkpoint, run, place, env, Halt, NextStage, NoBatch
    <2> QED
      BY <2>1, <2>2, <2>3 DEF TypeOK
  <1>22. ASSUME UnruledCheckpoint PROVE TypeOK' /\ PlaceOK'
    <2>1. StoresType' /\ ProcessType' /\ EnvType' /\ FlagsType'
      BY <1>22, Zenon DEF TypeOK, UnruledCheckpoint, StoresType, ProcessType, EnvType,
         FlagsType, stores, process, run, place, env
    <2>2. RunType'
      BY <1>22, InStage, InTransform DEF TypeOK, UnruledCheckpoint, RunType, stores,
         process, run, env
    <2>3. PlaceType'
      BY <1>22, InStage, InTransform DEF TypeOK, UnruledCheckpoint, PlaceType,
         NextStage, Running, stores, process, run, env, RunType
    <2>4. PlaceOK'
      BY <1>22, InStage DEF PlaceOK, UnruledCheckpoint, TypeOK, RunType, PlaceType,
         Running, StageList, Checkpoint, run, place, env, Halt, NextStage, NoBatch
    <2> QED
      BY <2>1, <2>2, <2>3, <2>4 DEF TypeOK
  <1>23. ASSUME RunRules PROVE TypeOK' /\ PlaceOK'
    <2>1. ProcessType' /\ RunType' /\ EnvType'
      BY <1>23, Zenon DEF TypeOK, RunRules, ProcessType, RunType, EnvType, stores,
         process, run, place, env
    <2>2. StoresType'
      <3>1. batch \in Batches /\ Checkpoint \in Checkpoints
        BY <1>23, InStage, TransformsAssumption DEF RunRules, TransformsAssumption
      <3>2. violations' \subseteq Batches \X Checkpoints
        BY <1>23, <3>1 DEF TypeOK, RunRules, StoresType
      <3> QED
        BY <1>23, <3>2 DEF TypeOK, RunRules, StoresType
    <2>3. PlaceType'
      BY <1>23 DEF TypeOK, RunRules, PlaceType, Running, stores, process, run, env,
         RunType
    <2>4. FlagsType'
      BY <1>23, Zenon DEF TypeOK, RunRules, FlagsType, stores, process, run, place, env
    <2>5. PlaceOK'
      <3>1. /\ batch \in Batches /\ stage \in DOMAIN Stages
            /\ Checkpoint \in Checkpoints
        BY <1>23, InStage, TransformsAssumption DEF RunRules, TransformsAssumption
      <3> QED
        BY <1>23, <3>1 DEF PlaceOK, RunRules, Running, Checkpoint, StageList, run
    <2> QED
      BY <2>1, <2>2, <2>3, <2>4, <2>5 DEF TypeOK
  <1>24. ASSUME RulesRaise PROVE TypeOK' /\ PlaceOK'
    <2>1. StoresType' /\ ProcessType' /\ RunType' /\ EnvType'
      BY <1>24, Zenon DEF TypeOK, RulesRaise, StoresType, ProcessType, RunType,
         EnvType, stores, process, run, place, env
    <2>2. PlaceType'
      BY <1>24 DEF TypeOK, RulesRaise, PlaceType, Halt, Running, stores, process, run,
         env, RunType
    <2>3. FlagsType'
      BY <1>24, Zenon DEF TypeOK, RulesRaise, FlagsType, stores, process, run, place, env,
         Halt
    <2>4. PlaceOK'
      BY <1>24 DEF PlaceOK, RulesRaise, TypeOK, RunType, PlaceType, Running,
         StageList, Checkpoint, run, place, env, Halt, NextStage, NoBatch
    <2> QED
      BY <2>1, <2>2, <2>3, <2>4 DEF TypeOK
  <1>25. ASSUME WriteScore PROVE TypeOK' /\ PlaceOK'
    <2>0. batch \in Batches /\ Checkpoint \in Checkpoints
      BY <1>25, InStage DEF WriteScore, PlaceOK
    <2>1. ProcessType' /\ EnvType' /\ FlagsType'
      BY <1>25, Zenon DEF TypeOK, WriteScore, ProcessType, EnvType, FlagsType, stores,
         process, run, place, env
    <2>2. StoresType'
      <3>1. scores' \subseteq Batches \X Checkpoints \X BOOLEAN
        <4>1. found \in BOOLEAN
          BY DEF TypeOK, FlagsType
        <4>2. <<batch, Checkpoint, found>> \in Batches \X Checkpoints \X BOOLEAN
          BY <2>0, <4>1, Zenon
        <4>3. scores' \subseteq scores \union {<<batch, Checkpoint, found>>}
          BY <1>25 DEF WriteScore
        <4> QED
          BY <4>2, <4>3, Zenon DEF TypeOK, StoresType
      <3> QED
        BY <1>25, <3>1 DEF TypeOK, WriteScore, StoresType
    <2>3. RunType'
      BY <1>25, <2>0 DEF TypeOK, WriteScore, RunType
    <2>4. PlaceType'
      BY <1>25, InStage, InTransform DEF TypeOK, WriteScore, PlaceType, NextStage,
         Running, stores, process, run, env, RunType
    <2>5. PlaceOK'
      BY <1>25, InStage DEF PlaceOK, WriteScore, TypeOK, RunType, PlaceType, Running,
         StageList, Checkpoint, run, place, env, Halt, NextStage, NoBatch
    <2> QED
      BY <2>1, <2>2, <2>3, <2>4, <2>5 DEF TypeOK
  <1>26. ASSUME PersistLineage PROVE TypeOK' /\ PlaceOK'
    <2>1. ProcessType' /\ RunType' /\ EnvType' /\ FlagsType'
      BY <1>26, Zenon DEF TypeOK, PersistLineage, ProcessType, RunType, EnvType,
         FlagsType, stores, process, run, place, env
    <2>2. StoresType'
      <3>1. batch \in Batches
        BY <1>26 DEF PersistLineage, PlaceOK, Running
      <3>2. lineageEdges' \subseteq Batches \X Transforms
        BY <1>26, <3>1 DEF TypeOK, PersistLineage, StoresType, RunType
      <3> QED
        BY <1>26, <3>2 DEF TypeOK, PersistLineage, StoresType
    <2>3. PlaceType'
      BY <1>26 DEF TypeOK, PersistLineage, PlaceType, Running, stores, process, run,
         env, RunType
    <2>4. PlaceOK'
      BY <1>26 DEF PlaceOK, PersistLineage, TypeOK, RunType, PlaceType, Running,
         StageList, Checkpoint, run, place, env, Halt, NextStage, NoBatch
    <2> QED
      BY <2>1, <2>2, <2>3, <2>4 DEF TypeOK
  <1>27. ASSUME WriteRunMetadata PROVE TypeOK' /\ PlaceOK'
    <2>1. ProcessType' /\ RunType' /\ EnvType' /\ FlagsType'
      BY <1>27, Zenon DEF TypeOK, WriteRunMetadata, ProcessType, RunType, EnvType,
         FlagsType, stores, process, run, place, env
    <2>2. StoresType'
      BY <1>27, RunRowsTyped DEF TypeOK, WriteRunMetadata, StoresType, stores,
         process, run, env
    <2>3. PlaceType'
      BY <1>27 DEF TypeOK, WriteRunMetadata, PlaceType, Running, stores, process, run,
         env, RunType
    <2>4. PlaceOK'
      BY <1>27 DEF PlaceOK, WriteRunMetadata, TypeOK, RunType, PlaceType, Running,
         StageList, Checkpoint, run, place, env, Halt, NextStage, NoBatch
    <2> QED
      BY <2>1, <2>2, <2>3, <2>4 DEF TypeOK
  <1>28. ASSUME FinishRun PROVE TypeOK' /\ PlaceOK'
    <2>1. StoresType' /\ ProcessType' /\ EnvType' /\ FlagsType'
      BY <1>28, Zenon DEF TypeOK, FinishRun, StoresType, ProcessType, EnvType,
         FlagsType, stores, process, run, place, env
    <2>2. RunType'
      BY <1>28 DEF TypeOK, FinishRun, RunType, Outcomes, stores, process, run, env
    <2>3. PlaceType'
      BY <1>28 DEF TypeOK, FinishRun, PlaceType, Running, stores, process, run, env,
         RunType
    <2>4. PlaceOK'
      BY <1>28 DEF PlaceOK, FinishRun, TypeOK, RunType, PlaceType, Running, StageList,
         Checkpoint, run, place, env, Halt, NextStage, NoBatch
    <2> QED
      BY <2>1, <2>2, <2>3, <2>4 DEF TypeOK
  <1>29. ASSUME Tick PROVE TypeOK' /\ PlaceOK'
    <2>1. StoresType' /\ ProcessType' /\ RunType' /\ PlaceType' /\ FlagsType'
      BY <1>29, Zenon DEF TypeOK, Tick, StoresType, ProcessType, RunType, PlaceType,
         FlagsType, stores, process, run, place, env
    <2>2. EnvType'
      BY <1>29, BoundsAssumption DEF TypeOK, Tick, EnvType, BoundsAssumption, Batches,
         stores, process, run, env
    <2>3. PlaceOK'
      BY <1>29 DEF PlaceOK, Tick, TypeOK, RunType, PlaceType, Running, StageList,
         Checkpoint, run, place, env, Halt, NextStage, NoBatch
    <2> QED
      BY <2>1, <2>2, <2>3 DEF TypeOK
  <1>30. ASSUME OpenReader PROVE TypeOK' /\ PlaceOK'
    <2>1. StoresType' /\ ProcessType' /\ RunType' /\ PlaceType' /\ EnvType'
      BY <1>30, Zenon DEF TypeOK, OpenReader, StoresType, ProcessType, RunType,
         PlaceType, EnvType, stores, process, run, place, env
    <2>2. FlagsType'
      BY <1>30, Zenon DEF TypeOK, OpenReader, FlagsType, stores, process, run, place, env
    <2>3. PlaceOK'
      BY <1>30 DEF PlaceOK, OpenReader, TypeOK, RunType, PlaceType, Running,
         StageList, Checkpoint, run, place, env, Halt, NextStage, NoBatch
    <2> QED
      BY <2>1, <2>2, <2>3 DEF TypeOK
  <1>31. ASSUME CloseReader PROVE TypeOK' /\ PlaceOK'
    <2>1. StoresType' /\ ProcessType' /\ RunType' /\ PlaceType' /\ EnvType'
      BY <1>31, Zenon DEF TypeOK, CloseReader, StoresType, ProcessType, RunType,
         PlaceType, EnvType, stores, process, run, place, env
    <2>2. FlagsType'
      BY <1>31, Zenon DEF TypeOK, CloseReader, FlagsType, stores, process, run, place, env
    <2>3. PlaceOK'
      BY <1>31 DEF PlaceOK, CloseReader, TypeOK, RunType, PlaceType, Running,
         StageList, Checkpoint, run, place, env, Halt, NextStage, NoBatch
    <2> QED
      BY <2>1, <2>2, <2>3 DEF TypeOK
  <1>32. CASE UNCHANGED vars
    <2>1. TypeOK'
      BY <1>32, Zenon DEF TypeOK, StoresType, ProcessType, RunType, PlaceType, EnvType,
         FlagsType, vars, stores, process, run, place, env
    <2>2. PlaceOK'
      BY <1>32 DEF PlaceOK, StageList, Checkpoint, vars, run, place
    <2> QED
      BY <2>1, <2>2
  <1> QED
    BY <1>1, <1>2, <1>3, <1>4, <1>5, <1>6, <1>7, <1>8, <1>9, <1>10, <1>11, <1>12,
       <1>13, <1>14, <1>15, <1>16, <1>17, <1>18, <1>19, <1>20, <1>21, <1>22, <1>23,
       <1>24, <1>25, <1>26, <1>27, <1>28, <1>29, <1>30, <1>31, <1>32 DEF Next,
       RunStep, EnvStep, StageStep, AttemptStep, DqStep, EndStep

\* TypeOK and PlaceOK hold in every reachable state: attempts stay within
\* max_attempts, and the run never points outside its configuration.
THEOREM TypeCorrect == Spec => [](TypeOK /\ PlaceOK)
  <1>1. Init => TypeOK /\ PlaceOK
    BY InitType
  <1>2. TypeOK /\ PlaceOK /\ [Next]_vars => TypeOK' /\ PlaceOK'
    BY TypeStep
  <1> QED
    BY <1>1, <1>2, PTL DEF Spec

-----------------------------------------------------------------------------
(* What was counted as dead can be read back *)

\* Only the DLQ writes, the stage results, the metadata insert and the start
\* and end of runs and processes touch what DeadCountsReadable is about.
LEMMA DeadCountsStutter ==
  ASSUME DeadCountsReadable,
         UNCHANGED <<dlqCount, dlqSize, results, pipelineRuns, batch>>
  PROVE  DeadCountsReadable'
  BY DEF DeadCountsReadable

\* DeadLetterQueue.write counts what it has stored.
LEMMA DeadCountsWrite ==
  ASSUME TypeOK, PlaceOK, DeadCountsReadable, pc \in {"transform", "deadletter"},
         NEW rows \in SUBSET Rows, NEW reason \in Reasons, WriteDlq(rows, reason),
         UNCHANGED <<results, pipelineRuns, batch>>
  PROVE  DeadCountsReadable'
  <1>1. batch \in Batches /\ Cardinality(rows) \in Nat
    BY InStage, RowCount
  <1>2. dlqSize \in [Batches -> Nat] /\ dlqCount \in [Batches -> Nat]
    BY DEF TypeOK, StoresType, ProcessType
  <1>3. \A b \in Batches : /\ dlqCount'[b] <= dlqSize'[b]
                           /\ dlqCount[b] <= dlqCount'[b]
                           /\ dlqSize[b] <= dlqSize'[b]
                           /\ dlqCount'[b] \in Nat /\ dlqSize'[b] \in Nat
    BY <1>1, <1>2 DEF WriteDlq, DeadCountsReadable
  <1>4. ASSUME NEW k \in DOMAIN results PROVE results[k].dead <= dlqCount'[batch]
    <2>1. results[k].dead \in Nat
      <3>1. results[k] \in ResultType
        BY DEF TypeOK, RunType
      <3> QED
        BY <3>1 DEF ResultType
    <2>2. results[k].dead <= dlqCount[batch]
      BY DEF DeadCountsReadable
    <2>3. /\ dlqCount[batch] <= dlqCount'[batch]
          /\ dlqCount[batch] \in Nat /\ dlqCount'[batch] \in Nat
      BY <1>1, <1>2, <1>3
    <2> QED
      BY <2>1, <2>2, <2>3
  <1>5. ASSUME NEW k \in DOMAIN pipelineRuns
        PROVE  pipelineRuns[k].dead <= dlqSize'[pipelineRuns[k].batch]
    <2>1. pipelineRuns[k].dead \in Nat /\ pipelineRuns[k].batch \in Batches
      <3>1. pipelineRuns[k] \in RowType
        BY DEF TypeOK, StoresType
      <3> QED
        BY <3>1 DEF RowType
    <2>2. pipelineRuns[k].dead <= dlqSize[pipelineRuns[k].batch]
      BY DEF DeadCountsReadable
    <2> QED
      BY <1>2, <1>3, <2>1, <2>2
  <1> QED
    BY <1>3, <1>4, <1>5 DEF DeadCountsReadable

\* A StageResult takes the counter as it stands.
LEMMA DeadCountsResult ==
  ASSUME TypeOK, PlaceOK, DeadCountsReadable, pc \in {"retry", "settle"},
         NEW status \in Statuses, results' = Append(results, Result(status)),
         UNCHANGED <<dlqCount, dlqSize, pipelineRuns, batch>>
  PROVE  DeadCountsReadable'
  <1>1. results \in Seq(ResultType)
    BY DEF TypeOK, RunType
  <1>2. batch \in Batches /\ dlqCount[batch] \in Nat
    BY InStage DEF TypeOK, ProcessType
  <1>3. Result(status).dead = dlqCount[batch]
    BY DEF Result
  <1>4. ASSUME NEW k \in DOMAIN results' PROVE results'[k].dead <= dlqCount[batch]
    <2>1. CASE k \in DOMAIN results
      BY <1>1, <2>1 DEF DeadCountsReadable
    <2>2. CASE k \notin DOMAIN results
      BY <1>1, <1>2, <1>3, <2>2
    <2> QED
      BY <2>1, <2>2
  <1> QED
    BY <1>4 DEF DeadCountsReadable

LEMMA DeadCountsStep ==
  TypeOK /\ PlaceOK /\ DeadCountsReadable /\ [Next]_vars => DeadCountsReadable'
  <1> SUFFICES ASSUME TypeOK, PlaceOK, DeadCountsReadable, [Next]_vars
               PROVE  DeadCountsReadable'
    OBVIOUS
  <1>1. CASE DivertRows
    <2>1. PICK bad \in SUBSET frame : WriteDlq(bad, "row")
      BY <1>1 DEF DivertRows
    <2>2. bad \in SUBSET Rows /\ "row" \in Reasons
      BY DEF TypeOK, RunType, Reasons
    <2> QED
      BY <1>1, <2>1, <2>2, DeadCountsWrite DEF DivertRows, run
  <1>2. CASE DeadLetterFrame
    <2>1. frame \in SUBSET Rows /\ "batch" \in Reasons
      BY DEF TypeOK, RunType, Reasons
    <2> QED
      BY <1>2, <2>1, DeadCountsWrite DEF DeadLetterFrame, run
  <1>3. CASE StageSucceeds
    BY <1>3, DeadCountsResult DEF StageSucceeds, Statuses, stores, process
  <1>4. CASE StageFails
    BY <1>4, DeadCountsResult DEF StageFails, Statuses, stores, process
  <1>5. CASE StartProcess \/ StartRun \/ StopProcess
    <2>1. /\ results' = <<>>
          /\ UNCHANGED <<dlqSize, pipelineRuns>>
          /\ dlqCount' \in {dlqCount, [b \in Batches |-> 0]}
      BY <1>5 DEF StartProcess, StartRun, StopProcess, PlaceOK, stores, process
    <2> QED
      BY <2>1 DEF DeadCountsReadable, TypeOK, StoresType
  <1>6. CASE WriteRunMetadata
    <2>1. /\ UNCHANGED <<dlqCount, dlqSize, results, batch>>
          /\ pipelineRuns' \in {pipelineRuns, pipelineRuns \o RunRows}
      BY <1>6 DEF WriteRunMetadata, process, run
    <2>2. /\ pipelineRuns \in Seq(RowType) /\ RunRows \in Seq(RowType)
          /\ results \in Seq(ResultType) /\ batch \in Batches
      BY <1>6, RunRowsTyped
         DEF WriteRunMetadata, TypeOK, StoresType, RunType, PlaceOK, Running
    <2>3. ASSUME NEW k \in DOMAIN RunRows
          PROVE  RunRows[k].dead <= dlqSize[RunRows[k].batch]
      <3>1. k \in DOMAIN results /\ results[k].dead \in Nat
        <4>1. k \in DOMAIN results
          BY DEF RunRows
        <4>2. results[k] \in ResultType
          BY <2>2, <4>1
        <4> QED
          BY <4>1, <4>2 DEF ResultType
      <3>2. RunRows[k].dead = results[k].dead /\ RunRows[k].batch = batch
        BY <3>1 DEF RunRows
      <3> QED
        <4>1. results[k].dead <= dlqCount[batch] /\ dlqCount[batch] <= dlqSize[batch]
          BY <2>2, <3>1 DEF DeadCountsReadable
        <4>2. dlqCount[batch] \in Nat /\ dlqSize[batch] \in Nat
          BY <2>2 DEF TypeOK, StoresType, ProcessType
        <4> QED
          BY <3>1, <3>2, <4>1, <4>2
    <2>4. ASSUME NEW k \in DOMAIN pipelineRuns'
          PROVE  pipelineRuns'[k].dead <= dlqSize[pipelineRuns'[k].batch]
      <3>1. CASE k \in DOMAIN pipelineRuns
        BY <2>1, <2>2, <3>1 DEF DeadCountsReadable
      <3>2. CASE k \notin DOMAIN pipelineRuns
        <4>0. pipelineRuns' = pipelineRuns \o RunRows
          BY <2>1, <3>2
        <4>1. /\ k - Len(pipelineRuns) \in DOMAIN RunRows
              /\ pipelineRuns'[k] = RunRows[k - Len(pipelineRuns)]
          BY <2>2, <3>2, <4>0
        <4> QED
          BY <2>3, <4>1
      <3> QED
        BY <3>1, <3>2
    <2> QED
      BY <2>1, <2>4 DEF DeadCountsReadable
  <1>7. CASE \/ SkipStage \/ EnterStage \/ UnknownTransform \/ StageNotCounted
             \/ StagesExhausted \/ DeleteFacts \/ InsertFacts \/ EmitLineage
             \/ AttemptSucceeds \/ AttemptFails \/ AttemptNotCounted \/ DeadLetterLost
             \/ Retry \/ DqStep \/ PersistLineage \/ FinishRun
             \/ Tick \/ OpenReader \/ CloseReader \/ UNCHANGED vars
    <2>1. UNCHANGED <<dlqCount, dlqSize, results, pipelineRuns, batch>>
      BY <1>7 DEF SkipStage, EnterStage, UnknownTransform, StageNotCounted,
         StagesExhausted, DeleteFacts, InsertFacts, EmitLineage, AttemptSucceeds,
         AttemptFails, AttemptNotCounted, DeadLetterLost, Retry, DqStep, SkipCheckpoint,
         UnruledCheckpoint, RunRules, RulesRaise, WriteScore, PersistLineage, FinishRun,
         Tick, OpenReader, CloseReader, vars, stores, process, run
    <2> QED
      BY <2>1, DeadCountsStutter
  <1> QED
    BY <1>1, <1>2, <1>3, <1>4, <1>5, <1>6, <1>7
       DEF Next, RunStep, EnvStep, StageStep, AttemptStep, EndStep

\* Every records_dead a run reports, in memory or in pipeline_runs, is covered
\* by records in the dead-letter tree, for any configuration and any trades.
THEOREM DeadCountsAreReadable == Spec => []DeadCountsReadable
  <1>1. Init => DeadCountsReadable
    BY DEF Init, DeadCountsReadable
  <1> QED
    BY <1>1, DeadCountsStep, TypeCorrect, PTL DEF Spec

-----------------------------------------------------------------------------
(* No row vanishes *)

\* The strengthening: an attempt produces a part of the frame it was given, so
\* a retry or the next transform starts from rows that are all accounted for.
FrameInv == NoRowVanishes /\ out \subseteq frame

LEMMA FrameStutter ==
  ASSUME FrameInv, pc' \in Running => pc \in Running,
         dlqRows \subseteq dlqRows', UNCHANGED <<batch, input, frame, out>>
  PROVE  FrameInv'
  BY DEF FrameInv, NoRowVanishes, Diverted

LEMMA FrameStep == TypeOK /\ FrameInv /\ [Next]_vars => FrameInv'
  <1> SUFFICES ASSUME TypeOK, FrameInv, [Next]_vars PROVE FrameInv'
    OBVIOUS
  <1>1. CASE StartRun
    <2>1. out' = input' /\ out' = frame'
      BY <1>1 DEF StartRun
    <2> QED
      BY <2>1 DEF FrameInv, NoRowVanishes
  <1>2. CASE StopProcess
    BY <1>2 DEF StopProcess, FrameInv, NoRowVanishes, Running
  <1>3. CASE EnterStage \/ Retry
    <2>1. /\ pc \in Running /\ out' = frame
          /\ UNCHANGED <<dlqRows, batch, input, frame>>
      BY <1>3 DEF EnterStage, Retry, Running, stores, run
    <2> QED
      BY <2>1 DEF FrameInv, NoRowVanishes, Diverted
  <1>4. CASE DivertRows
    <2>1. PICK bad \in SUBSET frame : WriteDlq(bad, "row") /\ out' = frame \ bad
      BY <1>4 DEF DivertRows
    <2>2. pc \in Running /\ UNCHANGED <<pc, batch, input, frame>> /\ Current \in Transforms
      BY <1>4, TransformsAssumption DEF DivertRows, run, Running, TransformsAssumption
    <2>3. dlqRows' = dlqRows \union {<<batch, Current, r, "row">> : r \in bad}
      BY <2>1 DEF WriteDlq
    <2>4. ASSUME NEW r \in input PROVE r \in out' \/ Diverted(r)'
      <3>1. CASE r \in bad
        BY <2>2, <2>3, <3>1 DEF Diverted
      <3>2. CASE r \notin bad
        BY <2>1, <2>2, <2>3, <3>2 DEF FrameInv, NoRowVanishes, Diverted
      <3> QED
        BY <3>1, <3>2
    <2> QED
      BY <2>1, <2>2, <2>4 DEF FrameInv, NoRowVanishes
  <1>5. CASE DeadLetterFrame
    <2>1. dlqRows \subseteq dlqRows'
      BY <1>5 DEF DeadLetterFrame, WriteDlq
    <2> QED
      BY <1>5, <2>1, FrameStutter DEF DeadLetterFrame, run, Running
  <1>6. CASE AttemptSucceeds
    <2>1. /\ pc \in Running /\ frame' = out
          /\ UNCHANGED <<dlqRows, batch, input, out>>
      BY <1>6 DEF AttemptSucceeds, Running, stores
    <2> QED
      BY <2>1 DEF FrameInv, NoRowVanishes, Diverted
  <1>7. CASE \/ StartProcess \/ SkipStage \/ UnknownTransform \/ StageNotCounted
             \/ StagesExhausted \/ StageSucceeds \/ StageFails \/ DeleteFacts
             \/ InsertFacts \/ EmitLineage \/ AttemptFails \/ AttemptNotCounted
             \/ DeadLetterLost \/ DqStep \/ EndStep \/ Tick \/ OpenReader
             \/ CloseReader \/ UNCHANGED vars
    <2>1. /\ pc' \in Running => pc \in Running
          /\ UNCHANGED <<dlqRows, batch, input, frame, out>>
      BY <1>7 DEF StartProcess, SkipStage, UnknownTransform, StageNotCounted,
         StagesExhausted, StageSucceeds, StageFails, DeleteFacts, InsertFacts,
         EmitLineage, AttemptFails, AttemptNotCounted, DeadLetterLost, DqStep,
         SkipCheckpoint, UnruledCheckpoint, RunRules, RulesRaise, WriteScore, EndStep,
         PersistLineage, WriteRunMetadata, FinishRun, Tick, OpenReader, CloseReader,
         vars, stores, process, run, place, Running, NextStage, Halt
    <2> QED
      BY <2>1, FrameStutter
  <1> QED
    BY <1>1, <1>2, <1>3, <1>4, <1>5, <1>6, <1>7
       DEF Next, RunStep, EnvStep, StageStep, AttemptStep

\* Whatever attempts fail and whatever DLQ writes raise, a row of the input
\* that is no longer in the frame is in the dead-letter tree.
THEOREM RowsAccountedFor == Spec => []NoRowVanishes
  <1>1. Init => FrameInv
    BY DEF Init, FrameInv, NoRowVanishes, Running
  <1>2. FrameInv => NoRowVanishes
    BY DEF FrameInv
  <1> QED
    BY <1>1, <1>2, FrameStep, TypeCorrect, PTL DEF Spec

-----------------------------------------------------------------------------
(* A run never gets ahead of its records, and the load stays behind them *)

Walking == Running \ {"lineage", "metadata", "finish"}

\* The strengthening: the checkpoint belongs to a stage that has succeeded.
StagesInv ==
    /\ StagesBehind
    /\ pc \in {"checkpoint", "score"} => Succeeded(stage)

LEMMA StagesStutter ==
  ASSUME StagesInv, pc' = pc \/ (pc \in Walking /\ pc' \in {"transform", "deadletter",
                                 "retry", "settle"}),
         UNCHANGED <<stage, stageFilter, results, dqResults, dqEngine, failed>>
  PROVE  StagesInv'
  BY DEF StagesInv, StagesBehind, Passed, Succeeded, Selected, Walking, Running

\* Appending a result forgets no success.
LEMMA SucceededGrows ==
  ASSUME results \in Seq(ResultType), NEW x, results' = Append(results, x), NEW i,
         Succeeded(i)
  PROVE  Succeeded(i)'
  BY DEF Succeeded

\* The run halts: no stage is walked any more.
LEMMA StagesHalt ==
  ASSUME StagesInv, Halt, UNCHANGED results
  PROVE  StagesInv'
  BY DEF StagesInv, StagesBehind, Halt, Running

\* The checkpoint of the stage in hand is settled and the run moves on.
LEMMA StagesAdvance ==
  ASSUME TypeOK, StagesInv, pc \in {"checkpoint", "score"}, NextStage,
         dqResults \subseteq dqResults',
         dqEngine /\ Checkpoint # NoCheckpoint => Checkpoint \in dqResults',
         UNCHANGED <<stageFilter, results, dqEngine, failed>>
  PROVE  StagesInv'
  <1>1. stage \in Int /\ stage' = stage + 1 /\ pc' = "stage" /\ pc \in Walking
    BY DEF TypeOK, PlaceType, NextStage, Walking, Running
  <1>2. ASSUME NEW i \in 1 .. stage' - 1, Selected(i)' PROVE Passed(i)'
    <2>1. CASE i = stage
      BY <2>1 DEF StagesInv, Passed, Succeeded, Checkpoint
    <2>2. CASE i # stage
      <3>1. i \in 1 .. stage - 1 /\ Selected(i)
        BY <1>1, <1>2, <2>2 DEF Selected
      <3> QED
        BY <1>1, <3>1 DEF StagesInv, StagesBehind, Passed, Succeeded, Walking
    <2> QED
      BY <2>1, <2>2
  <1>3. ~failed
    BY DEF StagesInv, StagesBehind
  <1> QED
    BY <1>1, <1>2, <1>3 DEF StagesInv, StagesBehind

LEMMA StagesStep == TypeOK /\ PlaceOK /\ StagesInv /\ [Next]_vars => StagesInv'
  <1> SUFFICES ASSUME TypeOK, PlaceOK, StagesInv, [Next]_vars PROVE StagesInv'
    OBVIOUS
  <1>0. results \in Seq(ResultType) /\ stage \in Int
    BY DEF TypeOK, RunType, PlaceType
  <1>1. CASE StartProcess
    BY <1>1 DEF StartProcess, StagesInv, StagesBehind, Running, PlaceOK
  <1>2. CASE StartRun
    <2>1. results' = <<>> /\ stage' = 1 /\ failed' = FALSE /\ pc' \in {"stage", "idle"}
      BY <1>2 DEF StartRun
    <2> QED
      BY <2>1 DEF StagesInv, StagesBehind, Running
  <1>3. CASE StopProcess
    BY <1>3 DEF StopProcess, StagesInv, StagesBehind, Running
  <1>4. CASE SkipStage
    <2>1. /\ pc \in Walking /\ pc' = "stage" /\ stage' = stage + 1 /\ ~Selected(stage)
          /\ UNCHANGED <<stageFilter, results, dqResults, dqEngine, failed>>
      BY <1>4 DEF SkipStage, process, run, Walking, Running
    <2>2. ASSUME NEW i \in 1 .. stage' - 1, Selected(i)' PROVE Passed(i)'
      <3>1. i \in 1 .. stage - 1 /\ Selected(i)
        BY <1>0, <2>1, <2>2 DEF Selected
      <3> QED
        BY <2>1, <3>1 DEF StagesInv, StagesBehind, Passed, Succeeded, Walking
    <2>3. ~failed
      BY <2>1 DEF StagesInv, StagesBehind, Walking, Running
    <2> QED
      BY <2>1, <2>2, <2>3 DEF StagesInv, StagesBehind
  <1>5. CASE UnknownTransform \/ FinishRun
    <2>1. pc' = "idle" /\ UNCHANGED <<results, failed>>
      BY <1>5 DEF UnknownTransform, FinishRun
    <2> QED
      BY <2>1 DEF StagesInv, StagesBehind, Running
  <1>6. CASE StageNotCounted
    BY <1>6, StagesHalt DEF StageNotCounted
  <1>7. CASE RulesRaise
    BY <1>7, StagesHalt DEF RulesRaise
  <1>8. CASE StagesExhausted \/ PersistLineage \/ WriteRunMetadata
    <2>1. pc' \in {"lineage", "metadata", "finish"} /\ UNCHANGED <<results, failed>>
      BY <1>8 DEF StagesExhausted, PersistLineage, WriteRunMetadata, run
    <2> QED
      BY <2>1 DEF StagesInv, StagesBehind
  <1>9. CASE StageSucceeds
    <2>1. /\ pc = "settle" /\ pc' = "checkpoint" /\ pc \in Walking
          /\ results' = Append(results, Result("SUCCESS"))
          /\ UNCHANGED <<stage, stageFilter, dqResults, dqEngine, failed>>
      BY <1>9 DEF StageSucceeds, process, Walking, Running
    <2>2. ~failed
      BY <2>1 DEF StagesInv, StagesBehind
    <2>3. Succeeded(stage)'
      <3>1. /\ Len(results) + 1 \in DOMAIN results'
            /\ results'[Len(results) + 1] = Result("SUCCESS")
        BY <1>0, <2>1
      <3> QED
        BY <2>1, <3>1 DEF Succeeded, Result
    <2>4. ASSUME NEW i \in 1 .. stage - 1, Selected(i) PROVE Passed(i)'
      <3>1. Passed(i)
        BY <2>1, <2>4 DEF StagesInv, StagesBehind, Walking
      <3> QED
        BY <1>0, <2>1, <3>1, SucceededGrows DEF Passed
    <2>5. ASSUME NEW k \in DOMAIN results', results'[k].status = "FAILED" PROVE FALSE
      <3>1. CASE k \in DOMAIN results
        BY <1>0, <2>1, <2>2, <2>5, <3>1 DEF StagesInv, StagesBehind
      <3>2. CASE k \notin DOMAIN results
        <4>1. results'[k] = Result("SUCCESS")
          BY <1>0, <2>1, <2>5, <3>2
        <4> QED
          BY <2>5, <4>1 DEF Result
      <3> QED
        BY <3>1, <3>2
    <2> QED
      BY <2>1, <2>2, <2>3, <2>4, <2>5 DEF StagesInv, StagesBehind, Selected
  <1>10. CASE StageFails
    <2>1. /\ pc \in {"settle", "retry"} /\ pc' = "lineage" /\ failed' = TRUE
          /\ results' = Append(results, Result("FAILED"))
      BY <1>10 DEF StageFails, Halt
    <2>2. ~failed
      BY <2>1 DEF StagesInv, StagesBehind
    <2>3. ASSUME NEW k \in DOMAIN results', results'[k].status = "FAILED"
          PROVE  k = Len(results')
      <3>1. k \notin DOMAIN results
        BY <1>0, <2>1, <2>2, <2>3 DEF StagesInv, StagesBehind
      <3> QED
        BY <1>0, <2>1, <3>1
    <2> QED
      BY <2>1, <2>3 DEF StagesInv, StagesBehind
  <1>11. CASE SkipCheckpoint
    BY <1>11, StagesAdvance DEF SkipCheckpoint, process, run
  <1>12. CASE UnruledCheckpoint
    BY <1>12, StagesAdvance DEF UnruledCheckpoint, process
  <1>13. CASE WriteScore
    BY <1>13, StagesAdvance DEF WriteScore, process
  <1>14. CASE RunRules
    <2>1. /\ pc = "checkpoint" /\ pc' = "score"
          /\ UNCHANGED <<stage, stageFilter, results, dqResults, dqEngine, failed>>
      BY <1>14 DEF RunRules, process, run
    <2> QED
      BY <2>1 DEF StagesInv, StagesBehind, Passed, Succeeded, Selected, Running
  <1>15. CASE \/ EnterStage \/ DivertRows \/ DeleteFacts \/ InsertFacts \/ EmitLineage
              \/ AttemptSucceeds \/ AttemptFails \/ AttemptNotCounted
              \/ DeadLetterFrame \/ DeadLetterLost \/ Retry
              \/ Tick \/ OpenReader \/ CloseReader \/ UNCHANGED vars
    <2>1. /\ \/ pc' = pc
             \/ pc \in Walking /\ pc' \in {"transform", "deadletter", "retry", "settle"}
          /\ UNCHANGED <<stage, stageFilter, results, dqResults, dqEngine, failed>>
      BY <1>15 DEF EnterStage, DivertRows, DeleteFacts, InsertFacts, EmitLineage,
         AttemptSucceeds, AttemptFails, AttemptNotCounted, DeadLetterFrame,
         DeadLetterLost, Retry, Tick, OpenReader, CloseReader, vars, process, run,
         place, Walking, Running
    <2> QED
      BY <2>1, StagesStutter
  <1> QED
    BY <1>1, <1>2, <1>3, <1>4, <1>5, <1>6, <1>7, <1>8, <1>9, <1>10, <1>11, <1>12,
       <1>13, <1>14, <1>15
       DEF Next, RunStep, EnvStep, StageStep, AttemptStep, DqStep, EndStep

\* Stages run in their configured order behind their predecessors' successes
\* and checkpoints, and nothing follows a FAILED result.
THEOREM StagesInOrder == Spec => []StagesBehind
  <1>1. Init => StagesInv
    BY DEF Init, StagesInv, StagesBehind, Running
  <1>2. StagesInv => StagesBehind
    BY DEF StagesInv
  <1> QED
    BY <1>1, <1>2, StagesStep, TypeCorrect, PTL DEF Spec

\* fact_trades changes only in a run that has not halted, behind every earlier
\* selected stage and its checkpoint.
THEOREM LoadIsGated == Spec => LoadBehindGates
  <1>1. StagesBehind /\ [Next]_vars =>
          [facts' # facts => /\ ~failed
                             /\ \A i \in 1 .. stage - 1 : Selected(i) => Passed(i)]_vars
    <2> SUFFICES ASSUME StagesBehind, Next, facts' # facts
                 PROVE  /\ ~failed
                        /\ \A i \in 1 .. stage - 1 : Selected(i) => Passed(i)
      BY DEF vars
    <2>1. DeleteFacts \/ InsertFacts
      BY DEF Next, RunStep, EnvStep, StageStep, AttemptStep, DqStep, EndStep,
         StartProcess, StartRun, StopProcess, SkipStage, EnterStage, UnknownTransform,
         StageNotCounted, StagesExhausted, StageSucceeds, StageFails, DivertRows,
         EmitLineage, AttemptSucceeds, AttemptFails, AttemptNotCounted, DeadLetterFrame,
         DeadLetterLost, Retry, SkipCheckpoint, UnruledCheckpoint, RunRules, RulesRaise,
         WriteScore, PersistLineage, WriteRunMetadata, FinishRun, Tick, OpenReader,
         CloseReader, stores
    <2>2. pc = "transform"
      BY <2>1 DEF DeleteFacts, InsertFacts
    <2> QED
      BY <2>2 DEF StagesBehind, Running
  <1> QED
    BY <1>1, StagesInOrder, PTL DEF Spec, LoadBehindGates

-----------------------------------------------------------------------------
(* A run that returns has landed its rows *)

Attempting == {"transform", "deadletter", "retry"}
Ending     == {"lineage", "metadata", "finish"}

\* transform k of stage i is one the run has to execute, and it is through
Through(i, k) ==
    /\ Selected(i)
    /\ \/ i < stage
       \/ i = stage /\ pc \in {"settle", "checkpoint", "score"}
       \/ i = stage /\ pc \in Attempting /\ k < next

\* a load of the current run is through
LoadsBehind ==
    \E i \in DOMAIN Stages : \E k \in DOMAIN Stages[i].transforms :
        Stages[i].transforms[k] \in Loading /\ Through(i, k)

\* what is left of the batch is in fact_trades under its id
Landed == \A r \in frame : facts[r] = batch

\* The strengthening follows the load through the run: its two statements
\* belong to a load's own attempt and come in order; once one load is through,
\* the rows still in the frame stay landed, except while another load rewrites
\* them; a run that ends without a failure has walked every stage.
LoadInv ==
    /\ pc \in Attempting /\ done \intersect {"delete", "insert"} # {} =>
          "delete" \in done /\ Current \in Loading
    /\ pc \in Attempting /\ "insert" \in done => Landed
    /\ pc \in Running /\ ~failed /\ LoadsBehind =>
          Landed \/ (pc \in Attempting /\ Current \in Loading)
    /\ pc \in Ending /\ ~failed => stage = Len(Stages) + 1
    /\ pc = "idle" /\ outcome = "returned" =>
          /\ stage = Len(Stages) + 1
          /\ LoadsBehind => Landed
          /\ \A r \in input : r \in frame \/ Diverted(r)

\* Outside an attempt and with the same rows loaded, nothing gets behind the
\* run that was not behind it before.
LEMMA LoadOutside ==
  ASSUME LoadInv, pc \in Running \ Attempting, pc' \in Running \ Attempting,
         UNCHANGED <<facts, batch, frame>>,
         ~failed' => ~failed,
         ~failed' /\ LoadsBehind' => LoadsBehind,
         pc' \in Ending /\ ~failed' => stage' = Len(Stages) + 1
  PROVE  LoadInv'
  <1>1. pc' # "idle"
    BY DEF Running
  <1>2. pc' \notin Attempting
    OBVIOUS
  <1>3. Landed' <=> Landed
    BY DEF Landed
  <1>4. ~failed' /\ LoadsBehind' => Landed'
    BY <1>3 DEF LoadInv
  <1> QED
    BY <1>1, <1>2, <1>4 DEF LoadInv

\* A step inside an attempt that loads nothing.
LEMMA LoadInside ==
  ASSUME LoadInv, pc \in Attempting, pc' \in Attempting,
         UNCHANGED <<facts, batch, frame, stage, next, stageFilter, failed>>,
         done' \intersect {"delete", "insert"}
            \in {{}, done \intersect {"delete", "insert"}}
  PROVE  LoadInv'
  <1>1. pc' \notin Ending /\ pc' # "idle" /\ pc \in Running
    BY DEF Attempting, Ending, Running
  <1>2. (Landed' <=> Landed) /\ Current' = Current
    BY DEF Landed, Current, StageList
  <1>3. LoadsBehind' => LoadsBehind
    BY DEF LoadsBehind, Through, Selected, Attempting
  <1>4. /\ "delete" \in done' => "delete" \in done
        /\ "insert" \in done' => "insert" \in done
        /\ "insert" \in done' /\ "delete" \in done => "delete" \in done'
    OBVIOUS
  <1>5. done' \intersect {"delete", "insert"} # {} => "delete" \in done' /\ Current' \in Loading
    BY <1>2, <1>4, Zenon DEF LoadInv
  <1>6. "insert" \in done' => Landed'
    BY <1>2, <1>4 DEF LoadInv
  <1>7. ~failed' /\ LoadsBehind' => Landed' \/ Current' \in Loading
    BY <1>1, <1>2, <1>3 DEF LoadInv
  <1> QED
    BY <1>1, <1>5, <1>6, <1>7 DEF LoadInv

\* Where neither an attempt nor a run's end is reached, there is nothing to say.
LEMMA LoadNothing ==
  ASSUME pc' \in {"down", "idle"}, pc' = "idle" => outcome' # "returned"
  PROVE  LoadInv'
  BY DEF LoadInv, Attempting, Ending, Running

\* The load's two statements: the first forgets the rows of the frame, the
\* second lands them.
LEMMA LoadWrites ==
  ASSUME TypeOK, PlaceOK, LoadInv, DeleteFacts \/ InsertFacts
  PROVE  LoadInv'
  <1>1. /\ pc = "transform" /\ pc' = "transform" /\ "delete" \in done'
        /\ UNCHANGED <<stage, next, frame, batch, failed, stageFilter>>
    BY DEF DeleteFacts, InsertFacts, run
  <1>2. pc \in Attempting /\ pc' \in Attempting \ Ending /\ pc' # "idle"
    BY <1>1 DEF Attempting, Ending
  <1>3. Current' = Current /\ Current \in Loading
    <2>1. Current' = Current
      BY <1>1 DEF Current, StageList
    <2>2. CASE DeleteFacts
      BY <2>1, <2>2 DEF DeleteFacts
    <2>3. CASE InsertFacts
      BY <1>2, <2>1, <2>3 DEF InsertFacts, LoadInv
    <2> QED
      BY <2>2, <2>3, <2>1
  <1>4. "insert" \in done' => Landed'
    <2>1. CASE DeleteFacts
      <3>1. "insert" \notin done
        BY <1>2, <2>1 DEF DeleteFacts, LoadInv
      <3> QED
        BY <2>1, <3>1 DEF DeleteFacts
    <2>2. CASE InsertFacts
      <3>1. facts' = [r \in Rows |-> IF r \in frame THEN batch ELSE facts[r]]
        BY <2>2 DEF InsertFacts
      <3>2. frame \subseteq Rows
        BY DEF TypeOK, RunType
      <3> QED
        BY <1>1, <3>1, <3>2 DEF Landed
    <2> QED
      BY <2>1, <2>2
  <1> QED
    BY <1>1, <1>2, <1>3, <1>4 DEF LoadInv

\* A transform that is through leaves what was landed landed, and a load that
\* is through has landed what it was given.
LEMMA LoadThrough ==
  ASSUME TypeOK, PlaceOK, FrameInv, LoadInv, AttemptSucceeds
  PROVE  LoadInv'
  <1>1. /\ pc = "transform" /\ pc' \in {"transform", "settle"} /\ frame' = out
        /\ next' = next + 1 /\ done' = {}
        /\ pc' = "settle" => next = Len(StageList)
        /\ UNCHANGED <<facts, batch, stage, stageFilter, failed>>
    BY DEF AttemptSucceeds, stores
  <1>2. next \in Nat /\ next \in DOMAIN StageList /\ StageList \in Seq(Transforms)
    BY <1>1, InStage, InTransform DEF TypeOK, PlaceType
  <1>3. /\ pc \in Attempting /\ pc \in Running
        /\ pc' \notin Ending /\ pc' # "idle"
    BY <1>1 DEF Attempting, Ending, Running
  <1>4. Landed => Landed'
    BY <1>1 DEF Landed, FrameInv
  <1>5. Current \in Loading => Landed
    <2>1. CASE frame = {}
      BY <2>1 DEF Landed
    <2>2. CASE "insert" \in done
      BY <1>3, <2>2 DEF LoadInv
    <2> QED
      BY <2>1, <2>2 DEF AttemptSucceeds
  <1>6. ASSUME LoadsBehind' PROVE LoadsBehind \/ Current \in Loading
    <2>1. PICK i \in DOMAIN Stages : \E k \in DOMAIN Stages[i].transforms :
             Stages[i].transforms[k] \in Loading /\ Through(i, k)'
      BY <1>6 DEF LoadsBehind
    <2>2. PICK k \in DOMAIN Stages[i].transforms :
             Stages[i].transforms[k] \in Loading /\ Through(i, k)'
      BY <2>1
    <2>3. Selected(i)
      BY <1>1, <2>2 DEF Through, Selected
    <2>4. CASE i < stage
      BY <2>2, <2>3, <2>4 DEF LoadsBehind, Through
    <2>5. CASE ~(i < stage)
      <3>1. i = stage
        BY <1>1, <2>2, <2>5 DEF Through
      <3>2. k \in DOMAIN StageList /\ k \in Nat
        BY <1>2, <3>1 DEF StageList
      <3>3. k < next \/ k = next
        BY <1>1, <1>2, <2>2, <2>5, <3>1, <3>2 DEF Through
      <3>4. k < next => Through(i, k)
        BY <1>3, <2>3, <3>1 DEF Through
      <3>5. k = next => Current \in Loading
        BY <2>2, <3>1 DEF Current, StageList
      <3> QED
        BY <2>2, <3>3, <3>4, <3>5 DEF LoadsBehind
    <2> QED
      BY <2>4, <2>5
  <1>7. ~failed' /\ LoadsBehind' => Landed'
    BY <1>1, <1>3, <1>4, <1>5, <1>6 DEF LoadInv
  <1> QED
    BY <1>1, <1>3, <1>7 DEF LoadInv

\* The end of a run: every load it had to execute is behind it.
LEMMA LoadEnd ==
  ASSUME TypeOK, stage = Len(Stages) + 1, UNCHANGED <<stage, stageFilter>>
  PROVE  LoadsBehind' => LoadsBehind
  <1>1. \A i \in DOMAIN Stages : i < stage
    BY StagesAssumption DEF StagesAssumption
  <1> QED
    BY <1>1 DEF LoadsBehind, Through, Selected

LEMMA LoadStep ==
  TypeOK /\ PlaceOK /\ FrameInv /\ LoadInv /\ [Next]_vars => LoadInv'
  <1> SUFFICES ASSUME TypeOK, PlaceOK, FrameInv, LoadInv, [Next]_vars PROVE LoadInv'
    OBVIOUS
  <1>0. stage \in Nat /\ stage \in 1 .. Len(Stages) + 1 /\ Len(Stages) \in Nat
    BY StagesAssumption DEF TypeOK, PlaceType, StagesAssumption
  <1>1. CASE StartProcess \/ StopProcess \/ UnknownTransform
    <2>1. pc' \in {"down", "idle"} /\ outcome' # "returned"
      BY <1>1 DEF StartProcess, StopProcess, UnknownTransform
    <2> QED
      BY <2>1, LoadNothing
  <1>2. CASE StartRun
    <2>1. stage' = 1 /\ pc' \in {"stage", "idle"} /\ outcome' \in {"none", "noinput"}
      BY <1>2 DEF StartRun
    <2>2. ~LoadsBehind'
      BY <2>1, StagesAssumption DEF LoadsBehind, Through, Attempting, StagesAssumption
    <2> QED
      BY <2>1, <2>2 DEF LoadInv, Attempting, Ending
  <1>3. CASE SkipStage
    <2>1. /\ pc = "stage" /\ pc' = "stage" /\ stage' = stage + 1 /\ ~Selected(stage)
          /\ UNCHANGED <<facts, batch, frame, failed, stageFilter>>
      BY <1>3 DEF SkipStage, stores, run
    <2>2. LoadsBehind' => LoadsBehind
      <3>1. \A i \in DOMAIN Stages : i < stage + 1 /\ Selected(i) => i < stage
        BY <1>0, <2>1, StagesAssumption DEF StagesAssumption
      <3> QED
        BY <2>1, <3>1 DEF LoadsBehind, Through, Selected, Attempting
    <2> QED
      BY <2>1, <2>2, LoadOutside DEF Running, Attempting, Ending
  <1>4. CASE EnterStage
    <2>1. /\ pc = "stage" /\ pc' \in {"settle", "transform"}
          /\ pc' = "settle" => StageList = <<>>
          /\ done' = {} /\ next' = 1
          /\ UNCHANGED <<facts, batch, frame, stage, failed, stageFilter>>
      BY <1>4 DEF EnterStage, stores, run
    <2>2. stage \in DOMAIN Stages
      BY <1>0, <1>4, StagesAssumption DEF EnterStage, StagesAssumption
    <2>3. StageList \in Seq(Transforms)
      BY <2>2, ConfigType DEF StageList
    <2>4. LoadsBehind' => LoadsBehind
      <3>1. ASSUME NEW i \in DOMAIN Stages, NEW k \in DOMAIN Stages[i].transforms,
                   Through(i, k)'
            PROVE  Through(i, k)
        <4>1. i = stage => StageList # <<>> /\ k \in Nat \ {0}
          BY <2>3 DEF StageList
        <4>2. \/ i < stage
              \/ i = stage /\ pc' = "settle"
              \/ i = stage /\ k < 1
          BY <2>1, <3>1 DEF Through
        <4>3. i < stage
          BY <2>1, <4>1, <4>2
        <4> QED
          BY <2>1, <3>1, <4>3 DEF Through, Selected
      <3> QED
        BY <3>1 DEF LoadsBehind
    <2>5. ~failed' /\ LoadsBehind' => Landed'
      BY <2>1, <2>4 DEF LoadInv, Landed, Running, Attempting
    <2> QED
      BY <2>1, <2>5 DEF LoadInv, Ending
  <1>5. CASE StageNotCounted \/ RulesRaise \/ StageFails
    <2>1. failed' /\ pc' = "lineage"
      BY <1>5 DEF StageNotCounted, RulesRaise, StageFails, Halt
    <2> QED
      BY <2>1 DEF LoadInv, Attempting
  <1>6. CASE StagesExhausted \/ PersistLineage \/ WriteRunMetadata
    <2>1. /\ pc \in Running \ Attempting /\ pc' \in Running \ Attempting
          /\ pc = "stage" \/ pc \in Ending
          /\ UNCHANGED <<facts, batch, frame, stage, failed, stageFilter>>
      BY <1>6 DEF StagesExhausted, PersistLineage, WriteRunMetadata, stores, run,
         Running, Attempting, Ending
    <2>2. ~failed => stage = Len(Stages) + 1
      <3>1. CASE StagesExhausted
        BY <1>0, <3>1 DEF StagesExhausted
      <3>2. CASE PersistLineage \/ WriteRunMetadata
        BY <3>2 DEF PersistLineage, WriteRunMetadata, LoadInv, Ending
      <3> QED
        BY <1>6, <3>1, <3>2
    <2>3. ~failed' /\ LoadsBehind' => LoadsBehind
      BY <2>1, <2>2, LoadEnd
    <2> QED
      BY <2>1, <2>2, <2>3, LoadOutside
  <1>7. CASE StageSucceeds \/ RunRules
    <2>1. /\ pc \in {"settle", "checkpoint"} /\ pc' \in {"checkpoint", "score"}
          /\ UNCHANGED <<facts, batch, frame, stage, failed, stageFilter>>
      BY <1>7 DEF StageSucceeds, RunRules, stores, run
    <2>2. LoadsBehind' => LoadsBehind
      BY <2>1 DEF LoadsBehind, Through, Selected, Attempting
    <2> QED
      BY <2>1, <2>2, LoadOutside DEF Running, Attempting, Ending
  <1>8. CASE DeleteFacts \/ InsertFacts
    BY <1>8, LoadWrites
  <1>9. CASE AttemptSucceeds
    BY <1>9, LoadThrough
  <1>10. CASE DivertRows \/ EmitLineage \/ AttemptFails \/ AttemptNotCounted
              \/ DeadLetterFrame \/ DeadLetterLost \/ Retry
    <2>1. /\ pc \in Attempting /\ pc' \in Attempting
          /\ UNCHANGED <<facts, batch, frame, stage, next, failed, stageFilter>>
          /\ done' = {} \/ done' = done \/ done' = done \union {"divert"}
      BY <1>10 DEF DivertRows, WriteDlq, EmitLineage, AttemptFails, AttemptNotCounted,
         DeadLetterFrame, DeadLetterLost, Retry, stores, run, place, Attempting
    <2> QED
      BY <2>1, LoadInside
  <1>11. CASE SkipCheckpoint \/ UnruledCheckpoint \/ WriteScore
    <2>1. /\ pc \in {"checkpoint", "score"} /\ pc' = "stage" /\ stage' = stage + 1
          /\ UNCHANGED <<facts, batch, frame, failed, stageFilter>>
      BY <1>11 DEF SkipCheckpoint, UnruledCheckpoint, WriteScore, NextStage, stores, run
    <2>2. LoadsBehind' => LoadsBehind
      <3>1. \A i \in DOMAIN Stages : i < stage + 1 => i < stage \/ i = stage
        BY <1>0, StagesAssumption DEF StagesAssumption
      <3> QED
        BY <2>1, <3>1 DEF LoadsBehind, Through, Selected, Attempting
    <2> QED
      BY <2>1, <2>2, LoadOutside DEF Running, Attempting, Ending
  <1>12. CASE FinishRun
    <2>1. /\ pc = "finish" /\ pc' = "idle"
          /\ outcome' = "returned" => ~failed
          /\ UNCHANGED <<dlqRows, facts, batch, input, frame, out, stage, failed,
                         stageFilter>>
      BY <1>12 DEF FinishRun, stores
    <2>2. ~failed => stage = Len(Stages) + 1
      BY <2>1 DEF LoadInv, Ending
    <2>3. ~failed /\ LoadsBehind' => Landed'
      <3>1. ~failed /\ LoadsBehind => Landed
        BY <2>1 DEF LoadInv, Running, Attempting
      <3>2. Landed' <=> Landed
        BY <2>1 DEF Landed
      <3> QED
        BY <2>1, <2>2, <3>1, <3>2, LoadEnd
    <2>4. \A r \in input' : r \in frame' \/ Diverted(r)'
      BY <2>1 DEF FrameInv, NoRowVanishes, Diverted, Running
    <2> QED
      BY <2>1, <2>2, <2>3, <2>4 DEF LoadInv, Attempting, Ending, Running
  <1>13. CASE Tick \/ OpenReader \/ CloseReader \/ UNCHANGED vars
    <2>1. UNCHANGED <<dlqRows, facts, run, place>>
      BY <1>13 DEF Tick, OpenReader, CloseReader, vars, stores
    <2>2. UNCHANGED <<dlqRows, facts, batch, input, frame, failed, outcome,
                      stageFilter, pc, stage, next, done>>
      BY <2>1 DEF run, place
    <2>3. /\ LoadsBehind' <=> LoadsBehind
          /\ Landed' <=> Landed
          /\ Current' = Current
          /\ \A r \in input : Diverted(r)' <=> Diverted(r)
      BY <2>2 DEF LoadsBehind, Through, Selected, Landed, Current, StageList, Diverted
    <2> QED
      BY <2>2, <2>3 DEF LoadInv
  <1> QED
    BY <1>1, <1>2, <1>3, <1>4, <1>5, <1>6, <1>7, <1>8, <1>9, <1>10, <1>11, <1>12, <1>13
       DEF Next, RunStep, EnvStep, StageStep, AttemptStep, DqStep, EndStep

\* Whatever attempts failed, were retried or rewrote the table on the way: when
\* Pipeline.run returns and a load was among its transforms, every row of the
\* input is in fact_trades under this batch, or was diverted to the DLQ.
THEOREM ReturnedBatchLanded == Spec => []CompletedBatchLanded
  <1>1. Init => FrameInv /\ LoadInv
    BY DEF Init, FrameInv, NoRowVanishes, LoadInv, Running, Attempting, Ending
  <1>2. TypeOK /\ LoadInv => CompletedBatchLanded
    <2> SUFFICES ASSUME TypeOK, LoadInv, pc = "idle", outcome = "returned",
                        Executed \intersect Loading # {}, NEW r \in input
                 PROVE  facts[r] = batch \/ Diverted(r)
      BY DEF CompletedBatchLanded
    <2>1. PICK i \in DOMAIN Stages : \E k \in DOMAIN Stages[i].transforms :
             Selected(i) /\ Stages[i].transforms[k] \in Loading
      BY DEF Executed
    <2>2. i < stage
      BY StagesAssumption DEF StagesAssumption, LoadInv
    <2>3. LoadsBehind
      BY <2>1, <2>2 DEF LoadsBehind, Through
    <2>4. Landed /\ (r \in frame \/ Diverted(r))
      BY <2>3 DEF LoadInv
    <2> QED
      BY <2>4 DEF Landed
  <1> QED
    BY <1>1, <1>2, FrameStep, LoadStep, TypeCorrect, PTL DEF Spec

-----------------------------------------------------------------------------
(* A run that returns is recorded *)

\* pipeline_runs says that stage i of the batch succeeded
Recorded(i) ==
    \E k \in DOMAIN pipelineRuns :
        /\ pipelineRuns[k].batch = batch
        /\ pipelineRuns[k].stage = Stages[i].name
        /\ pipelineRuns[k].status = "SUCCESS"

\* The strengthening: without a dashboard nothing locks the file, a run that
\* ends without a failure has a success of every selected stage to write, and
\* they are written before it returns.
RecordInv ==
    /\ ~reading
    /\ pc \in Ending /\ ~failed => \A i \in DOMAIN Stages : Selected(i) => Succeeded(i)
    /\ (pc = "finish" /\ ~failed) \/ (pc = "idle" /\ outcome = "returned") =>
          \A i \in DOMAIN Stages : Selected(i) => Recorded(i)

LEMMA RecordStep ==
  ASSUME ~Dashboard
  PROVE  TypeOK /\ PlaceOK /\ StagesInv /\ RecordInv /\ [Next]_vars => RecordInv'
  <1> SUFFICES ASSUME TypeOK, PlaceOK, StagesInv, RecordInv, [Next]_vars
               PROVE  RecordInv'
    OBVIOUS
  <1>0. ~reading'
    BY DEF RecordInv, Next, RunStep, EnvStep, StageStep, AttemptStep, DqStep, EndStep,
       StartProcess, StartRun, StopProcess, SkipStage, EnterStage, UnknownTransform,
       StageNotCounted, StagesExhausted, StageSucceeds, StageFails, DivertRows,
       DeleteFacts, InsertFacts, EmitLineage, AttemptSucceeds, AttemptFails,
       AttemptNotCounted, DeadLetterFrame, DeadLetterLost, Retry, SkipCheckpoint,
       UnruledCheckpoint, RunRules, RulesRaise, WriteScore, PersistLineage,
       WriteRunMetadata, FinishRun, Tick, OpenReader, CloseReader, env, vars
  <1>1. CASE StagesExhausted
    <2>1. /\ pc = "stage" /\ pc' = "lineage" /\ stage > Len(Stages)
          /\ UNCHANGED <<results, stageFilter, failed>>
      BY <1>1 DEF StagesExhausted, run
    <2>2. ASSUME NEW i \in DOMAIN Stages, Selected(i) PROVE Succeeded(i)
      <3>1. i \in 1 .. stage - 1
        BY <2>1, StagesAssumption DEF StagesAssumption, TypeOK, PlaceType
      <3> QED
        BY <2>1, <2>2, <3>1 DEF StagesInv, StagesBehind, Passed, Running
    <2> QED
      BY <1>0, <2>1, <2>2 DEF RecordInv, Succeeded, Selected
  <1>2. CASE PersistLineage
    <2>1. /\ pc = "lineage" /\ pc' = "metadata"
          /\ UNCHANGED <<results, stageFilter, failed>>
      BY <1>2 DEF PersistLineage, run
    <2> QED
      BY <1>0, <2>1 DEF RecordInv, Succeeded, Selected, Ending
  <1>3. CASE WriteRunMetadata
    <2>1. /\ pc = "metadata" /\ pc' = "finish"
          /\ pipelineRuns' = pipelineRuns \o RunRows
          /\ UNCHANGED <<batch, results, stageFilter, failed>>
      BY <1>3 DEF WriteRunMetadata, RecordInv, run
    <2>2. pipelineRuns \in Seq(RowType) /\ RunRows \in Seq(RowType)
      BY <2>1, RunRowsTyped DEF TypeOK, StoresType
    <2>3. ASSUME ~failed, NEW i \in DOMAIN Stages, Selected(i) PROVE Recorded(i)'
      <3>1. PICK k \in DOMAIN results :
               results[k].stage = Stages[i].name /\ results[k].status = "SUCCESS"
        BY <2>1, <2>3 DEF RecordInv, Succeeded, Ending
      <3>2. /\ k \in DOMAIN RunRows
            /\ RunRows[k].batch = batch
            /\ RunRows[k].stage = Stages[i].name
            /\ RunRows[k].status = "SUCCESS"
        BY <3>1 DEF RunRows
      <3>3. /\ Len(pipelineRuns) + k \in DOMAIN pipelineRuns'
            /\ pipelineRuns'[Len(pipelineRuns) + k] = RunRows[k]
        BY <2>1, <2>2, <3>2
      <3> QED
        BY <2>1, <3>2, <3>3 DEF Recorded
    <2> QED
      BY <1>0, <2>1, <2>3 DEF RecordInv, Succeeded, Selected, Ending
  <1>4. CASE FinishRun
    <2>1. /\ pc = "finish" /\ pc' = "idle"
          /\ outcome' = "returned" => ~failed
          /\ UNCHANGED <<pipelineRuns, batch, stageFilter>>
      BY <1>4 DEF FinishRun, stores
    <2> QED
      BY <1>0, <2>1 DEF RecordInv, Recorded, Selected, Ending
  <1>5. CASE StageNotCounted \/ StageFails \/ RulesRaise
    <2>1. failed' /\ pc' = "lineage"
      BY <1>5 DEF StageNotCounted, StageFails, RulesRaise, Halt
    <2> QED
      BY <1>0, <2>1 DEF RecordInv
  <1>6. CASE StartProcess \/ StartRun \/ StopProcess \/ UnknownTransform
    <2>1. /\ pc' \in {"down", "idle", "stage"}
          /\ outcome' # "returned"
      BY <1>6 DEF StartProcess, StartRun, StopProcess, UnknownTransform
    <2> QED
      BY <1>0, <2>1 DEF RecordInv, Ending
  <1>7. CASE SkipStage \/ EnterStage \/ StageSucceeds \/ AttemptStep \/ SkipCheckpoint
             \/ UnruledCheckpoint \/ RunRules \/ WriteScore
    <2>1. pc' \in Walking
      BY <1>7 DEF SkipStage, EnterStage, StageSucceeds, AttemptStep, DivertRows,
         DeleteFacts, InsertFacts, EmitLineage, AttemptSucceeds, AttemptFails,
         AttemptNotCounted, DeadLetterFrame, DeadLetterLost, Retry, SkipCheckpoint,
         UnruledCheckpoint, RunRules, WriteScore, NextStage, place, Walking, Running
    <2> QED
      BY <1>0, <2>1 DEF RecordInv, Walking, Running, Ending
  <1>8. CASE Tick \/ OpenReader \/ CloseReader \/ UNCHANGED vars
    <2>1. UNCHANGED <<pipelineRuns, run, place>>
      BY <1>8 DEF Tick, OpenReader, CloseReader, vars, stores
    <2>2. UNCHANGED <<pipelineRuns, batch, stageFilter, results, failed, outcome, pc>>
      BY <2>1 DEF run, place
    <2> QED
      BY <1>0, <2>2 DEF RecordInv, Recorded, Succeeded, Selected
  <1> QED
    BY <1>1, <1>2, <1>3, <1>4, <1>5, <1>6, <1>7, <1>8
       DEF Next, RunStep, EnvStep, StageStep, DqStep, EndStep

\* Where no dashboard locks the file, a run that returns normally has a SUCCESS
\* row in pipeline_runs for each stage it was asked to run.
THEOREM ReturnedRunRecorded ==
  ASSUME ~Dashboard
  PROVE  Spec => []ReturnedRunIsRecorded
  <1>1. Init => StagesInv /\ RecordInv
    BY DEF Init, StagesInv, StagesBehind, RecordInv, Running, Ending
  <1>2. RecordInv => ReturnedRunIsRecorded
    BY DEF RecordInv, ReturnedRunIsRecorded, Recorded
  <1>3. TypeOK /\ PlaceOK /\ StagesInv /\ RecordInv /\ [Next]_vars => RecordInv'
    BY RecordStep
  <1> QED
    BY <1>1, <1>2, <1>3, StagesStep, TypeCorrect, PTL DEF Spec

=============================================================================
