------------------------------ MODULE Pipeline ------------------------------
(***************************************************************************)
(* One pipeline process (etl/framework.py, etl/error_handler.py) and the   *)
(* two stores it writes: the dead-letter Parquet tree and the DuckDB file. *)
(*                                                                         *)
(* A process builds a Pipeline (StartProcess), then runs one or more       *)
(* batches with it (StartRun .. FinishRun).  A batch walks the configured  *)
(* stages; a stage walks its transforms, each retried up to MaxAttempts    *)
(* times; a settled stage is followed by its data-quality checkpoint; the  *)
(* run ends by persisting its lineage and its stage results.  Everything   *)
(* in memory is lost in a crash; the two stores are not.                   *)
(*                                                                         *)
(* A row stands for one trade of the input (rows have distinct trade_ids;  *)
(* duplicates inside a batch belong to the clean stage's own model).       *)
(* DuckDB admits one writing process: while a dashboard page holds the     *)
(* file open for reading, the pipeline's connect raises.                   *)
(***************************************************************************)
EXTENDS Naturals, Sequences, FiniteSets

CONSTANTS
    Rows,          \* trades an input file may hold
    Transforms,    \* names a stage may list
    Registered,    \* the names TRANSFORM_REGISTRY resolves
    Diverting,     \* transforms that send single rows to the DLQ (TypeCast, Dedup)
    Loading,       \* transforms that write the star schema (WriteStarSchema)
    Stages,        \* config["pipeline"]["stages"]: [name, transforms, checkpoint]
    NoCheckpoint,  \* a stage without "checkpoint"
    AllStages,     \* stage_filter = None
    Ruled,         \* checkpoints for which rules_config.yaml has rules
    Raising,       \* checkpoints holding a rule whose error path raises
    MaxAttempts,   \* retry.max_attempts
    Dashboard,     \* does a dashboard read the DuckDB file?
    MaxRuns,       \* bound: runs started
    MaxClock       \* bound: seconds that pass

StageNames  == {Stages[i].name : i \in DOMAIN Stages}
Checkpoints == {Stages[i].checkpoint : i \in DOMAIN Stages} \ {NoCheckpoint}
Batches     == 1 .. MaxClock
NoBatch     == 0

ASSUME RowsAssumption == IsFiniteSet(Rows)

StageType   == [name : StageNames, transforms : Seq(Transforms),
                checkpoint : Checkpoints \union {NoCheckpoint}]

ASSUME StagesAssumption == Stages \in Seq(StageType)

ASSUME NamesAssumption ==
    /\ \A i, j \in DOMAIN Stages : Stages[i].name = Stages[j].name => i = j
    /\ AllStages \notin StageNames

ASSUME TransformsAssumption ==
    /\ Registered \subseteq Transforms
    /\ Diverting \subseteq Transforms
    /\ Loading \subseteq Transforms
    /\ Diverting \intersect Loading = {}
    /\ NoCheckpoint \notin Ruled

ASSUME BoundsAssumption ==
    /\ MaxAttempts \in Nat \ {0}     \* RetryHandler rejects max_attempts < 1
    /\ MaxRuns \in Nat
    /\ MaxClock \in Nat \ {0}
    /\ Dashboard \in BOOLEAN

VARIABLES
    \* --- durable: the dead-letter tree and the DuckDB file
    dlqRows,       \* {<<batch, transform, row, reason>>} readable from the tree
    dlqSize,       \* per batch, records written to the tree, copies included
    facts,         \* fact_trades: row -> batch that loaded it, or NoBatch
    violations,    \* {<<batch, checkpoint>>} with rows in dq_violations
    scores,        \* {<<batch, checkpoint, violated>>} rows of dq_scores
    lineageEdges,  \* {<<batch, transform>>} with rows in lineage_edges
    pipelineRuns,  \* pipeline_runs, in insertion order
    dqTables,      \* does the file have the table dq_violations?
    \* --- the Pipeline object of the live process
    dlqCount,      \* DeadLetterQueue._counts
    dqEngine,      \* was the rules engine built?
    \* --- the current (or last) run: BatchMeta, LineageTracker and locals
    batch, stageFilter, input, frame, results, dqResults, edges, failed,
    outcome,       \* how Pipeline.run ended
    \* --- where the run is
    pc, stage, next, attempt,
    done,          \* effects the current attempt has already had
    out,           \* the frame the current attempt is producing
    found,         \* did the checkpoint's rules report violations?
    \* --- environment
    clock, runs, reading

stores  == <<dlqRows, dlqSize, facts, violations, scores, lineageEdges, pipelineRuns,
             dqTables>>
process == <<dlqCount, dqEngine>>
run     == <<batch, stageFilter, input, frame, results, dqResults, edges, failed, outcome>>
place   == <<pc, stage, next, attempt, done, out, found>>
env     == <<clock, runs, reading>>
vars    == <<stores, process, run, place, env>>

Reasons  == {"row", "batch"}    \* one row diverted / the whole frame of a failed attempt
Outcomes == {"none", "returned", "failed", "escaped", "noinput"}
Running  == {"stage", "transform", "deadletter", "retry", "settle", "checkpoint",
             "score", "lineage", "metadata", "finish"}

Selected(i)   == stageFilter \in {AllStages, Stages[i].name}
StageList     == Stages[stage].transforms
Current       == StageList[next]
Checkpoint    == Stages[stage].checkpoint

Init ==
    /\ dlqRows = {} /\ violations = {} /\ scores = {} /\ lineageEdges = {}
    /\ dlqSize = [b \in Batches |-> 0]
    /\ facts = [r \in Rows |-> NoBatch]
    /\ pipelineRuns = <<>> /\ dqTables = FALSE
    /\ dlqCount = [b \in Batches |-> 0] /\ dqEngine = FALSE
    /\ batch = NoBatch /\ stageFilter = AllStages /\ input = {} /\ frame = {}
    /\ results = <<>> /\ dqResults = {} /\ edges = {} /\ failed = FALSE
    /\ outcome = "none"
    /\ pc = "down" /\ stage = 1 /\ next = 1 /\ attempt = 1
    /\ done = {} /\ out = {} /\ found = FALSE
    /\ clock = 1 /\ runs = 0 /\ reading = FALSE

-----------------------------------------------------------------------------
(* Process and run boundaries *)

\* Pipeline.__init__: a fresh DeadLetterQueue, and a rules engine unless its
\* constructor raised or dq.enabled is false.  The engine's logger creates the
\* DQ tables, and goes on without them when it cannot.
StartProcess ==
    /\ pc = "down" /\ runs < MaxRuns
    /\ dlqCount' = [b \in Batches |-> 0]
    /\ dqEngine' \in BOOLEAN
    /\ dqTables' = (dqTables \/ (dqEngine' /\ ~reading))
    /\ pc' = "idle"
    /\ outcome' = "none"
    /\ UNCHANGED <<dlqRows, dlqSize, facts, violations, scores, lineageEdges, pipelineRuns,
                   batch, stageFilter, input, frame, results, dqResults,
                   edges, failed, stage, next, attempt, done, out, found, env>>

\* Pipeline.run up to the stage loop: BatchMeta.new takes the clock's second
\* as the batch id, the tracker is new, _read_input gives the first frame.
StartRun ==
    /\ pc = "idle" /\ runs < MaxRuns
    /\ runs' = runs + 1
    /\ batch' = clock
    /\ stageFilter' \in StageNames \union {AllStages}
    /\ results' = <<>> /\ dqResults' = {} /\ edges' = {} /\ failed' = FALSE
    /\ done' = {} /\ stage' = 1 /\ next' = 1 /\ attempt' = 1 /\ found' = FALSE
    /\ \/ \E rows \in SUBSET Rows :
              /\ input' = rows /\ frame' = rows /\ out' = rows
              /\ outcome' = "none" /\ pc' = "stage"
       \/ /\ input' = {} /\ frame' = {} /\ out' = {}     \* FileNotFoundError
          /\ outcome' = "noinput" /\ pc' = "idle"
    /\ UNCHANGED <<stores, process, clock, reading>>

\* The process exits after a run, or dies anywhere; its memory goes with it.
StopProcess ==
    /\ pc # "down"
    /\ pc' = "down"
    /\ dlqCount' = [b \in Batches |-> 0] /\ dqEngine' = FALSE
    /\ batch' = NoBatch /\ stageFilter' = AllStages /\ input' = {} /\ frame' = {}
    /\ results' = <<>> /\ dqResults' = {} /\ edges' = {} /\ failed' = FALSE
    /\ outcome' = "none"
    /\ stage' = 1 /\ next' = 1 /\ attempt' = 1
    /\ done' = {} /\ out' = {} /\ found' = FALSE
    /\ UNCHANGED <<stores, env>>

-----------------------------------------------------------------------------
(* The stage loop of Pipeline.run and StageRunner.run *)

\* records a StageResult; meta.stage_results keeps insertion order
Result(status) ==
    [stage |-> Stages[stage].name, status |-> status, dead |-> dlqCount[batch]]

Halt ==
    /\ failed' = TRUE
    /\ pc' = "lineage"

SkipStage ==
    /\ pc = "stage" /\ stage <= Len(Stages) /\ ~Selected(stage)
    /\ stage' = stage + 1
    /\ UNCHANGED <<stores, process, run, pc, next, attempt, done, out, found, env>>

\* _instantiate_transforms succeeds and records_in = df.count() does too.
EnterStage ==
    /\ pc = "stage" /\ stage <= Len(Stages) /\ Selected(stage)
    /\ \A k \in DOMAIN StageList : StageList[k] \in Registered
    /\ next' = 1 /\ attempt' = 1 /\ done' = {} /\ out' = frame
    /\ pc' = IF StageList = <<>> THEN "settle" ELSE "transform"
    /\ UNCHANGED <<stores, process, run, stage, found, env>>

\* A name the registry lacks raises outside the try: nothing is persisted.
UnknownTransform ==
    /\ pc = "stage" /\ stage <= Len(Stages) /\ Selected(stage)
    /\ \E k \in DOMAIN StageList : StageList[k] \notin Registered
    /\ outcome' = "escaped" /\ pc' = "idle"
    /\ UNCHANGED <<stores, process, batch, stageFilter, input, frame, results, dqResults,
                   edges, failed, stage, next, attempt, done, out, found, env>>

\* Mutant: the exception is logged and the loop goes on.
StageNotCounted_NoBreak ==
    /\ pc = "stage" /\ stage <= Len(Stages) /\ Selected(stage)
    /\ stage' = stage + 1
    /\ UNCHANGED <<stores, process, run, pc, next, attempt, done, out, found, env>>

\* df.count() at the top of StageRunner.run raises: no StageResult is made.
StageNotCounted ==
    /\ pc = "stage" /\ stage <= Len(Stages) /\ Selected(stage)
    /\ \A k \in DOMAIN StageList : StageList[k] \in Registered
    /\ Halt
    /\ UNCHANGED <<stores, process, batch, stageFilter, input, frame, results, dqResults,
                   edges, outcome, stage, next, attempt, done, out, found, env>>

StagesExhausted ==
    /\ pc = "stage" /\ stage > Len(Stages)
    /\ pc' = "lineage"
    /\ UNCHANGED <<stores, process, run, stage, next, attempt, done, out, found, env>>

\* Mutant: a stage that ends up with an empty frame is not recorded.
StageSucceeds_EmptyUnrecorded ==
    /\ pc = "settle"
    /\ results' = IF frame = {} THEN results ELSE Append(results, Result("SUCCESS"))
    /\ pc' = "checkpoint"
    /\ UNCHANGED <<stores, process, batch, stageFilter, input, frame, dqResults, edges,
                   failed, outcome, stage, next, attempt, done, out, found, env>>

\* All transforms of the stage are through.
StageSucceeds ==
    /\ pc = "settle"
    /\ results' = Append(results, Result("SUCCESS"))
    /\ pc' = "checkpoint"
    /\ UNCHANGED <<stores, process, batch, stageFilter, input, frame, dqResults, edges,
                   failed, outcome, stage, next, attempt, done, out, found, env>>

\* Mutant: the FAILED stage is recorded, but the loop goes on.
StageFails_NoBreak ==
    /\ \/ pc = "settle"
       \/ pc = "retry" /\ attempt >= MaxAttempts
    /\ results' = Append(results, Result("FAILED"))
    /\ stage' = stage + 1 /\ pc' = "stage"
    /\ UNCHANGED <<stores, process, batch, stageFilter, input, frame, dqResults, edges,
                   failed, outcome, next, attempt, done, out, found, env>>

\* Retries are exhausted, or the closing df.count() raises.
StageFails ==
    /\ \/ pc = "settle"
       \/ pc = "retry" /\ attempt >= MaxAttempts
    /\ results' = Append(results, Result("FAILED"))
    /\ Halt
    /\ UNCHANGED <<stores, process, batch, stageFilter, input, frame, dqResults, edges,
                   outcome, stage, next, attempt, done, out, found, env>>

-----------------------------------------------------------------------------
(* One attempt of one transform: RetryHandler.execute_with_retry around    *)
(* BaseTransform.execute                                                   *)

\* DeadLetterQueue.write: the Parquet append, then the in-memory counter.
WriteDlq(rows, reason) ==
    /\ dlqRows' = dlqRows \union {<<batch, Current, r, reason>> : r \in rows}
    /\ dlqSize' = [dlqSize EXCEPT ![batch] = @ + Cardinality(rows)]
    /\ dlqCount' = [dlqCount EXCEPT ![batch] = @ + Cardinality(rows)]

\* Mutant: the bad rows are dropped though the DLQ write did not happen.
DivertRows_Unwritten ==
    /\ pc = "transform" /\ Current \in Diverting /\ "divert" \notin done
    /\ \E bad \in SUBSET frame \ {{}} : out' = frame \ bad
    /\ done' = done \union {"divert"}
    /\ UNCHANGED <<stores, process, run, pc, stage, next, attempt, found, env>>

\* TypeCast and Dedup write bad rows to the DLQ and drop them from the frame
\* they return.
DivertRows ==
    /\ pc = "transform" /\ Current \in Diverting /\ "divert" \notin done
    /\ \E bad \in SUBSET frame \ {{}} :
          /\ WriteDlq(bad, "row")
          /\ out' = frame \ bad
    /\ done' = done \union {"divert"}
    /\ UNCHANGED <<facts, violations, scores, lineageEdges, pipelineRuns, dqTables, dqEngine,
                   run, pc, stage, next, attempt, found, env>>

\* WriteStarSchema: two autocommitted statements on one connection.
DeleteFacts ==
    /\ pc = "transform" /\ Current \in Loading /\ frame # {}
    /\ "delete" \notin done /\ ~reading
    /\ facts' = [r \in Rows |-> IF r \in frame THEN NoBatch ELSE facts[r]]
    /\ done' = done \union {"delete"}
    /\ UNCHANGED <<dlqRows, dlqSize, violations, scores, lineageEdges, pipelineRuns, dqTables,
                   process, run, pc, stage, next, attempt, out, found, env>>

InsertFacts ==
    /\ pc = "transform" /\ "delete" \in done /\ "insert" \notin done
    /\ facts' = [r \in Rows |-> IF r \in frame THEN batch ELSE facts[r]]
    /\ done' = done \union {"insert"}
    /\ UNCHANGED <<dlqRows, dlqSize, violations, scores, lineageEdges, pipelineRuns, dqTables,
                   process, run, pc, stage, next, attempt, out, found, env>>

\* tracker.emit for those of the transform's columns that the frame has, so
\* maybe for none; the load emits only when the insert is done.
EmitLineage ==
    /\ pc = "transform" /\ Current \notin edges
    /\ Current \in Loading => "insert" \in done
    /\ edges' = edges \union {Current}
    /\ UNCHANGED <<stores, process, batch, stageFilter, input, frame, results, dqResults,
                   failed, outcome, place, env>>

\* Mutant: WriteStarSchema logs its exception and returns the frame.
AttemptSucceeds_LoadSwallowed ==
    /\ pc = "transform"
    /\ frame' = out
    /\ next' = next + 1 /\ attempt' = 1 /\ done' = {}
    /\ pc' = IF next = Len(StageList) THEN "settle" ELSE "transform"
    /\ UNCHANGED <<stores, process, batch, stageFilter, input, results, dqResults, edges,
                   failed, outcome, stage, out, found, env>>

\* execute returns: the produced frame replaces df, the next transform starts.
AttemptSucceeds ==
    /\ pc = "transform"
    /\ Current \in Loading /\ frame # {} => "insert" \in done
    /\ frame' = out
    /\ next' = next + 1 /\ attempt' = 1 /\ done' = {}
    /\ pc' = IF next = Len(StageList) THEN "settle" ELSE "transform"
    /\ UNCHANGED <<stores, process, batch, stageFilter, input, results, dqResults, edges,
                   failed, outcome, stage, out, found, env>>

\* _transform, or the count of its result, raises: execute's handler runs.
AttemptFails ==
    /\ pc = "transform"
    /\ pc' = "deadletter"
    /\ UNCHANGED <<stores, process, run, stage, next, attempt, done, out, found, env>>

\* df.count() ahead of the try raises: the attempt fails without a dead letter.
AttemptNotCounted ==
    /\ pc = "transform" /\ done = {}
    /\ pc' = "retry"
    /\ UNCHANGED <<stores, process, run, stage, next, attempt, done, out, found, env>>

\* The handler routes the whole input frame of the attempt to the DLQ.
DeadLetterFrame ==
    /\ pc = "deadletter"
    /\ WriteDlq(frame, "batch")
    /\ pc' = "retry"
    /\ UNCHANGED <<facts, violations, scores, lineageEdges, pipelineRuns, dqTables, dqEngine,
                   run, stage, next, attempt, done, out, found, env>>

\* Mutant: the counter is raised before the Parquet write.
DeadLetterLost_Counted ==
    /\ pc = "deadletter" /\ frame # {}
    /\ dlqCount' = [dlqCount EXCEPT ![batch] = @ + Cardinality(frame)]
    /\ pc' = "retry"
    /\ UNCHANGED <<stores, dqEngine, run, stage, next, attempt, done, out, found, env>>

\* The Parquet write raises in turn: nothing stored, nothing counted.
DeadLetterLost ==
    /\ pc = "deadletter" /\ frame # {}
    /\ pc' = "retry"
    /\ UNCHANGED <<stores, process, run, stage, next, attempt, done, out, found, env>>

\* Mutant: attempts are numbered from 0 to max_attempts.
Retry_OneTooMany ==
    /\ pc = "retry" /\ attempt <= MaxAttempts
    /\ attempt' = attempt + 1 /\ done' = {} /\ out' = frame
    /\ pc' = "transform"
    /\ UNCHANGED <<stores, process, run, stage, next, found, env>>

\* Mutant: the attempt number is not advanced.
Retry_Endless ==
    /\ pc = "retry" /\ attempt < MaxAttempts
    /\ done' = {} /\ out' = frame
    /\ pc' = "transform"
    /\ UNCHANGED <<stores, process, run, stage, next, attempt, found, env>>

\* The next attempt starts over from the frame the transform was given.
Retry ==
    /\ pc = "retry" /\ attempt < MaxAttempts
    /\ attempt' = attempt + 1 /\ done' = {} /\ out' = frame
    /\ pc' = "transform"
    /\ UNCHANGED <<stores, process, run, stage, next, found, env>>

-----------------------------------------------------------------------------
(* _run_dq_checkpoint and DQRulesEngine.run_checkpoint *)

NextStage ==
    /\ stage' = stage + 1
    /\ pc' = "stage"

SkipCheckpoint ==
    /\ pc = "checkpoint" /\ (Checkpoint = NoCheckpoint \/ ~dqEngine)
    /\ NextStage
    /\ UNCHANGED <<stores, process, run, next, attempt, done, out, found, env>>

\* No rules for this checkpoint: an empty result, and no score row.
UnruledCheckpoint ==
    /\ pc = "checkpoint" /\ dqEngine /\ Checkpoint # NoCheckpoint
    /\ Checkpoint \notin Ruled
    /\ dqResults' = dqResults \union {Checkpoint}
    /\ NextStage
    /\ UNCHANGED <<stores, process, batch, stageFilter, input, frame, results, edges,
                   failed, outcome, next, attempt, done, out, found, env>>

\* The rules run; their violations go to DuckDB, or are lost with a logged error.
RunRules ==
    /\ pc = "checkpoint" /\ dqEngine /\ Checkpoint \in Ruled
    /\ found' \in BOOLEAN
    /\ violations' = IF found' /\ ~reading /\ dqTables
                     THEN violations \union {<<batch, Checkpoint>>} ELSE violations
    /\ pc' = "score"
    /\ UNCHANGED <<dlqRows, dlqSize, facts, scores, lineageEdges, pipelineRuns, dqTables,
                   process, run, stage, next, attempt, done, out, env>>

\* A rule's error path raises: the stage has its SUCCESS, the pipeline halts.
RulesRaise ==
    /\ pc = "checkpoint" /\ dqEngine /\ Checkpoint \in Ruled \intersect Raising
    /\ Halt
    /\ UNCHANGED <<stores, process, batch, stageFilter, input, frame, results, dqResults,
                   edges, outcome, stage, next, attempt, done, out, found, env>>

\* write_score on a connection of its own; dq_scores is also made by the star
\* schema's script, so it may be there without the other table.
WriteScore ==
    /\ pc = "score"
    /\ \/ ~reading /\ scores' = scores \union {<<batch, Checkpoint, found>>}
       \/ (reading \/ ~dqTables) /\ UNCHANGED scores
    /\ dqResults' = dqResults \union {Checkpoint}
    /\ NextStage
    /\ UNCHANGED <<dlqRows, dlqSize, facts, violations, lineageEdges, pipelineRuns, dqTables,
                   process, batch, stageFilter, input, frame, results, edges, failed,
                   outcome, next, attempt, done, out, found, env>>

-----------------------------------------------------------------------------
(* The end of Pipeline.run *)

PersistLineage ==
    /\ pc = "lineage"
    /\ lineageEdges' = IF reading THEN lineageEdges
                                  ELSE lineageEdges \union ({batch} \X edges)
    /\ pc' = "metadata"
    /\ UNCHANGED <<dlqRows, dlqSize, facts, violations, scores, pipelineRuns, dqTables,
                   process, run, stage, next, attempt, done, out, found, env>>

\* one row of pipeline_runs per StageResult
RunRows == [k \in DOMAIN results |->
               [batch |-> batch, stage |-> results[k].stage,
                status |-> results[k].status, dead |-> results[k].dead]]

WriteRunMetadata ==
    /\ pc = "metadata"
    /\ pipelineRuns' = IF reading THEN pipelineRuns ELSE pipelineRuns \o RunRows
    /\ pc' = "finish"
    /\ UNCHANGED <<dlqRows, dlqSize, facts, violations, scores, lineageEdges, dqTables,
                   process, run, stage, next, attempt, done, out, found, env>>

\* returns meta, or raises the RuntimeError that points at pipeline_runs
FinishRun ==
    /\ pc = "finish"
    /\ outcome' = IF failed THEN "failed" ELSE "returned"
    /\ pc' = "idle"
    /\ UNCHANGED <<stores, process, batch, stageFilter, input, frame, results, dqResults,
                   edges, failed, stage, next, attempt, done, out, found, env>>

-----------------------------------------------------------------------------
(* Environment.  The clock is read by StartRun only, so it moves between   *)
(* runs.  A dashboard page opens the file for reading unless the load has  *)
(* it open for writing.                                                    *)

Tick ==
    /\ pc \in {"down", "idle"} /\ clock < MaxClock
    /\ clock' = clock + 1
    /\ UNCHANGED <<stores, process, run, place, runs, reading>>

LoadConnected == pc = "transform" /\ "delete" \in done /\ "insert" \notin done

OpenReader ==
    /\ Dashboard /\ ~reading /\ ~LoadConnected
    /\ reading' = TRUE
    /\ UNCHANGED <<stores, process, run, place, clock, runs>>

CloseReader ==
    /\ reading
    /\ reading' = FALSE
    /\ UNCHANGED <<stores, process, run, place, clock, runs>>

-----------------------------------------------------------------------------
StageStep   == SkipStage \/ EnterStage \/ UnknownTransform \/ StageNotCounted
                 \/ StagesExhausted \/ StageSucceeds \/ StageFails
AttemptStep == DivertRows \/ DeleteFacts \/ InsertFacts \/ EmitLineage
                 \/ AttemptSucceeds \/ AttemptFails \/ AttemptNotCounted
                 \/ DeadLetterFrame \/ DeadLetterLost \/ Retry
DqStep      == SkipCheckpoint \/ UnruledCheckpoint \/ RunRules \/ RulesRaise \/ WriteScore
EndStep     == PersistLineage \/ WriteRunMetadata \/ FinishRun
RunStep     == StageStep \/ AttemptStep \/ DqStep \/ EndStep
EnvStep     == StartProcess \/ StartRun \/ StopProcess \/ Tick \/ OpenReader \/ CloseReader

Next == RunStep \/ EnvStep

Spec == Init /\ [][Next]_vars

\* A live Python process keeps executing; nothing obliges anyone to start a
\* process or a run, to crash, or to open or close a dashboard page.
FairSpec == Spec /\ WF_vars(RunStep)

-----------------------------------------------------------------------------
(* Properties *)

Statuses   == {"SUCCESS", "FAILED"}
ResultType == [stage : StageNames, status : Statuses, dead : Nat]
RowType    == [batch : Batches, stage : StageNames, status : Statuses, dead : Nat]
LetterType == Batches \X Transforms \X Rows \X Reasons
Effects    == {"divert", "delete", "insert"}

StoresType ==
    /\ dlqRows \subseteq LetterType
    /\ dlqSize \in [Batches -> Nat]
    /\ facts \in [Rows -> Batches \union {NoBatch}]
    /\ violations \subseteq Batches \X Checkpoints
    /\ scores \subseteq Batches \X Checkpoints \X BOOLEAN
    /\ lineageEdges \subseteq Batches \X Transforms
    /\ pipelineRuns \in Seq(RowType)

ProcessType == dlqCount \in [Batches -> Nat]

RunType ==
    /\ batch \in Batches \union {NoBatch}
    /\ stageFilter \in StageNames \union {AllStages}
    /\ input \subseteq Rows
    /\ frame \subseteq Rows
    /\ results \in Seq(ResultType)
    /\ dqResults \subseteq Checkpoints
    /\ edges \subseteq Transforms
    /\ outcome \in Outcomes

PlaceType ==
    /\ pc \in Running \union {"down", "idle"}
    /\ stage \in 1 .. Len(Stages) + 1
    /\ next \in Nat \ {0}
    /\ attempt \in 1 .. MaxAttempts
    /\ done \subseteq Effects
    /\ out \subseteq Rows

EnvType ==
    /\ clock \in Batches
    /\ runs \in Nat

FlagsType ==
    /\ dqEngine \in BOOLEAN
    /\ dqTables \in BOOLEAN
    /\ failed \in BOOLEAN
    /\ found \in BOOLEAN
    /\ reading \in BOOLEAN

\* Every variable has its type; in particular no attempt goes beyond
\* max_attempts (RetryHandler.execute_with_retry).
TypeOK ==
    /\ StoresType
    /\ ProcessType
    /\ RunType
    /\ PlaceType
    /\ EnvType
    /\ FlagsType

\* The counters of the run point into the configuration: the transform and
\* the checkpoint in hand exist, a run has its batch id, and a process that is
\* down has no results.
PlaceOK ==
    /\ pc \in {"transform", "deadletter", "retry", "settle", "checkpoint", "score"}
          => stage \in DOMAIN Stages
    /\ pc \in {"transform", "deadletter", "retry"} => next \in DOMAIN StageList
    /\ pc = "score" => Checkpoint \in Checkpoints
    /\ pc \in Running => batch \in Batches
    /\ results # <<>> => batch \in Batches
    /\ pc = "down" => results = <<>>

\* The records_dead that a run reports, in memory and in pipeline_runs, is
\* never more than what the dead-letter tree holds for its batch: whatever was
\* counted can be read back and reprocessed, through failed DLQ writes,
\* retries, crashes, and runs that share a batch id.
DeadCountsReadable ==
    /\ \A b \in Batches : dlqCount[b] <= dlqSize[b]
    /\ \A k \in DOMAIN results : results[k].dead <= dlqCount[batch]
    /\ \A k \in DOMAIN pipelineRuns :
          pipelineRuns[k].dead <= dlqSize[pipelineRuns[k].batch]

\* row r of the current batch was diverted by a transform
Diverted(r) == \E t \in Transforms : <<batch, t, r, "row">> \in dlqRows

\* While a batch is processed, a row of its input that has left the frame is
\* in the dead-letter tree under that batch, whichever attempts failed and
\* whichever DLQ writes raised (DeadLetterQueue.write before the frame shrinks).
NoRowVanishes ==
    pc \in Running =>
        \A r \in input : r \in out \/ Diverted(r)

\* the transforms the last run had to execute
Executed == UNION {{Stages[i].transforms[k] : k \in DOMAIN Stages[i].transforms} :
                      i \in {j \in DOMAIN Stages : Selected(j)}}

\* When Pipeline.run returns normally and a load was among its transforms,
\* each row of the input is in fact_trades under this batch or was diverted.
CompletedBatchLanded ==
    pc = "idle" /\ outcome = "returned" /\ Executed \intersect Loading # {} =>
        \A r \in input : facts[r] = batch \/ Diverted(r)

Succeeded(i) == \E k \in DOMAIN results :
                    results[k].stage = Stages[i].name /\ results[k].status = "SUCCESS"

\* stage i is behind the run: it succeeded and its checkpoint was evaluated
Passed(i) ==
    /\ Succeeded(i)
    /\ dqEngine /\ Stages[i].checkpoint # NoCheckpoint
          => Stages[i].checkpoint \in dqResults

\* The run never gets ahead of its records: every selected stage before the
\* one in progress has a SUCCESS result and its checkpoint's result, a FAILED
\* result is the last one, and a run with a FAILED result has halted.
StagesBehind ==
    /\ pc \in Running \ {"lineage", "metadata", "finish"} =>
          \A i \in 1 .. stage - 1 : Selected(i) => Passed(i)
    /\ \A k \in DOMAIN results : results[k].status = "FAILED" =>
          k = Len(results) /\ failed
    /\ failed => pc \in {"lineage", "metadata", "finish", "idle"}

\* fact_trades only changes in a run that has not halted, when all selected
\* stages before the load have succeeded and their checkpoints were evaluated.
LoadBehindGates ==
    [][facts' # facts =>
          /\ ~failed
          /\ \A i \in 1 .. stage - 1 : Selected(i) => Passed(i)]_vars

\* Where no dashboard locks the file, a run that returns normally has a
\* SUCCESS row in pipeline_runs for each stage it was asked to run.
ReturnedRunIsRecorded ==
    pc = "idle" /\ outcome = "returned" =>
        \A i \in DOMAIN Stages : Selected(i) =>
            \E k \in DOMAIN pipelineRuns :
                /\ pipelineRuns[k].batch = batch
                /\ pipelineRuns[k].stage = Stages[i].name
                /\ pipelineRuns[k].status = "SUCCESS"

\* Every run ends: retries are bounded and each step moves on, so
\* Pipeline.run returns, raises, or the process dies.
RunEnds == pc \in Running ~> pc \in {"idle", "down"}

-----------------------------------------------------------------------------
(* What comments and docs say, and the code does not do *)

\* framework.py: the entire batch goes to the DLQ on failure and "downstream
\* stages will not see this data": no loaded row was dead-lettered with its frame.
DeadBatchesStayDead ==
    \A r \in Rows, t \in Transforms :
        facts[r] # NoBatch => <<facts[r], t, r, "batch">> \notin dlqRows

\* rules_config.yaml: pre_load holds the "final checks before writing to star
\* schema": when the load writes, its stage's checkpoint has been evaluated.
ChecksPrecedeLoad ==
    [][facts' # facts /\ dqEngine => Checkpoint \in dqResults]_vars

\* framework.py: the RuntimeError says "See pipeline_runs for batch=...": a
\* failed run has a FAILED row there.
FailedRunIsRecorded ==
    pc = "idle" /\ outcome = "failed" =>
        \E k \in DOMAIN pipelineRuns :
            pipelineRuns[k].batch = batch /\ pipelineRuns[k].status = "FAILED"

\* README: "Every violation is logged to DuckDB": a score that counts
\* violations has its violations in dq_violations.
EveryViolationLogged ==
    \A b \in Batches, c \in Checkpoints :
        <<b, c, TRUE>> \in scores => <<b, c>> \in violations

=============================================================================
