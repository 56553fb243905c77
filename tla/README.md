# Verification of the lineage intelligence pipeline

TLA+ models of the trade pipeline in this repository, the TLC configurations
that check them on small instances, and theorems that TLAPS checks for every
instance. File names without a directory are in `tla/`; paths under `src/` are
the program's.

## 1. The system

A nightly job stream generates a trade file and starts the pipeline. The
pipeline reads the file into a Spark frame, walks its configured stages
(ingest, clean, enrich, load), evaluates data-quality rules after a stage, and
writes a star schema, violations, scores, lineage edges and run records to one
DuckDB file. Rows it cannot process go to a Parquet tree, the dead-letter
queue. A Streamlit dashboard reads the DuckDB file.

| Part | Source | State it keeps | Operations | Hard part | Model |
|---|---|---|---|---|---|
| Pipeline | `etl/framework.py` | run in progress, `BatchMeta`, stage results | build, run a batch, skip / run / fail a stage, persist | failure at any point, what is recorded and in which order | `Pipeline` |
| Dead-letter queue, retry | `etl/error_handler.py` | Parquet tree, counts per batch | write, write rows, count, retry with backoff; read, reprocess, fallback (no callers) | write failures inside failure handling, retries of what was done | `Pipeline`; read and reprocess in `CleanStage` (fallback: not) |
| Lineage tracker | `etl/lineage_tracker.py` | edges of a run | emit, merge, save, graph queries | retries emit again, failed transforms have emitted, rows stored in part | `Lineage`, `Pipeline`, `GraphStore` (merge: not) |
| DQ engine, logger | `dq/rules_engine.py`, `dq/violation_logger.py` | rules; tables `dq_violations`, `dq_scores` | run a checkpoint, log violations, log a score | each write may be lost on its own or cut short; a raising error path; counts and score from a sample | `DqCheckpoint`, `Pipeline` |
| DQ validators | `dq/validators/` | none | four kinds of rule | caps, nulls, missing columns, a lookup that an earlier load has changed | `DqCheckpoint` |
| Clean transforms | `etl/transforms/clean.py` | none | fill nulls, cast, remove duplicates | rows must be in the frame or dead-lettered; lazy evaluation; hash collisions | `CleanStage`; diversion in `Pipeline`, edges in `Lineage` |
| Enrichment, aggregation | `etl/transforms/enrich.py`, `aggregate.py` | none | column arithmetic, lineage | which columns are asked for, which edges follow | edges in `Lineage`; arithmetic not |
| Star-schema load | `etl/transforms/load.py`, `models/star_schema.sql` | two keyed dimensions, dates, facts | five statements, each its own transaction | crash, failure and another process between two statements; key generation | `StarSchemaLoad` |
| Transform registry | `etl/transforms/registry.py` | name to class | register, look up | partial imports | lookup outcome in `Pipeline` |
| Job executor | `jobs/job_executor.py` | results, `job_runs` | resolve an order, gate, run with retries and timeout, record | arbitrary graphs, gating by partial results; commands that outlive their timeout | `JobExecutor`, `DailyStream` |
| Lineage graph | `graph/lineage_graph.py`, `graph/queries.py` | a NetworkX digraph | fill from tracker / DuckDB / JSON, save, query, export | batches mixed in one graph; order of ancestors; parallel edges | `GraphStore`; ancestry in `Lineage` (export to Cytoscape: not) |
| Stardog client | `graph/stardog_client.py` | a named RDF graph | write, clear, trace | names reused across writes, time-outs and repeated writes | `GraphStore` |
| Demo database | `dashboard/data_bootstrap.py` | a DuckDB file | create and seed when missing | crash and concurrent sessions while seeding, a feed that changes meanwhile | `DemoDatabase` |
| Generator script | `scripts/generate_sample_data.py` | a feed per day | write the feed | truncates and rewrites a feed that others read; takes its own date | `DailyStream`, `DemoDatabase` (the random values: not) |
| Dashboard pages, deployment | `dashboard/`, Docker, CI | none | rendering, I/O | a reader keeps writers out; sessions overlap | the reader in `Pipeline`, the sessions in `DemoDatabase` |

How the parts interact. The executor starts the pipeline as a shell command and
only sees its exit code. The pipeline calls transforms, the DLQ, the tracker and
the DQ engine in process; exceptions are the only control transfer. Everything
durable is the DuckDB file and the Parquet tree. There is no transaction around
anything: each DuckDB statement commits by itself, each writer opens its own
connection, DuckDB allows one writing process or several readers, and all
writers but the load swallow a refused connection.

What makes each part correct:

- pipeline: rows never vanish; a stage and its checkpoint are behind the run
  before the next one starts; the load only writes when all of that holds; a run
  that returns has loaded and recorded what it was asked to; a run ends;
- dead letters: what was counted can be read back;
- lineage: the graph of all batches is acyclic, and every derived column in it
  leads back to what it was computed from, also when a run failed on the way;
- data quality: counts, score and stored violations say the same of the rows;
- load: readers see one row per trade, naming its own product and counterparty;
  a retry is never refused because of what the failed attempt did;
- executor: dependency order, gates, an honest exit code, a truthful history;
- job stream: what succeeds has loaded the whole generated feed; a trade that a
  load deleted is back when the load is over, unless another stream got at the feed
  in between;
- clean stage: no line vanishes, the latest of each trade is loaded, only
  unusable lines are diverted, and reprocessing finds all the others;
- lineage graph: of several edges between two columns the latest shows, however
  the graph was filled; the RDF copy answers with the edges written, and no others;
- demo database: it is seeded once, and its figures are those of its facts.

## 2. Modules

### `Pipeline`

One process, run after run, over the two durable stores. The variables come in
groups: the stores (survive a crash), the `Pipeline` object (lives until the
process stops), the run (`BatchMeta`, the tracker, the local `df` and
`pipeline_failed`), the place in the code (`pc`, stage, transform, attempt), and
the environment (clock, number of runs, is a reader on the file).

| Code | Actions |
|---|---|
| `Pipeline.__init__`, process exit or death | `StartProcess`, `StopProcess` |
| head of `Pipeline.run` | `StartRun` |
| stage loop, `_instantiate_transforms` | `SkipStage`, `EnterStage`, `UnknownTransform`, `StagesExhausted` |
| `StageRunner.run` | `StageNotCounted` (count ahead of the `try`), `StageSucceeds`, `StageFails` |
| `RetryHandler.execute_with_retry` around `BaseTransform.execute` | `AttemptSucceeds`, `AttemptFails`, `AttemptNotCounted`, `DeadLetterFrame`, `DeadLetterLost`, `Retry` |
| effects inside a transform | `DivertRows`, `EmitLineage`, `DeleteFacts`, `InsertFacts` |
| `_run_dq_checkpoint`, `run_checkpoint` | `SkipCheckpoint`, `UnruledCheckpoint`, `RunRules`, `RulesRaise`, `WriteScore` |
| tail of `Pipeline.run` | `PersistLineage`, `WriteRunMetadata`, `FinishRun` |

Abstractions: a frame is a set of rows with distinct trade ids; a transform may
divert any non-empty subset of its frame if it is of a diverting kind (`TypeCast`,
`Dedup`), may load if it is `WriteStarSchema`, and may fail at any point; rules
report violations or not. A batch id is the second at which the run started, so
two runs may share it. The rows that one run adds to `pipeline_runs` are added
in one step. The load is reduced to its last two statements; `StarSchemaLoad`
has all of them.

### `FactLedger` and `StarSchemaLoad`

`StarSchemaLoad` is `WriteStarSchema._transform` statement by statement, with
surrogate keys, constraints, the column check that is only a warning, the left
joins, the connection that an exception leaves open, retries, crashes, and
several loading processes. A retry evaluates the lazy frame again (`load.py:43`): it
may bring other rows, though of the same columns (`Restage`). `FactLedger` is what readers may rely on: a table by
trade id in which a loader withdraws its staged trades or publishes all of them.
The refinement mapping (`View`) joins the facts with the dimensions, so it fails
as soon as a surrogate key is reused, two trades share a row, or a row names
another product.

### `Lineage`

The lineage of a run from the transforms to the queries. A frame is its columns,
the columns with nulls, and whether it has rows; each of the nine configured
transforms has an operator for the edges it emits from such a frame
(`NullFillEdges` ... `WriteStarSchemaEdges`). A run goes through its transforms with retries
(`StartRun`, `Emit`, `TransformSucceeds`, `AttemptFails`, `RunFails`, `RunCompletes`), and
stores the tracker's list whole, in part, or not at all (`Persist`, `PersistSome`,
`Crash`). `LoadGraph` and the operators after it are the graph that
`build_from_duckdb` rebuilds, and its queries. Transform names stand for the edge
attributes; timestamps, stages and metadata are left out.

### `DqCheckpoint`

One level below `Pipeline`'s `RunRules`: the rules one by one over rows of values
(`RunRule`, `RuleRaises`), the validators as sets of flagged rows, the sample of at
most `SampleCap` of them, the counts and the score in hundredths, then the writes
of violations and score (`WriteViolations`, `WriteScore`, `ScoreLost`). A stage brings
a new frame, and the last stage loads its products, which a lookup rule sees
later (`StageRuns`). Expressions are comparisons of two columns, false only if
neither is null. A batch id is any of `BatchIds`, so that runs of one second share it
(`StartBatch`), and a severity is whatever the configuration says, because nobody
validates it; three of them are counted. The rows of the tables carry the number of
their run beside the batch id. It stands for their timestamps, and lets the
properties speak of one run where the code's readers see one batch.

### `JobStream` and `JobExecutor`

`JobExecutor` is one call of `JobExecutor.run`: `visit` is an explicit stack with
a cursor per call; the loop over the order has one action per outcome; `main`'s
exit code is `ExitIsZero`. `JobStream` is what a stream promises whatever order it
chooses: jobs settle once, after their upstream jobs, and are skipped exactly when
one of those did not succeed.

### `CleanStage`

The lines of one file through `NullFill`, `TypeCast` and `Dedup`. A frame maps line
numbers to rows of values or nulls. The three `_transform` methods are `FillNulls`,
`SendCastFailures` / `CastReturns` and `SendDuplicates` / `DedupReturns`; each may
fail before or after its dead letters are written (`AttemptFails`, with the
dead-lettering in `execute` and the retry). Spark frames are lazy: what was
filled or cast evaluates to the same rows each time, but `row_number` over equal
dates does not, so an action on the deduplicated frame sees any of
`Survivors(frame)`: the write of the duplicates, the checkpoint's rules, and
`toPandas` in the load (`LoadRows`) choose separately. The row hash is the sequence of
the values that are not null, which is all that `concat_ws` tells apart here.
`ansi` is Spark's cast mode, which the repository does not set: in one a failing
cast is null, in the other the action raises. `Reprocess` is `DeadLetterQueue.reprocess`
over `read`; it has no caller, so any caller may come after the run.

### `GraphStore`

`LineageGraph` as a store and `StardogClient` as its copy. `BuildFromDuckDB`,
`AddFromTracker` and `LoadJson` fill the graph by `AddEdge`, which is
`DiGraph.add_edge`: new attributes for a known pair of columns. `SaveJson`,
`PersistToStardog` and `WriteEdges` write `EdgeList`, the order in which NetworkX
iterates, or a tracker's list. The database is a set of triples about resources
that are named by an edge's place in what is written; `Joined` is the join of the
SPARQL queries, of one edge each. `SafeUri` is `_safe_uri`, by which two columns may get
one name in the database. Stage and metadata go the way of the transform. The class
prescribes no order of calls, so any call may come at any time. Three variables
(`meant`, `saved`, `posted`) record what the others should show.

### `DailyStream`

`JobExecutor` with `job_definitions.json`, composed with the processes that it
starts: per stream a generator, and per attempt a pipeline, reduced to the steps
that touch what processes share: the feed of a day (opened, emptied, written line
by line) and the star schema (lock, `DELETE`, `INSERT`). A timeout kills the
command or, with `shell=True`, only its shell (`PipelineTimeout`, `GeneratorTimeout`); the next
attempt then runs beside it. Within a process a load that raises is tried again
(`LoadRaises`, up to `MaxTries`): it reads the feed again, as it is by then, and
may still have the file open, because the kept exception holds on to the connection
(`ConnectionCollected`). `deleter` records whose DELETE a trade met last.
`Midnight` changes the date between the executor's
`RUN_DATE` and the generator's own; one that nobody looks at any more is left out. `StarSchemaLoad` has the load in full,
`JobExecutor` any definitions.

### `DemoDatabase`

`ensure_demo_database` as every page of every session runs it: find no file,
find the latest feed, connect, then one action per autocommitted statement; the
two `executemany` calls commit row by row. `clean_trades` is a view, so each
statement evaluates it again on the feed as it is then (`CleanTrades` has a choice
where two lines share the latest date). A statement may raise; the process may
die with all sessions; the generator may rewrite a feed, or add a later one.
Counterparties go the way of products, and settlement dates that of trade dates.

### `MC*`

Instances: stages, definitions files, frames, files of lines, trackers, streams
and feeds for the runs.

### `*Proofs`

Theorems, section 5: one module beside each of `Pipeline`, `JobExecutor`,
`StarSchemaLoad`, `DqCheckpoint`, `CleanStage`, `DailyStream` and `DemoDatabase`, and
`LineageProofs` beside `Lineage` and `GraphStore`, which need the same lemmas about
loops, lists and finite sets. For it the two have no name in common: `GraphStore` calls
its specification `StoreSpec`.

## 3. Runs

| Run | Question | Bounds, and why they are enough |
|---|---|---|
| `pipeline_daily` | Do rows, counts and gates hold in a batch with failures, crashes and a locking dashboard? | 2 rows (one can be diverted, one stay), one diverting and one loading stage, 2 attempts (one fails, one is a retry), 1 run |
| `pipeline_odd` | Are runs recorded right that share a batch id, a process, or neither, in a configuration with an empty stage, a checkpoint without rules, a raising rule, an unknown transform, and does each run end? | one of each, 1 row, 2 runs, 2 seconds (same id, or different), 2 attempts; no symmetry, it is a liveness run. The dead counts are checked here for runs that share an id |
| `jobs` | Is the order right for any definitions file; gates, exit code, history, termination, refinement | two commands, a third job that is a command or a group, and an undefined name, with lists of up to two for one and seven lists (none, undefined, itself, each other job, a diamond) for the other, from each root; the shipped chain under a group; a diamond with retries, a bad template or a negative retry count |
| `load` | Does the star schema read as a ledger, and does a clean frame always load? | 3 trades, 2 members, 2 loaders, 2 loads, 2 attempts; frames overlap, bring a product late, lack an id, repeat an id, break a constraint, lack columns |
| `lineage` | Is the graph over several runs acyclic and root first, do derived columns lead back to clean ones, and loaded figures to their notional? | a run of all stages or one, on complete, incomplete and empty files, then a run of one stage; 2 attempts (one fails after any edge), any prefix of the list stored; one or two columns per list |
| `dq` | Do counts, score, stored violations and rows agree, also when runs share a batch id, is a score stored last, and is a loaded product ever reported as unknown? | 2 runs, 2 ids (the same, or another), two checkpoints, a rule of each type, one of severity INFO, two rows (none, one or both are flagged); nulls, lacking columns, and a product that the first run loads in lower case. By hand, `MCDqCheckpoint_checks` has one run with more rules: three checkpoints, an empty `dim_product`, static values, 0 to 3 rows and a cap of 2 |
| `clean` | Is each line loaded or dead-lettered, the latest of a trade loaded, nothing diverted without a cause, and everything recoverable? | all files of up to three lines (a choice of three from eight rows, so that ties, repeats, null ids, failed casts and equal hashes meet), one file without the column to rank by; both cast modes; 2 attempts |
| `graph_store` | Does the graph show the latest edges, and do the direct queries on the RDF copy answer with the edges written and no others while its documents agree? | 4 columns (two share a URI), 3 trackers (one with parallel edges, one whose pair returns in another batch, one listed in another order by node), 2 fillings, 3 stored rows and documents, 2 clock readings |
| `daily_stream` | What is loaded when a load is tried again on the feed as it is by then, commands outlive their timeouts, streams overlap, and midnight falls in between? | 2 streams (1 of the schedule, 1 by hand), 2 attempts each as shipped, 2 tries in a process (one fails), a feed of 1 line (there or not), 2 days. By hand: with `Lines = 2` and `MaxTries = 1` a feed may also lack one of its lines |
| `demo` | Is the demo database seeded once, with figures of its facts, and facts of its products? | 2 sessions, 2 feeds with a corrected trade, a tie, and other products, 1 run of the generator; lists of 2 rows in place of 4 and 5 (a first and a last one) |

Deadlock is checked in `graph_store` and `demo`, where another call or page load
may always come. It is off in the other runs: a system that has used up its
bounded runs or loads, or a call that has returned, stops.

Two more runs state what a comment or a document says and the code does not do;
each shows the counterexample:

- `load_lost`: the load "appends" (`load.py:19`), yet a re-load that stops between
  its DELETE and its INSERT leaves earlier trades out;
- `graph_traced`: "Each lineage edge becomes a named RDF resource"
  (`stardog_client.py:84`), yet each write numbers its edges from 0. After two
  writes one resource has the columns of two edges, and the ancestry pairs them
  crosswise. A graph written twice is enough, if it grew in between or went through its
  JSON file, which changes the order.

Other disagreements have a configuration to reproduce them by hand:

| Configuration | Source says | The code |
|---|---|---|
| `MCPipeline_dead_batch` | "downstream stages will not see this data" (`framework.py:133`) | a retry loads a batch that was dead-lettered |
| `MCPipeline_late_checks` | "Final checks before writing to star schema" (`rules_config.yaml:146`) | they run after the write |
| `MCPipeline_unrecorded_failure` | "See pipeline_runs" (`framework.py:320`) | a run that failed while counting, or in a checkpoint, has no FAILED row |
| `MCPipeline_lost_violations` | "Every violation is logged" (`README.md:46`) | except those for which the connection was refused |
| `MCLineage_raw` | "every figure in a risk report must be traceable back to its source" (`README.md:31`) | without nulls in `notional` the trace ends at the clean column |
| `MCLineage_order` | ancestors "root first" (`lineage_tracker.py:188`) | the tracker lists the root last |
| `MCLineage_impact` | "downstream impact report" (`lineage_graph.py:265`) | also names the transforms that produce the column |
| `MCDqCheckpoint_score` | "one row per checkpoint per batch" (`violation_logger.py:8`) | runs of one second share a batch id, and each adds its score |
| `MCGraphStore_upstream` | "find all upstream sources of a target column" (`stardog_client.py:177`) | `trace_ancestry` joins one edge, and gives the direct sources |
| `MCDqCheckpoint_zero` | "0 = all rules failed" (`rules_engine.py:61`) | violations of one rule suffice |
| `MCDqCheckpoint_sample` | "one per null row found" (`null_check.py:87`) | up to the cap of the sample |
| `MCCleanStage_values` | rows that fail a cast "are routed to DLQ" (`clean.py:124`) | with the failed value replaced by null |
| `MCDailyStream_midnight` | the pipeline runs "over the generated trade feed" (`job_definitions.json:13`) | or over that of the day before, if midnight fell in between and there is one |
| `MCDemoDatabase_ready` | "Create a small dashboard-ready DuckDB database if one is not present" (`data_bootstrap.py:14`) | a file that a crash left half seeded counts as present |

`MCLineage_types`, `MCGraphStore_types` and `MCDemoDatabase_types` check the type
invariants of these modules, and pass; so does `MCDqCheckpoint_checks`.

Observed while modelling, and without a configuration: `README.md:40` says that
records failing the DQ rules go to the dead-letter queue, but nothing routes them
there; `load_json` does not restore the graph's batch ids; a tracker's
`to_edge_list` has no `batch_id`, so `write_edges` stores "unknown"; `clear_database` logs
"cleared" also when the request failed; the demo's `dq_scores` count lines without
a trade id as duplicates, the violations beside them do not.

## 4. Fairness

`Pipeline!FairSpec` has weak fairness of the steps of a run: a live Python
process keeps executing. No single action is fair, so nothing is assumed about
whether attempts succeed. Starting, crashing, ticking and the dashboard are not
fair; a crash ends a run too. `JobExecutor!FairSpec` is the same for one call,
where each command has a timeout. `StarSchemaLoad!FairSpec` is weak fairness of
each loader's steps; only the run `load_lost` uses it, so that its
counterexample is not a process that merely stands still; `MCPipeline_late_checks` is
under `Pipeline!FairSpec` for the same reason. The other modules state
no liveness: nothing obliges a caller of the graph, a session or a stream to go on,
and that a stream's jobs end is `JobExecutor!RunEnds`.

## 5. Proofs

Each theorem holds for every value of the constants that satisfies the named
ASSUMEs of its module. Invariants that a proof needs and no run states were checked
with TLC on the runs' instances before they were proved.

`PipelineProofs` (for all rows, stages, transforms, registries, rules and
bounds; assumed: finitely many rows, distinct stage names, diverting and loading
transforms distinct, at least one attempt):

- `TypeCorrect`: the type invariant with `PlaceOK`, which says that the counters
  point into the configuration and that a live run has a batch id; by itself
  `TypeOK` is not inductive, since `dlqCount[batch]` needs that id;
- `DeadCountsAreReadable`: inductive with the type invariant; the counts of the
  results are bounded by the counter, the counter by the tree, because the counter
  rises after the append and a process starts with an empty one;
- `RowsAccountedFor`: strengthened with what `frame` and `out` hold at each place;
- `StagesInOrder`: strengthened with where results and checkpoint results stand
  at each place, using that stage names are distinct;
- `LoadIsGated`: an action property, from the invariant of `StagesInOrder`;
- `ReturnedBatchLanded`: `LoadInv` follows the load through the run. Once a load is
  behind the run (`LoadsBehind`), the rows still in the frame are in `fact_trades` under
  the batch (`Landed`), except while another load rewrites them; a run that ends without
  a failure has walked every stage;
- `ReturnedRunRecorded`, under the hypothesis that there is no dashboard (with one, the
  write may be refused and the code swallows that; the property says so too):
  by `RecordInv` a run that ends without a failure has a success of every selected
  stage to write, and writes them before it returns.

`JobExecutorProofs` (for all definitions files over finitely many names):
`IInv` is a conjunction of the types, `OrderPart` (the order has no duplicates and
lists each job after its upstream jobs), `StackPart` (each active call waits for
the one above it, and what its cursor has passed is in the order), `StatusPart`,
`AttemptPart` and `SkipPart` (a skip has a settled, unsuccessful job before it).
From it follow `TypeCorrect`, `GatesRespected`, `ExitCodeIsHonest` (by
minimality: the first unsuccessful job of the order is not a skip) and
`StreamImplemented` (each step maps to a settlement or a stutter).
`OrderAndRefusalsRight` adds `NeedInv`: all that the visit has finished or has in
progress is needed by the root, and a call in progress needs the calls inside it,
so that a job met again on the stack needs itself. For this, what a job needs is stated
as the least set closed under upstream jobs, about which one can argue without
induction. `HistoryIsTruthful` adds `HistoryInv`: each row of `job_runs` is of a
job that lies behind the loop.

`StarSchemaLoadProofs` (for any loaders, trades, members, frames and attempts):

- `TypesRight`, and `CleanLoads`: `IInv` is the types, `KeysGenerated` (no two
  members share a key, and there is a largest one, so `MAX + 1` is free), `ConstraintsHold` (what the schema's constraints
  demand of the stored rows), `OneWriter` (a loader past its connection is the only
  one) and `Progress` (per statement: what the statements before it have brought
  about). That a finite set of keys has a largest one is a well-founded
  induction over its subsets;
- `ReturnedLanded`: an action property, from `Progress`;
- `LedgerImplemented`: the refinement of `FactLedger`, one lemma per statement. Only
  DELETE and INSERT change what readers see, because an INSERT into a dimension leaves the name
  behind each key as it was.

`DqCheckpointProofs` (for all stages, rules, frames, catalogues of products, sample caps and
batch ids, however runs share them):

- `FiguresRight`, `PassedRight`, `LoadedKnown` and the types rest on one `IInv`: `Placed` (where the
  run is, and that a checkpoint starts from nothing), `Sourced` (a violation is of a
  rule that has run, and of a row of the frame), `Judged` (`PassedRulesHold` for the rules
  that have run so far), the other properties, and `Stored` (stored scores are of past
  checkpoints, of earlier runs or of this one, and so are stored violations, but for those
  of a checkpoint about to store its score);
- `ScoreLast`: an action property, from `Stored`;
- assumed: `RulesAssumption` and `FramesAssumption` (fields and bounds of a rule exist and
  have the type the validator compares; rows are numbered from 1) and at most
  10000 rules. A severity is any string. The bound is needed: with more, one warning costs less than half of a
  hundredth, and the score rounds to 100 with a violation. The repository has 21.

The proof showed that the cases of `FlaggedSets` overlapped. A stage's rules are a
set of positions that is taken in order (`IsNext`), so that no proof is about a filtered list.

`CleanStageProofs` (for all files, fills, casts, ranks and attempts, in both cast modes):
`IInv` is the types, `FrameFollows` (the frame holds what the transforms so far have made
of the lines, and a line that TypeCast took out has its letter), `LettersTell` (what has
been sent, and why a cast letter was) and `DedupFollows` (the stage is left behind a Dedup
whose duplicates were sent, and the checkpoint and the load each saw an evaluation of it). The five theorems `TypesRight`, `LinesStay`,
`LatestLoaded`, `DivertedRight` and `TradesRecoverable` follow. `KeysAssumption` says what
`clean.py` and its configuration say: the key column casts every value, and
neither it nor the order column is filled.

`LineageProofs`, about `Lineage` (for all plans, files, lists and attempts):

- `LineageIsTyped`, `RecordedIsAcyclic`, `ListedRootFirst` and `FiguresAreTraced`. Reachability
  is never part of the induction. `IInv` speaks of single edges and pairs of edges: `AllWellMade`
  (each edge raises a column by one `Rank`, and into a derived column there is an edge only from
  a clean or a derived one; into a figure only from the column it is computed from),
  `Grounded` (an edge from a derived column comes behind one to it, in the tracker's list and
  within a batch of the table, which is why storing a prefix is harmless), `FrameReached`
  (a figure joins the frame only after the edges to it were emitted), `SentIsThere` (what the
  attempt has emitted is in the list) and `LoadsReached` (a load that is behind the run
  has left an edge to each figure). `EmissionsAreSound` has a lemma for each of the nine
  transforms, about whatever frame it is given;
- what the queries make of such a graph is proved of any finite graph. `Graded` means that
  all edges raise the rank by one. Then the columns upstream rank lower, so there is no cycle,
  and the distance to an ancestor is the difference of the ranks (`DistanceIsRank`), so a sort by
  distance is a sort by rank. `UpstreamIsClosed`: as many steps as there are columns reach
  everything. A derived column then leads to a clean one, because the lowest
  derived column upstream of it has a source that is not derived;
- assumed: `InputsAssumption` (files are finite frames that do not bring the computed figures)
  and `ListsAssumption` (nor are the figures in the lists that DateExpand and
  LeiLookup have in their code, `enrich.py:203`, `enrich.py:278`).

`LineageProofs`, about `GraphStore` (for all columns, URIs, transforms, batches, trackers and bounds):

- `LatestIsShown`, with `StoreIsTyped`. `AddAllFacts`: filling a graph with a list leaves the last
  edge of each pair in the list, and the graph's own edges of other pairs. `LastsHit`: every
  pair of a list has a last edge. `OrderedFacts`: a query's answer has all rows, in the order of
  their times, so the last of a pair has the greatest one. `EdgeListFacts`: the order by node and
  insertion is total and strict (`AheadOrders`), hence what is saved has all edges, each once;
- `TriplesSound` says that the database is the union of the documents' triples since the last
  clear, which every action preserves. From it follows `AgreedDocumentsExact`: an edge of a
  document is found by its own three triples (`EdgeAnswered`), and if documents agree on the edge
  at each number, all triples of a number come from one edge (`ResourceIsEdge`). Where they do not
  agree, the run `graph_traced` shows what is found besides;
- assumed: trackers hold edges over the columns and transforms, each column has a URI, and the
  bounds are numbers.

The code's loops (`Keep`, `Upstream`, `AddAll`) are recursive functions. `Iterates` shows that
such a function exists, and what it computes is proved through the least index at which it would
fail, which the well-foundedness of the numbers provides. Two definitions were restated
for this: `Keep` in place of `SelectSeq`, and `EdgeList` by rank in place of a list by node; TLC
found both equal to the former ones on small lists and graphs.

`DailyStreamProofs` (for any streams, lines, days and tries per process; assumed by
`StreamAssumption`: a feed has some natural number of lines, there is a day, and there is
a try): `TypesRight`, `NothingLost` and `SuccessLoads` rest on one `IInv`.

- `FInv` is about feeds: `GeneratorPart` (what a generator has written, and that a file only its
  own stream feeds holds just that), `PipelinePart` (a pipeline runs behind a generator that
  ended well, and what it staged is that file) and `SuccessPart` (a stream succeeds through its
  current attempt). `SuccessLoads` follows;
- `Opened` (the file of a day was opened by some generator, and a load has read such a file)
  and `Unbegun` (an attempt that the executor has not started has done nothing);
- `LInv` is about loads: `LockHeld` (a live process between connecting and its INSERT
  holds the file, so no other does), `DeletersBegan`, and `TradesGoneForCause` itself;
- `NothingLost` is where these meet. Without the lock two processes would interleave DELETE and
  INSERT. And a try that raised behind its DELETE is followed by one that reads the feed again:
  if no other stream got at it, it is whole (`UndisturbedFeed`), so that the next INSERT brings
  back every trade that the first DELETE took (`UndisturbedLoad`). A feed that another stream
  has emptied is the remaining cause, and the property names it: the load then finds no rows,
  returns, and the process exits 0.

`DemoDatabaseProofs` (for any sessions, feeds and lengths of the two lists; assumed: feeds
are lists of lines, and neither list is empty): `SeededByOne` and `ProductsKept`.

- `NoFileYet`: without a file nothing is seeded and no session is past its connection.
  A feed that changes then is the one case that is not marked as `touched`;
- `OneFeed`: on an unmarked feed all seeders have counted the same lines;
- `OneSeeder`: either no fact is there, no other table has a row, and no session is past
  the facts; or all facts are there, at most one session is past them, and the tables
  are exactly as far as it is. The second INSERT of facts meets the trades of the
  first, because `clean_trades` has a row of every trade in each of its evaluations;
- `OneNumbering`: without a tie there is one evaluation, so that the second INSERT OR IGNORE
  of products adds nothing, and each product is there when facts look for it.

Stating this corrected the property: the code stores at most 100 violations
(`LIMIT 100`, `data_bootstrap.py:262`), `SeededOnce` had spoken of all of them.

Only model-checked: that a run of the pipeline and a run of the executor end
(`pipeline_odd`, `jobs`). Liveness under fairness is beyond the prover. Every other
property of the passing runs is a theorem.

## 6. Plan

The second disjunct of `OneSeeder` as an abstract specification of a seeder
that `DemoDatabase` implements; `path_between` against a reference definition.

## 7. Not modelled

- the arithmetic of enrichment and aggregation (FX rates, exposures, calendars):
  column expressions without control;
- `RetryHandler.with_fallback`, `LineageTracker.merge`: no caller in the repository;
- exports, summaries, printing, the logger's queries, the dashboard's rendering,
  `create_database` and `ping`: they read, or change nothing that the rest reads;
- the registry's registration at import time: a constant table by the time a
  pipeline is built;
- dead-letter files of differing schemas: `read` merges none and may raise or return
  nothing for them (`error_handler.py:155`), `CleanStage` reads all of a batch;
- at which statement a frame that lacks columns is refused: `StarSchemaLoad` lets the refusal
  come at any statement, the INSERT of the facts at the latest;
- the random values of the generator, container, shell scripts and CI.
