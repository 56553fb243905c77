---------------------------- MODULE DqCheckpoint ----------------------------
(***************************************************************************)
(* The data quality engine: run_checkpoint of dq/rules_engine.py with the  *)
(* four validators of dq/validators, and the two tables that               *)
(* dq/violation_logger.py writes.  Pipeline.tla keeps of all this whether  *)
(* a checkpoint found something; here are the rules, the rows, the counts  *)
(* and the score.                                                          *)
(*                                                                         *)
(* A frame is its columns and a sequence of rows; a value is Null, an      *)
(* integer or a name.  A comparison expression of a cross_field rule is    *)
(* the pair of columns that it compares.  A violation refers to its row    *)
(* by position; the synthetic one of a rule that raised has row 0.         *)
(*                                                                         *)
(* The batch id that both tables carry is the second in which a run was    *)
(* started, or what was given on the command line: runs may share it.  The *)
(* number of the run, which tells rows with one id apart here, stands for  *)
(* their ts and recorded_at.                                               *)
(***************************************************************************)
EXTENDS Integers, Sequences, FiniteSets

CONSTANTS
    Rules,      \* those of rules_config.yaml, in order
    Stages,     \* checkpoints of a run, in order
    Frames,     \* [stage -> frames that may arrive there]
    Catalogues, \* dim_product as earlier runs may have left it
    Upper,      \* [names -> names], F.upper
    Null,       \* SQL NULL, and the None of an option left out
    SampleCap,  \* .limit(1000)
    BatchIds,   \* ids that runs may get
    MaxRuns     \* bound: runs of the pipeline

\* Whatever a rule names, and ERROR of one that raised; nobody validates it,
\* and only three of them are counted.
Severities == {Rules[k].severity : k \in DOMAIN Rules} \union {"ERROR"}
Types == {"null_check", "range_check", "referential_integrity", "cross_field"}
StageNames == {Stages[k] : k \in DOMAIN Stages}

\* severity and stage are after defaulting; only cross_field has a list of
\* fields.  Beyond 10000 rules a single WARN would round to a score of 100.
ASSUME RulesAssumption ==
    /\ Rules \in Seq([type : Types, stage : STRING, severity : STRING, fields : SUBSET STRING,
                      min : Int \union {Null}, max : Int \union {Null},
                      allowed : SUBSET STRING, mode : {"static_values", "duckdb_table"},
                      expr : [low : STRING, high : STRING] \union {Null}])
    /\ Len(Rules) <= 10000
    /\ \A k \in DOMAIN Rules :
         Rules[k].type # "cross_field" => \E f \in Rules[k].fields : Rules[k].fields = {f}
\* no checkpoint is configured twice; ranges are asked of numbers only
ASSUME FramesAssumption ==
    /\ Stages \in Seq(STRING)
    /\ \A m, n \in DOMAIN Stages : Stages[m] = Stages[n] => m = n
    /\ \A s \in StageNames : \A f \in Frames[s] :
         /\ Len(f.rows) \in Nat /\ DOMAIN f.rows = 1 .. Len(f.rows)
         /\ \A k \in DOMAIN Rules : \A c \in Rules[k].fields \intersect f.columns :
              Rules[k].stage = s /\ Rules[k].type = "range_check" =>
                  \A i \in DOMAIN f.rows : f.rows[i][c] \in Int \union {Null}
ASSUME BoundsAssumption == SampleCap \in Nat \ {0} /\ MaxRuns \in Nat

VARIABLES
    dqViolations,  \* table: {[run, batch, stage, rule, severity, row]}
    dqScores,      \* table: {[run, batch, stage, counts, total, score]}
    dimProduct,    \* product ids of dim_product
    pc,            \* "idle" | "between" | "stage" | "rules" | "write" | "score"
    run,           \* how many were started
    batch,         \* the latest one's id
    stageNo,
    frame,         \* at the current checkpoint
    ruleNo,        \* one more than the rule that the loop ran last
    result,        \* DQResult's counts
    violations     \* all_violations: {[rule, severity, row]}

tables == <<dqViolations, dqScores>>
locals == <<ruleNo, result, violations>>
vars == <<tables, dimProduct, pc, run, batch, stageNo, frame, locals>>

NoCounts == [rulesRun |-> 0, passed |-> 0, failed |-> 0, critical |-> 0, error |-> 0, warn |-> 0]
NoFrame == [columns |-> {}, rows |-> <<>>]
Stage == Stages[stageNo]

\* checkpoint_rules, by their places in Rules
RulesOf(s) == {k \in DOMAIN Rules : Rules[k].stage = s}
\* those of them that the loop has before it, and the one that is next
Ahead == {k \in RulesOf(Stage) : ruleNo <= k}
IsNext(k) == k \in Ahead /\ \A j \in Ahead : k <= j

Init ==
    /\ dqViolations = {} /\ dqScores = {} /\ dimProduct \in Catalogues
    /\ pc = "idle" /\ run = 0 /\ batch \in BatchIds /\ stageNo = 1
    /\ frame = NoFrame /\ ruleNo = 1 /\ result = NoCounts /\ violations = {}

-----------------------------------------------------------------------------
(* Validators: the rows that a rule flags *)

RowIds == DOMAIN frame.rows
ValueOf(r, i) == frame.rows[i][CHOOSE f \in r.fields : TRUE]

NullRows(r) == {i \in RowIds : ValueOf(r, i) = Null}

\* Mutant: only the lower bound is looked at.
OutOfRangeRows_LowOnly(r) ==
    {i \in RowIds : LET v == ValueOf(r, i) IN
        v = Null \/ (r.min # Null /\ v < r.min)}

\* nulls are flagged too
OutOfRangeRows(r) ==
    {i \in RowIds : LET v == ValueOf(r, i) IN
        \/ v = Null
        \/ r.min # Null /\ v < r.min
        \/ r.max # Null /\ v > r.max}

\* Mutant: the row's value is not converted to upper case.
UnknownRows_CaseSensitive(r, allowed) ==
    {i \in RowIds : ValueOf(r, i) # Null /\ ValueOf(r, i) \notin allowed}

UnknownRows(r, allowed) ==
    {i \in RowIds : ValueOf(r, i) # Null /\ Upper[ValueOf(r, i)] \notin allowed}

\* "high >= low" is FALSE; it is neither TRUE nor FALSE of a null
ContradictedRows(r) ==
    {i \in RowIds : LET low == frame.rows[i][r.expr.low]
                        high == frame.rows[i][r.expr.high]
                    IN low # Null /\ high # Null /\ high < low}

\* the values to check against; {} after a failed lookup too
AllowedSets(r) ==
    IF r.mode = "static_values" THEN {{Upper[v] : v \in r.allowed}}
    ELSE {{Upper[v] : v \in dimProduct}, {}}

\* early returns of the validators, before they look at a row
Skipped(r) ==
    \/ ~(r.fields \subseteq frame.columns)
    \/ r.type = "range_check" /\ r.min = Null /\ r.max = Null
    \/ r.type = "referential_integrity" /\ r.mode = "static_values" /\ r.allowed = {}
    \/ /\ r.type = "cross_field"
       /\ r.expr = Null \/ ~({r.expr.low, r.expr.high} \subseteq frame.columns)

\* what validate may find; nothing is flagged against an empty set of values
FlaggedSets(r) ==
    IF Skipped(r) THEN {{}}
    ELSE CASE r.type = "null_check"  -> {NullRows(r)}
           [] r.type = "range_check" -> {OutOfRangeRows(r)}
           [] r.type = "cross_field" -> {ContradictedRows(r)}
           [] OTHER -> {IF allowed = {} THEN {} ELSE UnknownRows(r, allowed) :
                           allowed \in AllowedSets(r)}

\* .limit: any rows, SampleCap at most
SamplesOf(rows) ==
    {s \in SUBSET rows : Cardinality(s) = IF Cardinality(rows) < SampleCap
                                          THEN Cardinality(rows) ELSE SampleCap}

-----------------------------------------------------------------------------
(* A checkpoint *)

\* Mutant: what is neither critical nor an error counts as a warning.
Count_OthersWarn(found, severity) ==
    LET n == Cardinality(found) IN
    [result EXCEPT !.rulesRun = @ + 1,
                   !.passed   = IF n = 0 THEN @ + 1 ELSE @,
                   !.failed   = IF n = 0 THEN @ ELSE @ + 1,
                   !.critical = IF severity = "CRITICAL" THEN @ + n ELSE @,
                   !.error    = IF severity = "ERROR" THEN @ + n ELSE @,
                   !.warn     = IF severity \in {"CRITICAL", "ERROR"} THEN @ ELSE @ + n]

\* the loop's body, given a rule's violations
Count(found, severity) ==
    LET n == Cardinality(found) IN
    [result EXCEPT !.rulesRun = @ + 1,
                   !.passed   = IF n = 0 THEN @ + 1 ELSE @,
                   !.failed   = IF n = 0 THEN @ ELSE @ + 1,
                   !.critical = IF severity = "CRITICAL" THEN @ + n ELSE @,
                   !.error    = IF severity = "ERROR" THEN @ + n ELSE @,
                   !.warn     = IF severity = "WARN" THEN @ + n ELSE @]

\* compute_score in hundredths; a violation costs 2, 1.5 or 1 of 2 per rule
Score(r) ==
    IF r.rulesRun = 0 THEN 10000
    ELSE LET penalty == 4 * r.critical + 3 * r.error + 2 * r.warn
             left == 10000 - (2500 * penalty + r.rulesRun \div 2) \div r.rulesRun
         IN IF left < 0 THEN 0 ELSE left

\* run_checkpoint's own variables
Reset == ruleNo' = 1 /\ result' = NoCounts /\ violations' = {}

\* BatchMeta.new: an id that an earlier run may have had too
StartBatch ==
    /\ pc = "idle" /\ run < MaxRuns
    /\ run' = run + 1 /\ batch' \in BatchIds /\ stageNo' = 0 /\ pc' = "between"
    /\ UNCHANGED <<tables, dimProduct, frame, locals>>

\* The transforms of the next stage.  The last one loads: the products of its
\* rows enter dim_product, before the checkpoint is run.
StageRuns ==
    /\ pc = "between" /\ stageNo < Len(Stages)
    /\ stageNo' = stageNo + 1
    /\ frame' \in Frames[Stages[stageNo + 1]]
    /\ dimProduct' = dimProduct \union
         IF stageNo + 1 = Len(Stages) /\ "product_id" \in frame'.columns
         THEN {frame'.rows[i].product_id : i \in DOMAIN frame'.rows} \ {Null} ELSE {}
    /\ pc' = "stage"
    /\ UNCHANGED <<tables, run, batch, locals>>

\* without rules the checkpoint leaves no trace
StartCheckpoint ==
    /\ pc = "stage"
    /\ pc' = IF RulesOf(Stage) = {} THEN "between" ELSE "rules"
    /\ UNCHANGED <<tables, dimProduct, run, batch, stageNo, frame, locals>>

Found(k, rows, severity) == {[rule |-> k, severity |-> severity, row |-> i] : i \in rows}
Record(k, rows, severity) ==
    /\ result' = Count(Found(k, rows, severity), severity)
    /\ violations' = violations \union Found(k, rows, severity)
    /\ ruleNo' = k + 1

RunRule ==
    /\ pc = "rules"
    /\ \E k \in RulesOf(Stage) :
         /\ IsNext(k)
         /\ \E flagged \in FlaggedSets(Rules[k]) : \E sample \in SamplesOf(flagged) :
                Record(k, sample, Rules[k].severity)
    /\ UNCHANGED <<tables, dimProduct, pc, run, batch, stageNo, frame>>

\* Mutant: a severity that nobody counts.
RuleRaises_Unknown ==
    /\ pc = "rules"
    /\ \E k \in RulesOf(Stage) :
         IsNext(k) /\ ~Skipped(Rules[k]) /\ Record(k, {0}, "UNKNOWN")
    /\ UNCHANGED <<tables, dimProduct, pc, run, batch, stageNo, frame>>

\* any exception of a validator that has not returned early
RuleRaises ==
    /\ pc = "rules"
    /\ \E k \in RulesOf(Stage) :
         IsNext(k) /\ ~Skipped(Rules[k]) /\ Record(k, {0}, "ERROR")
    /\ UNCHANGED <<tables, dimProduct, pc, run, batch, stageNo, frame>>

RulesDone ==
    /\ pc = "rules" /\ Ahead = {}
    /\ pc' = "write"
    /\ UNCHANGED <<tables, dimProduct, run, batch, stageNo, frame, locals>>

Row(v) == [run |-> run, batch |-> batch, stage |-> Stage,
           rule |-> v.rule, severity |-> v.severity, row |-> v.row]

\* ViolationLogger.write inserts one by one; an exception ends it, and is logged
WriteViolations ==
    /\ pc = "write"
    /\ \E written \in SUBSET violations :
         /\ \A v \in written, w \in violations : w.rule < v.rule => w \in written
         /\ dqViolations' = dqViolations \union {Row(v) : v \in written}
    /\ pc' = "score"
    /\ UNCHANGED <<dqScores, dimProduct, run, batch, stageNo, frame, locals>>

\* Mutant: a checkpoint is judged again when its score is stored.
WriteScore_Again ==
    /\ pc = "score"
    /\ dqScores' = dqScores \union
         {[run |-> run, batch |-> batch, stage |-> Stage, counts |-> result,
           total |-> Cardinality(violations), score |-> Score(result)]}
    /\ pc' \in {"between", "stage"} /\ Reset
    /\ UNCHANGED <<dqViolations, dimProduct, run, batch, stageNo, frame>>

WriteScore ==
    /\ pc = "score"
    /\ dqScores' = dqScores \union
         {[run |-> run, batch |-> batch, stage |-> Stage, counts |-> result,
           total |-> Cardinality(violations), score |-> Score(result)]}
    /\ pc' = "between" /\ Reset
    /\ UNCHANGED <<dqViolations, dimProduct, run, batch, stageNo, frame>>

\* write_score logs any exception
ScoreLost ==
    /\ pc = "score" /\ pc' = "between" /\ Reset
    /\ UNCHANGED <<tables, dimProduct, run, batch, stageNo, frame>>

\* the run is done, fails elsewhere, or the process dies
RunEnds ==
    /\ pc # "idle" /\ pc' = "idle"
    /\ frame' = NoFrame /\ Reset
    /\ UNCHANGED <<tables, dimProduct, run, batch, stageNo>>

Next == StartBatch \/ StageRuns \/ StartCheckpoint \/ RunRule \/ RuleRaises \/ RulesDone
          \/ WriteViolations \/ WriteScore \/ ScoreLost \/ RunEnds

Spec == Init /\ [][Next]_vars

-----------------------------------------------------------------------------
(* Properties *)

\* Every variable has its type; the counts are numbers.
TypeOK ==
    /\ pc \in {"idle", "between", "stage", "rules", "write", "score"}
    /\ run \in 0 .. MaxRuns /\ batch \in BatchIds
    /\ stageNo \in 0 .. Len(Stages) + 1
    /\ frame \in (UNION {Frames[s] : s \in StageNames}) \union {NoFrame}
    /\ ruleNo \in Nat \ {0}
    /\ result \in [DOMAIN NoCounts -> Nat]
    /\ IsFiniteSet(violations)
    /\ violations \subseteq [rule : Nat, severity : Severities, row : Nat]
    /\ dqViolations \subseteq
         [run : Nat, batch : BatchIds, stage : StageNames, rule : Nat, severity : Severities,
          row : Nat]
    /\ dqScores \subseteq
         [run : Nat, batch : BatchIds, stage : StageNames, counts : [DOMAIN NoCounts -> Nat],
          total : Nat, score : Int]

Severe(severity) == {v \in violations : v.severity = severity}

\* DQResult's counts are those of its list: rules are counted once each, a
\* failed one has violations, and each violation counts for its severity.
CountsMatchViolations ==
    /\ pc \in {"rules", "write", "score"} =>
         result.rulesRun = Cardinality(RulesOf(Stage) \ Ahead)
    /\ result.rulesRun = result.passed + result.failed
    /\ result.failed = Cardinality({v.rule : v \in violations})
    /\ result.critical = Cardinality(Severe("CRITICAL"))
    /\ result.error = Cardinality(Severe("ERROR"))
    /\ result.warn = Cardinality(Severe("WARN"))

\* Rows that break a rule, for a reader of rules_config.yaml.
Breaks(r, row) ==
    CASE r.type = "null_check"  -> \E f \in r.fields : row[f] = Null
      [] r.type = "range_check" -> \E f \in r.fields :
            ~(row[f] # Null /\ (r.min = Null \/ r.min <= row[f]) /\ (r.max = Null \/ row[f] <= r.max))
      [] r.type = "cross_field" ->
            Null \notin {row[r.expr.low], row[r.expr.high]} /\ row[r.expr.high] < row[r.expr.low]
      [] OTHER -> \E f \in r.fields : row[f] # Null /\ Upper[row[f]] \notin {Upper[v] : v \in r.allowed}

\* A rule that is counted as passed was broken by no row, unless it was
\* skipped, or looks into a table; and a reported row does break its rule.
PassedRulesHold ==
    pc \in {"write", "score"} =>
        \A k \in RulesOf(Stage) : LET r == Rules[k] IN
            r.mode = "static_values" =>
                /\ \A v \in violations : v.rule = k /\ v.row # 0 => Breaks(r, frame.rows[v.row])
                /\ (~Skipped(r) /\ \A v \in violations : v.rule # k) =>
                        \A i \in RowIds : ~Breaks(r, frame.rows[i])

\* A product that an earlier run loaded is never reported as unknown, in
\* whatever case it is written, and also when the lookup fails.
LoadedProductsAreKnown ==
    \A v \in violations : LET r == Rules[v.rule] IN
        r.type = "referential_integrity" /\ r.mode = "duckdb_table" /\ v.row # 0 =>
            ValueOf(r, v.row) \notin dimProduct

\* x and y are of one checkpoint of one run, and carry its batch id.
SameCheckpoint(x, y) == x.run = y.run /\ x.batch = y.batch /\ x.stage = y.stage

Counted(counts) == counts.critical + counts.error + counts.warn

\* The two tables agree for every checkpoint of every run: one score; as many
\* stored violations as it counts, or fewer after a failed write; and a score
\* of 100 exactly if none was of a severity that counts.
ScoresMatchViolations ==
    \A s \in dqScores :
        /\ Cardinality({v \in dqViolations : SameCheckpoint(v, s)}) <= s.total
        /\ Counted(s.counts) <= s.total
        /\ s.score = 10000 <=> Counted(s.counts) = 0
        /\ s.score \in 0 .. 10000
        /\ \A t \in dqScores : SameCheckpoint(t, s) => t = s

\* Counts, score and both tables tell the same of a checkpoint.
FiguresAgree == CountsMatchViolations /\ ScoresMatchViolations

\* Once a run has stored the score of a checkpoint, it adds no violation of it;
\* a later run with the same batch id may.
ScoreComesLast ==
    [][\A v \in dqViolations' \ dqViolations : ~\E s \in dqScores : SameCheckpoint(v, s)]_vars

-----------------------------------------------------------------------------
(* What docs say, and the code does not do *)

\* rules_engine.py: "0 = all rules failed".
ZeroMeansAllFailed ==
    \A s \in dqScores : s.score = 0 => s.counts.failed = s.counts.rulesRun

\* violation_logger.py: "one row per checkpoint per batch".
OneScorePerBatch ==
    \A s, t \in dqScores : s.batch = t.batch /\ s.stage = t.stage => s = t

\* null_check.py: "one per offending row".
EachNullRowReported ==
    pc \in {"write", "score"} =>
        \A k \in RulesOf(Stage) : LET r == Rules[k] IN
            r.type = "null_check" /\ ~Skipped(r) /\ [rule |-> k, severity |-> "ERROR", row |-> 0] \notin violations =>
                Cardinality({v \in violations : v.rule = k}) = Cardinality(NullRows(r))

=============================================================================
