------------------------- MODULE DqCheckpointProofs -------------------------
(* What the data quality engine reports is right for any rules, frames,      *)
(* stages and runs, which may share batch ids: the counts are those of the   *)
(* violations, the two tables tell the same, a rule is counted as passed     *)
(* only if its rows comply, and loaded products are never called unknown.    *)
EXTENDS DqCheckpoint, FiniteSetTheorems, TLAPS

-----------------------------------------------------------------------------
(* The inductive invariant *)

InCheckpoint == pc \in {"rules", "write", "score"}
Done == RulesOf(Stage) \ Ahead

\* Where the run is, and that a checkpoint starts from nothing.
Placed ==
    /\ pc = "between" => stageNo \in 0 .. Len(Stages)
    /\ pc = "stage" \/ InCheckpoint => stageNo \in DOMAIN Stages /\ frame \in Frames[Stage]
    /\ ~InCheckpoint => ruleNo = 1 /\ result = NoCounts /\ violations = {}
    /\ pc \in {"write", "score"} => Ahead = {}

\* A violation is of a rule that the loop has run, and of a row of the frame.
Sourced ==
    \A v \in violations : v.rule \in Done /\ v.row \in RowIds \union {0}

\* PassedRulesHold for the rules that the loop has run.
Judgement(k) ==
    /\ \A v \in violations : v.rule = k /\ v.row # 0 => Breaks(Rules[k], frame.rows[v.row])
    /\ (~Skipped(Rules[k]) /\ \A v \in violations : v.rule # k) =>
            \A i \in RowIds : ~Breaks(Rules[k], frame.rows[i])

Judged ==
    InCheckpoint => \A k \in Done : Rules[k].mode = "static_values" => Judgement(k)

\* a row of either table belongs to a checkpoint that is over
Past(x) ==
    \/ x.run < run
    \/ /\ x.run = run
       /\ \E n \in DOMAIN Stages :
            x.stage = Stages[n] /\ n <= stageNo /\ (n = stageNo => pc \in {"idle", "between"})

Stored ==
    /\ \A s \in dqScores : Past(s)
    /\ \A w \in dqViolations :
         Past(w) \/ (pc = "score" /\ \E v \in violations : w = Row(v))

IInv == TypeOK /\ Placed /\ Sourced /\ Judged /\ LoadedProductsAreKnown
          /\ FiguresAgree /\ Stored


-----------------------------------------------------------------------------
(* Lemmas about the operators *)

\* A rule has its type, and there are finitely many of them.
LEMMA RuleFacts ==
  /\ \A k \in DOMAIN Rules :
       /\ k \in Nat \ {0} /\ k <= Len(Rules)
       /\ Rules[k].type \in Types /\ Rules[k].severity \in Severities
       /\ Rules[k].min \in Int \union {Null} /\ Rules[k].max \in Int \union {Null}
       /\ Rules[k].mode \in {"static_values", "duckdb_table"}
       /\ Rules[k].type # "cross_field" => \E f \in Rules[k].fields : Rules[k].fields = {f}
  /\ \A s : RulesOf(s) \subseteq 1 .. Len(Rules) /\ IsFiniteSet(RulesOf(s))
  /\ \A s : Cardinality(RulesOf(s)) <= Len(Rules)
  /\ Len(Rules) \in Nat /\ Len(Rules) <= 10000
<1>1. \A k \in DOMAIN Rules : k \in 1 .. Len(Rules)
  BY RulesAssumption
<1>2. Len(Rules) \in Nat /\ Len(Rules) <= 10000
  BY RulesAssumption
<1>3. ASSUME NEW s
      PROVE  /\ RulesOf(s) \in SUBSET (1 .. Len(Rules)) /\ IsFiniteSet(RulesOf(s))
             /\ Cardinality(RulesOf(s)) <= Len(Rules)
  <2>1. IsFiniteSet(1 .. Len(Rules)) /\ Cardinality(1 .. Len(Rules)) = Len(Rules)
    <3> DEFINE n == Len(Rules)
    <3>1. n \in Nat
      BY <1>2
    <3> HIDE DEF n
    <3>2. IsFiniteSet(1 .. n) /\ Cardinality(1 .. n) = IF 1 > n THEN 0 ELSE n - 1 + 1
      BY <3>1, FS_Interval
    <3>3. Cardinality(1 .. n) = n
      BY <3>1, <3>2
    <3> QED
      BY <3>2, <3>3 DEF n
  <2>2. RulesOf(s) \in SUBSET (1 .. Len(Rules))
    BY <1>1 DEF RulesOf
  <2> QED
    BY <2>1, <2>2, FS_Subset
<1>4. ASSUME NEW k \in DOMAIN Rules
      PROVE  /\ Rules[k].type \in Types /\ Rules[k].severity \in Severities
             /\ Rules[k].min \in Int \union {Null} /\ Rules[k].max \in Int \union {Null}
             /\ Rules[k].mode \in {"static_values", "duckdb_table"}
             /\ Rules[k].type # "cross_field" => \E f \in Rules[k].fields : Rules[k].fields = {f}
  <2> DEFINE RuleType ==
        [type : Types, stage : STRING, severity : STRING, fields : SUBSET STRING,
         min : Int \union {Null}, max : Int \union {Null},
         allowed : SUBSET STRING, mode : {"static_values", "duckdb_table"},
         expr : [low : STRING, high : STRING] \union {Null}]
  <2>1. Rules \in Seq(RuleType)
    BY RulesAssumption
  <2>2. Rules[k] \in RuleType
    <3> HIDE DEF RuleType
    <3> QED
      BY <2>1
  <2>3. Rules[k].type # "cross_field" => \E f \in Rules[k].fields : Rules[k].fields = {f}
    BY RulesAssumption
  <2>4. Rules[k].severity \in Severities
    BY DEF Severities
  <2> QED
    BY <2>2, <2>3, <2>4
<1> QED
  BY <1>1, <1>2, <1>3, <1>4

\* A frame's rows are numbered from 1; ranges are asked of numbers.
LEMMA FrameFacts ==
  ASSUME Placed, pc = "stage" \/ InCheckpoint
  PROVE  /\ RowIds \subseteq Nat \ {0} /\ IsFiniteSet(RowIds)
         /\ \A k \in RulesOf(Stage) : \A c \in Rules[k].fields \intersect frame.columns :
              Rules[k].type = "range_check" => \A i \in RowIds : frame.rows[i][c] \in Int \union {Null}
<1>1. Stage \in StageNames /\ frame \in Frames[Stage]
  BY DEF Placed, Stage, StageNames
<1>2. /\ Len(frame.rows) \in Nat /\ RowIds = 1 .. Len(frame.rows)
      /\ \A k \in DOMAIN Rules : \A c \in Rules[k].fields \intersect frame.columns :
              Rules[k].stage = Stage /\ Rules[k].type = "range_check" =>
                  \A i \in RowIds : frame.rows[i][c] \in Int \union {Null}
  BY <1>1, FramesAssumption DEF RowIds
<1>3. IsFiniteSet(RowIds)
  BY <1>2, FS_Interval
<1> QED
  BY <1>2, <1>3 DEF RulesOf

\* One violation for each row.
LEMMA FoundFacts ==
  ASSUME NEW k, NEW severity, NEW rows, IsFiniteSet(rows)
  PROVE  /\ IsFiniteSet(Found(k, rows, severity)) /\ Cardinality(rows) \in Nat
         /\ Cardinality(Found(k, rows, severity)) = Cardinality(rows)
         /\ \A v \in Found(k, rows, severity) : v.rule = k /\ v.severity = severity /\ v.row \in rows
         /\ rows # {} => \E v \in Found(k, rows, severity) : TRUE
         /\ rows = {} => Found(k, rows, severity) = {}
<1> DEFINE F == Found(k, rows, severity)
           f == [i \in rows |-> [rule |-> k, severity |-> severity, row |-> i]]
<1>1. f \in Bijection(rows, F)
  <2>1. f \in [rows -> F]
    BY DEF Found
  <2>2. \A i \in rows : f[i].row = i
    OBVIOUS
  <2>3. \A i, j \in rows : f[i] = f[j] => i = j
    <3> SUFFICES ASSUME NEW i \in rows, NEW j \in rows, f[i] = f[j] PROVE i = j
      OBVIOUS
    <3> HIDE DEF f
    <3> QED
      BY <2>2
  <2>4. \A v \in F : \E i \in rows : f[i] = v
    BY DEF Found
  <2> HIDE DEF f, F
  <2> QED
    BY <2>1, <2>3, <2>4 DEF Bijection, Injection, Surjection, IsInjective
<1>2. IsFiniteSet(F) /\ Cardinality(F) = Cardinality(rows)
  <2>1. ExistsBijection(rows, F)
    BY <1>1 DEF ExistsBijection
  <2> QED
    BY <2>1, FS_Bijection
<1>3. Cardinality(rows) \in Nat
  BY FS_CardinalityType
<1>4. \A v \in F : v.rule = k /\ v.severity = severity /\ v.row \in rows
  BY DEF Found
<1>5. (rows # {} => \E v \in F : TRUE) /\ (rows = {} => F = {})
  BY DEF Found
<1> QED
  BY <1>2, <1>3, <1>4, <1>5

CountNames == {"rulesRun", "passed", "failed", "critical", "error", "warn"}

LEMMA CountTypes == DOMAIN NoCounts = CountNames /\ NoCounts \in [CountNames -> Nat]
BY DEF NoCounts, CountNames

\* What the loop's body makes of the counts.
LEMMA CountFacts ==
  ASSUME result \in [CountNames -> Nat], NEW found, Cardinality(found) \in Nat, NEW severity
  PROVE  LET new == Count(found, severity)
             n == Cardinality(found)
         IN  /\ new \in [CountNames -> Nat]
             /\ new.rulesRun = result.rulesRun + 1
             /\ new.passed = result.passed + (IF n = 0 THEN 1 ELSE 0)
             /\ new.failed = result.failed + (IF n = 0 THEN 0 ELSE 1)
             /\ new.critical = result.critical + (IF severity = "CRITICAL" THEN n ELSE 0)
             /\ new.error = result.error + (IF severity = "ERROR" THEN n ELSE 0)
             /\ new.warn = result.warn + (IF severity = "WARN" THEN n ELSE 0)
<1> DEFINE n == Cardinality(found)
           new == Count(found, severity)
<1>1. n \in Nat /\ \A c \in CountNames : result[c] \in Nat
  OBVIOUS
<1>2. DOMAIN result = CountNames
  OBVIOUS
<1> HIDE DEF n
<1>3. new = [result EXCEPT !.rulesRun = result.rulesRun + 1,
                   !.passed   = IF n = 0 THEN result.passed + 1 ELSE result.passed,
                   !.failed   = IF n = 0 THEN result.failed ELSE result.failed + 1,
                   !.critical = IF severity = "CRITICAL" THEN result.critical + n ELSE result.critical,
                   !.error    = IF severity = "ERROR" THEN result.error + n ELSE result.error,
                   !.warn     = IF severity = "WARN" THEN result.warn + n ELSE result.warn]
  BY <1>2 DEF Count, CountNames, n
<1> HIDE DEF new
<1>4. /\ new.rulesRun = result.rulesRun + 1
      /\ new.passed = IF n = 0 THEN result.passed + 1 ELSE result.passed
      /\ new.failed = IF n = 0 THEN result.failed ELSE result.failed + 1
      /\ new.critical = IF severity = "CRITICAL" THEN result.critical + n ELSE result.critical
      /\ new.error = IF severity = "ERROR" THEN result.error + n ELSE result.error
      /\ new.warn = IF severity = "WARN" THEN result.warn + n ELSE result.warn
  BY <1>2, <1>3 DEF CountNames
<1>5. \A c \in CountNames : new[c] \in Nat
  BY <1>1, <1>4 DEF CountNames
<1>6. new \in [CountNames -> Nat]
  <2>1. DOMAIN new = CountNames /\ new = [c \in DOMAIN new |-> new[c]]
    BY <1>2, <1>3
  <2> QED
    BY <2>1, <1>5
<1>7. /\ result.passed \in Nat /\ result.failed \in Nat /\ result.critical \in Nat
      /\ result.error \in Nat /\ result.warn \in Nat
  BY <1>1 DEF CountNames
<1> QED
  BY <1>1, <1>4, <1>6, <1>7 DEF new, n

\* A score is between 0 and 100, and 100 exactly if nothing counts.
LEMMA ScoreFacts ==
  ASSUME NEW r \in [CountNames -> Nat], r.rulesRun <= 10000
  PROVE  /\ Score(r) \in 0 .. 10000
         /\ r.rulesRun # 0 =>
              (Score(r) = 10000 <=> r.critical = 0 /\ r.error = 0 /\ r.warn = 0)
         /\ r.rulesRun = 0 => Score(r) = 10000
<1> DEFINE n == r.rulesRun
           penalty == 4 * r.critical + 3 * r.error + 2 * r.warn
           due == 2500 * penalty + n \div 2
           Sound == /\ Score(r) \in 0 .. 10000
                    /\ r.rulesRun # 0 =>
                         (Score(r) = 10000 <=> r.critical = 0 /\ r.error = 0 /\ r.warn = 0)
                    /\ r.rulesRun = 0 => Score(r) = 10000
<1>1. /\ n \in Nat /\ r.critical \in Nat /\ r.error \in Nat /\ r.warn \in Nat /\ n <= 10000
  BY DEF CountNames
<1>2. ASSUME n = 0 PROVE Sound
  BY <1>2 DEF Score
<1>3. ASSUME n # 0 PROVE Sound
  <2>1. penalty \in Nat /\ (penalty = 0 <=> r.critical = 0 /\ r.error = 0 /\ r.warn = 0)
        /\ (penalty # 0 => penalty >= 2)
    <3> DEFINE c == r.critical
               e == r.error
               w == r.warn
    <3>1. c \in Nat /\ e \in Nat /\ w \in Nat
      BY <1>1
    <3> HIDE DEF c, e, w
    <3>2. 4 * c + 3 * e + 2 * w \in Nat /\ (4 * c + 3 * e + 2 * w = 0 <=> c = 0 /\ e = 0 /\ w = 0)
          /\ (4 * c + 3 * e + 2 * w # 0 => 4 * c + 3 * e + 2 * w >= 2)
      BY <3>1
    <3> QED
      BY <3>2 DEF c, e, w
  <2> HIDE DEF penalty
  <2>2. n \div 2 \in Nat /\ n \div 2 < n /\ 2 * (n \div 2) + 1 >= n
    BY <1>1, <1>3
  <2>3. due \in Nat /\ (penalty = 0 => due < n) /\ (penalty # 0 => due >= n)
    <3> DEFINE h == n \div 2
    <3>1. h \in Nat /\ h < n /\ 2 * h + 1 >= n
      BY <2>2
    <3> HIDE DEF h
    <3>2. CASE penalty = 0
      BY <3>1, <3>2, <1>1 DEF h
    <3>3. CASE penalty # 0
      BY <3>1, <3>3, <2>1, <1>1 DEF h
    <3> QED
      BY <3>2, <3>3
  <2> HIDE DEF due, n
  <2>4. due \div n \in Nat /\ (penalty = 0 => due \div n = 0) /\ (penalty # 0 => due \div n >= 1)
    BY <1>1, <1>3, <2>3
  <2>5. Score(r) = IF 10000 - due \div n < 0 THEN 0 ELSE 10000 - due \div n
    BY <1>3 DEF Score, n, due, penalty
  <2> DEFINE q == due \div n
  <2> HIDE DEF q
  <2>6. q \in Nat /\ (penalty = 0 => q = 0) /\ (penalty # 0 => q >= 1)
        /\ Score(r) = IF 10000 - q < 0 THEN 0 ELSE 10000 - q
    BY <2>4, <2>5 DEF q
  <2> DEFINE s == Score(r)
  <2> HIDE DEF s
  <2>7. s \in 0 .. 10000 /\ (s = 10000 <=> penalty = 0)
    <3>1. q \in Nat /\ s = IF 10000 - q < 0 THEN 0 ELSE 10000 - q
      BY <2>6 DEF s
    <3>2. s \in 0 .. 10000 /\ (s = 10000 <=> q = 0)
      BY <3>1
    <3>3. q = 0 <=> penalty = 0
      BY <2>6
    <3> QED
      BY <3>2, <3>3
  <2> QED
    BY <2>7, <2>1, <1>3, SMTT(30) DEF n, s
<1>4. Sound
  <2> HIDE DEF n, penalty, due, Sound
  <2> QED
    BY <1>2, <1>3
<1> QED
  BY <1>4

\* A score's rows, and what ScoresMatchViolations says of it.
RowsOf(s, stored) == {w \in stored : SameCheckpoint(w, s)}
Fits(s, rows) ==
    /\ Cardinality(rows) <= s.total
    /\ Counted(s.counts) <= s.total
    /\ s.score = 10000 <=> Counted(s.counts) = 0
    /\ s.score \in 0 .. 10000
Lone(s, scores) == \A t \in scores : SameCheckpoint(t, s) => t = s
Matches(s, scores, stored) == Fits(s, RowsOf(s, stored)) /\ Lone(s, scores)

LEMMA MatchesAll ==
  ScoresMatchViolations <=> \A s \in dqScores : Matches(s, dqScores, dqViolations)
BY DEF ScoresMatchViolations, Matches, Fits, Lone, RowsOf

LEMMA NextMatchesAll ==
  ScoresMatchViolations' <=> \A s \in dqScores' : Matches(s, dqScores', dqViolations')
BY DEF ScoresMatchViolations, Matches, Fits, Lone, RowsOf, SameCheckpoint

LEMMA ScoresAlone ==
  ASSUME ScoresMatchViolations, dqScores' = dqScores, dqViolations' = dqViolations
  PROVE  ScoresMatchViolations'
BY MatchesAll, NextMatchesAll

-----------------------------------------------------------------------------
(* A rule of the loop *)

\* The judgement of a rule after a step that only adds to the violations: what
\* the rule asks of the frame is the same before and after.
LEMMA JudgementAfter ==
  ASSUME NEW j, NEW found, violations' = found, frame' = frame, dimProduct' = dimProduct,
         \A v \in found : v.rule = j /\ v.row # 0 => Breaks(Rules[j], frame.rows[v.row]),
         (~Skipped(Rules[j]) /\ \A v \in found : v.rule # j) =>
             \A i \in RowIds : ~Breaks(Rules[j], frame.rows[i])
  PROVE  Judgement(j)'
<1>1. \A i : Breaks(Rules[j], frame.rows[i])' <=> Breaks(Rules[j], frame.rows[i])
  BY DEF Breaks
<1>2. (Skipped(Rules[j])' <=> Skipped(Rules[j])) /\ RowIds' = RowIds
  BY DEF Skipped, RowIds
<1>3. \A v \in violations' : v.rule = j /\ v.row # 0 => Breaks(Rules[j], frame.rows[v.row])'
  BY <1>1
<1>4. (~Skipped(Rules[j])' /\ \A v \in violations' : v.rule # j) =>
          \A i \in RowIds' : ~Breaks(Rules[j], frame.rows[i])'
  BY <1>1, <1>2
<1> QED
  BY <1>3, <1>4 DEF Judgement

\* The loop takes the rules of the checkpoint in order, one at a time.
LEMMA LoopAdvances ==
  ASSUME ruleNo \in Nat, NEW k \in RulesOf(Stage), IsNext(k), ruleNo' = k + 1, UNCHANGED stageNo
  PROVE  /\ Done' = Done \union {k} /\ k \notin Done /\ Stage' = Stage
         /\ RulesOf(Stage)' = RulesOf(Stage)
<1>1. Stage' = Stage /\ RulesOf(Stage)' = RulesOf(Stage)
  BY DEF Stage, RulesOf
<1>2. k \in Nat /\ \A j \in RulesOf(Stage) : j \in Nat
  BY RuleFacts DEF RulesOf
<1>3. ruleNo <= k /\ \A j \in RulesOf(Stage) : ruleNo <= j => k <= j
  BY DEF IsNext, Ahead
<1>4. Ahead' = {j \in RulesOf(Stage) : k + 1 <= j}
  BY <1>1 DEF Ahead
<1>5. ASSUME NEW j \in RulesOf(Stage)
      PROVE  k + 1 <= j <=> ruleNo <= j /\ j # k
  BY <1>2, <1>3
<1>6. Ahead' = Ahead \ {k} /\ k \in Ahead
  BY <1>3, <1>4, <1>5 DEF Ahead
<1> QED
  BY <1>1, <1>6 DEF Done, Ahead

\* The counts follow the list of violations.
LEMMA RecordCounts ==
  ASSUME TypeOK, Sourced, CountsMatchViolations, pc = "rules", UNCHANGED <<pc, stageNo>>,
         NEW k \in RulesOf(Stage), IsNext(k),
         NEW rows, IsFiniteSet(rows), NEW severity \in Severities, Record(k, rows, severity)
  PROVE  CountsMatchViolations'
<1> DEFINE F == Found(k, rows, severity)
           n == Cardinality(F)
           Failed == {v.rule : v \in violations}
<1>1. /\ result' = Count(F, severity) /\ violations' = violations \union F /\ ruleNo' = k + 1
  BY DEF Record
<1>2. /\ IsFiniteSet(F) /\ n \in Nat /\ (n = 0 <=> F = {})
      /\ \A v \in F : v.rule = k /\ v.severity = severity
  <2>1. IsFiniteSet(F) /\ n \in Nat /\ \A v \in F : v.rule = k /\ v.severity = severity
    BY FoundFacts
  <2> QED
    BY <2>1, FS_EmptySet
<1>3. result \in [CountNames -> Nat] /\ IsFiniteSet(violations) /\ ruleNo \in Nat
  BY CountTypes DEF TypeOK
<1>4. Done' = Done \union {k} /\ k \notin Done /\ Stage' = Stage /\ RulesOf(Stage)' = RulesOf(Stage)
  BY <1>1, <1>3, LoopAdvances
<1>5. \A v \in violations : v.rule # k
  BY <1>4 DEF Sourced
<1> HIDE DEF F
<1>6. /\ result'.rulesRun = result.rulesRun + 1
      /\ result'.passed = result.passed + (IF n = 0 THEN 1 ELSE 0)
      /\ result'.failed = result.failed + (IF n = 0 THEN 0 ELSE 1)
      /\ result'.critical = result.critical + (IF severity = "CRITICAL" THEN n ELSE 0)
      /\ result'.error = result.error + (IF severity = "ERROR" THEN n ELSE 0)
      /\ result'.warn = result.warn + (IF severity = "WARN" THEN n ELSE 0)
  BY <1>1, <1>2, <1>3, CountFacts
<1>7. /\ result.rulesRun \in Nat /\ result.passed \in Nat /\ result.failed \in Nat
      /\ result.critical \in Nat /\ result.error \in Nat /\ result.warn \in Nat
  BY <1>3 DEF CountNames
<1>8. result'.rulesRun = Cardinality(Done')
  <2>1. result.rulesRun = Cardinality(Done) /\ IsFiniteSet(RulesOf(Stage))
    BY RuleFacts DEF CountsMatchViolations, Done
  <2>2. Done \in SUBSET RulesOf(Stage)
    BY DEF Done
  <2>3. IsFiniteSet(Done)
    BY <2>1, <2>2, FS_Subset
  <2>4. Cardinality(Done \union {k}) = Cardinality(Done) + 1
    BY <2>3, <1>4, FS_AddElement
  <2> QED
    BY <2>1, <2>4, <1>4, <1>6
<1>9. result'.rulesRun = result'.passed + result'.failed
  BY <1>2, <1>6, <1>7 DEF CountsMatchViolations
<1>10. result'.failed = Cardinality({v.rule : v \in violations'})
  <2>1. result.failed = Cardinality(Failed)
    BY DEF CountsMatchViolations
  <2>2. IsFiniteSet(Failed)
    <3> DEFINE g == [v \in violations |-> v.rule]
    <3>1. g \in Surjection(violations, Failed)
      BY DEF Surjection
    <3> QED
      BY <3>1, <1>3, FS_Surjection
  <2>3. k \notin Failed
    BY <1>5
  <2>4. CASE n = 0
    <3>1. {v.rule : v \in violations'} = Failed
      BY <2>4, <1>1, <1>2 DEF F
    <3> HIDE DEF n
    <3>2. result'.failed = result.failed
      BY <2>4, <1>6, <1>7
    <3> QED
      BY <3>1, <3>2, <2>1
  <2>5. CASE n # 0
    <3>1. \A x : x \in {v.rule : v \in violations'} <=> x \in Failed \union {k}
      BY <2>5, <1>1, <1>2 DEF F
    <3>2. {v.rule : v \in violations'} = Failed \union {k}
      BY <3>1
    <3>3. Cardinality(Failed \union {k}) = Cardinality(Failed) + 1
      BY <2>2, <2>3, FS_AddElement
    <3> QED
      BY <3>2, <3>3, <2>5, <2>1, <1>6
  <2> QED
    BY <2>4, <2>5
<1>11. ASSUME NEW s \in {"CRITICAL", "ERROR", "WARN"}
       PROVE  /\ Cardinality(Severe(s)) \in Nat
              /\ Cardinality(Severe(s)') = Cardinality(Severe(s)) + (IF severity = s THEN n ELSE 0)
  <2>1. Severe(s) \in SUBSET violations
    BY DEF Severe
  <2>2. IsFiniteSet(Severe(s)) /\ Cardinality(Severe(s)) \in Nat
    BY <2>1, <1>3, FS_Subset, FS_CardinalityType
  <2>3. CASE severity = s
    <3>1. Severe(s)' = Severe(s) \union F
      BY <2>3, <1>1, <1>2 DEF Severe, F
    <3>2. Severe(s) \intersect F = {}
      BY <2>1, <1>2, <1>5
    <3>3. Cardinality(Severe(s) \union F)
            = Cardinality(Severe(s)) + n - Cardinality(Severe(s) \intersect F)
      BY <2>2, <1>2, FS_Union
    <3> HIDE DEF n
    <3>4. Cardinality(Severe(s) \union F) = Cardinality(Severe(s)) + n - 0
      BY <3>2, <3>3, FS_EmptySet
    <3> QED
      BY <3>1, <3>4, <2>2, <2>3, <1>2
  <2>4. CASE severity # s
    <3>1. Severe(s)' = Severe(s)
      BY <2>4, <1>1, <1>2 DEF Severe, F
    <3> QED
      BY <3>1, <2>4, <2>2
  <2> QED
    BY <2>3, <2>4
<1>12. /\ result'.critical = Cardinality(Severe("CRITICAL")')
       /\ result'.error = Cardinality(Severe("ERROR")')
       /\ result'.warn = Cardinality(Severe("WARN")')
  <2>1. /\ result.critical = Cardinality(Severe("CRITICAL"))
        /\ result.error = Cardinality(Severe("ERROR"))
        /\ result.warn = Cardinality(Severe("WARN"))
    BY DEF CountsMatchViolations
  <2> HIDE DEF n
  <2> QED
    BY <2>1, <1>6, <1>11
<1> QED
  BY <1>8, <1>9, <1>10, <1>12 DEF CountsMatchViolations, Done

\* A rule's violations are recorded: what has to be known of them, and what
\* follows.
LEMMA RecordInv ==
  ASSUME IInv, pc = "rules", UNCHANGED <<tables, dimProduct, pc, run, batch, stageNo, frame>>,
         NEW k \in RulesOf(Stage), IsNext(k),
         NEW rows \in SUBSET (RowIds \union {0}), NEW severity \in Severities,
         Record(k, rows, severity),
         Rules[k].mode = "static_values" =>
            /\ \A i \in rows : i # 0 => Breaks(Rules[k], frame.rows[i])
            /\ ~Skipped(Rules[k]) /\ rows = {} => \A i \in RowIds : ~Breaks(Rules[k], frame.rows[i]),
         Rules[k].type = "referential_integrity" /\ Rules[k].mode = "duckdb_table" =>
            \A i \in rows : i # 0 => ValueOf(Rules[k], i) \notin dimProduct
  PROVE  IInv'
<1> DEFINE F == Found(k, rows, severity)
<1>1. /\ result' = Count(F, severity) /\ violations' = violations \union F /\ ruleNo' = k + 1
  BY DEF Record
<1>2. RowIds \subseteq Nat \ {0} /\ IsFiniteSet(rows) /\ k \in Nat \ {0} /\ k \in DOMAIN Rules
  <2>1. RowIds \subseteq Nat \ {0} /\ IsFiniteSet(RowIds)
    BY FrameFacts DEF IInv, InCheckpoint
  <2>2. IsFiniteSet(RowIds \union {0})
    BY <2>1, FS_AddElement
  <2>3. rows \in SUBSET (RowIds \union {0})
    OBVIOUS
  <2>4. IsFiniteSet(rows)
    BY <2>2, <2>3, FS_Subset
  <2>5. k \in Nat \ {0} /\ k \in DOMAIN Rules
    BY RuleFacts DEF RulesOf
  <2> QED
    BY <2>1, <2>4, <2>5
<1>3. /\ IsFiniteSet(F) /\ Cardinality(F) \in Nat
      /\ \A v \in F : v.rule = k /\ v.severity = severity /\ v.row \in rows
      /\ rows # {} => \E v \in F : TRUE
  BY <1>2, FoundFacts
<1>4. Done' = Done \union {k} /\ k \notin Done /\ Stage' = Stage /\ RulesOf(Stage)' = RulesOf(Stage)
  BY <1>1, LoopAdvances DEF IInv, TypeOK
<1>5. UNCHANGED <<frame, dimProduct, RowIds, pc, InCheckpoint, stageNo, run, batch, dqScores, dqViolations>>
  BY DEF RowIds, InCheckpoint, tables
<1>6. \A v \in violations : v.rule # k /\ v.rule \in Done
  BY <1>4 DEF Sourced, IInv
<1>7. F \subseteq [rule : Nat, severity : Severities, row : Nat]
  BY <1>2 DEF Found
<1>8. TypeOK'
  <2>1. result' \in [DOMAIN NoCounts -> Nat]
    BY <1>1, <1>3, CountFacts, CountTypes DEF IInv, TypeOK
  <2>2. IsFiniteSet(violations')
    BY <1>1, <1>3, FS_Union DEF IInv, TypeOK
  <2>3. violations' \subseteq [rule : Nat, severity : Severities, row : Nat]
    BY <1>1, <1>7 DEF IInv, TypeOK
  <2>4. ruleNo' \in Nat \ {0}
    BY <1>1, <1>2
  <2> QED
    BY <2>1, <2>2, <2>3, <2>4, <1>5 DEF IInv, TypeOK
<1>9. Placed'
  BY <1>4, <1>5 DEF IInv, Placed, InCheckpoint
<1>10. Sourced'
  <2>1. \A v \in violations' : v.rule \in Done' /\ v.row \in RowIds \union {0}
    BY <1>1, <1>3, <1>4 DEF IInv, Sourced
  <2> QED
    BY <2>1, <1>5 DEF Sourced
<1>11. Judged'
  <2>1. ASSUME NEW j \in Done \union {k}, Rules[j].mode = "static_values"
        PROVE  /\ \A v \in violations \union F : v.rule = j /\ v.row # 0 =>
                     Breaks(Rules[j], frame.rows[v.row])
               /\ (~Skipped(Rules[j]) /\ \A v \in violations \union F : v.rule # j) =>
                       \A i \in RowIds : ~Breaks(Rules[j], frame.rows[i])
    <3>1. CASE j = k
      <4>1. \A v \in violations \union F : v.rule = j /\ v.row # 0 => Breaks(Rules[j], frame.rows[v.row])
        BY <3>1, <2>1, <1>3, <1>6
      <4>2. (\A v \in violations \union F : v.rule # j) => rows = {}
        BY <3>1, <1>3
      <4> QED
        BY <4>1, <4>2, <3>1, <2>1
    <3>2. CASE j # k
      <4>1. j \in Done /\ InCheckpoint
        BY <3>2, <2>1 DEF InCheckpoint
      <4>2. Judgement(j)
        BY <4>1, <2>1 DEF IInv, Judged
      <4>3. \A v \in violations \union F : v.rule = j => v \in violations
        BY <3>2, <1>3
      <4> QED
        BY <4>2, <4>3 DEF Judgement
    <3> QED
      BY <3>1, <3>2
  <2>2. ASSUME NEW j \in Done \union {k}, Rules[j].mode = "static_values"
        PROVE  Judgement(j)'
    BY <2>1, <2>2, <1>1, <1>5, JudgementAfter
  <2> QED
    BY <2>2, <1>4 DEF Judged
<1>12. LoadedProductsAreKnown'
  <2>1. ASSUME NEW v \in violations', Rules[v.rule].type = "referential_integrity",
               Rules[v.rule].mode = "duckdb_table", v.row # 0
        PROVE  ValueOf(Rules[v.rule], v.row) \notin dimProduct
    <3>1. CASE v \in violations
      BY <3>1, <2>1 DEF IInv, LoadedProductsAreKnown
    <3>2. CASE v \in F
      BY <3>2, <2>1, <1>3
    <3> QED
      BY <3>1, <3>2, <1>1
  <2> QED
    BY <2>1, <1>5 DEF LoadedProductsAreKnown, ValueOf
<1>13. CountsMatchViolations'
  BY <1>2, <1>5, RecordCounts DEF IInv, FiguresAgree
<1>14. ScoresMatchViolations'
  <2>1. dqScores' = dqScores /\ dqViolations' = dqViolations
    BY <1>5
  <2> QED
    BY <2>1, ScoresAlone DEF IInv, FiguresAgree
<1>15. Stored'
  <2>1. \A x : Past(x)' <=> Past(x)
    BY <1>5 DEF Past
  <2> QED
    BY <2>1, <1>5 DEF IInv, Stored
<1> QED
  BY <1>8, <1>9, <1>10, <1>11, <1>12, <1>13, <1>14, <1>15 DEF IInv, FiguresAgree

\* What a validator flags: with fixed values, exactly the rows that break the
\* rule; with those of a table, no row whose product is loaded.
LEMMA FlaggedRight ==
  ASSUME Placed, InCheckpoint, NEW k \in RulesOf(Stage), NEW flagged \in FlaggedSets(Rules[k])
  PROVE  /\ flagged \subseteq RowIds
         /\ Rules[k].mode = "static_values" =>
              /\ \A i \in flagged : Breaks(Rules[k], frame.rows[i])
              /\ ~Skipped(Rules[k]) => \A i \in RowIds \ flagged : ~Breaks(Rules[k], frame.rows[i])
         /\ Rules[k].type = "referential_integrity" /\ Rules[k].mode = "duckdb_table" =>
              \A i \in flagged : ValueOf(Rules[k], i) \notin dimProduct
<1> DEFINE r == Rules[k]
<1>1. /\ r.type \in Types /\ r.min \in Int \union {Null} /\ r.max \in Int \union {Null}
      /\ r.mode \in {"static_values", "duckdb_table"}
      /\ r.type # "cross_field" => \E f \in r.fields : r.fields = {f}
  BY RuleFacts DEF RulesOf
<1>2. \A c \in r.fields \intersect frame.columns :
         r.type = "range_check" => \A i \in RowIds : frame.rows[i][c] \in Int \union {Null}
  BY FrameFacts
<1> HIDE DEF r
<1>3. flagged \in FlaggedSets(r)
  BY DEF r
<1>4. ASSUME r.type # "cross_field", NEW i
      PROVE  \E f \in r.fields : r.fields = {f} /\ ValueOf(r, i) = frame.rows[i][f]
  <2>1. PICK f \in r.fields : r.fields = {f}
    BY <1>1, <1>4
  <2>2. (CHOOSE g \in r.fields : TRUE) = f
    BY <2>1
  <2> QED
    BY <2>1, <2>2 DEF ValueOf
<1>5. CASE Skipped(r)
  <2>1. flagged = {}
    BY <1>3, <1>5 DEF FlaggedSets
  <2> QED
    BY <2>1, <1>5 DEF r
<1>6. CASE ~Skipped(r) /\ r.type = "null_check"
  <2>1. flagged = NullRows(r)
    BY <1>3, <1>6 DEF FlaggedSets
  <2>2. \A i : Breaks(r, frame.rows[i]) <=> ValueOf(r, i) = Null
    BY <1>4, <1>6 DEF Breaks
  <2> QED
    BY <2>1, <2>2, <1>6 DEF NullRows, r
<1>7. CASE ~Skipped(r) /\ r.type = "range_check"
  <2>1. flagged = OutOfRangeRows(r)
    BY <1>3, <1>7 DEF FlaggedSets
  <2>2. r.fields \subseteq frame.columns
    BY <1>7 DEF Skipped
  <2>3. ASSUME NEW i \in RowIds
        PROVE  Breaks(r, frame.rows[i]) <=> i \in flagged
    <3>1. PICK f \in r.fields : r.fields = {f} /\ ValueOf(r, i) = frame.rows[i][f]
      BY <1>4, <1>7
    <3> DEFINE v == frame.rows[i][f]
               low == r.min
               high == r.max
    <3>2. v \in Int \union {Null} /\ low \in Int \union {Null} /\ high \in Int \union {Null}
      BY <1>1, <1>2, <1>7, <2>2
    <3>3. Breaks(r, frame.rows[i]) <=>
            ~(v # Null /\ (low = Null \/ low <= v) /\ (high = Null \/ v <= high))
      BY <3>1, <1>7 DEF Breaks
    <3>4. i \in flagged <=> v = Null \/ (low # Null /\ v < low) \/ (high # Null /\ v > high)
      BY <3>1, <2>1 DEF OutOfRangeRows
    <3> HIDE DEF v, low, high
    <3>5. (v # Null /\ (low = Null \/ low <= v) /\ (high = Null \/ v <= high))
            <=> ~(v = Null \/ (low # Null /\ v < low) \/ (high # Null /\ v > high))
      BY <3>2
    <3> QED
      BY <3>3, <3>4, <3>5
  <2>4. flagged \subseteq RowIds
    BY <2>1 DEF OutOfRangeRows
  <2> QED
    BY <2>3, <2>4, <1>7 DEF r
<1>8. CASE ~Skipped(r) /\ r.type = "cross_field"
  <2>1. flagged = ContradictedRows(r)
    BY <1>3, <1>8 DEF FlaggedSets
  <2>2. \A i \in RowIds : Breaks(r, frame.rows[i]) <=> i \in flagged
    BY <2>1, <1>8 DEF Breaks, ContradictedRows
  <2>3. flagged \subseteq RowIds
    BY <2>1 DEF ContradictedRows
  <2> QED
    BY <2>2, <2>3, <1>8 DEF r
<1>9. CASE ~Skipped(r) /\ r.type = "referential_integrity"
  <2>1. PICK allowed \in AllowedSets(r) :
           flagged = IF allowed = {} THEN {} ELSE UnknownRows(r, allowed)
    BY <1>3, <1>9 DEF FlaggedSets
  <2>2. flagged \subseteq RowIds
    BY <2>1 DEF UnknownRows
  <2>3. CASE r.mode = "static_values"
    <3>1. allowed = {Upper[v] : v \in r.allowed} /\ r.allowed # {}
      BY <2>3, <1>9 DEF AllowedSets, Skipped
    <3>2. flagged = UnknownRows(r, allowed)
      BY <2>1, <3>1
    <3>3. \A i : Breaks(r, frame.rows[i]) <=> ValueOf(r, i) # Null /\ Upper[ValueOf(r, i)] \notin allowed
      BY <3>1, <1>4, <1>9 DEF Breaks
    <3> QED
      BY <3>2, <3>3, <2>2, <2>3 DEF UnknownRows, r
  <2>4. CASE r.mode = "duckdb_table"
    <3>1. flagged # {} => flagged = UnknownRows(r, allowed) /\ allowed = {Upper[v] : v \in dimProduct}
      BY <2>1, <2>4 DEF AllowedSets
    <3>2. \A i \in flagged : ValueOf(r, i) \notin dimProduct
      BY <3>1 DEF UnknownRows
    <3> QED
      BY <3>2, <2>2, <2>4 DEF r
  <2> QED
    BY <2>3, <2>4, <1>1
<1> QED
  BY <1>1, <1>5, <1>6, <1>7, <1>8, <1>9 DEF Types

LEMMA RunRuleInv ==
  ASSUME IInv, RunRule
  PROVE  IInv'
<1>1. pc = "rules" /\ InCheckpoint /\ UNCHANGED <<tables, dimProduct, pc, run, batch, stageNo, frame>>
  BY DEF RunRule, InCheckpoint
<1>2. PICK k \in RulesOf(Stage) :
         /\ IsNext(k)
         /\ \E flagged \in FlaggedSets(Rules[k]) : \E sample \in SamplesOf(flagged) :
               Record(k, sample, Rules[k].severity)
  BY DEF RunRule
<1>3. PICK flagged \in FlaggedSets(Rules[k]) : \E sample \in SamplesOf(flagged) :
         Record(k, sample, Rules[k].severity)
  BY <1>2
<1>4. PICK sample \in SamplesOf(flagged) : Record(k, sample, Rules[k].severity)
  BY <1>3
<1>5. /\ flagged \subseteq RowIds
      /\ Rules[k].mode = "static_values" =>
           /\ \A i \in flagged : Breaks(Rules[k], frame.rows[i])
           /\ ~Skipped(Rules[k]) => \A i \in RowIds \ flagged : ~Breaks(Rules[k], frame.rows[i])
      /\ Rules[k].type = "referential_integrity" /\ Rules[k].mode = "duckdb_table" =>
           \A i \in flagged : ValueOf(Rules[k], i) \notin dimProduct
  BY <1>1, FlaggedRight DEF IInv
<1>6. sample \subseteq flagged /\ (sample = {} => flagged = {})
  <2>1. IsFiniteSet(RowIds) /\ flagged \in SUBSET RowIds
    BY <1>1, <1>5, FrameFacts DEF IInv
  <2>2. IsFiniteSet(flagged)
    BY <2>1, FS_Subset
  <2>3. sample \subseteq flagged
        /\ Cardinality(sample) = IF Cardinality(flagged) < SampleCap THEN Cardinality(flagged)
                                 ELSE SampleCap
    BY DEF SamplesOf
  <2>4. sample = {} => Cardinality(sample) = 0
    BY FS_EmptySet
  <2>5. sample = {} => Cardinality(flagged) = 0
    BY <2>3, <2>4, BoundsAssumption
  <2> QED
    BY <2>2, <2>3, <2>5, FS_EmptySet
<1>7. /\ sample \in SUBSET (RowIds \union {0}) /\ Rules[k].severity \in Severities
      /\ Rules[k].mode = "static_values" =>
           /\ \A i \in sample : i # 0 => Breaks(Rules[k], frame.rows[i])
           /\ ~Skipped(Rules[k]) /\ sample = {} => \A i \in RowIds : ~Breaks(Rules[k], frame.rows[i])
      /\ Rules[k].type = "referential_integrity" /\ Rules[k].mode = "duckdb_table" =>
           \A i \in sample : i # 0 => ValueOf(Rules[k], i) \notin dimProduct
  BY <1>5, <1>6, RuleFacts DEF RulesOf
<1> QED
  BY <1>1, <1>2, <1>4, <1>7, RecordInv

LEMMA RuleRaisesInv ==
  ASSUME IInv, RuleRaises
  PROVE  IInv'
<1>1. pc = "rules" /\ UNCHANGED <<tables, dimProduct, pc, run, batch, stageNo, frame>>
  BY DEF RuleRaises
<1>2. PICK k \in RulesOf(Stage) : IsNext(k) /\ Record(k, {0}, "ERROR")
  BY DEF RuleRaises
<1>3. {0} \in SUBSET (RowIds \union {0}) /\ "ERROR" \in Severities /\ {0} # {}
      /\ \A i \in {0} : i = 0
  BY DEF Severities
<1> QED
  BY <1>1, <1>2, <1>3, RecordInv

-----------------------------------------------------------------------------
(* The other steps *)

\* Outside the loop nothing is found yet, so nothing is to be shown of it.
LEMMA NothingFound ==
  ASSUME ruleNo = 1, result = NoCounts, violations = {}, ~(pc \in {"write", "score"})
  PROVE  /\ Sourced /\ LoadedProductsAreKnown /\ CountsMatchViolations /\ Judged
         /\ IsFiniteSet(violations) /\ result \in [DOMAIN NoCounts -> Nat]
<1>1. Done = {} /\ Cardinality(Done) = 0
  <2>1. \A k \in RulesOf(Stage) : k \in Nat \ {0}
    BY RuleFacts DEF RulesOf
  <2>2. Done = {}
    BY <2>1 DEF Done, Ahead
  <2> QED
    BY <2>2, FS_EmptySet
<1>2. {v.rule : v \in violations} = {} /\ \A s : Severe(s) = {}
  BY DEF Severe
<1>3. CountsMatchViolations
  BY <1>1, <1>2, FS_EmptySet DEF CountsMatchViolations, NoCounts, Done
<1>4. Sourced /\ LoadedProductsAreKnown /\ Judged
  BY <1>1 DEF Sourced, LoadedProductsAreKnown, Judged
<1> QED
  BY <1>3, <1>4, FS_EmptySet, CountTypes

\* ... and so after a step that resets the loop, or leaves it reset.
LEMMA NextNothingFound ==
  ASSUME ruleNo' = 1, result' = NoCounts, violations' = {}, ~(pc' \in {"write", "score"})
  PROVE  /\ Sourced' /\ LoadedProductsAreKnown' /\ CountsMatchViolations' /\ Judged'
         /\ IsFiniteSet(violations') /\ result' \in [DOMAIN NoCounts -> Nat]
<1>1. Done' = {} /\ Cardinality(Done') = 0
  <2>1. \A k \in RulesOf(Stage') : k \in Nat \ {0}
    BY RuleFacts DEF RulesOf
  <2>2. Done' = RulesOf(Stage') \ {k \in RulesOf(Stage') : ruleNo' <= k}
    BY DEF Done, Ahead, RulesOf
  <2>3. Done' = {}
    BY <2>1, <2>2
  <2> QED
    BY <2>3, FS_EmptySet
<1>2. {v.rule : v \in violations'} = {} /\ \A s : Severe(s)' = {}
  BY DEF Severe
<1>3. CountsMatchViolations'
  BY <1>1, <1>2, FS_EmptySet DEF CountsMatchViolations, NoCounts, Done
<1>4. Sourced' /\ LoadedProductsAreKnown' /\ Judged'
  BY <1>1 DEF Sourced, LoadedProductsAreKnown, Judged
<1> QED
  BY <1>3, <1>4, FS_EmptySet, CountTypes

LEMMA InitInv == Init => IInv
<1> SUFFICES ASSUME Init PROVE IInv
  OBVIOUS
<1>1. /\ ruleNo = 1 /\ result = NoCounts /\ violations = {} /\ pc = "idle" /\ run = 0 /\ batch \in BatchIds
      /\ stageNo = 1 /\ frame = NoFrame /\ dqScores = {} /\ dqViolations = {}
  BY DEF Init
<1>2. /\ Sourced /\ LoadedProductsAreKnown /\ CountsMatchViolations /\ Judged
      /\ IsFiniteSet(violations) /\ result \in [DOMAIN NoCounts -> Nat]
  BY <1>1, NothingFound
<1>3. Len(Stages) \in Nat /\ MaxRuns \in Nat
  BY FramesAssumption, BoundsAssumption
<1>4. TypeOK
  BY <1>1, <1>2, <1>3 DEF TypeOK
<1>5. Placed /\ Stored /\ ScoresMatchViolations
  BY <1>1 DEF Placed, InCheckpoint, Stored, ScoresMatchViolations
<1> QED
  BY <1>2, <1>4, <1>5 DEF IInv, FiguresAgree

\* What is over stays over, when the run goes on.
LEMMA PastStays ==
  ASSUME TypeOK, Placed,
         \/ run' = run + 1
         \/ /\ run' = run
            /\ \/ stageNo' = stageNo /\ (pc \in {"idle", "between"} => pc' \in {"idle", "between"})
               \/ stageNo' = stageNo + 1,
         NEW x, x.run \in Nat, Past(x)
  PROVE  Past(x)'
<1>1. run \in Nat /\ stageNo \in Nat
  BY BoundsAssumption, FramesAssumption DEF TypeOK
<1>2. \A n \in DOMAIN Stages : n \in Nat
  BY FramesAssumption
<1> QED
  BY <1>1, <1>2 DEF Past

\* A step that leaves the tables alone, and the loop reset.
LEMMA QuietInv ==
  ASSUME IInv, UNCHANGED tables,
         ruleNo' = 1, result' = NoCounts, violations' = {},
         pc' \in {"idle", "between", "stage"},
         run' \in 0 .. MaxRuns, batch' \in BatchIds, stageNo' \in 0 .. Len(Stages) + 1,
         frame' \in (UNION {Frames[s] : s \in StageNames}) \union {NoFrame},
         pc' = "between" => stageNo' \in 0 .. Len(Stages),
         pc' = "stage" => stageNo' \in DOMAIN Stages /\ frame' \in Frames[Stages[stageNo']],
         \/ run' = run + 1
         \/ /\ run' = run
            /\ \/ stageNo' = stageNo /\ pc' \in {"idle", "between"}
               \/ stageNo' = stageNo + 1
  PROVE  IInv'
<1>1. /\ Sourced' /\ LoadedProductsAreKnown' /\ CountsMatchViolations' /\ Judged'
      /\ IsFiniteSet(violations') /\ result' \in [DOMAIN NoCounts -> Nat]
  BY NextNothingFound
<1>2. dqScores' = dqScores /\ dqViolations' = dqViolations
  BY DEF tables
<1>3. TypeOK'
  BY <1>1, <1>2 DEF IInv, TypeOK
<1>4. Placed'
  BY DEF Placed, InCheckpoint, Stage
<1>5. ScoresMatchViolations'
  BY <1>2, ScoresAlone DEF IInv, FiguresAgree
<1>6. Stored'
  <2>1. \A s \in dqScores' : Past(s)'
    <3>1. \A s \in dqScores : s.run \in Nat /\ Past(s)
      BY DEF IInv, TypeOK, Stored
    <3> QED
      BY <3>1, <1>2, PastStays DEF IInv
  <2>2. ASSUME NEW w \in dqViolations' PROVE Past(w)'
    <3>1. w \in dqViolations /\ w.run \in Nat
      BY <1>2 DEF IInv, TypeOK
    <3>2. CASE Past(w)
      BY <3>1, <3>2, PastStays DEF IInv
    <3>3. CASE pc = "score" /\ \E v \in violations : w = Row(v)
      <4>1. w.run = run /\ w.stage = Stage
        BY <3>3 DEF Row
      <4>2. run \in Nat /\ stageNo \in DOMAIN Stages /\ stageNo \in Nat
        BY <3>3, BoundsAssumption, FramesAssumption DEF IInv, TypeOK, Placed, InCheckpoint
      <4>3. CASE run' = run + 1
        BY <4>1, <4>2, <4>3 DEF Past
      <4>4. CASE run' = run /\ stageNo' = stageNo /\ pc' \in {"idle", "between"}
        <5>1. w.stage = Stages[stageNo]
          BY <4>1 DEF Stage
        <5> QED
          BY <4>1, <4>2, <4>4, <5>1 DEF Past
      <4>5. CASE run' = run /\ stageNo' = stageNo + 1
        <5>1. w.stage = Stages[stageNo]
          BY <4>1 DEF Stage
        <5> QED
          BY <4>1, <4>2, <4>5, <5>1 DEF Past
      <4> QED
        BY <4>3, <4>4, <4>5
    <3> QED
      BY <3>1, <3>2, <3>3 DEF IInv, Stored
  <2> QED
    BY <2>1, <2>2 DEF Stored
<1> QED
  BY <1>1, <1>3, <1>4, <1>5, <1>6 DEF IInv, FiguresAgree

LEMMA OutsideInv ==
  ASSUME IInv, StartBatch \/ StageRuns \/ ScoreLost \/ RunEnds
  PROVE  IInv'
<1>1. run \in Nat /\ stageNo \in Nat /\ Len(Stages) \in Nat /\ DOMAIN Stages = 1 .. Len(Stages)
      /\ TypeOK /\ MaxRuns \in Nat
  BY BoundsAssumption, FramesAssumption DEF IInv, TypeOK
<1>2. CASE StartBatch
  BY <1>1, <1>2, QuietInv DEF StartBatch, IInv, Placed, InCheckpoint, TypeOK, locals
<1>3. CASE StageRuns
  <2>1. /\ stageNo + 1 \in DOMAIN Stages /\ Stages[stageNo + 1] \in StageNames
        /\ frame' \in Frames[Stages[stageNo + 1]] /\ stageNo' = stageNo + 1
    <3>1. stageNo < Len(Stages) /\ stageNo' = stageNo + 1 /\ frame' \in Frames[Stages[stageNo + 1]]
      BY <1>3 DEF StageRuns
    <3>2. stageNo + 1 \in DOMAIN Stages
      BY <1>1, <3>1
    <3> QED
      BY <3>1, <3>2 DEF StageNames
  <2>2. pc = "between" /\ pc' = "stage" /\ UNCHANGED <<tables, run, batch, locals>>
    BY <1>3 DEF StageRuns
  <2>3. ruleNo' = 1 /\ result' = NoCounts /\ violations' = {}
    BY <2>2 DEF IInv, Placed, InCheckpoint, locals
  <2>4. frame' \in (UNION {Frames[s] : s \in StageNames}) \union {NoFrame}
    BY <2>1
  <2> QED
    BY <1>1, <2>1, <2>2, <2>3, <2>4, QuietInv DEF TypeOK
<1>4. CASE ScoreLost
  <2>1. pc = "score" /\ pc' = "between" /\ Reset /\ UNCHANGED <<tables, run, batch, stageNo, frame>>
    BY <1>4 DEF ScoreLost
  <2>2. stageNo \in DOMAIN Stages
    BY <2>1 DEF IInv, Placed, InCheckpoint
  <2> QED
    BY <1>1, <2>1, <2>2, QuietInv DEF TypeOK, Reset
<1>5. CASE RunEnds
  <2>1. pc' = "idle" /\ Reset /\ UNCHANGED <<tables, run, batch, stageNo>> /\ frame' = NoFrame
    BY <1>5 DEF RunEnds
  <2> QED
    BY <1>1, <2>1, QuietInv DEF TypeOK, Reset
<1> QED
  BY <1>2, <1>3, <1>4, <1>5

LEMMA StartCheckpointInv ==
  ASSUME IInv, StartCheckpoint
  PROVE  IInv'
<1>1. /\ pc = "stage" /\ UNCHANGED <<tables, dimProduct, run, batch, stageNo, frame, locals>>
      /\ ruleNo = 1 /\ result = NoCounts /\ violations = {}
      /\ stageNo \in DOMAIN Stages /\ frame \in Frames[Stage]
      /\ pc' \in {"between", "rules"}
  BY DEF StartCheckpoint, IInv, Placed, InCheckpoint
<1>2. ruleNo' = 1 /\ result' = NoCounts /\ violations' = {}
      /\ dqScores' = dqScores /\ dqViolations' = dqViolations
  BY <1>1 DEF locals, tables
<1>3. /\ Sourced' /\ LoadedProductsAreKnown' /\ CountsMatchViolations' /\ Judged'
      /\ IsFiniteSet(violations') /\ result' \in [DOMAIN NoCounts -> Nat]
  BY <1>1, <1>2, NextNothingFound
<1>4. TypeOK'
  BY <1>1, <1>2, <1>3 DEF IInv, TypeOK
<1>5. Placed'
  <2>1. stageNo \in 0 .. Len(Stages)
    BY <1>1, FramesAssumption
  <2>2. Stage' = Stage
    BY <1>1 DEF Stage
  <2> QED
    BY <1>1, <1>2, <2>1, <2>2 DEF Placed, InCheckpoint
<1>6. ScoresMatchViolations'
  BY <1>2, ScoresAlone DEF IInv, FiguresAgree
<1>7. Stored'
  <2>1. \A x : Past(x) => Past(x)'
    BY <1>1 DEF Past
  <2> QED
    BY <1>1, <1>2, <2>1 DEF IInv, Stored
<1> QED
  BY <1>3, <1>4, <1>5, <1>6, <1>7 DEF IInv, FiguresAgree

\* Inside a checkpoint, a step that changes nothing of what was found.
LEMMA FoundAlone ==
  ASSUME IInv, InCheckpoint, InCheckpoint',
         UNCHANGED <<dqScores, dimProduct, run, batch, stageNo, frame, locals>>
  PROVE  /\ Sourced' /\ LoadedProductsAreKnown' /\ CountsMatchViolations' /\ Judged'
         /\ Ahead' = Ahead /\ Stage' = Stage /\ \A v : Row(v)' = Row(v)
         /\ \A x : Past(x)' <=> Past(x)
<1>1. Stage' = Stage /\ RowIds' = RowIds /\ ruleNo' = ruleNo /\ result' = result
      /\ violations' = violations
  BY DEF Stage, RowIds, locals
<1>2. RulesOf(Stage)' = RulesOf(Stage) /\ Ahead' = Ahead /\ Done' = Done
  BY <1>1 DEF RulesOf, Ahead, Done
<1>3. \A r, i : Breaks(r, frame.rows[i])' <=> Breaks(r, frame.rows[i])
  BY DEF Breaks
<1>4. \A r : (Skipped(r)' <=> Skipped(r)) /\ \A i : ValueOf(r, i)' = ValueOf(r, i)
  BY DEF Skipped, ValueOf
<1>5. Judged'
  <2>1. \A j : Judgement(j)' <=> Judgement(j)
    BY <1>1, <1>3, <1>4 DEF Judgement
  <2> QED
    BY <1>2, <2>1 DEF Judged, IInv
<1>6. Sourced'
  BY <1>1, <1>2 DEF IInv, Sourced
<1>7. LoadedProductsAreKnown'
  BY <1>1, <1>4 DEF IInv, LoadedProductsAreKnown
<1>8. CountsMatchViolations'
  <2>1. \A s : Severe(s)' = Severe(s)
    BY <1>1 DEF Severe
  <2>2. CountsMatchViolations /\ pc \in {"rules", "write", "score"}
    BY DEF IInv, FiguresAgree, InCheckpoint
  <2> QED
    BY <1>1, <1>2, <2>1, <2>2 DEF CountsMatchViolations
<1>9. \A v : Row(v)' = Row(v)
  BY <1>1 DEF Row
<1>10. \A x : Past(x)' <=> Past(x)
  BY DEF Past, InCheckpoint
<1> QED
  BY <1>1, <1>2, <1>5, <1>6, <1>7, <1>8, <1>9, <1>10

LEMMA RulesDoneInv ==
  ASSUME IInv, RulesDone
  PROVE  IInv'
<1>1. /\ pc = "rules" /\ pc' = "write" /\ Ahead = {}
      /\ UNCHANGED <<tables, dimProduct, run, batch, stageNo, frame, locals>>
  BY DEF RulesDone
<1>2. InCheckpoint /\ InCheckpoint' /\ dqScores' = dqScores /\ dqViolations' = dqViolations
  BY <1>1 DEF InCheckpoint, tables
<1>3. /\ Sourced' /\ LoadedProductsAreKnown' /\ CountsMatchViolations' /\ Judged'
      /\ Ahead' = Ahead /\ Stage' = Stage /\ \A x : Past(x)' <=> Past(x)
  BY <1>1, <1>2, FoundAlone
<1>4. TypeOK' /\ Placed'
  BY <1>1, <1>2, <1>3 DEF IInv, TypeOK, Placed, InCheckpoint, locals
<1>5. ScoresMatchViolations'
  BY <1>2, ScoresAlone DEF IInv, FiguresAgree
<1>6. Stored'
  BY <1>1, <1>2, <1>3 DEF IInv, Stored
<1> QED
  BY <1>3, <1>4, <1>5, <1>6 DEF IInv, FiguresAgree

-----------------------------------------------------------------------------
(* The tables *)

\* A row of the checkpoint that runs is not of one that is over.
LEMMA NotPast ==
  ASSUME IInv, pc \in {"write", "score"}, NEW x, x.run = run, x.stage = Stage
  PROVE  ~Past(x)
<1>1. run \in Nat /\ stageNo \in DOMAIN Stages
  BY BoundsAssumption DEF IInv, TypeOK, Placed, InCheckpoint
<1>2. \A n \in DOMAIN Stages : Stages[n] = Stage => n = stageNo
  BY <1>1, FramesAssumption DEF Stage
<1> QED
  BY <1>1, <1>2 DEF Past

LEMMA WriteViolationsInv ==
  ASSUME IInv, WriteViolations
  PROVE  IInv' /\ \A w \in dqViolations' \ dqViolations : w.run = run /\ w.stage = Stage
<1>1. /\ pc = "write" /\ pc' = "score"
      /\ UNCHANGED <<dqScores, dimProduct, run, batch, stageNo, frame, locals>>
  BY DEF WriteViolations
<1>2. PICK written \in SUBSET violations :
         dqViolations' = dqViolations \union {Row(v) : v \in written}
  BY DEF WriteViolations
<1>3. InCheckpoint /\ InCheckpoint' /\ violations' = violations
  BY <1>1 DEF InCheckpoint, locals
<1>4. /\ Sourced' /\ LoadedProductsAreKnown' /\ CountsMatchViolations' /\ Judged'
      /\ Ahead' = Ahead /\ Stage' = Stage /\ (\A v : Row(v)' = Row(v))
      /\ \A x : Past(x)' <=> Past(x)
  BY <1>1, <1>3, FoundAlone
<1>5. \A v : Row(v).run = run /\ Row(v).stage = Stage
  BY DEF Row
<1>6. TypeOK'
  <2>1. run \in Nat /\ batch \in BatchIds /\ Stage \in StageNames
    BY <1>3, BoundsAssumption DEF IInv, TypeOK, Placed, StageNames, Stage
  <2>2. \A v \in violations : v.rule \in Nat /\ v.severity \in Severities /\ v.row \in Nat
    BY DEF IInv, TypeOK
  <2>3. \A v \in violations :
           Row(v) \in [run : Nat, batch : BatchIds, stage : StageNames, rule : Nat,
                       severity : Severities, row : Nat]
    BY <2>1, <2>2 DEF Row
  <2>4. dqViolations' \subseteq
           [run : Nat, batch : BatchIds, stage : StageNames, rule : Nat, severity : Severities,
            row : Nat]
    BY <1>2, <2>3 DEF IInv, TypeOK
  <2> QED
    BY <1>1, <2>4 DEF IInv, TypeOK, locals
<1>7. Placed'
  BY <1>1, <1>4 DEF IInv, Placed, InCheckpoint
<1>8. ScoresMatchViolations'
  <2>1. ASSUME NEW s \in dqScores PROVE RowsOf(s, dqViolations') = RowsOf(s, dqViolations)
    <3>1. ~(s.run = run /\ s.stage = Stage)
      BY <1>1, NotPast DEF IInv, Stored
    <3>2. \A v : ~SameCheckpoint(Row(v), s)
      BY <3>1, <1>5 DEF SameCheckpoint
    <3> QED
      BY <3>2, <1>2 DEF RowsOf
  <2>2. ScoresMatchViolations /\ dqScores' = dqScores
    BY <1>1 DEF IInv, FiguresAgree
  <2>3. ASSUME NEW s \in dqScores' PROVE Matches(s, dqScores', dqViolations')
    <3>1. s \in dqScores /\ Matches(s, dqScores, dqViolations)
      BY <2>2, MatchesAll
    <3>2. RowsOf(s, dqViolations') = RowsOf(s, dqViolations)
      BY <2>1, <3>1
    <3> QED
      BY <3>1, <3>2, <2>2 DEF Matches
  <2> QED
    BY <2>3, NextMatchesAll
<1>9. Stored'
  <2>1. \A s \in dqScores' : Past(s)'
    BY <1>1, <1>4 DEF IInv, Stored
  <2>2. ASSUME NEW w \in dqViolations'
        PROVE  Past(w)' \/ \E v \in violations : w = Row(v)
    BY <1>1, <1>2, <1>4 DEF IInv, Stored
  <2>3. \A v : Row(v)' = Row(v)
    BY <1>4
  <2> QED
    BY <1>1, <1>3, <2>1, <2>2, <2>3 DEF Stored
<1>10. \A w \in dqViolations' \ dqViolations : w.run = run /\ w.stage = Stage
  BY <1>2, <1>5
<1> QED
  BY <1>4, <1>6, <1>7, <1>8, <1>9, <1>10 DEF IInv, FiguresAgree

\* The score of a checkpoint whose rules are through.
LEMMA ScoreTellsFound ==
  ASSUME IInv, pc = "score"
  PROVE  /\ Score(result) \in 0 .. 10000 /\ Cardinality(violations) \in Nat
         /\ Counted(result) <= Cardinality(violations)
         /\ Score(result) = 10000 <=> Counted(result) = 0
<1>1. /\ IsFiniteSet(violations) /\ result \in [CountNames -> Nat] /\ CountsMatchViolations
      /\ InCheckpoint
  BY CountTypes DEF IInv, TypeOK, FiguresAgree, InCheckpoint
<1>2. Cardinality(violations) \in Nat /\ (Cardinality(violations) = 0 <=> violations = {})
  BY <1>1, FS_CardinalityType, FS_EmptySet
<1>3. IsFiniteSet(Done) /\ result.rulesRun = Cardinality(Done) /\ result.rulesRun <= 10000
  <2>1. IsFiniteSet(RulesOf(Stage)) /\ Cardinality(RulesOf(Stage)) <= 10000
        /\ Cardinality(RulesOf(Stage)) \in Nat
    BY RuleFacts, FS_CardinalityType
  <2>2. Done \in SUBSET RulesOf(Stage)
    BY DEF Done
  <2>3. IsFiniteSet(Done) /\ Cardinality(Done) <= Cardinality(RulesOf(Stage))
        /\ Cardinality(Done) \in Nat
    BY <2>1, <2>2, FS_Subset, FS_CardinalityType
  <2>4. result.rulesRun = Cardinality(Done)
    BY <1>1 DEF CountsMatchViolations, InCheckpoint, Done
  <2> QED
    BY <2>1, <2>3, <2>4
<1>4. /\ result.critical = Cardinality(Severe("CRITICAL")) /\ result.error = Cardinality(Severe("ERROR"))
      /\ result.warn = Cardinality(Severe("WARN"))
  BY <1>1 DEF CountsMatchViolations
<1>5. \A s : IsFiniteSet(Severe(s)) /\ Cardinality(Severe(s)) \in Nat /\ Severe(s) \subseteq violations
  <2>1. \A s : Severe(s) \in SUBSET violations
    BY DEF Severe
  <2> QED
    BY <2>1, <1>1, FS_Subset, FS_CardinalityType
<1>6. result.critical + result.error + result.warn <= Cardinality(violations)
  <2> DEFINE c == Severe("CRITICAL")
             e == Severe("ERROR")
             w == Severe("WARN")
             s == (c \union e) \union w
  <2>1. c \intersect e = {} /\ (c \union e) \intersect w = {} /\ s \in SUBSET violations
    BY DEF Severe
  <2>2. /\ IsFiniteSet(c) /\ IsFiniteSet(e) /\ IsFiniteSet(w)
        /\ Cardinality(c) \in Nat /\ Cardinality(e) \in Nat /\ Cardinality(w) \in Nat
    BY <1>5
  <2> HIDE DEF c, e, w
  <2>3. /\ IsFiniteSet(c \union e)
        /\ Cardinality(c \union e) = Cardinality(c) + Cardinality(e) - Cardinality(c \intersect e)
    BY <2>2, FS_Union
  <2>4. /\ IsFiniteSet(s)
        /\ Cardinality(s) = Cardinality(c \union e) + Cardinality(w)
                             - Cardinality((c \union e) \intersect w)
    BY <2>2, <2>3, FS_Union
  <2>5. Cardinality(c \intersect e) = 0 /\ Cardinality((c \union e) \intersect w) = 0
    BY <2>1, FS_EmptySet
  <2>6. Cardinality(s) <= Cardinality(violations)
    BY <2>1, <1>1, FS_Subset
  <2>7. Cardinality(s) = Cardinality(c) + Cardinality(e) + Cardinality(w)
    <3> HIDE DEF s
    <3> QED
      BY <2>2, <2>3, <2>4, <2>5
  <2> HIDE DEF s
  <2> QED
    BY <2>6, <2>7, <1>4 DEF c, e, w
<1>7. /\ Score(result) \in 0 .. 10000
      /\ result.rulesRun # 0 =>
              (Score(result) = 10000 <=> result.critical = 0 /\ result.error = 0 /\ result.warn = 0)
      /\ result.rulesRun = 0 => Score(result) = 10000
  BY <1>1, <1>3, ScoreFacts, SMTT(30)
<1>8. result.rulesRun = 0 => violations = {}
  <2>1. \A v \in violations : v.rule \in Done
    BY DEF IInv, Sourced
  <2>2. Cardinality(Done) = 0 => Done = {}
    BY <1>3, FS_EmptySet
  <2> QED
    BY <2>1, <2>2, <1>3
<1>9. result.critical \in Nat /\ result.error \in Nat /\ result.warn \in Nat
  BY <1>1 DEF CountNames
<1>10. result.rulesRun = 0 => result.critical = 0 /\ result.error = 0 /\ result.warn = 0
  BY <1>2, <1>6, <1>8, <1>9
<1>11. /\ Counted(result) <= Cardinality(violations)
       /\ Counted(result) = 0 <=> result.critical = 0 /\ result.error = 0 /\ result.warn = 0
  <2> DEFINE c == result.critical
             e == result.error
             w == result.warn
  <2>1. c \in Nat /\ e \in Nat /\ w \in Nat /\ c + e + w <= Cardinality(violations)
    BY <1>6, <1>9
  <2>2. Counted(result) = c + e + w
    BY DEF Counted
  <2> HIDE DEF c, e, w
  <2>3. c + e + w = 0 <=> c = 0 /\ e = 0 /\ w = 0
    BY <2>1
  <2> QED
    BY <2>1, <2>2, <2>3 DEF c, e, w
<1> QED
  BY <1>2, <1>7, <1>10, <1>11

LEMMA WriteScoreInv ==
  ASSUME IInv, WriteScore
  PROVE  IInv'
<1> DEFINE new == [run |-> run, batch |-> batch, stage |-> Stage, counts |-> result,
                   total |-> Cardinality(violations), score |-> Score(result)]
<1>1. /\ pc = "score" /\ pc' = "between" /\ ruleNo' = 1 /\ result' = NoCounts /\ violations' = {}
      /\ UNCHANGED <<dqViolations, dimProduct, run, batch, stageNo, frame>>
      /\ dqScores' = dqScores \union {new}
  BY DEF WriteScore, Reset
<1>2. /\ Sourced' /\ LoadedProductsAreKnown' /\ CountsMatchViolations' /\ Judged'
      /\ IsFiniteSet(violations') /\ result' \in [DOMAIN NoCounts -> Nat]
  BY <1>1, NextNothingFound
<1>3. /\ run \in Nat /\ batch \in BatchIds
      /\ stageNo \in DOMAIN Stages /\ stageNo \in Nat /\ Stage \in StageNames
      /\ stageNo \in 0 .. Len(Stages)
  BY <1>1, BoundsAssumption, FramesAssumption
  DEF IInv, TypeOK, Placed, InCheckpoint, StageNames, Stage
<1>4. /\ Score(result) \in 0 .. 10000 /\ Cardinality(violations) \in Nat
      /\ Counted(result) <= Cardinality(violations)
      /\ Score(result) = 10000 <=> Counted(result) = 0
  BY <1>1, ScoreTellsFound
<1>5. /\ new.run = run /\ new.stage = Stage /\ new.total = Cardinality(violations)
      /\ new.score = Score(result) /\ new.counts = result
  OBVIOUS
<1>6. new \in [run : Nat, batch : BatchIds, stage : StageNames,
               counts : [DOMAIN NoCounts -> Nat], total : Nat, score : Int]
  <2>1. Score(result) \in Int
    <3> DEFINE s == Score(result)
    <3>1. s \in 0 .. 10000
      BY <1>4
    <3> HIDE DEF s
    <3>2. s \in Int
      BY <3>1
    <3> QED
      BY <3>2 DEF s
  <2>2. result \in [DOMAIN NoCounts -> Nat]
    BY DEF IInv, TypeOK
  <2> QED
    BY <2>1, <2>2, <1>3, <1>4
<1> HIDE DEF new
<1>7. TypeOK'
  <2>1. dqScores' \subseteq
         [run : Nat, batch : BatchIds, stage : StageNames, counts : [DOMAIN NoCounts -> Nat],
          total : Nat, score : Int]
    BY <1>1, <1>6 DEF IInv, TypeOK
  <2>2. violations' \subseteq [rule : Nat, severity : Severities, row : Nat] /\ ruleNo' \in Nat \ {0}
    BY <1>1
  <2> QED
    BY <1>1, <1>2, <2>1, <2>2 DEF IInv, TypeOK
<1>8. Placed'
  BY <1>1, <1>3 DEF Placed, InCheckpoint
<1>9. ASSUME NEW s \in dqScores PROVE ~(s.run = run /\ s.stage = Stage)
  BY <1>1, NotPast DEF IInv, Stored
<1>10. dqViolations' = dqViolations
  BY <1>1
<1>11. Cardinality(RowsOf(new, dqViolations)) <= Cardinality(violations)
  <2> DEFINE row == [v \in violations |-> Row(v)]
             All == {Row(v) : v \in violations}
  <2>1. row \in Surjection(violations, All)
    BY DEF Surjection
  <2>2. IsFiniteSet(violations)
    BY DEF IInv, TypeOK
  <2>3. IsFiniteSet(All) /\ Cardinality(All) <= Cardinality(violations)
    BY <2>1, <2>2, FS_Surjection
  <2>4. RowsOf(new, dqViolations) \in SUBSET All
    <3>1. ASSUME NEW w \in RowsOf(new, dqViolations) PROVE w \in All
      <4>1. w \in dqViolations /\ w.run = run /\ w.stage = Stage
        BY <1>5 DEF RowsOf, SameCheckpoint
      <4>2. ~Past(w)
        BY <4>1, <1>1, NotPast
      <4> QED
        BY <4>1, <4>2 DEF IInv, Stored
    <3> QED
      BY <3>1
  <2> HIDE DEF All
  <2>5. Cardinality(RowsOf(new, dqViolations)) <= Cardinality(All)
    BY <2>3, <2>4, FS_Subset
  <2>6. Cardinality(RowsOf(new, dqViolations)) \in Nat /\ Cardinality(All) \in Nat
    BY <2>3, <2>4, FS_Subset, FS_CardinalityType
  <2> QED
    BY <2>3, <2>5, <2>6, <1>4
<1>12. ScoresMatchViolations'
  <2>1. ScoresMatchViolations
    BY DEF IInv, FiguresAgree
  <2>2. ASSUME NEW s \in dqScores PROVE Matches(s, dqScores', dqViolations')
    <3>1. Matches(s, dqScores, dqViolations)
      BY <2>1, MatchesAll
    <3>2. ~SameCheckpoint(new, s)
      BY <1>5, <1>9 DEF SameCheckpoint
    <3>3. Fits(s, RowsOf(s, dqViolations)) /\ Lone(s, dqScores')
      BY <3>1, <3>2, <1>1 DEF Matches, Lone
    <3> QED
      BY <3>3, <1>10 DEF Matches
  <2>3. ASSUME NEW s \in dqScores', s = new PROVE Matches(s, dqScores', dqViolations')
    <3>1. \A t \in dqScores : ~SameCheckpoint(t, new)
      BY <1>5, <1>9 DEF SameCheckpoint
    <3>2. Lone(new, dqScores')
      BY <3>1, <1>1 DEF Lone
    <3>3. Fits(new, RowsOf(new, dqViolations))
      BY <1>4, <1>5, <1>11 DEF Fits
    <3>4. Fits(s, RowsOf(s, dqViolations)) /\ Lone(s, dqScores')
      BY <3>2, <3>3, <2>3
    <3> QED
      BY <3>4, <1>10 DEF Matches
  <2>4. \A s \in dqScores' : s \in dqScores \/ s = new
    BY <1>1
  <2> QED
    BY <2>2, <2>3, <2>4, NextMatchesAll
<1>13. Stored'
  <2>1. ASSUME NEW x, x.run \in Nat, Past(x) PROVE Past(x)'
    BY <2>1, <1>1, PastStays DEF IInv
  <2>2. ASSUME NEW x, x.run = run, x.stage = Stage PROVE Past(x)'
    BY <2>2, <1>1, <1>3 DEF Past, Stage
  <2>3. \A s \in dqScores' : Past(s)'
    BY <1>1, <1>5, <2>1, <2>2 DEF IInv, Stored, TypeOK
  <2>4. \A w \in dqViolations' : Past(w)'
    BY <1>1, <2>1, <2>2 DEF IInv, Stored, TypeOK, Row
  <2> QED
    BY <2>3, <2>4 DEF Stored
<1> QED
  BY <1>2, <1>7, <1>8, <1>12, <1>13 DEF IInv, FiguresAgree

-----------------------------------------------------------------------------
(* Theorems *)

LEMMA NextInv == IInv /\ [Next]_vars => IInv'
<1> SUFFICES ASSUME IInv, [Next]_vars PROVE IInv'
  OBVIOUS
<1>1. CASE StartBatch \/ StageRuns \/ ScoreLost \/ RunEnds
  BY <1>1, OutsideInv
<1>2. CASE StartCheckpoint
  BY <1>2, StartCheckpointInv
<1>3. CASE RunRule
  BY <1>3, RunRuleInv
<1>4. CASE RuleRaises
  BY <1>4, RuleRaisesInv
<1>5. CASE RulesDone
  BY <1>5, RulesDoneInv
<1>6. CASE WriteViolations
  BY <1>6, WriteViolationsInv
<1>7. CASE WriteScore
  BY <1>7, WriteScoreInv
<1>8. CASE UNCHANGED vars
  <2>1. UNCHANGED <<dqViolations, dqScores, dimProduct, pc, run, batch, stageNo, frame, ruleNo,
                    result, violations>>
    BY <1>8 DEF vars, tables, locals
  <2>2. CASE InCheckpoint
    <3>1. InCheckpoint' /\ UNCHANGED <<dqScores, dimProduct, run, batch, stageNo, frame, locals>>
      BY <2>1, <2>2 DEF InCheckpoint, locals
    <3>2. /\ Sourced' /\ LoadedProductsAreKnown' /\ CountsMatchViolations' /\ Judged'
          /\ Ahead' = Ahead /\ Stage' = Stage /\ (\A v : Row(v)' = Row(v))
          /\ \A x : Past(x)' <=> Past(x)
      BY <2>2, <3>1, FoundAlone
    <3>3. TypeOK' /\ Placed'
      BY <2>1, <3>2 DEF IInv, TypeOK, Placed, InCheckpoint
    <3>4. ScoresMatchViolations'
      BY <2>1, ScoresAlone DEF IInv, FiguresAgree
    <3>5. Stored'
      BY <2>1, <3>2 DEF IInv, Stored
    <3> QED
      BY <3>2, <3>3, <3>4, <3>5 DEF IInv, FiguresAgree
  <2>3. CASE ~InCheckpoint
    <3>1. ruleNo' = 1 /\ result' = NoCounts /\ violations' = {} /\ ~(pc' \in {"write", "score"})
      BY <2>1, <2>3 DEF IInv, Placed, InCheckpoint
    <3>2. /\ Sourced' /\ LoadedProductsAreKnown' /\ CountsMatchViolations' /\ Judged'
      BY <3>1, NextNothingFound
    <3>3. TypeOK' /\ Placed'
      BY <2>1, <2>3 DEF IInv, TypeOK, Placed, InCheckpoint, Stage
    <3>4. ScoresMatchViolations'
      BY <2>1, ScoresAlone DEF IInv, FiguresAgree
    <3>5. Stored'
      <4>1. \A x : Past(x)' <=> Past(x)
        BY <2>1 DEF Past
      <4>2. pc # "score"
        BY <2>3 DEF InCheckpoint
      <4> QED
        BY <4>1, <4>2, <2>1 DEF IInv, Stored
    <3> QED
      BY <3>2, <3>3, <3>4, <3>5 DEF IInv, FiguresAgree
  <2> QED
    BY <2>2, <2>3
<1> QED
  BY <1>1, <1>2, <1>3, <1>4, <1>5, <1>6, <1>7, <1>8 DEF Next

LEMMA InvHolds == Spec => []IInv
<1> QED
  BY InitInv, NextInv, PTL DEF Spec

\* The variables of the engine and its two tables keep their types.
THEOREM TypesRight == Spec => []TypeOK
<1>1. IInv => TypeOK
  BY DEF IInv
<1> QED
  BY <1>1, InvHolds, PTL

\* DQResult's counts are those of its violations, and dq_scores and
\* dq_violations tell the same of every checkpoint.
THEOREM FiguresRight == Spec => []FiguresAgree
<1>1. IInv => FiguresAgree
  BY DEF IInv
<1> QED
  BY <1>1, InvHolds, PTL

\* What run_checkpoint counts as passed complies, what it reports does not.
THEOREM PassedRight == Spec => []PassedRulesHold
<1>1. IInv => PassedRulesHold
  <2> SUFFICES ASSUME IInv, pc \in {"write", "score"} PROVE PassedRulesHold
    BY DEF PassedRulesHold
  <2>1. InCheckpoint /\ Done = RulesOf(Stage)
    BY DEF IInv, Placed, InCheckpoint, Done
  <2> QED
    BY <2>1 DEF IInv, Judged, Judgement, PassedRulesHold
<1> QED
  BY <1>1, InvHolds, PTL

\* A lookup in dim_product never calls a product unknown that is there.
THEOREM LoadedKnown == Spec => []LoadedProductsAreKnown
<1>1. IInv => LoadedProductsAreKnown
  BY DEF IInv
<1> QED
  BY <1>1, InvHolds, PTL

\* No violation is stored behind the score of its checkpoint.
THEOREM ScoreLast == Spec => ScoreComesLast
<1> DEFINE Adds == \A v \in dqViolations' \ dqViolations :
                      ~\E s \in dqScores : SameCheckpoint(v, s)
<1>1. IInv /\ [Next]_vars => [Adds]_vars
  <2> SUFFICES ASSUME IInv, [Next]_vars PROVE Adds
    OBVIOUS
  <2>1. CASE WriteViolations
    <3>1. pc = "write" /\ \A w \in dqViolations' \ dqViolations : w.run = run /\ w.stage = Stage
      BY <2>1, WriteViolationsInv DEF WriteViolations
    <3>2. \A s \in dqScores : ~(s.run = run /\ s.stage = Stage)
      BY <3>1, NotPast DEF IInv, Stored
    <3> QED
      BY <3>1, <3>2 DEF SameCheckpoint
  <2>2. CASE ~WriteViolations
    <3>1. dqViolations' = dqViolations
      BY <2>2 DEF Next, StartBatch, StageRuns, StartCheckpoint, RunRule, RuleRaises, RulesDone,
                  WriteScore, ScoreLost, RunEnds, vars, tables
    <3> QED
      BY <3>1
  <2> QED
    BY <2>1, <2>2
<1> QED
  BY <1>1, InvHolds, PTL DEF Spec, ScoreComesLast
=============================================================================
