----------------------------- MODULE CleanStage -----------------------------
(***************************************************************************)
(* The clean stage (etl/transforms/clean.py: NullFill, TypeCast, Dedup) on *)
(* the lines of one file, with the dead letters it writes and what         *)
(* DeadLetterQueue.reprocess makes of them.  Pipeline.tla keeps of this    *)
(* that some rows may be diverted; here are the lines and their values.    *)
(*                                                                         *)
(* A frame maps line numbers to rows; a row gives each column a value or   *)
(* Null.  Spark frames are lazy: each action (a count, a write, a check,   *)
(* toPandas) evaluates the plan again.  NullFill and TypeCast evaluate to  *)
(* the same rows each time; the ranking of Dedup breaks ties anew, so what *)
(* an evaluation returns is one of Survivors(frame).                       *)
(***************************************************************************)
EXTENDS Naturals, Sequences, FiniteSets

CONSTANTS
    Columns,      \* columns of a file, in order
    Values,       \* what a cell may hold
    Null,
    Castable,     \* [Columns -> values that CAST_MAP's type takes]
    Fills,        \* NullFill's defaults: [some columns -> Values]
    KeyColumn,    \* dedup.key_cols
    OrderColumn,  \* dedup.order_col, latest first
    Rank,         \* [Values or Null -> Nat]: order of dates, Null is the lowest
    Files,        \* [columns |-> those present, lines |-> a sequence of rows]
    AnsiModes,    \* Spark settings: does a failing cast raise, or yield Null?
    MaxAttempts   \* retry.max_attempts

ColumnSet == {Columns[k] : k \in DOMAIN Columns}
RowType   == [ColumnSet -> Values \union {Null}]

ASSUME ColumnsAssumption ==
    /\ Columns \in Seq(STRING)
    /\ KeyColumn \in ColumnSet /\ OrderColumn \in ColumnSet
    /\ Null \notin Values
    /\ Castable \in [ColumnSet -> SUBSET Values]
    /\ DOMAIN Fills \subseteq ColumnSet
    /\ \A c \in DOMAIN Fills : Fills[c] \in Castable[c]
    /\ Rank \in [Values \union {Null} -> Nat]

\* a column that the file lacks has no value in any line
ASSUME FilesAssumption ==
    \A f \in Files :
        /\ f.columns \subseteq ColumnSet
        /\ f.lines \in Seq(RowType)
        /\ \A i \in DOMAIN f.lines : \A c \in ColumnSet \ f.columns : f.lines[i][c] = Null

\* trade_id is a string, whatever it holds; neither it nor the date is filled
ASSUME KeysAssumption ==
    Castable[KeyColumn] = Values /\ {KeyColumn, OrderColumn} \intersect DOMAIN Fills = {}

ASSUME ModesAssumption == AnsiModes \subseteq BOOLEAN /\ MaxAttempts \in Nat \ {0}

VARIABLES
    file, ansi,    \* fixed by Init
    pc,            \* "transform" | "checked" | "loaded" | "failed" | "reprocessed"
    step,          \* 1 NullFill, 2 TypeCast, 3 Dedup
    attempt,
    sent,          \* has this attempt written its dead letters?
    frame,         \* the frame ahead of the Dedup ranking
    deduped,       \* has the frame the ranking's filter?
    letters,       \* the tree: {[step, attempt, line, row, reason]}
    checked,       \* the lines that the checkpoint's rules saw
    loaded,        \* the lines that the load saw
    reprocessed    \* the rows that reprocess returned, by dead letter

work == <<step, attempt, sent, frame, deduped>>
vars == <<file, ansi, pc, work, letters, checked, loaded, reprocessed>>

Lines == DOMAIN file.lines

Init ==
    /\ file \in Files /\ ansi \in AnsiModes
    /\ pc = "transform" /\ step = 1 /\ attempt = 1 /\ sent = FALSE
    /\ frame = [i \in Lines |-> file.lines[i]] /\ deduped = FALSE
    /\ letters = {} /\ checked = {} /\ loaded = {} /\ reprocessed = <<>>

-----------------------------------------------------------------------------
(* What the transforms compute *)

\* NullFill: a present column's nulls become its default
FillRow(row) ==
    [c \in ColumnSet |->
        IF c \in DOMAIN Fills \intersect file.columns /\ row[c] = Null
        THEN Fills[c] ELSE row[c]]

\* a cast that fails yields Null
CastRow(row) ==
    [c \in ColumnSet |-> IF row[c] \in Castable[c] THEN row[c] ELSE Null]

Uncastable(row) == \E c \in ColumnSet : row[c] # Null /\ row[c] \notin Castable[c]

CastFailures == {i \in DOMAIN frame : Uncastable(frame[i])}

\* md5(concat_ws("|", columns)): concat_ws leaves nulls out
RowHash(row) ==
    LET present(c) == row[c] # Null
        cs == SelectSeq(Columns, present)
    IN [k \in DOMAIN cs |-> row[cs[k]]]

\* Mutant: only the failures of the frame's first failing line are looked for.
Diverted_First ==
    {i \in CastFailures : \A j \in CastFailures : i <= j}

\* write_rows selects by hash
Diverted == {i \in DOMAIN frame : \E j \in CastFailures : RowHash(frame[i]) = RowHash(frame[j])}

\* partitions: all null keys are one key
SameKey(i, j) == frame[i][KeyColumn] = frame[j][KeyColumn]
RankOf(i)     == Rank[frame[i][OrderColumn]]

\* Mutant: oldest first.
Survivors_Ascending ==
    {S \in SUBSET DOMAIN frame :
        /\ \A i \in DOMAIN frame : \E j \in S : SameKey(i, j) /\ RankOf(j) <= RankOf(i)
        /\ \A i, j \in S : SameKey(i, j) => i = j}

\* row_number() = 1: of each key one line of the latest date, any of them
Survivors ==
    {S \in SUBSET DOMAIN frame :
        /\ \A i \in DOMAIN frame : \E j \in S : SameKey(i, j) /\ RankOf(j) >= RankOf(i)
        /\ \A i, j \in S : SameKey(i, j) => i = j}

\* what an action on the stage's frame may see
Evaluations == IF deduped THEN Survivors ELSE {DOMAIN frame}

Rankable == {KeyColumn, OrderColumn} \subseteq file.columns

-----------------------------------------------------------------------------
(* The stage *)

\* DeadLetterQueue.write, of some lines, each with the row it has then
Letter(i, row, reason) ==
    [step |-> step, attempt |-> attempt, line |-> i, row |-> row, reason |-> reason]

NextTransform ==
    /\ step' = step + 1 /\ attempt' = 1 /\ sent' = FALSE

FillNulls ==
    /\ pc = "transform" /\ step = 1
    /\ frame' = [i \in DOMAIN frame |-> FillRow(frame[i])]
    /\ NextTransform
    /\ UNCHANGED <<file, ansi, pc, deduped, letters, checked, loaded, reprocessed>>

\* The letters are taken from the frame whose columns have been cast.
SendCastFailures ==
    /\ pc = "transform" /\ step = 2 /\ ~ansi /\ CastFailures # {} /\ ~sent
    /\ letters' = letters \union {Letter(i, CastRow(frame[i]), "cast") : i \in Diverted}
    /\ sent' = TRUE
    /\ UNCHANGED <<file, ansi, pc, step, attempt, frame, deduped, checked, loaded, reprocessed>>

\* With ANSI casts the search for failures raises, when there are any.
CastReturns ==
    /\ pc = "transform" /\ step = 2
    /\ CastFailures = {} \/ sent
    /\ frame' = [i \in DOMAIN frame \ Diverted |-> CastRow(frame[i])]
    /\ NextTransform
    /\ UNCHANGED <<file, ansi, pc, deduped, letters, checked, loaded, reprocessed>>

\* The write ranks on its own: it may take other lines for the duplicates than
\* later evaluations do.
SendDuplicates ==
    /\ pc = "transform" /\ step = 3 /\ Rankable /\ ~sent
    /\ \E S \in Survivors :
          /\ S # DOMAIN frame
          /\ letters' = letters \union
                {Letter(i, frame[i], "duplicate") : i \in DOMAIN frame \ S}
    /\ sent' = TRUE
    /\ UNCHANGED <<file, ansi, pc, step, attempt, frame, deduped, checked, loaded, reprocessed>>

\* Mutant: the duplicates are only filtered, and not dead-lettered.
DedupReturns_Unsent ==
    /\ pc = "transform" /\ step = 3
    /\ deduped' = Rankable
    /\ pc' = "checked"
    /\ checked' \in IF Rankable THEN Survivors ELSE {DOMAIN frame}
    /\ UNCHANGED <<file, ansi, step, attempt, sent, frame, letters, loaded, reprocessed>>

\* Dedup returns, and with it the stage; the checkpoint's rules look at the
\* frame.  Without the columns to rank by, Dedup is skipped with a warning.
DedupReturns ==
    /\ pc = "transform" /\ step = 3
    /\ Rankable /\ DOMAIN frame \notin Survivors => sent
    /\ deduped' = Rankable
    /\ pc' = "checked"
    /\ checked' \in IF Rankable THEN Survivors ELSE {DOMAIN frame}
    /\ UNCHANGED <<file, ansi, step, attempt, sent, frame, letters, loaded, reprocessed>>

\* Mutant: one attempt too many.
AttemptFails_OneMore ==
    /\ pc = "transform"
    /\ letters' = letters \union {Letter(i, frame[i], "batch") : i \in DOMAIN frame}
    /\ IF attempt <= MaxAttempts
       THEN attempt' = attempt + 1 /\ sent' = FALSE /\ UNCHANGED pc
       ELSE pc' = "failed" /\ UNCHANGED <<attempt, sent>>
    /\ UNCHANGED <<file, ansi, step, frame, deduped, checked, loaded, reprocessed>>

\* A transform raises, its dead letters written or not; execute then writes the
\* frame it was given, unless that fails too.  RetryHandler starts it again.
AttemptFails ==
    /\ pc = "transform"
    /\ \/ letters' = letters \union {Letter(i, frame[i], "batch") : i \in DOMAIN frame}
       \/ UNCHANGED letters
    /\ IF attempt < MaxAttempts
       THEN attempt' = attempt + 1 /\ sent' = FALSE /\ UNCHANGED pc
       ELSE pc' = "failed" /\ UNCHANGED <<attempt, sent>>
    /\ UNCHANGED <<file, ansi, step, frame, deduped, checked, loaded, reprocessed>>

\* toPandas in the load evaluates the frame once more.
LoadRows ==
    /\ pc = "checked"
    /\ loaded' \in Evaluations
    /\ pc' = "loaded"
    /\ UNCHANGED <<file, ansi, work, letters, checked, reprocessed>>

\* Mutant: only the duplicates are read back.
ReadBack_Duplicates == {l \in letters : l.reason = "duplicate"}

\* DeadLetterQueue.read: the whole partition of the batch.  A partition that Spark
\* cannot read gives None, which changes nothing; that columns which only some of
\* its files have may be lost (the schemas are not merged) is left out.
ReadBack == letters

\* reprocess hands all records of the batch, copies included, to a function;
\* here to NullFill and TypeCast, which the letters may have missed.
Reprocess ==
    /\ pc \in {"loaded", "failed"} /\ letters # {}
    /\ reprocessed' = [l \in ReadBack |-> CastRow(FillRow(l.row))]
    /\ pc' = "reprocessed"
    /\ UNCHANGED <<file, ansi, work, letters, checked, loaded>>

Next == FillNulls \/ SendCastFailures \/ CastReturns \/ SendDuplicates \/ DedupReturns
          \/ AttemptFails \/ LoadRows \/ Reprocess

Spec == Init /\ [][Next]_vars

-----------------------------------------------------------------------------
(* Properties *)

LetterType == [step : 1 .. 3, attempt : 1 .. MaxAttempts, line : Nat, row : RowType,
               reason : {"cast", "duplicate", "batch"}]

\* Every variable has its type; frames only lose lines.
TypeOK ==
    /\ file \in Files /\ ansi \in BOOLEAN
    /\ pc \in {"transform", "checked", "loaded", "failed", "reprocessed"}
    /\ step \in 1 .. 3 /\ attempt \in 1 .. MaxAttempts
    /\ sent \in BOOLEAN /\ deduped \in BOOLEAN
    /\ DOMAIN frame \subseteq Lines
    /\ \A i \in DOMAIN frame : frame[i] \in RowType
    /\ \A l \in letters : l \in LetterType /\ l.line \in Lines
    /\ checked \subseteq DOMAIN frame /\ loaded \subseteq DOMAIN frame
    /\ \A l \in DOMAIN reprocessed : l \in letters /\ reprocessed[l] \in RowType

Succeeded == pc \in {"checked", "loaded"}
Dead      == {l.line : l \in letters}

\* A line that is neither in the frame after Dedup, as any evaluation sees it, nor
\* in the dead letters has a twin of the same trade and the same date that is.
\* More cannot be had, as evaluations of the ranking may differ.
NoLineVanishes ==
    Succeeded => \A S \in Evaluations : \A i \in Lines \ (S \union Dead) :
        \E j \in S : SameKey(i, j) /\ RankOf(i) = RankOf(j)

\* What is loaded has one row per trade, and is of the trades and dates that the
\* post_clean rules have checked, though possibly not of the same lines.
LoadedAsChecked ==
    pc = "loaded" /\ deduped =>
        /\ \A i, j \in loaded : SameKey(i, j) => i = j
        /\ {<<frame[i][KeyColumn], RankOf(i)>> : i \in loaded}
             = {<<frame[i][KeyColumn], RankOf(i)>> : i \in checked}

CastCleanly(i) == ~Uncastable(FillRow(file.lines[i]))

\* "When duplicates exist, keep the row with the latest trade_date": no line of
\* the file that TypeCast has let pass is later than the one that is loaded.
LatestIsLoaded ==
    pc = "loaded" /\ deduped =>
        \A i \in loaded : \A j \in Lines \ {l.line : l \in {m \in letters : m.reason = "cast"}} :
            file.lines[j][KeyColumn] = file.lines[i][KeyColumn] =>
                Rank[file.lines[j][OrderColumn]] <= Rank[file.lines[i][OrderColumn]]

\* What the load gets is the latest of each trade, once, as it was checked.
LoadIsOfLatest == LoadedAsChecked /\ LatestIsLoaded

\* Only a line with a value that does not cast is taken out by TypeCast, or one
\* that reads the same as such a line when nulls are left out; and
\* none of these is ever loaded.
DivertedForCause ==
    /\ \A l \in letters : l.reason = "cast" =>
          \E j \in Lines : /\ ~CastCleanly(j)
                           /\ RowHash(FillRow(file.lines[j])) = RowHash(FillRow(file.lines[l.line]))
    /\ \A i \in loaded : CastCleanly(i)

\* After a stage that succeeded, reprocessing the batch brings back every trade
\* that the load has not seen.
EveryTradeRecoverable ==
    (pc = "reprocessed" /\ loaded # {}) =>
        \A i \in Lines :
            LET id == file.lines[i][KeyColumn] IN
                \/ \E j \in loaded : frame[j][KeyColumn] = id
                \/ \E l \in DOMAIN reprocessed : reprocessed[l][KeyColumn] = id

-----------------------------------------------------------------------------
(* What docs say, and the code does not do *)

\* clean.py: "Rows where the cast fails (e.g. "abc" in notional) are routed to
\* DLQ".  A letter holds the row that failed, with the value that failed.
DeadLettersHoldTheRow ==
    \A l \in letters : l.reason = "cast" => l.row = FillRow(file.lines[l.line])

=============================================================================
