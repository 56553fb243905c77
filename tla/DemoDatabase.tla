---------------------------- MODULE DemoDatabase ----------------------------
(***************************************************************************)
(* dashboard/data_bootstrap.py: every page of the dashboard begins with    *)
(* ensure_demo_database(), which seeds DuckDB's file from the latest feed  *)
(* if there is no file.  Streamlit runs the pages of all sessions as       *)
(* threads of one process, so seeders may overlap; each statement commits  *)
(* by itself; raw_trades and clean_trades are views, so each statement     *)
(* reads the feed's file anew, while the generator may be writing it.      *)
(*                                                                         *)
(* Trades, products and dates are numbers, by which the queries order.     *)
(* Counterparties go the way of products, settlement dates that of dates.  *)
(***************************************************************************)
EXTENDS Integers, SequencesExt, FiniteSetsExt

CONSTANTS
    Sessions,      \* of the dashboard; each runs its page over and over
    Content,       \* per day of the generator the lines that it writes
    RunRows, EdgeRows,  \* lines of _seed_observability's two lists, 4 and 5
    MaxFeeds       \* bound: runs of the generator

Days     == DOMAIN Content
None     == 0      \* NULL, for a trade_id, a product_id or a key

ASSUME ContentAssumption ==
    /\ Content \in Seq(Seq([trade : Nat, product : Nat, date : Nat])) /\ Content # <<>>
    /\ RunRows \in Nat \ {0} /\ EdgeRows \in Nat \ {0} /\ MaxFeeds \in Nat

VARIABLES
    present, csv,            \* days that have a file, and its lines so far
    feeds,                   \* runs of the generator
    \* DuckDB's file
    exists, schema,
    dimProduct,              \* {<<key, product>>}
    dimDate,                 \* {date}
    facts,                   \* {[key, trade, product]}, where product is a key
    runs,                    \* pipeline_runs, its <<raw_count, clean_count>>
    jobs, scores, violations, edges,  \* how many rows
    \* a session's page
    pc, path, raw, clean, row,
    touched                  \* the feed has changed under a seeder, or since

feed    == <<present, csv, feeds>>
star    == <<dimProduct, dimDate, facts>>
observability == <<runs, jobs, scores, violations, edges>>
page    == <<pc, path, raw, clean, row>>
vars    == <<feed, exists, schema, star, observability, page, touched>>

Init ==
    /\ present \in {{}, {1}} /\ feeds = 0
    /\ csv = [d \in Days |-> IF d \in present THEN Content[d] ELSE <<>>]
    /\ exists = FALSE /\ schema = FALSE
    /\ dimProduct = {} /\ dimDate = {} /\ facts = {}
    /\ runs = <<>> /\ jobs = 0 /\ scores = 0 /\ violations = 0 /\ edges = 0
    /\ pc = [s \in Sessions |-> "out"] /\ path = [s \in Sessions |-> 1]
    /\ raw = [s \in Sessions |-> 0] /\ clean = [s \in Sessions |-> 0]
    /\ row = [s \in Sessions |-> 0]
    /\ touched = FALSE

-----------------------------------------------------------------------------
(* The generator, another process *)

Touch == touched' = (exists \/ \E s \in Sessions : pc[s] # "out")

OpenFeed(d) ==
    /\ feeds < MaxFeeds /\ feeds' = feeds + 1
    /\ present' = present \union {d} /\ csv' = [csv EXCEPT ![d] = <<>>]
    /\ Touch
    /\ UNCHANGED <<exists, schema, star, observability, page>>

WriteLine(d) ==
    /\ d \in present /\ Len(csv[d]) < Len(Content[d])
    /\ csv' = [csv EXCEPT ![d] = Append(@, Content[d][Len(@) + 1])]
    /\ Touch
    /\ UNCHANGED <<present, feeds, exists, schema, star, observability, page>>

-----------------------------------------------------------------------------
(* What the views show *)

TradesOf(lines) == {lines[k].trade : k \in DOMAIN lines} \ {None}

\* ROW_NUMBER() ... = 1: a line of the trade's last date, any of them
LatestLines(lines, t) ==
    {k \in DOMAIN lines : lines[k].trade = t
        /\ \A j \in DOMAIN lines : lines[j].trade = t => lines[j].date <= lines[k].date}

\* clean_trades: what one evaluation of the view may give
CleanTrades(lines) ==
    {{lines[pick[t]] : t \in TradesOf(lines)} :
        pick \in {f \in [TradesOf(lines) -> DOMAIN lines] :
                      \A t \in TradesOf(lines) : f[t] \in LatestLines(lines, t)}}

\* ROW_NUMBER() OVER (ORDER BY ...)
RowNumber(ids, id) == Cardinality({i \in ids : i <= id})

\* lines of trades that the feed has more than once
DuplicateLines(lines) ==
    {k \in DOMAIN lines : lines[k].trade # None
        /\ \E j \in DOMAIN lines \ {k} : lines[j].trade = lines[k].trade}

-----------------------------------------------------------------------------
(* ensure_demo_database *)

\* A page that is done, or dead, forgets its locals.
Leave(S) ==
    /\ path' = [s \in Sessions |-> IF s \in S THEN 1 ELSE path[s]]
    /\ raw' = [s \in Sessions |-> IF s \in S THEN 0 ELSE raw[s]]
    /\ clean' = [s \in Sessions |-> IF s \in S THEN 0 ELSE clean[s]]
    /\ row' = [s \in Sessions |-> IF s \in S THEN 0 ELSE row[s]]
    /\ pc' = [s \in Sessions |-> IF s \in S THEN "out" ELSE pc[s]]

Goto(s, from, to) == pc[s] = from /\ pc' = [pc EXCEPT ![s] = to]

Missing(s) ==
    /\ ~exists /\ Goto(s, "out", "missing")
    /\ UNCHANGED <<feed, exists, schema, star, observability, path, raw, clean, row, touched>>

\* The latest feed; without one, the page goes on without a database.
FindFeed(s) ==
    /\ IF present = {} THEN Goto(s, "missing", "out") /\ UNCHANGED path
       ELSE Goto(s, "missing", "connect") /\ path' = [path EXCEPT ![s] = Max(present)]
    /\ UNCHANGED <<feed, exists, schema, star, observability, raw, clean, row, touched>>

\* This makes the file.
Connect(s) ==
    /\ Goto(s, "connect", "schema") /\ exists' = TRUE
    /\ UNCHANGED <<feed, schema, star, observability, path, raw, clean, row, touched>>

CreateSchema(s) ==
    /\ Goto(s, "schema", "raw") /\ schema' = TRUE
    /\ UNCHANGED <<feed, exists, star, observability, path, raw, clean, row, touched>>

Lines(s) == csv[path[s]]

CountRaw(s) ==
    /\ Goto(s, "raw", "clean") /\ raw' = [raw EXCEPT ![s] = Len(Lines(s))]
    /\ UNCHANGED <<feed, exists, schema, star, observability, path, clean, row, touched>>

CountClean(s) ==
    /\ Goto(s, "clean", "products")
    /\ clean' = [clean EXCEPT ![s] = Cardinality(TradesOf(Lines(s)))]
    /\ UNCHANGED <<feed, exists, schema, star, observability, path, raw, row, touched>>

\* Mutant: INSERT OR REPLACE.
InsertProducts_Replace(ids) ==
    LET new == {<<RowNumber(ids, p), p>> : p \in ids} IN
    dimProduct' = new \union {o \in dimProduct : \A n \in new : o[1] # n[1] /\ o[2] # n[2]}

\* INSERT OR IGNORE: a key or an id that is there keeps its row.
InsertProducts(ids) ==
    LET new == {<<RowNumber(ids, p), p>> : p \in ids} IN
    dimProduct' = dimProduct \union {n \in new : \A o \in dimProduct : o[1] # n[1] /\ o[2] # n[2]}

SeedProducts(s) ==
    /\ Goto(s, "products", "dates")
    /\ \E rows \in CleanTrades(Lines(s)) : InsertProducts({r.product : r \in rows} \ {None})
    /\ UNCHANGED <<feed, exists, schema, dimDate, facts, observability, path, raw, clean, row,
                   touched>>

SeedDates(s) ==
    /\ Goto(s, "dates", "facts")
    /\ \E rows \in CleanTrades(Lines(s)) : dimDate' = dimDate \union {r.date : r \in rows}
    /\ UNCHANGED <<feed, exists, schema, dimProduct, facts, observability, path, raw, clean, row,
                   touched>>

\* LEFT JOIN dim_product
KeyOf(p) ==
    IF \E o \in dimProduct : o[2] = p THEN (CHOOSE o \in dimProduct : o[2] = p)[1] ELSE None

FactsOf(rows) ==
    {[key     |-> RowNumber({q.trade : q \in rows}, r.trade),
      trade   |-> r.trade,
      product |-> KeyOf(r.product)] : r \in rows}

\* the primary key, the unique trade_id, and the date's foreign key
Accepted(rows) ==
    /\ \A f \in FactsOf(rows), g \in facts : f.key # g.key /\ f.trade # g.trade
    /\ \A r \in rows : r.date \in dimDate

\* Mutant: INSERT OR IGNORE, as in the dimensions.
SeedFacts_Ignore(s) ==
    /\ Goto(s, "facts", "runs")
    /\ \E rows \in CleanTrades(Lines(s)) :
          facts' = facts \union {f \in FactsOf(rows) :
                       \A g \in facts : f.key # g.key /\ f.trade # g.trade}
    /\ UNCHANGED <<feed, exists, schema, dimProduct, dimDate, observability, path, raw, clean, row,
                   touched>>

SeedFacts(s) ==
    /\ Goto(s, "facts", "runs")
    /\ \E rows \in CleanTrades(Lines(s)) :
          Accepted(rows) /\ facts' = facts \union FactsOf(rows)
    /\ UNCHANGED <<feed, exists, schema, dimProduct, dimDate, observability, path, raw, clean, row,
                   touched>>

\* A statement that raises ends the page: the INSERT of facts as above, any other
\* for a conflict with a concurrent one or a feed that cannot be read.
SeedingRaises(s) ==
    /\ pc[s] \notin {"out", "missing"}
    /\ Leave({s})
    /\ UNCHANGED <<feed, exists, schema, star, observability, touched>>

\* executemany commits row by row.
NextRow(s, from, to, rows) ==
    /\ pc[s] = from
    /\ IF row[s] + 1 < rows
       THEN row' = [row EXCEPT ![s] = @ + 1] /\ UNCHANGED <<pc, path, raw, clean>>
       ELSE IF to = "out" THEN Leave({s})
       ELSE Goto(s, from, to) /\ row' = [row EXCEPT ![s] = 0] /\ UNCHANGED <<path, raw, clean>>

SeedRun(s) ==
    /\ NextRow(s, "runs", "job", RunRows)
    /\ runs' = Append(runs, <<raw[s], clean[s]>>)
    /\ UNCHANGED <<feed, exists, schema, star, jobs, scores, violations, edges, touched>>

SeedJob(s) ==
    /\ Goto(s, "job", "scores") /\ jobs' = jobs + 1
    /\ UNCHANGED <<feed, exists, schema, star, runs, scores, violations, edges, path, raw, clean,
                   row, touched>>

SeedScores(s) ==
    /\ Goto(s, "scores", "violations") /\ scores' = scores + 3
    /\ UNCHANGED <<feed, exists, schema, star, runs, jobs, violations, edges, path, raw, clean,
                   row, touched>>

SeedViolations(s) ==
    /\ Goto(s, "violations", "edges")
    /\ violations' = violations + Min({100, Cardinality(DuplicateLines(Lines(s)))})
    /\ UNCHANGED <<feed, exists, schema, star, runs, jobs, scores, edges, path, raw, clean, row,
                   touched>>

\* after the last one the page goes on
SeedEdge(s) ==
    /\ NextRow(s, "edges", "out", EdgeRows) /\ edges' = edges + 1
    /\ UNCHANGED <<feed, exists, schema, star, runs, jobs, scores, violations, touched>>

\* The process dies, with every session; what was committed stays.
Crash ==
    /\ Leave(Sessions)
    /\ UNCHANGED <<feed, exists, schema, star, observability, touched>>

Seed(s) == Connect(s) \/ CreateSchema(s) \/ CountRaw(s) \/ CountClean(s) \/ SeedProducts(s)
             \/ SeedDates(s) \/ SeedFacts(s) \/ SeedRun(s) \/ SeedJob(s) \/ SeedScores(s)
             \/ SeedViolations(s) \/ SeedEdge(s)

Next ==
    \/ \E d \in Days : OpenFeed(d) \/ WriteLine(d)
    \/ \E s \in Sessions : Missing(s) \/ FindFeed(s) \/ Seed(s) \/ SeedingRaises(s)
    \/ Crash

Spec == Init /\ [][Next]_vars

-----------------------------------------------------------------------------
(* Properties *)

\* Every variable has its type.
TypeOK ==
    /\ present \subseteq Days /\ feeds \in 0 .. MaxFeeds
    /\ \A d \in Days : csv[d] = SubSeq(Content[d], 1, Len(csv[d]))
    /\ exists \in BOOLEAN /\ schema \in BOOLEAN /\ touched \in BOOLEAN
    /\ dimProduct \subseteq Nat \X Nat /\ dimDate \subseteq Nat
    /\ facts \subseteq [key : Nat, trade : Nat, product : Nat]
    /\ runs \in Seq(Nat \X Nat)
    /\ {jobs, scores, violations, edges} \subseteq Nat
    /\ pc \in [Sessions -> {"out", "missing", "connect", "schema", "raw", "clean", "products",
                            "dates", "facts", "runs", "job", "scores", "violations", "edges"}]
    /\ path \in [Sessions -> Days]
    /\ {raw, clean, row} \subseteq [Sessions -> Nat]

\* However seeders overlap, raise or die: on a feed that does not change under
\* them, and that has a trade, what the dashboard's tables of runs, jobs, scores
\* and lineage hold is the beginning of what one seeder writes, after all facts of
\* the feed, and with the counts of those facts.  Only the primary key of
\* fact_trades sees to that.
SeededOnce ==
    LET lines == csv[Max(present)] IN
    ~touched /\ runs # <<>> /\ TradesOf(lines) # {} =>
        /\ {f.trade : f \in facts} = TradesOf(lines) /\ Cardinality(facts) = Cardinality(TradesOf(lines))
        /\ ToSet(runs) = {<<Len(lines), Cardinality(facts)>>} /\ Len(runs) <= RunRows
        /\ jobs <= 1 /\ scores <= 3 /\ edges <= EdgeRows
        /\ jobs > 0 => Len(runs) = RunRows
        /\ scores > 0 => jobs > 0
        /\ violations > 0 => scores > 0 /\ violations = Min({100, Cardinality(DuplicateLines(lines))})
        /\ edges > 0 => scores > 0

Tied(lines) == \E t \in TradesOf(lines) : Cardinality(LatestLines(lines, t)) > 1

Had(lines, trade, product) ==
    \E k \in DOMAIN lines : lines[k].trade = trade /\ lines[k].product = product

\* A fact's product key is of a product that its trade has in a feed, by whatever
\* feeds the seeders have numbered the products, and it is missing only if the feed
\* changed, if it left open which line of the trade is the latest, or has none.
FactsKeepTheirProduct ==
    LET lines == csv[Max(present)] IN
    \A f \in facts :
        /\ f.product # None =>
              \E o \in dimProduct, d \in Days :
                  o[1] = f.product /\ Had(Content[d], f.trade, o[2])
        /\ f.product = None => touched \/ Tied(lines) \/ Had(lines, f.trade, None)

-----------------------------------------------------------------------------
(* What docs say, and the code does not do *)

\* "Create a small dashboard-ready DuckDB database if one is not present."  A page
\* that finds the file there goes on with whatever it holds, for good after a crash.
ReturnedIsReady == exists /\ (\A s \in Sessions : pc[s] = "out") => edges >= EdgeRows

=============================================================================
