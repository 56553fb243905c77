--------------------------- MODULE StarSchemaLoad ---------------------------
(***************************************************************************)
(* etl/transforms/load.py over models/star_schema.sql, statement by        *)
(* statement.                                                              *)
(*                                                                         *)
(* WriteStarSchema runs on one DuckDB connection without a transaction:    *)
(* each statement commits by itself, so a crash or an exception between    *)
(* two of them leaves what the first ones did.  DuckDB lets one process    *)
(* at a time open the file; a connection that an exception left open is    *)
(* closed when Python collects it.  Retries and later batches run the same *)
(* statements again.                                                       *)
(*                                                                         *)
(* A frame is the staged pandas DataFrame: its rows, and whether it has    *)
(* all the columns that the INSERTs name (validate_schema only warns); an  *)
(* INSERT into a dimension that lacks one is among LoadFails.              *)
(***************************************************************************)
EXTENDS Integers, Sequences, FiniteSets

CONSTANTS
    Loaders,       \* processes that may load
    Trades,        \* trade_ids
    Members,       \* natural ids of products and counterparties
    Dates,         \* calendar dates
    Null,          \* SQL's NULL
    NoRow,         \* a trade that fact_trades does not have
    NoLoader,      \* the file is not open for writing
    Frames,        \* frames a loader may be given
    Batches,       \* batch ids
    MaxAttempts,   \* retry.max_attempts
    MaxLoads       \* bound: loads started

\* the dimensions with generated keys
Dimensions == {"product", "counterparty"}

RowType   == [id : Trades \union {Null},
              refs : [Dimensions -> Members \union {Null}],
              date : Dates \union {Null},
              valid : BOOLEAN]        \* passes NOT NULL and CHECK on the measures
FrameType == [rows : Seq(RowType), complete : BOOLEAN]

ASSUME NullAssumption == Null \notin Trades \union Members \union Dates

ASSUME FramesAssumption == Frames \subseteq FrameType

ASSUME LoadersAssumption == NoLoader \notin Loaders

ASSUME BoundsAssumption == MaxAttempts \in Nat \ {0} /\ MaxLoads \in Nat

VARIABLES
    dims,          \* per dimension, natural id |-> surrogate key
    dates,         \* dim_date
    facts,         \* fact_trades: {[key, id, dimKeys, date, batch]}
    writer,        \* the loader that has the file open
    pc,            \* per loader: "idle" | the statement to come | "failed" | "loaded"
    frame, batch, attempt,
    loads

store   == <<dims, dates, facts>>
loader  == <<pc, frame, batch, attempt>>
vars    == <<store, writer, loader, loads>>

Statements == <<"product", "counterparty", "dates", "delete", "insert">>
NoFrame    == [rows |-> <<>>, complete |-> TRUE]
NoKey      == 0     \* NULL in a foreign key column

Rows(l)     == frame[l].rows
Positions(l) == DOMAIN Rows(l)

Init ==
    /\ dims = [d \in Dimensions |-> <<>>] /\ dates = {} /\ facts = {}
    /\ writer = NoLoader
    /\ pc = [l \in Loaders |-> "idle"]
    /\ frame = [l \in Loaders |-> NoFrame]
    /\ batch \in [Loaders -> Batches]
    /\ attempt = [l \in Loaders |-> 1]
    /\ loads = 0

At(l, place) == pc[l] = place
Goto(l, place) == pc' = [pc EXCEPT ![l] = place]

-----------------------------------------------------------------------------
(* Keys *)

\* COALESCE((SELECT MAX(key) ...), 0)
KeyBase(keys) == CHOOSE m \in keys \union {0} : \A k \in keys \union {0} : k <= m

\* ROW_NUMBER(): numbers 1, 2, ... for the elements of S, in some order
Numberings(S) ==
    {f \in [S -> 1 .. Cardinality(S)] : \A x, y \in S : f[x] = f[y] => x = y}

KeysOf(d) == {dims[d][m] : m \in DOMAIN dims[d]}
FactKeys  == {f.key : f \in facts}

-----------------------------------------------------------------------------
(* WriteStarSchema._transform *)

\* A process gets to its load stage with a frame.
StartLoad(l) ==
    /\ At(l, "idle") /\ loads < MaxLoads
    /\ loads' = loads + 1
    /\ \E f \in Frames, b \in Batches :
          /\ frame' = [frame EXCEPT ![l] = f]
          /\ batch' = [batch EXCEPT ![l] = b]
    /\ attempt' = [attempt EXCEPT ![l] = 1]
    /\ Goto(l, "connect")
    /\ UNCHANGED <<store, writer>>

\* pandas_df.empty: returns before connecting
NothingToLoad(l) ==
    /\ At(l, "connect") /\ Rows(l) = <<>>
    /\ Goto(l, "loaded")
    /\ UNCHANGED <<store, writer, frame, batch, attempt, loads>>

\* duckdb.connect and the schema script, which creates what is missing
Connect(l) ==
    /\ At(l, "connect") /\ Rows(l) # <<>>
    /\ writer \in {NoLoader, l}
    /\ writer' = l
    /\ Goto(l, "product")
    /\ UNCHANGED <<store, frame, batch, attempt, loads>>

\* the staged natural ids that dimension d does not have yet
NewMembers(l, d) ==
    {Rows(l)[i].refs[d] : i \in Positions(l)} \ ({Null} \union DOMAIN dims[d])

\* INSERT OR IGNORE INTO dim_product / dim_counterparty: a row whose key is
\* taken is ignored
AddMembers(l, d) ==
    /\ At(l, d)
    /\ \E number \in Numberings(NewMembers(l, d)) :
          LET key(m) == KeyBase(KeysOf(d)) + number[m]
              added  == {m \in NewMembers(l, d) : key(m) \notin KeysOf(d)}
          IN dims' = [dims EXCEPT ![d] =
                        [m \in DOMAIN dims[d] \union added |->
                            IF m \in added THEN key(m) ELSE dims[d][m]]]
    /\ Goto(l, IF d = "product" THEN "counterparty" ELSE "dates")
    /\ UNCHANGED <<dates, facts, writer, frame, batch, attempt, loads>>

\* INSERT OR IGNORE INTO dim_date, whose key is the date itself
AddDates(l) ==
    /\ At(l, "dates")
    /\ dates' = dates \union ({Rows(l)[i].date : i \in Positions(l)} \ {Null})
    /\ Goto(l, "delete")
    /\ UNCHANGED <<dims, facts, writer, frame, batch, attempt, loads>>

\* Mutant: the DELETE has lost its WHERE clause.
DeleteTrades_All(l) ==
    /\ At(l, "delete")
    /\ facts' = {}
    /\ Goto(l, "insert")
    /\ UNCHANGED <<dims, dates, writer, frame, batch, attempt, loads>>

\* Mutant: there is no DELETE.
DeleteTrades_None(l) ==
    /\ At(l, "delete")
    /\ Goto(l, "insert")
    /\ UNCHANGED <<store, writer, frame, batch, attempt, loads>>

\* DELETE FROM fact_trades WHERE trade_id IN (staged ids)
DeleteTrades(l) ==
    /\ At(l, "delete")
    /\ facts' = {f \in facts : f.id \notin {Rows(l)[i].id : i \in Positions(l)}}
    /\ Goto(l, "insert")
    /\ UNCHANGED <<dims, dates, writer, frame, batch, attempt, loads>>

\* LEFT JOIN of a dimension: NULL when it does not have the id
Joined(d, m) == IF m \in DOMAIN dims[d] THEN dims[d][m] ELSE NoKey

\* the row that INSERT INTO fact_trades makes of the staged row i
FactRow(l, i, key) ==
    [key |-> key, id |-> Rows(l)[i].id,
     dimKeys |-> [d \in Dimensions |-> Joined(d, Rows(l)[i].refs[d])],
     date |-> Rows(l)[i].date, batch |-> batch[l]]

\* the constraints of fact_trades on the INSERT of the frame
Insertable(l) ==
    /\ frame[l].complete
    /\ \A i \in Positions(l) :
          /\ Rows(l)[i].valid /\ Rows(l)[i].id # Null
          /\ Rows(l)[i].date \in dates \union {Null}
          /\ Rows(l)[i].id \notin {f.id : f \in facts}
          /\ KeyBase(FactKeys) + i \notin FactKeys
    /\ \A i, j \in Positions(l) : Rows(l)[i].id = Rows(l)[j].id => i = j

\* INSERT INTO fact_trades, all rows or none; then the connection is closed
InsertTrades(l) ==
    /\ At(l, "insert") /\ Insertable(l)
    /\ \E number \in Numberings(Positions(l)) :
          facts' = facts \union
              {FactRow(l, i, KeyBase(FactKeys) + number[i]) : i \in Positions(l)}
    /\ writer' = NoLoader
    /\ Goto(l, "loaded")
    /\ UNCHANGED <<dims, dates, frame, batch, attempt, loads>>

-----------------------------------------------------------------------------
(* Failures *)

Working(l) == pc[l] \in {"connect"} \union {Statements[k] : k \in DOMAIN Statements}

\* Mutant: the except block logs and does not raise.
LoadFails_Swallowed(l) ==
    /\ Working(l)
    /\ Goto(l, "loaded")
    /\ UNCHANGED <<store, writer, frame, batch, attempt, loads>>

\* toPandas raises, connect is refused, a statement raises, or the count of the
\* result that follows in execute.  The traceback keeps the connection open.
LoadFails(l) ==
    /\ Working(l) \/ At(l, "loaded")
    /\ Goto(l, "failed")
    /\ UNCHANGED <<store, writer, frame, batch, attempt, loads>>

\* a connection that nothing uses any more is collected
Collect(l) ==
    /\ writer = l /\ ~Working(l)
    /\ writer' = NoLoader
    /\ UNCHANGED <<store, loader, loads>>

\* toPandas evaluates the lazy frame again: its columns are fixed, its rows are
\* what the files hold by then.
Restage(l) ==
    \E f \in Frames : f.complete = frame[l].complete /\ frame' = [frame EXCEPT ![l] = f]

\* Mutant: one attempt too many.
RetryLoad_OneTooMany(l) ==
    /\ At(l, "failed") /\ attempt[l] <= MaxAttempts
    /\ attempt' = [attempt EXCEPT ![l] = @ + 1]
    /\ Restage(l)
    /\ Goto(l, "connect")
    /\ UNCHANGED <<store, writer, batch, loads>>

\* RetryHandler: the whole transform again, or the stage fails
RetryLoad(l) ==
    /\ At(l, "failed") /\ attempt[l] < MaxAttempts
    /\ attempt' = [attempt EXCEPT ![l] = @ + 1]
    /\ Restage(l)
    /\ Goto(l, "connect")
    /\ UNCHANGED <<store, writer, batch, loads>>

GiveUp(l) ==
    /\ At(l, "failed") /\ attempt[l] >= MaxAttempts
    /\ Goto(l, "idle")
    /\ UNCHANGED <<store, writer, frame, batch, attempt, loads>>

FinishLoad(l) ==
    /\ At(l, "loaded")
    /\ Goto(l, "idle")
    /\ UNCHANGED <<store, writer, frame, batch, attempt, loads>>

\* the process dies
Crash(l) ==
    /\ ~At(l, "idle")
    /\ Goto(l, "idle")
    /\ writer' = IF writer = l THEN NoLoader ELSE writer
    /\ UNCHANGED <<store, frame, batch, attempt, loads>>

LoadStep(l) ==
    \/ NothingToLoad(l) \/ Connect(l) \/ (\E d \in Dimensions : AddMembers(l, d))
    \/ AddDates(l) \/ DeleteTrades(l) \/ InsertTrades(l)
    \/ LoadFails(l) \/ RetryLoad(l) \/ GiveUp(l) \/ FinishLoad(l)

Next == \E l \in Loaders : LoadStep(l) \/ StartLoad(l) \/ Collect(l) \/ Crash(l)

Spec == Init /\ [][Next]_vars

\* A live process goes on with its load.
FairSpec == Spec /\ \A l \in Loaders : WF_vars(LoadStep(l))

-----------------------------------------------------------------------------
(* Properties *)

FactType == [key : Nat \ {0}, id : Trades, dimKeys : [Dimensions -> Nat],
             date : Dates \union {Null}, batch : Batches]

\* Every variable has its type; keys are positive, so that 0 can stand for a
\* NULL reference.
TypeOK ==
    /\ DOMAIN dims = Dimensions
    /\ \A d \in Dimensions : /\ DOMAIN dims[d] \subseteq Members
                             /\ KeysOf(d) \subseteq Nat \ {0}
    /\ dates \subseteq Dates
    /\ facts \subseteq FactType
    /\ writer \in Loaders \union {NoLoader}
    /\ pc \in [Loaders -> {"idle", "connect", "failed", "loaded"} \union
                          {Statements[k] : k \in DOMAIN Statements}]
    /\ frame \in [Loaders -> Frames \union {NoFrame}]
    /\ batch \in [Loaders -> Batches]
    /\ attempt \in [Loaders -> 1 .. MaxAttempts]
    /\ loads \in Nat

\* a frame that fact_trades can take: one valid row per trade, no id missing
Clean(f) ==
    /\ f.complete
    /\ \A i \in DOMAIN f.rows : f.rows[i].valid /\ f.rows[i].id # Null
    /\ \A i, j \in DOMAIN f.rows : f.rows[i].id = f.rows[j].id => i = j

\* When a clean frame reaches its INSERT, no constraint stands against it,
\* whatever was loaded before, by whom, and however often this load was tried:
\* its trades are gone, its dates are there, and the generated keys are free.
CleanFrameLoads ==
    \A l \in Loaders : At(l, "insert") /\ Clean(frame[l]) => Insertable(l)

\* the natural id behind a key, as the views' joins find it
Name(d, key) == IF key \in KeysOf(d)
                THEN CHOOSE m \in DOMAIN dims[d] : dims[d][m] = key ELSE Null

\* fact_trades joined with its dimensions
View == [t \in Trades |->
            IF \E f \in facts : f.id = t
            THEN LET f == CHOOSE g \in facts : g.id = t
                 IN [refs |-> [d \in Dimensions |-> Name(d, f.dimKeys[d])],
                     date |-> f.date, batch |-> f.batch]
            ELSE NoRow]

\* what the loader's staged rows shall say
StagedRows(l) ==
    {<<Rows(l)[i].id, [refs |-> Rows(l)[i].refs, date |-> Rows(l)[i].date,
                       batch |-> batch[l]]>> : i \in Positions(l)}

Ledger == INSTANCE FactLedger WITH
    ledger <- View, staged <- [l \in Loaders |-> StagedRows(l)]

\* The load implements the abstract ledger: behind the surrogate keys readers
\* see one row per trade that names its own product and counterparty, rows
\* change only for the trades of one loader's frame, and appear all at once.
ImplementsLedger == Ledger!Spec

\* A load that returns has put all rows that its last attempt read into fact_trades.
ReturnedLoadLanded ==
    [][\A l \in Loaders : ~At(l, "loaded") /\ pc'[l] = "loaded" =>
          \A i \in Positions(l) : \E f \in facts' :
              f.id = Rows(l)[i].id /\ f.batch = batch[l]]_vars

\* load.py says that the transform appends: a trade that fact_trades has is
\* still there whenever no load is in progress.
Quiet == \A l \in Loaders : At(l, "idle")

LoadedTradesStay ==
    \A t \in Trades : [](View[t] # NoRow => [](Quiet => View[t] # NoRow))

=============================================================================
