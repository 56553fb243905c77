------------------------------ MODULE Lineage ------------------------------
(***************************************************************************)
(* Column-level lineage, end to end: which edges the transforms emit       *)
(* (etl/transforms), how a run collects and persists them                  *)
(* (etl/lineage_tracker.py), and the graph that queries rebuild from       *)
(* lineage_edges (graph/lineage_graph.py, graph/queries.py).               *)
(*                                                                         *)
(* A frame is its columns, which of them hold nulls, and whether it has    *)
(* rows.  A transform emits its edges one after the other when it has      *)
(* planned its work; it may raise in between, the edges stay in the        *)
(* tracker, and the retry emits again.  A failed run persists what it has; *)
(* storing may be cut short.                                               *)
(*                                                                         *)
(* A column is a pair <<layer, name>> for the code's "layer.name".         *)
(***************************************************************************)
EXTENDS Naturals, Sequences, FiniteSets

CONSTANTS
    Plans,         \* by run: lists of transforms, of all stages or of one (stage_filter)
    Inputs,        \* by run: raw files: [columns |-> ..., nulls |-> ..., empty |-> ...]
    Fills,         \* keys of null_fill, in order
    Casts,         \* keys of CAST_MAP, in order
    CalendarColumns, \* what DateExpand always derives, in order
    LeiColumns,    \* what LeiLookup joins, in order
    MaxAttempts    \* retry.max_attempts

Transforms == {"NullFill", "TypeCast", "Dedup", "FxConvert", "DateExpand", "LeiLookup",
               "ExposureRollup", "PositionNet", "WriteStarSchema"}
LoadColumns == <<"notional_usd", "notional_eur", "net_notional_usd">>
LoadReads   == {"trade_id", "trade_date", "settlement_date", "counterparty_id", "product_id",
                "currency", "direction", "notional"}
Layers == {"raw", "clean", "typed", "dedup", "enriched", "risk_report", "fact_trades"}

Listed == UNION {{list[k] : k \in DOMAIN list} : list \in {Fills, Casts, CalendarColumns, LeiColumns}}

\* bound: the runs that have plans and inputs
Batches == 1 .. Len(Plans)

ASSUME PlansAssumption  == Len(Plans) \in Nat /\ \A b \in Batches : Plans[b] \subseteq Seq(Transforms)
ASSUME InputsAssumption ==
    \A b \in Batches : \A i \in Inputs[b] :
        /\ IsFiniteSet(i.columns) /\ i.nulls \subseteq i.columns
        /\ i.empty \in BOOLEAN /\ (i.empty => i.nulls = {})
        /\ \A k \in DOMAIN LoadColumns : LoadColumns[k] \notin i.columns
\* DateExpand and LeiLookup have their lists in the code
ASSUME ListsAssumption ==
    /\ \A list \in {Fills, Casts, CalendarColumns, LeiColumns} : list \in Seq(Listed)
    /\ \A list \in {CalendarColumns, LeiColumns} : \A k \in DOMAIN list :
          \A j \in DOMAIN LoadColumns : list[k] # LoadColumns[j]
ASSUME AttemptsAssumption == MaxAttempts \in Nat \ {0}

VARIABLES
    lineageEdges,  \* the table: {[batch, source, target, transform]}
    pc,            \* "idle" | "transform" | "persist"
    batch,         \* of the current or last run; 0 before there is one
    plan, step, attempt,
    columns, nulls, empty, \* the frame given to the transform
    sent,          \* edges the attempt has emitted so far
    edges,         \* LineageTracker._edges, a list
    ended          \* how the last run ended: "none", "stored" or "other"

frame == <<columns, nulls, empty>>
vars  == <<lineageEdges, pc, batch, plan, step, attempt, frame, sent, edges, ended>>

Current == plan[step]

Init ==
    /\ lineageEdges = {} /\ pc = "idle" /\ batch = 0
    /\ plan = <<>> /\ step = 1 /\ attempt = 1
    /\ columns = {} /\ nulls = {} /\ empty = TRUE /\ sent = 0 /\ edges = <<>> /\ ended = "none"

-----------------------------------------------------------------------------
(* What the transforms emit *)

Edge(from, to, name) == [source |-> from, target |-> to, transform |-> name]
Has(names) == names \subseteq columns
None == <<>>

\* one edge per column, from one layer to another
PerColumn(cs, from, to, name) ==
    [k \in DOMAIN cs |-> Edge(<<from, cs[k]>>, <<to, cs[k]>>, name)]

\* one edge from a clean column to each listed enriched column
FromClean(c, list, name) ==
    [k \in DOMAIN list |-> Edge(<<"clean", c>>, <<"enriched", list[k]>>, name)]

\* those of the listed names that are in S
Keep(list, S) ==
    LET kept[k \in 0 .. Len(list)] ==
            IF k = 0 THEN <<>>
            ELSE IF list[k] \in S THEN Append(kept[k - 1], list[k]) ELSE kept[k - 1]
    IN kept[Len(list)]

\* Mutant: the source layer is the transform's own.
NullFillEdges_OwnLayer == PerColumn(Keep(Fills, columns \intersect nulls), "clean", "clean", "null_fill")

\* a column without nulls is left alone, and gets no edge
NullFillEdges == PerColumn(Keep(Fills, columns \intersect nulls), "raw", "clean", "null_fill")

TypeCastEdges == PerColumn(Keep(Casts, columns), "raw", "typed", "type_cast")

DedupEdges ==
    IF Has({"trade_id", "trade_date"})
    THEN <<Edge(<<"typed", "trade_id">>, <<"dedup", "trade_id">>, "dedup")>> ELSE None

\* Mutant: the EUR figure also names the column it was computed from first.
FxConvertEdges_Both ==
    IF Has({"notional"})
    THEN <<Edge(<<"clean", "notional">>, <<"enriched", "notional_usd">>, "fx_convert"),
           Edge(<<"clean", "notional">>, <<"enriched", "notional_eur">>, "fx_convert"),
           Edge(<<"enriched", "notional_usd">>, <<"enriched", "notional_eur">>, "fx_to_eur")>>
    ELSE None

FxConvertEdges ==
    IF Has({"notional"})
    THEN <<Edge(<<"clean", "notional">>, <<"enriched", "notional_usd">>, "fx_convert"),
           Edge(<<"enriched", "notional_usd">>, <<"enriched", "notional_eur">>, "fx_to_eur")>>
    ELSE None

DateExpandEdges ==
    IF ~Has({"trade_date"}) THEN None
    ELSE (IF Has({"settlement_date"})
          THEN FromClean("trade_date", <<"days_to_settlement">>, "date_expand") ELSE None)
         \o FromClean("trade_date", CalendarColumns, "date_expand")

LeiLookupEdges ==
    IF Has({"counterparty_id"})
    THEN FromClean("counterparty_id", LeiColumns, "lei_lookup") ELSE None

ExposureRollupEdges ==
    IF ~Has({"notional_usd", "counterparty_id", "trade_date"}) THEN None
    ELSE <<Edge(<<"enriched", "notional_usd">>, <<"risk_report", "usd_exposure">>,
                "exposure_rollup")>>
         \o IF Has({"notional_eur"})
            THEN <<Edge(<<"risk_report", "usd_exposure">>, <<"risk_report", "eur_exposure">>,
                        "eur_conversion")>> ELSE None

PositionNetEdges ==
    IF Has({"notional_usd", "direction", "counterparty_id", "product_id"})
    THEN <<Edge(<<"enriched", "notional_usd">>, <<"enriched", "net_notional_usd">>,
                "position_net")>> ELSE None

\* nothing is loaded from an empty frame
WriteStarSchemaEdges ==
    IF empty THEN None
    ELSE PerColumn(Keep(LoadColumns, columns), "enriched", "fact_trades", "write_star_schema")

Emissions ==
    CASE Current = "NullFill"        -> NullFillEdges
      [] Current = "TypeCast"        -> TypeCastEdges
      [] Current = "Dedup"           -> DedupEdges
      [] Current = "FxConvert"       -> FxConvertEdges
      [] Current = "DateExpand"      -> DateExpandEdges
      [] Current = "LeiLookup"       -> LeiLookupEdges
      [] Current = "ExposureRollup"  -> ExposureRollupEdges
      [] Current = "PositionNet"     -> PositionNetEdges
      [] Current = "WriteStarSchema" -> WriteStarSchemaEdges

\* FxConvert refers to the currency column without asking whether it is there;
\* the INSERT reads each of the load's columns.
Raises ==
    \/ Current = "FxConvert" /\ Has({"notional"}) /\ ~Has({"currency"})
    \/ /\ Current = "WriteStarSchema" /\ ~empty
       /\ ~Has(LoadReads \union {LoadColumns[k] : k \in DOMAIN LoadColumns})

\* columns of the returned frame that the given one lacks
Added ==
    CASE Current = "FxConvert" /\ Has({"notional"}) -> {"notional_usd", "notional_eur"}
      [] Current = "PositionNet" /\ PositionNetEdges # None -> {"net_notional_usd"}
      [] OTHER -> {}

\* NullFill leaves no null in its columns
Filled == IF Current = "NullFill" THEN {Fills[k] : k \in DOMAIN Fills} ELSE {}

-----------------------------------------------------------------------------
(* A run *)

\* The tracker is new in every run.
StartRun ==
    /\ pc = "idle" /\ batch < Len(Plans)
    /\ batch' = batch + 1
    /\ \E i \in Inputs[batch'] : columns' = i.columns /\ nulls' = i.nulls /\ empty' = i.empty
    /\ plan' \in Plans[batch']
    /\ step' = 1 /\ attempt' = 1 /\ sent' = 0 /\ edges' = <<>> /\ ended' = "none"
    /\ pc' = "transform"
    /\ UNCHANGED lineageEdges

\* tracker.emit
Emit ==
    /\ pc = "transform" /\ step <= Len(plan) /\ ~Raises /\ sent < Len(Emissions)
    /\ edges' = Append(edges, Emissions[sent + 1])
    /\ sent' = sent + 1
    /\ UNCHANGED <<lineageEdges, pc, batch, plan, step, attempt, frame, ended>>

TransformSucceeds ==
    /\ pc = "transform" /\ step <= Len(plan) /\ ~Raises /\ sent = Len(Emissions)
    /\ columns' = columns \union Added
    /\ nulls' = nulls \ Filled /\ UNCHANGED empty
    /\ step' = step + 1 /\ attempt' = 1 /\ sent' = 0
    /\ UNCHANGED <<lineageEdges, pc, batch, plan, edges, ended>>

\* The transform raises, before, between or after its emissions.
AttemptFails ==
    /\ pc = "transform" /\ step <= Len(plan) /\ attempt < MaxAttempts
    /\ attempt' = attempt + 1 /\ sent' = 0
    /\ UNCHANGED <<lineageEdges, pc, batch, plan, step, frame, edges, ended>>

RunFails ==
    /\ pc = "transform" /\ step <= Len(plan) /\ attempt >= MaxAttempts
    /\ pc' = "persist" /\ ended' = "other"
    /\ UNCHANGED <<lineageEdges, batch, plan, step, attempt, frame, sent, edges>>

RunCompletes ==
    /\ pc = "transform" /\ step > Len(plan)
    /\ pc' = "persist" /\ ended' = "stored"
    /\ UNCHANGED <<lineageEdges, batch, plan, step, attempt, frame, sent, edges>>

Row(b, e) == [batch |-> b, source |-> e.source, target |-> e.target,
              transform |-> e.transform]

Rows(n) == {Row(batch, edges[k]) : k \in 1 .. n}

\* what a run leaves behind for no one
Reset == step' = 1 /\ attempt' = 1 /\ columns' = {} /\ nulls' = {} /\ sent' = 0 /\ edges' = <<>>

\* _persist_lineage, after a failed run too
Persist ==
    /\ pc = "persist"
    /\ lineageEdges' = lineageEdges \union Rows(Len(edges))
    /\ pc' = "idle"
    /\ Reset
    /\ UNCHANGED <<batch, plan, empty, ended>>

\* Mutant: the last edges are written first.
PersistSome_Backwards ==
    /\ pc = "persist"
    /\ \E n \in 0 .. Len(edges) :
          lineageEdges' = lineageEdges \union (Rows(Len(edges)) \ Rows(n))
    /\ pc' = "idle" /\ ended' = "other"
    /\ Reset
    /\ UNCHANGED <<batch, plan, empty>>

\* executemany inserts one row after the other; an exception ends it and is
\* logged, or the process dies
PersistSome ==
    /\ pc = "persist"
    /\ \E n \in 0 .. Len(edges) : lineageEdges' = lineageEdges \union Rows(n)
    /\ pc' = "idle" /\ ended' = "other"
    /\ Reset
    /\ UNCHANGED <<batch, plan, empty>>

\* the process dies before
Crash ==
    /\ pc = "transform"
    /\ pc' = "idle" /\ ended' = "other"
    /\ Reset
    /\ UNCHANGED <<lineageEdges, batch, plan, empty>>

Next == StartRun \/ Emit \/ TransformSucceeds \/ AttemptFails \/ RunFails
          \/ RunCompletes \/ Persist \/ PersistSome \/ Crash

Spec == Init /\ [][Next]_vars

-----------------------------------------------------------------------------
(* The rebuilt graph and its queries *)

\* build_from_duckdb, for some batches: rows become edges, equal rows one
LoadGraph(batches) ==
    {Edge(r.source, r.target, r.transform) : r \in {q \in lineageEdges : q.batch \in batches}}

\* LineageTracker.build_graph
Emitted == {edges[k] : k \in DOMAIN edges}

Nodes(G) == {e.source : e \in G} \union {e.target : e \in G}

\* the columns at most k edges upstream of c
Upstream(G, c, k) ==
    LET upTo[j \in 0 .. k] ==
            IF j = 0 THEN {c}
            ELSE LET near == upTo[j - 1]
                 IN near \union {e.source : e \in {f \in G : f.target \in near}}
    IN upTo[k]

\* nx.ancestors, of every column
AncestorsOf(G) == [c \in Nodes(G) |-> Upstream(G, c, Cardinality(Nodes(G))) \ {c}]

\* nx.shortest_path_length, to c from an ancestor a
Distance(G, a, c) ==
    CHOOSE k \in 1 .. Cardinality(Nodes(G)) :
        a \in Upstream(G, c, k) \ Upstream(G, c, k - 1)

\* nx.descendants
DescendantsOf(G, c) == LET anc == AncestorsOf(G) IN {d \in Nodes(G) : c \in anc[d]}

\* LineageGraph.ancestors(c) surely lists a ahead of b (sorted by distance, reversed)
ListedBefore(G, c, a, b) == Distance(G, a, c) > Distance(G, b, c)

\* LineageTracker.ancestors(c) surely lists a ahead of b (sorted by distance)
TrackerListsBefore(c, a, b) == Distance(Emitted, a, c) < Distance(Emitted, b, c)

TransformsTouching(G, c) == {e.transform : e \in {f \in G : c \in {f.source, f.target}}}

\* impact_analysis(c)["transforms"]
ImpactTransforms(G, c) ==
    UNION {TransformsTouching(G, d) : d \in {c} \union DescendantsOf(G, c)}

-----------------------------------------------------------------------------
(* Properties *)

Names == Listed \union LoadReads \union {LoadColumns[k] : k \in DOMAIN LoadColumns}
           \union {"days_to_settlement", "usd_exposure", "eur_exposure"}
EdgeNames == {"null_fill", "type_cast", "dedup", "fx_convert", "fx_to_eur", "date_expand", "lei_lookup",
              "exposure_rollup", "eur_conversion", "position_net", "write_star_schema"}
Column   == Layers \X Names
EdgeType == [source : Column, target : Column, transform : EdgeNames]

\* Every variable has its type; no transform gets more than max_attempts.
TypeOK ==
    /\ \A r \in lineageEdges : r.batch \in Batches /\ Edge(r.source, r.target, r.transform) \in EdgeType
    /\ pc \in {"idle", "transform", "persist"}
    /\ batch \in Batches \union {0}
    /\ plan \in {<<>>} \union UNION {Plans[b] : b \in Batches}
    /\ step \in 1 .. Len(plan) + 1
    /\ attempt \in 1 .. MaxAttempts
    /\ IsFiniteSet(columns) /\ nulls \subseteq columns /\ empty \in BOOLEAN
    /\ sent \in Nat
    /\ edges \in Seq(EdgeType)
    /\ ended \in {"none", "stored", "other"}

\* The table changes as a run ends; the properties of it are judged then.
Settled == pc = "idle"

\* README: edges form "a directed acyclic graph", over all batches together
\* too, whatever columns their files had and whichever attempts failed.
LineageIsAcyclic ==
    Settled => LET anc == AncestorsOf(LoadGraph(Batches)) IN
        \A e \in LoadGraph(Batches) :
            e.source # e.target /\ e.target \notin anc[e.source]

\* A derived column never dangles: whatever is recorded of enriched,
\* risk_report or fact_trades columns leads back to a clean column in the
\* graph of its own batch, also of failed runs and when only a part of the
\* edges was stored.
DerivedTracesToClean ==
    Settled => \A b \in Batches : LET anc == AncestorsOf(LoadGraph({b})) IN
        \A c \in DOMAIN anc : c[1] \in {"enriched", "risk_report", "fact_trades"} =>
            \E a \in anc[c] : a[1] = "clean"

\* After a run that loaded rows and stored its lineage, each loaded figure traces
\* back to the notional that it was computed from.
LoadedFiguresTraced ==
    (Settled /\ ended = "stored" /\ ~empty /\ \E k \in DOMAIN plan : plan[k] = "WriteStarSchema") =>
        LET anc == AncestorsOf(LoadGraph({batch})) IN
            \A k \in DOMAIN LoadColumns :
                /\ <<"fact_trades", LoadColumns[k]>> \in DOMAIN anc
                /\ <<"clean", "notional">> \in anc[<<"fact_trades", LoadColumns[k]>>]

\* No figure loses its origin: neither in what a run stored, nor on the way from the
\* notional to the star schema.
FiguresTraced == DerivedTracesToClean /\ LoadedFiguresTraced

\* LineageGraph.ancestors sorts by distance and calls this "root-first": in the
\* graph of all batches no column is listed behind one that it leads to.
AncestorsRootFirst ==
    Settled => LET G == LoadGraph(Batches)
                   anc == AncestorsOf(G) IN
        \A c \in DOMAIN anc : \A b \in anc[c] : \A a \in anc[b] : ListedBefore(G, c, a, b)

-----------------------------------------------------------------------------
(* What docs say, and the code does not do *)

\* README: "every figure in a risk report must be traceable back to its
\* source", as in the example that starts at raw.notional.
RiskFiguresTraceToRaw ==
    LET anc == AncestorsOf(LoadGraph(Batches)) IN
        \A c \in DOMAIN anc : c[1] = "risk_report" => \E a \in anc[c] : a[1] = "raw"

\* lineage_tracker.py: ancestors come "in topological order (root first)".
TrackerAncestorsRootFirst ==
    LET anc == AncestorsOf(Emitted) IN
        \A c \in DOMAIN anc : \A b \in anc[c] : \A a \in anc[b] :
            ~TrackerListsBefore(c, b, a)

\* lineage_graph.py: impact_analysis is a "downstream impact report": its
\* transforms are those that read the column or something that comes from it.
ImpactIsDownstream ==
    LET G == LoadGraph(Batches) IN
        \A c \in Nodes(G) :
            ImpactTransforms(G, c) =
                {e.transform : e \in {f \in G : f.source \in {c} \union DescendantsOf(G, c)}}

=============================================================================
