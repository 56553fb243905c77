----------------------------- MODULE GraphStore -----------------------------
(***************************************************************************)
(* The lineage graph as a store: how LineageGraph (graph/lineage_graph.py) *)
(* is filled from lineage_edges, from a live tracker and from a JSON file, *)
(* and what StardogClient (graph/stardog_client.py) makes of it in an RDF  *)
(* database.  Lineage.tla says which edges there are; here is what becomes *)
(* of several edges between two columns, and of several writes.            *)
(*                                                                         *)
(* A graph is its list of edges in the order in which their pairs of       *)
(* columns were first added.  RDF knows no edges: a database is a set of   *)
(* triples <<k, field, value>> about resources edge_k.  Stage and metadata *)
(* go the way of the transform, and the layer and column of a node are     *)
(* read off its name, so none of these is here.                            *)
(*                                                                         *)
(* The calls are those the class documents; each may come at any time.     *)
(***************************************************************************)
EXTENDS Naturals, FiniteSets, SequencesExt

CONSTANTS
    Columns, TransformNames, BatchIds,
    SafeUri,    \* a column's name in the database: blanks and slashes become underscores
    Runs,       \* what a tracker can hold: [batch, edges], without attributes of a graph
    MaxTs,      \* bound: clock readings
    MaxStored,  \* bound: rows of lineage_edges and documents of the database together
    MaxFills    \* bound: times that a graph is filled

Unknown == "unknown"  \* stands for what a dict of edge lacks
StoredEdge == [source : Columns, target : Columns, transform : TransformNames,
               batch : BatchIds \union {Unknown}]

\* the edge as add_from_tracker, save_to_duckdb and to_edge_list pass it on
InBatch(e, b) == [source |-> e.source, target |-> e.target, transform |-> e.transform, batch |-> b]
EdgesOf(run, b) == [k \in DOMAIN run.edges |-> InBatch(run.edges[k], b)]

ASSUME RunsAssumption ==
    \A r \in Runs : r.batch \in BatchIds
                    /\ r.edges \in Seq([source : Columns, target : Columns, transform : TransformNames])

ASSUME UriAssumption == DOMAIN SafeUri = Columns

ASSUME BoundsAssumption == MaxTs \in Nat /\ MaxStored \in Nat /\ MaxFills \in Nat

VARIABLES
    lineageRows,   \* the table: {[id, ts, edge]}
    graph,         \* LineageGraph._graph: [edges of StoredEdge], one for each pair
    batchIds,      \* LineageGraph._batch_ids
    fills,         \* how often this graph was filled
    file,          \* the saved JSON's list of edges, or NoFile
    triples,       \* the database
    \* the remaining ones only say what the others should be
    meant,         \* edges that the graph may show
    saved,         \* edges of the graph when it was saved
    posted         \* documents (lists of edges) in the database

NoFile == <<>>
inMemory  == <<graph, batchIds, fills, meant>>
onDisk    == <<lineageRows, file, saved>>
inRdf     == <<triples, posted>>
storeVars == <<inMemory, onDisk, inRdf>>

StoreInit ==
    /\ lineageRows = {} /\ file = NoFile /\ saved = {}
    /\ graph = <<>> /\ batchIds = {} /\ fills = 0 /\ meant = {}
    /\ triples = {} /\ posted = {}

-----------------------------------------------------------------------------
(* The graph *)

SamePair(e, f) == e.source = f.source /\ e.target = f.target

\* Mutant: an edge that is there already is left alone.
AddEdge_KeepFirst(g, e) ==
    IF \E k \in DOMAIN g : SamePair(g[k], e) THEN g ELSE Append(g, e)

\* DiGraph.add_edge: new attributes for a known pair, which keeps its place
AddEdge(g, e) ==
    IF \E k \in DOMAIN g : SamePair(g[k], e)
    THEN [k \in DOMAIN g |-> IF SamePair(g[k], e) THEN e ELSE g[k]]
    ELSE Append(g, e)

AddAll(g, list) ==
    LET after[k \in 0 .. Len(list)] == IF k = 0 THEN g ELSE AddEdge(after[k - 1], list[k])
    IN after[Len(list)]

\* nodes by insertion: of each edge the source, then the target
NodePlace(g, c) ==
    Min({2 * k : k \in {j \in DOMAIN g : g[j].source = c}}
          \union {2 * k + 1 : k \in {j \in DOMAIN g : g[j].target = c}})

\* the j-th edge added is listed before the k-th
Ahead(g, j, k) ==
    \/ NodePlace(g, g[j].source) < NodePlace(g, g[k].source)
    \/ g[j].source = g[k].source /\ j < k

\* DiGraph.edges(): by node, then by insertion.  Not the order of insertion.
EdgeList(g) ==
    LET behind(n) == CHOOSE k \in DOMAIN g : Cardinality({j \in DOMAIN g : Ahead(g, j, k)}) = n
    IN [n \in DOMAIN g |-> g[behind(n - 1)]]

\* SELECT ... ORDER BY ts: rows of one reading of the clock come in any order
Ordered(rows) ==
    {s \in SetToSeqs(rows) : \A j, k \in DOMAIN s : j < k => s[j].ts <= s[k].ts}

\* what a graph should show after edges new, of which each may be the last of its pair
Overlaid(new) == new \union {e \in meant : \A f \in new : ~SamePair(e, f)}

LastOfPairs(list) ==
    {list[k] : k \in {k \in DOMAIN list : \A j \in DOMAIN list : SamePair(list[j], list[k]) => j <= k}}

Fill == fills < MaxFills /\ fills' = fills + 1

-----------------------------------------------------------------------------
(* Calls *)

\* A run persists its tracker.  Edges carry the time of their emission, and runs
\* may overlap: later rows need not be later edges.
PersistRun ==
    \E r \in Runs : \E ts \in [DOMAIN r.edges -> 1 .. MaxTs] :
        LET n == Cardinality(lineageRows) IN
        /\ n + Len(r.edges) + Cardinality(posted) <= MaxStored
        /\ \A k \in 2 .. Len(r.edges) : ts[k - 1] <= ts[k]
        /\ lineageRows' = lineageRows \union
              {[id |-> n + k, ts |-> ts[k], edge |-> InBatch(r.edges[k], r.batch)] :
                  k \in DOMAIN r.edges}
        /\ UNCHANGED <<inMemory, file, saved, inRdf>>

NewGraph ==
    /\ graph' = <<>> /\ batchIds' = {} /\ fills' = 0 /\ meant' = {}
    /\ UNCHANGED <<onDisk, inRdf>>

\* of all batches, or of one; a failure is logged and leaves the graph as it is
BuildFromDuckDB ==
    \E bs \in {BatchIds} \union {{b} : b \in BatchIds} :
        LET rows == {r \in lineageRows : r.edge.batch \in bs} IN
        /\ Fill
        /\ \E list \in Ordered(rows) :
              graph' = AddAll(graph, [k \in DOMAIN list |-> list[k].edge])
        /\ batchIds' = batchIds \union {r.edge.batch : r \in rows}
        /\ meant' = Overlaid({r.edge : r \in {r \in rows :
                        \A q \in rows : SamePair(q.edge, r.edge) => q.ts <= r.ts}})
        /\ UNCHANGED <<onDisk, inRdf>>

AddFromTracker ==
    \E r \in Runs :
        /\ Fill
        /\ graph' = AddAll(graph, EdgesOf(r, r.batch))
        /\ batchIds' = batchIds \union {r.batch}
        /\ meant' = Overlaid(LastOfPairs(EdgesOf(r, r.batch)))
        /\ UNCHANGED <<onDisk, inRdf>>

SaveJson ==
    /\ file' = EdgeList(graph)
    /\ saved' = ToSet(graph)
    /\ UNCHANGED <<inMemory, lineageRows, inRdf>>

\* _batch_ids is not in the file and stays as it is.
LoadJson ==
    /\ Fill
    /\ graph' = AddAll(graph, file)
    /\ meant' = Overlaid(saved)
    /\ UNCHANGED <<batchIds, onDisk, inRdf>>

-----------------------------------------------------------------------------
(* The database *)

\* Mutant: only the source's name is made safe.
DocTriples_RawTarget(d) ==
    UNION {{<<k, "source", SafeUri[d[k].source]>>, <<k, "target", d[k].target>>,
            <<k, "transform", d[k].transform>>, <<k, "batch", d[k].batch>>} : k \in DOMAIN d}

\* _graph_to_turtle and write_edges: edges are named by their place in the list
DocTriples(d) ==
    UNION {{<<k, "source", SafeUri[d[k].source]>>, <<k, "target", SafeUri[d[k].target]>>,
            <<k, "transform", d[k].transform>>, <<k, "batch", d[k].batch>>} : k \in DOMAIN d}

\* POST /add.  A time-out tells nothing: this is a post that took effect, whether
\* the client learned so or logged a failure; one without effect changes nothing.
PostTurtle(d) ==
    /\ posted' = posted \union {d}
    /\ Cardinality(lineageRows) + Cardinality(posted') <= MaxStored
    /\ triples' = triples \union DocTriples(d)

PersistToStardog == PostTurtle(EdgeList(graph)) /\ UNCHANGED <<inMemory, onDisk>>

\* write_edges(tracker.to_edge_list()): parallel edges and all, without a batch
WriteEdges ==
    /\ \E r \in Runs : PostTurtle(EdgesOf(r, Unknown))
    /\ UNCHANGED <<inMemory, onDisk>>

\* A clear that failed returns and is logged the same way, and changes nothing.
ClearDatabase ==
    /\ triples' = {} /\ posted' = {}
    /\ UNCHANGED <<inMemory, onDisk>>

StoreNext == PersistRun \/ NewGraph \/ BuildFromDuckDB \/ AddFromTracker \/ SaveJson \/ LoadJson
               \/ PersistToStardog \/ WriteEdges \/ ClearDatabase

StoreSpec == StoreInit /\ [][StoreNext]_storeVars

-----------------------------------------------------------------------------
(* Queries *)

\* { ?edge fin:<at> col ; fin:<ask> ?x ; fin:transform ?transform }
Joined(at, col, ask) ==
    LET asked == {t \in triples : t[2] = ask /\ <<t[1], at, col>> \in triples}
        names(t) == {u \in triples : u[1] = t[1] /\ u[2] = "transform"}
    IN UNION {{<<t[3], u[3]>> : u \in names(t)} : t \in asked}

TraceAncestry(col) == Joined("target", SafeUri[col], "source")
TraceImpact(col)   == Joined("source", SafeUri[col], "target")

TransformsForColumn(col) ==
    {t[3] : t \in {t \in triples : /\ t[2] = "transform"
                                   /\ \E at \in {"source", "target"} :
                                        <<t[1], at, SafeUri[col]>> \in triples}}

-----------------------------------------------------------------------------
(* Properties *)

\* Every variable has its type.
StoreTypeOK ==
    /\ \A r \in lineageRows :
          r.edge \in StoredEdge /\ r.id \in 1 .. MaxStored /\ r.ts \in 1 .. MaxTs
    /\ graph \in Seq(StoredEdge) /\ batchIds \subseteq BatchIds /\ fills \in 0 .. MaxFills
    /\ file \in Seq(StoredEdge)
    /\ \A t \in triples : t[2] \in {"source", "target", "transform", "batch"}
    /\ meant \subseteq StoredEdge /\ saved \subseteq StoredEdge
    /\ \A d \in posted : d \in Seq(StoredEdge)

\* A graph shows one edge for each pair of columns that any of its fillings had,
\* with the transform and batch of a latest one: of the last filling that had the
\* pair, the row of the greatest ts, and for a saved graph what it showed then.
ShowsLatest ==
    /\ ToSet(graph) \subseteq meant
    /\ \A e \in meant : \E f \in ToSet(graph) : SamePair(e, f)
    /\ \A j, k \in DOMAIN graph : SamePair(graph[j], graph[k]) => j = k

EdgesPosted == UNION {{d[k] : k \in DOMAIN d} : d \in posted}

\* one list, or lists of which each goes on where the shorter one ends
OneDocument == \A d, e \in posted : \A k \in DOMAIN d \intersect DOMAIN e : d[k] = e[k]

SameUri(c, d) == SafeUri[c] = SafeUri[d]

\* As long as the documents since the last clear agree (a write repeated after a
\* time-out, or a list that has only been appended to) the answers are exact: the
\* direct sources, the direct targets and the transforms of all columns with the
\* name that the asked one has in the database.
OneDocumentIsExact ==
    OneDocument =>
        \A c \in Columns :
            /\ TraceAncestry(c) = {<<SafeUri[e.source], e.transform>> :
                                      e \in {f \in EdgesPosted : SameUri(f.target, c)}}
            /\ TraceImpact(c) = {<<SafeUri[e.target], e.transform>> :
                                      e \in {f \in EdgesPosted : SameUri(f.source, c)}}
            /\ TransformsForColumn(c) =
                  {e.transform : e \in {f \in EdgesPosted :
                                          SameUri(f.source, c) \/ SameUri(f.target, c)}}

-----------------------------------------------------------------------------
(* What docs say, and the code does not do *)

\* stardog_client.py: "Each lineage edge becomes a named RDF resource".  Then what
\* it traces is an edge that was written.  One graph written twice, before and
\* after it grew or went through its JSON file, is enough to break this.
TracedEdgesAreReal ==
    \A c \in Columns : \A p \in TraceAncestry(c) :
        \E e \in EdgesPosted : SameUri(e.target, c) /\ SafeUri[e.source] = p[1]

\* stardog_client.py: "find all upstream sources of a target column".  Then a source
\* of one of its sources is among them.  The query joins one edge.
AllUpstreamTraced ==
    \A e, f \in EdgesPosted :
        e.target = f.source => \E p \in TraceAncestry(f.target) : p[1] = SafeUri[e.source]

=============================================================================
