-------------------------- MODULE DemoDatabaseProofs --------------------------
(* What seeders of the demo database leave behind, however many sessions there *)
(* are, whatever the feeds hold, and wherever a seeder or the process dies.    *)
EXTENDS DemoDatabase, FiniteSetTheorems, TLAPS

Line    == [trade : Nat, product : Nat, date : Nat]
Feed    == csv[Max(present)]
Doubles == Min({100, Cardinality(DuplicateLines(Feed))})

LEMMA ContentType ==
  /\ Content \in Seq(Seq(Line)) /\ Days = 1 .. Len(Content) /\ Len(Content) \in Nat
  /\ \A d \in Days : Content[d] \in Seq(Line) /\ Len(Content[d]) \in Nat
  /\ RunRows \in Nat \ {0} /\ EdgeRows \in Nat \ {0}
BY ContentAssumption DEF Days, Line

-----------------------------------------------------------------------------
(* The latest feed, and numbers of lines *)

LEMMA MaxDay ==
  ASSUME NEW S \in SUBSET Days, S # {}
  PROVE  Max(S) \in S
<1> DEFINE n == Len(Content)
           T == {n - x : x \in S}
           Less == OpToRel(<, Nat)
<1>1. n \in Nat /\ S \subseteq 1 .. n
  BY ContentType
<1>2. T \subseteq Nat /\ T # {}
  <2>1. \A x \in S : x \in Nat /\ n - x \in Nat
    BY <1>1
  <2>2. PICK x \in S : TRUE
    OBVIOUS
  <2>3. n - x \in T
    OBVIOUS
  <2> QED
    BY <2>1, <2>3
<1>3. \E m \in T : \A k \in T : m <= k
  <2>1. IsWellFoundedOn(Less, T)
    BY <1>2, NatLessThanWellFounded, IsWellFoundedOnSubset
  <2>2. PICK m \in T : \A k \in T : <<k, m>> \notin Less
    <3> HIDE DEF T, Less
    <3> QED
      BY <1>2, <2>1, WFMin
  <2>3. \A k \in T : ~(k < m)
    <3> SUFFICES ASSUME NEW k \in T, k < m PROVE FALSE
      OBVIOUS
    <3>1. k \in Nat /\ m \in Nat
      BY <1>2
    <3>2. <<k, m>> \in Less
      BY <3>1 DEF OpToRel
    <3> QED
      BY <2>2, <3>2
  <2> HIDE DEF T
  <2> QED
    BY <1>2, <2>3
<1>4. \E x \in S : \A y \in S : x >= y
  <2>1. PICK x \in S : \A y \in S : n - x <= n - y
    BY <1>3
  <2>2. \A y \in S : x >= y
    BY <1>1, <2>1
  <2> QED
    BY <2>2
<1> QED
  BY <1>4 DEF Max

LEMMA DoublesType ==
  ASSUME NEW lines \in Seq(Line)
  PROVE  Min({100, Cardinality(DuplicateLines(lines))}) \in Nat
<1> DEFINE n == Cardinality(DuplicateLines(lines))
<1>1. IsFiniteSet(1 .. Len(lines)) /\ DuplicateLines(lines) \subseteq 1 .. Len(lines)
  BY FS_Interval DEF DuplicateLines
<1>2. n \in Nat
  BY <1>1, FS_Subset, FS_CardinalityType
<1>3. \E x \in {100, n} : \A y \in {100, n} : x =< y
  <2>1. CASE n <= 100
    BY <1>2, <2>1
  <2>2. CASE ~(n <= 100)
    BY <1>2, <2>2
  <2> QED
    BY <2>1, <2>2
<1> HIDE DEF n
<1>4. Min({100, n}) \in {100, n}
  BY <1>3 DEF Min
<1> QED
  BY <1>2, <1>4 DEF n

-----------------------------------------------------------------------------
(* What an evaluation of clean_trades gives *)

LEMMA TradesAreFinite ==
  ASSUME NEW lines \in Seq(Line)
  PROVE  /\ IsFiniteSet(TradesOf(lines)) /\ TradesOf(lines) \subseteq Nat
         /\ Cardinality(TradesOf(lines)) \in Nat
<1> DEFINE T == {lines[k].trade : k \in 1 .. Len(lines)}
           f == [k \in 1 .. Len(lines) |-> lines[k].trade]
<1>1. f \in Surjection(1 .. Len(lines), T)
  BY DEF Surjection
<1>2. IsFiniteSet(1 .. Len(lines))
  BY FS_Interval
<1>3. IsFiniteSet(T)
  <2> HIDE DEF T, f
  <2> QED
    BY <1>1, <1>2, FS_Surjection
<1>4. T \subseteq Nat /\ TradesOf(lines) \subseteq T
  <2>1. \A k \in 1 .. Len(lines) : lines[k] \in Line
    OBVIOUS
  <2>2. \A k \in 1 .. Len(lines) : lines[k].trade \in Nat
    <3> SUFFICES ASSUME NEW x \in Line PROVE x.trade \in Nat
      BY <2>1
    <3> QED
      BY DEF Line
  <2>3. T \subseteq Nat
    BY <2>2
  <2>4. TradesOf(lines) \subseteq T
    <3>1. DOMAIN lines = 1 .. Len(lines)
      OBVIOUS
    <3> QED
      BY <3>1 DEF TradesOf
  <2> QED
    BY <2>3, <2>4
<1>5. IsFiniteSet(TradesOf(lines))
  BY <1>3, <1>4, FS_Subset
<1> QED
  BY <1>4, <1>5, FS_CardinalityType

\* one row per trade, and it is a line of the feed
LEMMA RowPerTrade ==
  ASSUME NEW lines \in Seq(Line), NEW rows \in CleanTrades(lines)
  PROVE  /\ {r.trade : r \in rows} = TradesOf(lines)
         /\ \A r, q \in rows : r.trade = q.trade => r = q
         /\ \A r \in rows : r \in Line /\ \E k \in DOMAIN lines : r = lines[k]
<1>1. PICK pick \in [TradesOf(lines) -> DOMAIN lines] :
        /\ \A t \in TradesOf(lines) : pick[t] \in LatestLines(lines, t)
        /\ rows = {lines[pick[t]] : t \in TradesOf(lines)}
  BY DEF CleanTrades
<1>2. \A t \in TradesOf(lines) : pick[t] \in DOMAIN lines /\ lines[pick[t]].trade = t
  BY <1>1 DEF LatestLines
<1>3. \A k \in DOMAIN lines : lines[k] \in Line
  OBVIOUS
<1> QED
  BY <1>1, <1>2, <1>3

\* without ties for the latest line there is just one evaluation
LEMMA OneEvaluation ==
  ASSUME NEW lines \in Seq(Line), ~Tied(lines),
         NEW a \in CleanTrades(lines), NEW b \in CleanTrades(lines)
  PROVE  a = b
<1> DEFINE Picks == {f \in [TradesOf(lines) -> DOMAIN lines] :
                        \A t \in TradesOf(lines) : f[t] \in LatestLines(lines, t)}
<1>1. PICK p \in Picks : a = {lines[p[t]] : t \in TradesOf(lines)}
  BY DEF CleanTrades
<1>2. PICK q \in Picks : b = {lines[q[t]] : t \in TradesOf(lines)}
  BY DEF CleanTrades
<1>3. ASSUME NEW t \in TradesOf(lines) PROVE p[t] = q[t]
  <2> DEFINE L == LatestLines(lines, t)
  <2>1. IsFiniteSet(L) /\ Cardinality(L) \in Nat
    <3>1. IsFiniteSet(1 .. Len(lines))
      BY FS_Interval
    <3>2. L \subseteq 1 .. Len(lines)
      BY DEF LatestLines
    <3> HIDE DEF L
    <3> QED
      BY <3>1, <3>2, FS_Subset, FS_CardinalityType
  <2>2. Cardinality(L) <= 1
    BY <2>1, <1>3 DEF Tied
  <2>3. p[t] \in L /\ q[t] \in L
    OBVIOUS
  <2> HIDE DEF L
  <2>4. Cardinality(L) # 0
    BY <2>1, <2>3, FS_EmptySet
  <2>5. Cardinality(L) = 1
    BY <2>1, <2>2, <2>4
  <2>6. \E x : L = {x}
    BY <2>1, <2>5, FS_Singleton
  <2> QED
    BY <2>3, <2>6
<1> QED
  BY <1>1, <1>2, <1>3

ProductsOf(rows) ==
    LET ids == {r.product : r \in rows} \ {None}
    IN  {<<RowNumber(ids, p), p>> : p \in ids}

LEMMA NumbersArePositive ==
  ASSUME NEW lines \in Seq(Line), NEW rows \in CleanTrades(lines), NEW o \in ProductsOf(rows)
  PROVE  o[1] \in Nat \ {0}
<1> DEFINE all == {r.product : r \in rows}
           ids == all \ {None}
<1>1. PICK p \in ids : o = <<RowNumber(ids, p), p>>
  BY DEF ProductsOf
<1>2. all \subseteq {lines[k].product : k \in 1 .. Len(lines)}
  BY RowPerTrade
<1>3. IsFiniteSet({lines[k].product : k \in 1 .. Len(lines)})
  <2> DEFINE T == {lines[k].product : k \in 1 .. Len(lines)}
             f == [k \in 1 .. Len(lines) |-> lines[k].product]
  <2>1. f \in Surjection(1 .. Len(lines), T)
    BY DEF Surjection
  <2>2. IsFiniteSet(1 .. Len(lines))
    BY FS_Interval
  <2>3. IsFiniteSet(T)
    <3> HIDE DEF T, f
    <3> QED
      BY <2>1, <2>2, FS_Surjection
  <2> QED
    BY <2>3
<1>4. IsFiniteSet(ids) /\ \A i \in ids : i \in Nat
  <2>1. all \subseteq Nat
    BY RowPerTrade DEF Line
  <2>2. ids \subseteq {lines[k].product : k \in 1 .. Len(lines)}
    BY <1>2
  <2> HIDE DEF all
  <2> QED
    BY <1>3, <2>1, <2>2, FS_Subset
<1> DEFINE N == {i \in ids : i <= p}
<1>5. N \subseteq ids /\ p \in N
  BY <1>4
<1> HIDE DEF ids
<1>6. IsFiniteSet(N) /\ N # {}
  BY <1>4, <1>5, FS_Subset
<1>7. Cardinality(N) \in Nat /\ Cardinality(N) # 0
  <2> HIDE DEF N
  <2> QED
    BY <1>6, FS_CardinalityType, FS_EmptySet
<1>8. RowNumber(ids, p) = Cardinality(N)
  BY DEF RowNumber
<1> QED
  BY <1>1, <1>7, <1>8

-----------------------------------------------------------------------------
(* What the INSERTs of a seeder do with it *)

\* one fact per trade
LEMMA FactPerTrade ==
  ASSUME NEW lines \in Seq(Line), NEW rows \in CleanTrades(lines)
  PROVE  /\ {f.trade : f \in FactsOf(rows)} = TradesOf(lines)
         /\ Cardinality(FactsOf(rows)) = Cardinality(TradesOf(lines))
<1> DEFINE T == TradesOf(lines)
           F == FactsOf(rows)
           factOf(r) == [key     |-> RowNumber({q.trade : q \in rows}, r.trade),
                         trade   |-> r.trade,
                         product |-> KeyOf(r.product)]
<1>1. F = {factOf(r) : r \in rows}
  BY DEF FactsOf
<1>2. \A r \in rows : factOf(r).trade = r.trade
  OBVIOUS
<1> HIDE DEF factOf
<1>3. {f.trade : f \in F} = T
  BY <1>1, <1>2, RowPerTrade
<1>4. \A f, g \in F : f.trade = g.trade => f = g
  BY <1>1, <1>2, RowPerTrade
<1> DEFINE pick == [t \in T |-> CHOOSE f \in F : f.trade = t]
<1> HIDE DEF F, T
<1>5. \A t \in T : pick[t] \in F /\ pick[t].trade = t
  BY <1>3
<1>6. \A f \in F : f.trade \in T /\ pick[f.trade] = f
  BY <1>3, <1>4, <1>5
<1>7. pick \in [T -> F]
  BY <1>5
<1> HIDE DEF pick
<1>8. pick \in Bijection(T, F)
  BY <1>5, <1>6, <1>7 DEF Bijection, Injection, Surjection, IsInjective
<1>9. IsFiniteSet(T)
  BY TradesAreFinite DEF T
<1> QED
  BY <1>3, <1>8, <1>9, FS_Bijection DEF ExistsBijection, T, F

\* The same products numbered the same way: the second INSERT OR IGNORE adds none.
LEMMA SameProducts ==
  ASSUME NEW rows, InsertProducts({r.product : r \in rows} \ {None}),
         dimProduct \in {{}, ProductsOf(rows)}
  PROVE  dimProduct' = ProductsOf(rows)
<1> DEFINE new == ProductsOf(rows)
<1>1. dimProduct' = dimProduct \union {n \in new : \A o \in dimProduct : o[1] # n[1] /\ o[2] # n[2]}
  BY DEF InsertProducts, ProductsOf
<1>2. dimProduct \in {{}, new}
  OBVIOUS
<1> HIDE DEF new
<1>3. CASE dimProduct = {}
  BY <1>1, <1>3 DEF new
<1>4. CASE dimProduct = new
  BY <1>1, <1>4 DEF new
<1> QED
  BY <1>2, <1>3, <1>4

\* the product that the LEFT JOIN finds
LEMMA KeyFound ==
  ASSUME NEW p, KeyOf(p) # None
  PROVE  \E o \in dimProduct : o[1] = KeyOf(p) /\ o[2] = p
<1>1. \E o \in dimProduct : o[2] = p
  BY DEF KeyOf
<1>2. KeyOf(p) = (CHOOSE o \in dimProduct : o[2] = p)[1]
  BY <1>1 DEF KeyOf
<1> QED
  BY <1>1, <1>2

LEMMA NumberedIsFound ==
  ASSUME NEW lines \in Seq(Line), NEW rows \in CleanTrades(lines),
         dimProduct = ProductsOf(rows), NEW r \in rows, r.product # None
  PROVE  KeyOf(r.product) # None
<1>1. \E o \in dimProduct : o[2] = r.product
  <2>1. <<RowNumber({q.product : q \in rows} \ {None}, r.product), r.product>> \in ProductsOf(rows)
    BY DEF ProductsOf
  <2> QED
    BY <2>1
<1> DEFINE o == CHOOSE x \in dimProduct : x[2] = r.product
<1>2. o \in ProductsOf(rows)
  BY <1>1
<1>3. KeyOf(r.product) = o[1]
  BY <1>1 DEF KeyOf
<1> HIDE DEF o
<1>4. o[1] \in Nat \ {0}
  BY <1>2, NumbersArePositive
<1> QED
  BY <1>3, <1>4 DEF None

-----------------------------------------------------------------------------
(* Types *)

Writing == {"runs", "job", "scores", "violations", "edges"}
Counted == {"products", "dates", "facts"} \union Writing
Labels  == {"out", "missing", "connect", "schema", "raw", "clean"} \union Counted

\* the part of TypeOK that the proofs use, with csv as a function of all days
Typed ==
    /\ present \subseteq Days
    /\ csv \in [Days -> Seq(Line)]
    /\ \A d \in Days : /\ Len(csv[d]) <= Len(Content[d])
                       /\ \A k \in 1 .. Len(csv[d]) : csv[d][k] = Content[d][k]
    /\ exists \in BOOLEAN /\ touched \in BOOLEAN
    /\ runs \in Seq(Nat \X Nat)
    /\ jobs \in Nat /\ scores \in Nat /\ violations \in Nat /\ edges \in Nat
    /\ pc \in [Sessions -> Labels] /\ path \in [Sessions -> Days]
    /\ raw \in [Sessions -> Nat] /\ clean \in [Sessions -> Nat] /\ row \in [Sessions -> Nat]

LEMMA InitTyped == Init => Typed
<1> SUFFICES ASSUME Init PROVE Typed
  OBVIOUS
<1>1. present \subseteq Days
  BY ContentAssumption, ContentType DEF Init
<1>2. \A d \in Days : csv[d] = IF d \in present THEN Content[d] ELSE <<>>
  BY DEF Init
<1>3. csv \in [Days -> Seq(Line)]
  BY <1>2, ContentType DEF Init
<1>4. \A d \in Days : /\ Len(csv[d]) <= Len(Content[d])
                      /\ \A k \in 1 .. Len(csv[d]) : csv[d][k] = Content[d][k]
  BY <1>2, ContentType
<1>5. 1 \in Days
  BY ContentAssumption, ContentType
<1>6. runs \in Seq(Nat \X Nat)
  BY DEF Init
<1>7. exists \in BOOLEAN /\ touched \in BOOLEAN
  BY DEF Init
<1> QED
  BY <1>1, <1>3, <1>4, <1>5, <1>6, <1>7 DEF Init, Typed, Labels

\* the generator's steps
LEMMA FeedTyped ==
  ASSUME Typed, NEW d \in Days, OpenFeed(d) \/ WriteLine(d)
  PROVE  Typed'
<1>1. UNCHANGED <<exists, runs, jobs, scores, violations, edges, pc, path, raw, clean, row>>
  BY DEF OpenFeed, WriteLine, observability, page
<1>2. touched' \in BOOLEAN
  <2>1. touched' = (exists \/ \E s \in Sessions : pc[s] # "out")
    BY DEF OpenFeed, WriteLine, Touch
  <2> QED
    BY <2>1
<1>3. exists' \in BOOLEAN
  BY <1>1 DEF Typed
<1>4. CASE OpenFeed(d)
  <2>1. present' \subseteq Days
    BY <1>4 DEF OpenFeed, Typed
  <2>2. csv' = [csv EXCEPT ![d] = <<>>]
    BY <1>4 DEF OpenFeed
  <2>3. csv' \in [Days -> Seq(Line)]
    BY <2>2 DEF Typed
  <2>4. \A e \in Days : csv'[e] = IF e = d THEN <<>> ELSE csv[e]
    BY <2>2 DEF Typed
  <2>5. \A e \in Days : /\ Len(csv'[e]) <= Len(Content[e])
                        /\ \A k \in 1 .. Len(csv'[e]) : csv'[e][k] = Content[e][k]
    BY <2>4, ContentType DEF Typed
  <2> QED
    BY <1>1, <1>2, <1>3, <2>1, <2>3, <2>5 DEF Typed
<1>5. CASE WriteLine(d)
  <2>1. UNCHANGED present /\ Len(csv[d]) < Len(Content[d])
    BY <1>5 DEF WriteLine
  <2> DEFINE s    == csv[d]
             x    == Content[d][Len(s) + 1]
             more == Append(s, x)
  <2>2. csv' = [csv EXCEPT ![d] = more]
    BY <1>5 DEF WriteLine
  <2>3. s \in Seq(Line) /\ Content[d] \in Seq(Line)
    BY ContentType DEF Typed
  <2>4. more \in Seq(Line) /\ Len(more) = Len(s) + 1
        /\ \A k \in 1 .. Len(more) : more[k] = IF k = Len(more) THEN Content[d][k] ELSE s[k]
    <3>1. x \in Line
      <4>1. Len(s) + 1 \in 1 .. Len(Content[d])
        BY <2>1, <2>3
      <4> HIDE DEF s
      <4> QED
        BY <2>3, <4>1
    <3> HIDE DEF x, s
    <3>2. more \in Seq(Line) /\ Len(more) = Len(s) + 1
      BY <2>3, <3>1
    <3>3. \A k \in 1 .. Len(more) : more[k] = IF k = Len(more) THEN x ELSE s[k]
      BY <2>3, <3>1, <3>2
    <3> QED
      BY <3>2, <3>3 DEF x
  <2> HIDE DEF more
  <2>5. csv' \in [Days -> Seq(Line)] /\ \A e \in Days : csv'[e] = IF e = d THEN more ELSE csv[e]
    BY <2>2, <2>4 DEF Typed
  <2>6. \A e \in Days : Len(csv'[e]) <= Len(Content[e])
    <3>1. Len(more) <= Len(Content[d])
      BY <2>1, <2>3, <2>4
    <3> QED
      BY <2>5, <3>1 DEF Typed
  <2>7. \A k \in 1 .. Len(csv[d]) : csv[d][k] = Content[d][k]
    BY DEF Typed
  <2>8. \A k \in 1 .. Len(more) : more[k] = Content[d][k]
    BY <2>3, <2>4, <2>7
  <2>9. \A e \in Days : \A k \in 1 .. Len(csv'[e]) : csv'[e][k] = Content[e][k]
    BY <2>5, <2>8 DEF Typed
  <2> QED
    BY <1>1, <1>2, <1>3, <2>1, <2>5, <2>6, <2>9 DEF Typed
<1> QED
  BY <1>4, <1>5

SessionStep(s) == Missing(s) \/ FindFeed(s) \/ Seed(s) \/ SeedingRaises(s)

LEMMA StepCases ==
  ASSUME [Next]_vars
  PROVE  \/ \E d \in Days : OpenFeed(d) \/ WriteLine(d)
         \/ \E s \in Sessions : SessionStep(s)
         \/ Crash
         \/ UNCHANGED vars
BY DEF Next, SessionStep

LEMMA LeaveTyped ==
  ASSUME Typed, NEW S, Leave(S)
  PROVE  /\ pc' \in [Sessions -> Labels] /\ path' \in [Sessions -> Days]
         /\ raw' \in [Sessions -> Nat] /\ clean' \in [Sessions -> Nat] /\ row' \in [Sessions -> Nat]
         /\ \A t \in Sessions : pc'[t] = IF t \in S THEN "out" ELSE pc[t]
         /\ \A t \in Sessions \ S : path'[t] = path[t] /\ raw'[t] = raw[t]
                                    /\ clean'[t] = clean[t] /\ row'[t] = row[t]
         /\ \A t \in S \intersect Sessions : row'[t] = 0
<1>1. 1 \in Days
  BY ContentAssumption, ContentType
<1>2. \A t \in Sessions : pc'[t] = IF t \in S THEN "out" ELSE pc[t]
  BY DEF Leave
<1>3. pc' \in [Sessions -> Labels]
  BY DEF Leave, Typed, Labels
<1>4. path' \in [Sessions -> Days]
  BY <1>1 DEF Leave, Typed
<1>5. raw' \in [Sessions -> Nat] /\ clean' \in [Sessions -> Nat] /\ row' \in [Sessions -> Nat]
  BY DEF Leave, Typed
<1>6. \A t \in Sessions \ S : path'[t] = path[t] /\ raw'[t] = raw[t]
                              /\ clean'[t] = clean[t] /\ row'[t] = row[t]
  BY DEF Leave
<1>7. \A t \in S \intersect Sessions : row'[t] = 0
  BY DEF Leave
<1> QED
  BY <1>2, <1>3, <1>4, <1>5, <1>6, <1>7

\* executemany, row by row
LEMMA RunRow ==
  ASSUME NEW s, SeedRun(s)
  PROVE  /\ pc[s] = "runs" /\ UNCHANGED <<path, raw, clean>>
         /\ \/ row[s] + 1 < RunRows /\ row' = [row EXCEPT ![s] = @ + 1] /\ UNCHANGED pc
            \/ /\ ~(row[s] + 1 < RunRows)
               /\ row' = [row EXCEPT ![s] = 0] /\ pc' = [pc EXCEPT ![s] = "job"]
<1>1. NextRow(s, "runs", "job", RunRows) /\ "job" # "out"
  BY DEF SeedRun
<1> QED
  BY <1>1, Zenon DEF NextRow, Goto

LEMMA EdgeRow ==
  ASSUME NEW s, SeedEdge(s)
  PROVE  /\ pc[s] = "edges"
         /\ \/ /\ row[s] + 1 < EdgeRows /\ row' = [row EXCEPT ![s] = @ + 1]
               /\ UNCHANGED <<pc, path, raw, clean>>
            \/ ~(row[s] + 1 < EdgeRows) /\ Leave({s})
<1>1. NextRow(s, "edges", "out", EdgeRows)
  BY DEF SeedEdge
<1> QED
  BY <1>1, Zenon DEF NextRow

\* A session's step either moves it alone, or ends its page.
LEMMA SessionMoves ==
  ASSUME Typed, NEW s \in Sessions, SessionStep(s)
  PROVE  /\ UNCHANGED <<present, csv, touched>>
         /\ exists' \in BOOLEAN
         /\ pc' \in [Sessions -> Labels] /\ path' \in [Sessions -> Days]
         /\ raw' \in [Sessions -> Nat] /\ clean' \in [Sessions -> Nat] /\ row' \in [Sessions -> Nat]
         /\ \A t \in Sessions \ {s} : /\ pc'[t] = pc[t] /\ path'[t] = path[t] /\ raw'[t] = raw[t]
                                      /\ clean'[t] = clean[t] /\ row'[t] = row[t]
<1> USE DEF Goto, feed
<1>1. CASE Missing(s)
  BY <1>1 DEF Missing, Typed, Labels
<1>2. CASE FindFeed(s)
  <2>1. present # {} => Max(present) \in Days
    BY MaxDay DEF Typed
  <2> QED
    BY <1>2, <2>1 DEF FindFeed, Typed, Labels
<1>3. CASE Connect(s) \/ CreateSchema(s)
  BY <1>3 DEF Connect, CreateSchema, Typed, Labels, Counted
<1>4. CASE CountRaw(s)
  <2>1. Len(Lines(s)) \in Nat
    BY DEF Lines, Typed
  <2> QED
    BY <1>4, <2>1 DEF CountRaw, Typed, Labels, Counted
<1>5. CASE CountClean(s)
  <2>1. Cardinality(TradesOf(Lines(s))) \in Nat
    BY TradesAreFinite DEF Lines, Typed
  <2> QED
    BY <1>5, <2>1 DEF CountClean, Typed, Labels, Counted
<1>6. CASE SeedProducts(s) \/ SeedDates(s) \/ SeedFacts(s)
  BY <1>6 DEF SeedProducts, SeedDates, SeedFacts, Typed, Labels, Counted, Writing
<1>7. CASE SeedRun(s)
  <2>1. UNCHANGED <<present, csv, touched, exists>>
    BY <1>7 DEF SeedRun
  <2>2. UNCHANGED <<path, raw, clean>>
    BY <1>7, RunRow
  <2>3. \/ row' = [row EXCEPT ![s] = @ + 1] /\ UNCHANGED pc
        \/ row' = [row EXCEPT ![s] = 0] /\ pc' = [pc EXCEPT ![s] = "job"]
    BY <1>7, RunRow
  <2>4. "job" \in Labels
    BY DEF Labels, Counted, Writing
  <2>5. CASE row' = [row EXCEPT ![s] = @ + 1] /\ UNCHANGED pc
    BY <2>1, <2>2, <2>5 DEF Typed
  <2>6. CASE row' = [row EXCEPT ![s] = 0] /\ pc' = [pc EXCEPT ![s] = "job"]
    BY <2>1, <2>2, <2>4, <2>6 DEF Typed
  <2> QED
    BY <2>3, <2>5, <2>6
<1>8. CASE SeedJob(s) \/ SeedScores(s) \/ SeedViolations(s)
  BY <1>8 DEF SeedJob, SeedScores, SeedViolations, Typed, Labels, Counted, Writing
<1>9. CASE SeedEdge(s)
  <2>1. UNCHANGED <<present, csv, touched, exists>>
    BY <1>9 DEF SeedEdge
  <2>2. CASE Leave({s})
    BY <2>1, <2>2, LeaveTyped DEF Typed
  <2>3. CASE row' = [row EXCEPT ![s] = @ + 1] /\ UNCHANGED <<pc, path, raw, clean>>
    BY <2>1, <2>3 DEF Typed
  <2> QED
    BY <1>9, <2>2, <2>3, EdgeRow
<1>10. CASE SeedingRaises(s)
  <2>1. UNCHANGED <<present, csv, touched, exists>> /\ Leave({s})
    BY <1>10 DEF SeedingRaises
  <2> QED
    BY <2>1, LeaveTyped DEF Typed
<1> QED
  BY <1>1, <1>2, <1>3, <1>4, <1>5, <1>6, <1>7, <1>8, <1>9, <1>10 DEF SessionStep, Seed

LEMMA SessionTyped ==
  ASSUME Typed, NEW s \in Sessions, SessionStep(s)
  PROVE  Typed'
<1>1. /\ runs' \in Seq(Nat \X Nat)
      /\ jobs' \in Nat /\ scores' \in Nat /\ violations' \in Nat /\ edges' \in Nat
  <2>1. CASE SeedRun(s)
    <3>1. runs' = Append(runs, <<raw[s], clean[s]>>)
          /\ UNCHANGED <<jobs, scores, violations, edges>>
      BY <2>1 DEF SeedRun
    <3>2. <<raw[s], clean[s]>> \in Nat \X Nat
      BY DEF Typed
    <3> QED
      BY <3>1, <3>2 DEF Typed
  <2>2. CASE SeedJob(s) \/ SeedScores(s) \/ SeedEdge(s)
    BY <2>2 DEF SeedJob, SeedScores, SeedEdge, Typed
  <2>3. CASE SeedViolations(s)
    <3>1. Min({100, Cardinality(DuplicateLines(Lines(s)))}) \in Nat
      BY DoublesType DEF Lines, Typed
    <3> QED
      BY <2>3, <3>1 DEF SeedViolations, Typed
  <2>4. CASE Missing(s) \/ FindFeed(s) \/ Connect(s) \/ CreateSchema(s) \/ CountRaw(s)
             \/ CountClean(s) \/ SeedProducts(s) \/ SeedDates(s) \/ SeedFacts(s)
             \/ SeedingRaises(s)
    <3>1. UNCHANGED observability
      BY <2>4 DEF Missing, FindFeed, Connect, CreateSchema, CountRaw, CountClean, SeedProducts,
                  SeedDates, SeedFacts, SeedingRaises
    <3> QED
      BY <3>1 DEF observability, Typed
  <2> QED
    BY <2>1, <2>2, <2>3, <2>4 DEF SessionStep, Seed
<1>2. touched' \in BOOLEAN
  BY SessionMoves DEF Typed
<1> QED
  BY <1>1, <1>2, SessionMoves DEF Typed

LEMMA StepTyped == Typed /\ [Next]_vars => Typed'
<1> SUFFICES ASSUME Typed, [Next]_vars PROVE Typed'
  OBVIOUS
<1>1. ASSUME Crash PROVE Typed'
  <2>1. UNCHANGED <<present, csv, exists, touched, runs, jobs, scores, violations, edges>>
        /\ Leave(Sessions)
    BY <1>1 DEF Crash, feed, observability
  <2> QED
    BY <2>1, LeaveTyped DEF Typed
<1>2. ASSUME UNCHANGED vars PROVE Typed'
  BY <1>2 DEF vars, feed, star, observability, page, Typed
<1> QED
  BY <1>1, <1>2, FeedTyped, SessionTyped, StepCases

-----------------------------------------------------------------------------
(* Before there is a file, and where seeders are *)

NoFileYet ==
    ~exists =>
        /\ dimProduct = {} /\ facts = {} /\ runs = <<>>
        /\ jobs = 0 /\ scores = 0 /\ violations = 0 /\ edges = 0
        /\ \A s \in Sessions : pc[s] \in {"out", "missing", "connect"}

\* As long as the feed does not change, all seeders read the same lines.
ReadsFeed(s) ==
    /\ pc[s] \notin {"out", "missing"} => present # {} /\ path[s] = Max(present)
    /\ pc[s] \in Counted \union {"clean"} => raw[s] = Len(Feed)
    /\ pc[s] \in Counted => clean[s] = Cardinality(TradesOf(Feed))

OneFeed ==
    ~touched => (exists => present # {}) /\ \A s \in Sessions : ReadsFeed(s)

RowInRange(s) ==
    /\ pc[s] \notin {"runs", "edges"} => row[s] = 0
    /\ pc[s] = "runs"  => row[s] < RunRows
    /\ pc[s] = "edges" => row[s] < EdgeRows

RowsInRange == \A s \in Sessions : RowInRange(s)

\* A change of the feed that is not marked finds neither file nor seeder.
LEMMA FeedStep ==
  ASSUME Typed, NEW d \in Days, OpenFeed(d) \/ WriteLine(d)
  PROVE  /\ UNCHANGED <<exists, dimProduct, facts, runs, jobs, scores, violations, edges,
                        pc, path, raw, clean, row>>
         /\ ~touched' => ~exists /\ \A s \in Sessions : pc[s] = "out"
<1>1. UNCHANGED <<exists, star, observability, page>>
  BY DEF OpenFeed, WriteLine
<1>2. touched' = (exists \/ \E s \in Sessions : pc[s] # "out")
  BY DEF OpenFeed, WriteLine, Touch
<1> QED
  BY <1>1, <1>2 DEF star, observability, page

LEMMA SameFeed ==
  ASSUME UNCHANGED <<present, csv>>
  PROVE  Feed' = Feed /\ Max(present)' = Max(present)
BY DEF Feed

LEMMA CrashStep ==
  ASSUME Typed, Crash
  PROVE  /\ UNCHANGED <<present, csv, exists, touched, dimProduct, facts, runs, jobs, scores,
                        violations, edges>>
         /\ \A s \in Sessions : pc'[s] = "out" /\ row'[s] = 0
<1>1. UNCHANGED <<feed, exists, star, observability, touched>> /\ Leave(Sessions)
  BY DEF Crash
<1> QED
  BY <1>1, LeaveTyped DEF feed, star, observability

LEMMA StepNoFile == Typed /\ NoFileYet /\ [Next]_vars => NoFileYet'
<1> SUFFICES ASSUME Typed, NoFileYet, [Next]_vars, ~exists' PROVE NoFileYet'
  BY DEF NoFileYet
<1>1. ASSUME NEW d \in Days, OpenFeed(d) \/ WriteLine(d) PROVE NoFileYet'
  BY <1>1, FeedStep DEF NoFileYet
<1>2. ASSUME Crash PROVE NoFileYet'
  BY <1>2, CrashStep DEF NoFileYet
<1>3. ASSUME UNCHANGED vars PROVE NoFileYet'
  BY <1>3 DEF vars, star, observability, page, NoFileYet
<1>4. ASSUME NEW s \in Sessions, SessionStep(s) PROVE NoFileYet'
  <2>1. ~exists
    BY <1>4 DEF SessionStep, Missing, FindFeed, Seed, Connect, CreateSchema, CountRaw, CountClean,
                SeedProducts, SeedDates, SeedFacts, SeedRun, SeedJob, SeedScores, SeedViolations,
                SeedEdge, SeedingRaises
  <2>2. pc[s] \in {"out", "missing", "connect"}
    BY <2>1 DEF NoFileYet
  <2>3. Missing(s) \/ FindFeed(s) \/ SeedingRaises(s)
    <3>1. ~Connect(s)
      BY DEF Connect
    <3>2. ~(SeedRun(s) \/ SeedEdge(s))
      BY <2>2, RunRow, EdgeRow
    <3>3. ~(CreateSchema(s) \/ CountRaw(s) \/ CountClean(s) \/ SeedProducts(s) \/ SeedDates(s)
              \/ SeedFacts(s) \/ SeedJob(s) \/ SeedScores(s) \/ SeedViolations(s))
      BY <2>2 DEF Goto, CreateSchema, CountRaw, CountClean, SeedProducts, SeedDates, SeedFacts,
                  SeedJob, SeedScores, SeedViolations
    <3> QED
      BY <1>4, <3>1, <3>2, <3>3 DEF SessionStep, Seed
  <2>4. UNCHANGED <<star, observability>>
    BY <2>3 DEF Missing, FindFeed, SeedingRaises
  <2>5. pc'[s] \in {"out", "missing", "connect"}
    <3>1. CASE Missing(s) \/ FindFeed(s)
      BY <3>1 DEF Missing, FindFeed, Goto, Typed
    <3>2. CASE SeedingRaises(s)
      BY <3>2, LeaveTyped DEF SeedingRaises
    <3> QED
      BY <2>3, <3>1, <3>2
  <2>6. \A t \in Sessions \ {s} : pc'[t] = pc[t]
    BY <1>4, SessionMoves
  <2> QED
    BY <2>1, <2>4, <2>5, <2>6 DEF NoFileYet, star, observability
<1> QED
  BY <1>1, <1>2, <1>3, <1>4, StepCases

LEMMA StepRows == Typed /\ RowsInRange /\ [Next]_vars => RowsInRange'
<1> SUFFICES ASSUME Typed, RowsInRange, [Next]_vars PROVE RowsInRange'
  OBVIOUS
<1>1. ASSUME NEW d \in Days, OpenFeed(d) \/ WriteLine(d) PROVE RowsInRange'
  BY <1>1, FeedStep DEF RowsInRange, RowInRange
<1>2. ASSUME Crash PROVE RowsInRange'
  BY <1>2, CrashStep DEF RowsInRange, RowInRange
<1>3. ASSUME UNCHANGED vars PROVE RowsInRange'
  BY <1>3 DEF vars, page, RowsInRange, RowInRange
<1>4. ASSUME NEW s \in Sessions, SessionStep(s) PROVE RowsInRange'
  <2>1. \A t \in Sessions \ {s} : RowInRange(t)'
    BY <1>4, SessionMoves DEF RowsInRange, RowInRange
  <2>2. RowInRange(s)'
    <3> USE DEF RowInRange
    <3>1. RowInRange(s) /\ row[s] \in Nat /\ 0 < RunRows /\ 0 < EdgeRows
      BY ContentType DEF RowsInRange, Typed
    <3>2. CASE SeedRun(s)
      <4>1. pc[s] = "runs"
        BY <3>2, RunRow
      <4>2. CASE row[s] + 1 < RunRows /\ row' = [row EXCEPT ![s] = @ + 1] /\ UNCHANGED pc
        BY <3>1, <4>1, <4>2 DEF Typed
      <4>3. CASE row' = [row EXCEPT ![s] = 0] /\ pc' = [pc EXCEPT ![s] = "job"]
        BY <3>1, <4>1, <4>3 DEF Typed
      <4> QED
        BY <3>2, <4>2, <4>3, RunRow
    <3>3. CASE SeedEdge(s)
      <4>1. pc[s] = "edges"
        BY <3>3, EdgeRow
      <4>2. CASE row[s] + 1 < EdgeRows /\ row' = [row EXCEPT ![s] = @ + 1] /\ UNCHANGED pc
        BY <3>1, <4>1, <4>2 DEF Typed
      <4>3. CASE Leave({s})
        BY <4>3, LeaveTyped
      <4> QED
        BY <3>3, <4>2, <4>3, EdgeRow
    <3>4. CASE SeedingRaises(s)
      <4>1. Leave({s})
        BY <3>4 DEF SeedingRaises
      <4> QED
        BY <4>1, LeaveTyped
    <3>5. CASE SeedJob(s) \/ SeedScores(s) \/ SeedViolations(s) \/ SeedFacts(s)
      <4>1. /\ pc[s] \notin {"runs", "edges"} /\ row' = row
            /\ pc'[s] \in {"scores", "violations", "edges", "runs"}
        BY <3>5 DEF Goto, SeedJob, SeedScores, SeedViolations, SeedFacts, Typed
      <4> QED
        BY <3>1, <4>1
    <3>6. CASE Missing(s) \/ FindFeed(s) \/ Connect(s) \/ CreateSchema(s) \/ CountRaw(s)
               \/ CountClean(s) \/ SeedProducts(s) \/ SeedDates(s)
      <4>1. /\ pc[s] \notin {"runs", "edges"} /\ row' = row
            /\ pc'[s] \notin {"runs", "edges"}
        BY <3>6 DEF Goto, Missing, FindFeed, Connect, CreateSchema, CountRaw, CountClean,
                    SeedProducts, SeedDates, Typed
      <4> QED
        BY <3>1, <4>1
    <3> QED
      BY <1>4, <3>2, <3>3, <3>4, <3>5, <3>6 DEF SessionStep, Seed
  <2> QED
    BY <2>1, <2>2 DEF RowsInRange
<1> QED
  BY <1>1, <1>2, <1>3, <1>4, StepCases

LEMMA StepOneFeed == Typed /\ NoFileYet /\ OneFeed /\ [Next]_vars => OneFeed'
<1> SUFFICES ASSUME Typed, NoFileYet, OneFeed, [Next]_vars, ~touched' PROVE OneFeed'
  BY DEF OneFeed
<1> USE DEF ReadsFeed, Counted, Writing
<1>1. ASSUME NEW d \in Days, OpenFeed(d) \/ WriteLine(d) PROVE OneFeed'
  <2>1. ~exists' /\ \A s \in Sessions : pc'[s] = "out"
    BY <1>1, FeedStep
  <2> QED
    BY <2>1 DEF OneFeed
<1>2. ASSUME Crash PROVE OneFeed'
  <2>1. UNCHANGED <<present, exists, touched>> /\ \A s \in Sessions : pc'[s] = "out"
    BY <1>2, CrashStep
  <2> QED
    BY <2>1 DEF OneFeed
<1>3. ASSUME UNCHANGED vars PROVE OneFeed'
  <2>1. UNCHANGED <<present, csv, exists, touched, pc, path, raw, clean>>
    BY <1>3 DEF vars, feed, page
  <2> QED
    BY <2>1, SameFeed DEF OneFeed
<1>4. ASSUME NEW s \in Sessions, SessionStep(s) PROVE OneFeed'
  <2>1. UNCHANGED <<present, csv, touched>>
    BY <1>4, SessionMoves
  <2>2. Feed' = Feed /\ Max(present)' = Max(present)
    BY <2>1, SameFeed
  <2>3. ~touched /\ (exists => present # {}) /\ ReadsFeed(s)
    BY <2>1 DEF OneFeed
  <2> HIDE DEF Feed
  <2>4. exists' => present # {}
    <3>1. CASE Connect(s)
      BY <2>3, <3>1 DEF Connect, Goto
    <3>2. CASE ~Connect(s)
      <4>1. UNCHANGED exists
        BY <1>4, <3>2 DEF SessionStep, Missing, FindFeed, Seed, CreateSchema, CountRaw, CountClean,
               SeedProducts, SeedDates, SeedFacts, SeedRun, SeedJob, SeedScores, SeedViolations,
               SeedEdge, SeedingRaises
      <4> QED
        BY <2>3, <4>1
    <3> QED
      BY <3>1, <3>2
  <2>5. \A t \in Sessions \ {s} : ReadsFeed(t)'
    BY <1>4, <2>1, <2>2, SessionMoves DEF OneFeed
  <2>6. ReadsFeed(s)'
    <3>1. CASE Missing(s)
      BY <3>1 DEF Missing, Goto, Typed
    <3>2. CASE FindFeed(s)
      BY <2>1, <2>2, <3>2 DEF FindFeed, Goto, Typed
    <3>3. CASE Connect(s) \/ CreateSchema(s)
      <4>1. /\ pc[s] \in {"connect", "schema"} /\ path' = path
            /\ pc'[s] \in {"schema", "raw"}
        BY <3>3 DEF Connect, CreateSchema, Goto, Typed
      <4> QED
        BY <2>1, <2>2, <2>3, <4>1
    <3>4. CASE CountRaw(s)
      <4>1. /\ pc[s] = "raw" /\ path' = path /\ pc'[s] = "clean" /\ raw'[s] = Len(Lines(s))
        BY <3>4 DEF CountRaw, Goto, Typed
      <4>2. Lines(s) = Feed
        BY <2>3, <4>1 DEF Lines, Feed
      <4> QED
        BY <2>1, <2>2, <2>3, <4>1, <4>2
    <3>5. CASE CountClean(s)
      <4>1. /\ pc[s] = "clean" /\ path' = path /\ raw' = raw /\ pc'[s] = "products"
            /\ clean'[s] = Cardinality(TradesOf(Lines(s)))
        BY <3>5 DEF CountClean, Goto, Typed
      <4>2. Lines(s) = Feed
        BY <2>3, <4>1 DEF Lines, Feed
      <4> QED
        BY <2>1, <2>2, <2>3, <4>1, <4>2
    <3>6. CASE SeedProducts(s) \/ SeedDates(s) \/ SeedFacts(s) \/ SeedJob(s) \/ SeedScores(s)
               \/ SeedViolations(s)
      <4>1. /\ pc[s] \in Counted /\ pc'[s] \in Counted /\ UNCHANGED <<path, raw, clean>>
        BY <3>6 DEF SeedProducts, SeedDates, SeedFacts, SeedJob, SeedScores, SeedViolations,
                    Goto, Typed
      <4> QED
        BY <2>1, <2>2, <2>3, <4>1
    <3>7. CASE SeedRun(s)
      <4>1. /\ pc[s] = "runs" /\ pc'[s] \in {"runs", "job"} /\ UNCHANGED <<path, raw, clean>>
        BY <3>7, RunRow DEF Typed
      <4> QED
        BY <2>1, <2>2, <2>3, <4>1
    <3>8. CASE SeedEdge(s)
      <4>1. \/ pc'[s] = "out"
            \/ pc[s] = "edges" /\ UNCHANGED <<pc, path, raw, clean>>
        BY <3>8, EdgeRow, LeaveTyped
      <4> QED
        BY <2>1, <2>2, <2>3, <4>1
    <3>9. CASE SeedingRaises(s)
      <4>1. pc'[s] = "out"
        BY <3>9, LeaveTyped DEF SeedingRaises
      <4> QED
        BY <4>1
    <3> QED
      BY <1>4, <3>1, <3>2, <3>3, <3>4, <3>5, <3>6, <3>7, <3>8, <3>9 DEF SessionStep, Seed
  <2> QED
    BY <2>1, <2>4, <2>5, <2>6 DEF OneFeed
<1> QED
  BY <1>1, <1>2, <1>3, <1>4, StepCases

-----------------------------------------------------------------------------
(* One seeder gets past the facts *)

NothingSeeded ==
    /\ facts = {} /\ runs = <<>> /\ jobs = 0 /\ scores = 0 /\ violations = 0 /\ edges = 0
    /\ \A s \in Sessions : pc[s] \notin Writing

AllFacts ==
    /\ {f.trade : f \in facts} = TradesOf(Feed)
    /\ Cardinality(facts) = Cardinality(TradesOf(Feed))

\* the beginning of what one seeder writes
Begun ==
    /\ \A k \in DOMAIN runs : runs[k] = <<Len(Feed), Cardinality(TradesOf(Feed))>>
    /\ Len(runs) <= RunRows
    /\ jobs <= 1 /\ scores <= 3 /\ edges <= EdgeRows
    /\ jobs > 0 => Len(runs) = RunRows
    /\ scores > 0 => jobs > 0
    /\ violations > 0 => scores > 0 /\ violations = Doubles
    /\ edges > 0 => scores > 0

\* ... up to where it is
At(s) ==
    /\ Len(runs)  = IF pc[s] = "runs" THEN row[s] ELSE RunRows
    /\ jobs       = IF pc[s] \in {"runs", "job"} THEN 0 ELSE 1
    /\ scores     = IF pc[s] \in {"runs", "job", "scores"} THEN 0 ELSE 3
    /\ violations = IF pc[s] = "edges" THEN Doubles ELSE 0
    /\ edges      = IF pc[s] = "edges" THEN row[s] ELSE 0

Lone(s) == At(s) /\ \A t \in Sessions \ {s} : pc[t] \notin Writing

Seeded == AllFacts /\ Begun /\ \A s \in Sessions : pc[s] \in Writing => Lone(s)

OneSeeder == ~touched /\ exists /\ TradesOf(Feed) # {} => NothingSeeded \/ Seeded

\* a step that writes nothing, of a session that is not behind the facts then
LEMMA AsideKeeps ==
  ASSUME NEW s \in Sessions, OneSeeder, UNCHANGED <<present, csv, touched, exists>>,
         UNCHANGED <<facts, observability>>, pc'[s] \notin Writing,
         \A t \in Sessions \ {s} : pc'[t] = pc[t] /\ row'[t] = row[t]
  PROVE  OneSeeder'
<1> SUFFICES ASSUME ~touched, exists, TradesOf(Feed) # {} PROVE (NothingSeeded \/ Seeded)'
  BY SameFeed DEF OneSeeder
<1>1. Feed' = Feed /\ Doubles' = Doubles
  BY SameFeed DEF Doubles
<1>2. UNCHANGED <<facts, runs, jobs, scores, violations, edges>>
  BY DEF observability
<1>3. CASE NothingSeeded
  BY <1>2, <1>3 DEF NothingSeeded
<1>4. CASE Seeded
  <2>1. AllFacts' /\ Begun'
    BY <1>1, <1>2, <1>4 DEF Seeded, AllFacts, Begun
  <2>2. ASSUME NEW t \in Sessions, pc'[t] \in Writing PROVE Lone(t)'
    <3>1. t # s /\ pc[t] \in Writing /\ Lone(t)
      BY <1>4, <2>2 DEF Seeded
    <3>2. At(t)'
      BY <1>1, <1>2, <3>1 DEF Lone, At
    <3> QED
      BY <3>1, <3>2 DEF Lone
  <2> QED
    BY <2>1, <2>2 DEF Seeded
<1> QED
  BY <1>3, <1>4 DEF OneSeeder

\* the steps of the lone seeder
LEMMA WriterMoves ==
  ASSUME Typed, NEW s \in Sessions, ReadsFeed(s), RowInRange(s), Begun, At(s),
         UNCHANGED <<present, csv>>,
         SeedRun(s) \/ SeedJob(s) \/ SeedScores(s) \/ SeedViolations(s) \/ SeedEdge(s)
  PROVE  Begun' /\ (pc'[s] \in Writing => At(s)') /\ UNCHANGED facts
<1>1. Feed' = Feed /\ Doubles' = Doubles
  BY SameFeed DEF Doubles
<1>2. /\ RunRows \in Nat \ {0} /\ EdgeRows \in Nat \ {0} /\ row[s] \in Nat
      /\ runs \in Seq(Nat \X Nat) /\ Len(runs) \in Nat
      /\ jobs \in Nat /\ scores \in Nat /\ violations \in Nat /\ edges \in Nat
  BY ContentType DEF Typed
<1>3. CASE SeedRun(s)
  <2>1. /\ runs' = Append(runs, <<raw[s], clean[s]>>)
        /\ UNCHANGED <<facts, jobs, scores, violations, edges>> /\ pc[s] = "runs"
    BY <1>3, RunRow DEF SeedRun, star
  <2>2. <<raw[s], clean[s]>> = <<Len(Feed), Cardinality(TradesOf(Feed))>>
    BY <2>1 DEF ReadsFeed, Counted, Writing
  <2>3. /\ Len(runs) = row[s] /\ row[s] < RunRows
        /\ jobs = 0 /\ scores = 0 /\ violations = 0 /\ edges = 0
    BY <2>1 DEF At, RowInRange
  <2>4. Len(runs') = row[s] + 1
    BY <1>2, <2>1, <2>3
  <2>5. \A k \in DOMAIN runs' : runs'[k] = <<Len(Feed), Cardinality(TradesOf(Feed))>>
    <3> DEFINE e == <<Len(Feed), Cardinality(TradesOf(Feed))>>
    <3>1. e = <<raw[s], clean[s]>> /\ e \in Nat \X Nat
      BY <2>2 DEF Typed
    <3>2. \A k \in DOMAIN runs : runs[k] = e
      BY DEF Begun
    <3>3. runs' = Append(runs, e)
      BY <2>1, <3>1
    <3> HIDE DEF e
    <3>4. \A k \in 1 .. Len(runs) + 1 : Append(runs, e)[k] = e
      BY <1>2, <3>1, <3>2
    <3> QED
      BY <1>2, <3>1, <3>3, <3>4 DEF e
  <2>6. Begun'
    <3>1. (\A k \in DOMAIN runs : runs[k] = <<Len(Feed), Cardinality(TradesOf(Feed))>>)'
      BY <1>1, <2>5
    <3>2. Len(runs') <= RunRows
      BY <1>2, <2>3, <2>4
    <3>3. jobs' = 0 /\ scores' = 0 /\ violations' = 0 /\ edges' = 0
      BY <2>1, <2>3
    <3> QED
      BY <1>2, <3>1, <3>2, <3>3 DEF Begun
  <2>7. \/ row[s] + 1 < RunRows /\ row'[s] = row[s] + 1 /\ pc'[s] = "runs"
        \/ ~(row[s] + 1 < RunRows) /\ pc'[s] = "job"
    BY <1>3, <2>1, RunRow DEF Typed
  <2>8. At(s)'
    BY <1>2, <2>1, <2>3, <2>4, <2>7 DEF At
  <2> QED
    BY <2>1, <2>6, <2>8
<1>4. CASE SeedJob(s)
  <2>1. /\ pc[s] = "job" /\ pc'[s] = "scores" /\ jobs' = jobs + 1
        /\ UNCHANGED <<facts, runs, scores, violations, edges>>
    BY <1>4 DEF SeedJob, Goto, star, Typed
  <2>2. Len(runs) = RunRows /\ jobs = 0 /\ scores = 0 /\ violations = 0 /\ edges = 0
    BY <2>1 DEF At
  <2>3. Begun'
    BY <1>1, <1>2, <2>1, <2>2 DEF Begun
  <2>4. At(s)'
    BY <1>2, <2>1, <2>2 DEF At
  <2> QED
    BY <2>1, <2>3, <2>4
<1>5. CASE SeedScores(s)
  <2>1. /\ pc[s] = "scores" /\ pc'[s] = "violations" /\ scores' = scores + 3
        /\ UNCHANGED <<facts, runs, jobs, violations, edges>>
    BY <1>5 DEF SeedScores, Goto, star, Typed
  <2>2. Len(runs) = RunRows /\ jobs = 1 /\ scores = 0 /\ violations = 0 /\ edges = 0
    BY <2>1 DEF At
  <2>3. Begun'
    BY <1>1, <1>2, <2>1, <2>2 DEF Begun
  <2>4. At(s)'
    BY <1>2, <2>1, <2>2 DEF At
  <2> QED
    BY <2>1, <2>3, <2>4
<1>6. CASE SeedViolations(s)
  <2>1. /\ pc[s] = "violations" /\ pc'[s] = "edges"
        /\ violations' = violations + Min({100, Cardinality(DuplicateLines(Lines(s)))})
        /\ UNCHANGED <<facts, runs, jobs, scores, edges, row>>
    BY <1>6 DEF SeedViolations, Goto, star, Typed
  <2>2. /\ Len(runs) = RunRows /\ jobs = 1 /\ scores = 3 /\ violations = 0 /\ edges = 0
        /\ row[s] = 0
    BY <2>1 DEF At, RowInRange
  <2>3. Lines(s) = Feed
    BY <2>1 DEF ReadsFeed, Lines, Feed
  <2>4. Doubles \in Nat /\ violations' = violations + Doubles
    BY <2>1, <2>3, DoublesType DEF Doubles, Lines, Typed
  <2>5. violations' = Doubles
    BY <2>2, <2>4
  <2>6. Begun'
    BY <1>1, <1>2, <2>1, <2>2, <2>5 DEF Begun
  <2>7. At(s)'
    BY <1>1, <1>2, <2>1, <2>2, <2>5 DEF At
  <2> QED
    BY <2>1, <2>6, <2>7
<1>7. CASE SeedEdge(s)
  <2>1. /\ pc[s] = "edges" /\ edges' = edges + 1
        /\ UNCHANGED <<facts, runs, jobs, scores, violations>>
    BY <1>7, EdgeRow DEF SeedEdge, star
  <2>2. /\ Len(runs) = RunRows /\ jobs = 1 /\ scores = 3 /\ violations = Doubles
        /\ edges = row[s] /\ row[s] < EdgeRows
    BY <2>1 DEF At, RowInRange
  <2>3. Begun'
    BY <1>1, <1>2, <2>1, <2>2 DEF Begun
  <2>4. \/ row'[s] = row[s] + 1 /\ pc'[s] = "edges"
        \/ pc'[s] = "out"
    <3>1. CASE Leave({s})
      BY <3>1, LeaveTyped
    <3>2. CASE row' = [row EXCEPT ![s] = @ + 1] /\ UNCHANGED <<pc, path, raw, clean>>
      BY <2>1, <3>2 DEF Typed
    <3> QED
      BY <1>7, <3>1, <3>2, EdgeRow
  <2>5. pc'[s] \in Writing => At(s)'
    BY <1>1, <1>2, <2>1, <2>2, <2>4 DEF At, Writing
  <2> QED
    BY <2>1, <2>3, <2>5
<1> QED
  BY <1>3, <1>4, <1>5, <1>6, <1>7

\* The INSERT of the facts succeeds once: a second one meets the trades of the first.
LEMMA FactsMove ==
  ASSUME Typed, NEW s \in Sessions, ReadsFeed(s), RowInRange(s), SeedFacts(s),
         UNCHANGED <<present, csv>>, TradesOf(Feed) # {}, NothingSeeded \/ Seeded
  PROVE  Seeded'
<1>1. Feed' = Feed
  BY SameFeed
<1>2. /\ pc[s] = "facts" /\ pc' = [pc EXCEPT ![s] = "runs"]
      /\ UNCHANGED <<runs, jobs, scores, violations, edges, row>>
  BY DEF SeedFacts, Goto, observability
<1>3. PICK rows \in CleanTrades(Lines(s)) : Accepted(rows) /\ facts' = facts \union FactsOf(rows)
  BY DEF SeedFacts
<1>4. Lines(s) = Feed /\ Feed \in Seq(Line)
  BY <1>2 DEF ReadsFeed, Lines, Feed, Typed
<1>5. /\ {f.trade : f \in FactsOf(rows)} = TradesOf(Feed)
      /\ Cardinality(FactsOf(rows)) = Cardinality(TradesOf(Feed))
  BY <1>3, <1>4, FactPerTrade
<1>6. ~AllFacts
  <2>1. PICK f \in FactsOf(rows) : TRUE
    BY <1>5
  <2>2. \A g \in facts : f.trade # g.trade
    BY <1>3 DEF Accepted
  <2> QED
    BY <1>5, <2>2 DEF AllFacts
<1>7. NothingSeeded
  BY <1>6 DEF Seeded
<1>8. facts' = FactsOf(rows)
  BY <1>3, <1>7 DEF NothingSeeded
<1>9. AllFacts'
  BY <1>1, <1>5, <1>8 DEF AllFacts
<1>10. runs' = <<>> /\ jobs' = 0 /\ scores' = 0 /\ violations' = 0 /\ edges' = 0
  BY <1>2, <1>7 DEF NothingSeeded
<1>11. RunRows \in Nat \ {0} /\ EdgeRows \in Nat \ {0}
  BY ContentType
<1>12. Begun'
  <2>1. (\A k \in DOMAIN runs : runs[k] = <<Len(Feed), Cardinality(TradesOf(Feed))>>)'
    BY <1>10
  <2>2. Len(runs') = 0
    BY <1>10
  <2> QED
    BY <1>10, <1>11, <2>1, <2>2 DEF Begun
<1>13. ASSUME NEW t \in Sessions, pc'[t] \in Writing PROVE Lone(t)'
  <2>1. \A u \in Sessions \ {s} : pc'[u] \notin Writing
    BY <1>2, <1>7 DEF NothingSeeded, Typed
  <2>2. t = s /\ pc'[s] = "runs"
    BY <1>2, <1>13, <2>1 DEF Typed
  <2>3. row'[s] = 0
    BY <1>2 DEF RowInRange
  <2>4. At(s)'
    BY <1>10, <2>2, <2>3 DEF At
  <2> QED
    BY <2>1, <2>2, <2>4 DEF Lone
<1> QED
  BY <1>9, <1>12, <1>13 DEF Seeded

LEMMA StepOneSeeder ==
  Typed /\ NoFileYet /\ OneFeed /\ RowsInRange /\ OneSeeder /\ [Next]_vars => OneSeeder'
<1> SUFFICES ASSUME Typed, NoFileYet, OneFeed, RowsInRange, OneSeeder, [Next]_vars, ~touched'
             PROVE  OneSeeder'
  BY DEF OneSeeder
<1>1. ASSUME NEW d \in Days, OpenFeed(d) \/ WriteLine(d) PROVE OneSeeder'
  <2>1. ~exists'
    BY <1>1, FeedStep
  <2> QED
    BY <2>1 DEF OneSeeder
<1>2. ASSUME Crash PROVE OneSeeder'
  <2>1. /\ UNCHANGED <<present, csv, exists, touched, facts, runs, jobs, scores, violations, edges>>
        /\ \A s \in Sessions : pc'[s] \notin Writing
    BY <1>2, CrashStep DEF Writing
  <2>2. Feed' = Feed /\ Doubles' = Doubles
    BY <2>1, SameFeed DEF Doubles
  <2>3. NothingSeeded => NothingSeeded'
    BY <2>1 DEF NothingSeeded
  <2>4. Seeded => Seeded'
    <3>1. AllFacts /\ Begun => AllFacts' /\ Begun'
      BY <2>1, <2>2 DEF AllFacts, Begun
    <3> QED
      BY <2>1, <3>1 DEF Seeded
  <2> QED
    BY <2>1, <2>2, <2>3, <2>4 DEF OneSeeder
<1>3. ASSUME UNCHANGED vars PROVE OneSeeder'
  <2>1. UNCHANGED <<present, csv, exists, touched, facts, observability, pc, row>>
    BY <1>3 DEF vars, feed, star, page
  <2>2. Feed' = Feed /\ Doubles' = Doubles /\ UNCHANGED <<runs, jobs, scores, violations, edges>>
    BY <2>1, SameFeed DEF Doubles, observability
  <2>3. NothingSeeded => NothingSeeded'
    BY <2>1, <2>2 DEF NothingSeeded
  <2>4. Seeded => Seeded'
    <3>1. AllFacts /\ Begun => AllFacts' /\ Begun'
      BY <2>1, <2>2 DEF AllFacts, Begun
    <3>2. ASSUME NEW s \in Sessions, Lone(s) PROVE Lone(s)'
      BY <2>1, <2>2, <3>2 DEF Lone, At
    <3> QED
      BY <2>1, <3>1, <3>2 DEF Seeded
  <2> QED
    BY <2>1, <2>2, <2>3, <2>4 DEF OneSeeder
<1>4. ASSUME NEW s \in Sessions, SessionStep(s) PROVE OneSeeder'
  <2>1. /\ UNCHANGED <<present, csv, touched>>
        /\ \A t \in Sessions \ {s} : pc'[t] = pc[t] /\ row'[t] = row[t]
    BY <1>4, SessionMoves
  <2>2. Feed' = Feed
    BY <2>1, SameFeed
  <2>3. ReadsFeed(s) /\ RowInRange(s)
    BY <2>1 DEF OneFeed, RowsInRange
  <2>4. CASE Missing(s) \/ FindFeed(s) \/ CreateSchema(s) \/ CountRaw(s) \/ CountClean(s)
             \/ SeedProducts(s) \/ SeedDates(s)
    <3>1. UNCHANGED <<exists, facts, observability>>
      BY <2>4 DEF Missing, FindFeed, CreateSchema, CountRaw, CountClean, SeedProducts, SeedDates,
                  star
    <3>2. pc'[s] \notin Writing
      BY <2>4 DEF Missing, FindFeed, CreateSchema, CountRaw, CountClean, SeedProducts, SeedDates,
                  Goto, Writing, Typed
    <3> QED
      BY <2>1, <3>1, <3>2, AsideKeeps
  <2>5. CASE SeedingRaises(s)
    <3>1. UNCHANGED <<exists, facts, observability>> /\ Leave({s})
      BY <2>5 DEF SeedingRaises, star
    <3>2. pc'[s] \notin Writing
      BY <3>1, LeaveTyped DEF Writing
    <3> QED
      BY <2>1, <3>1, <3>2, AsideKeeps
  <2>6. CASE Connect(s)
    <3>1. UNCHANGED <<facts, observability>> /\ exists' = TRUE /\ pc'[s] = "schema"
      BY <2>6 DEF Connect, Goto, star, Typed
    <3>2. CASE exists
      <4>1. UNCHANGED exists
        BY <3>1, <3>2 DEF Typed
      <4> QED
        BY <2>1, <3>1, <4>1, AsideKeeps DEF Writing
    <3>3. CASE ~exists
      <4>1. NothingSeeded'
        BY <2>1, <3>1, <3>3 DEF NoFileYet, NothingSeeded, Writing, observability
      <4> QED
        BY <4>1 DEF OneSeeder
    <3> QED
      BY <3>2, <3>3
  <2>7. CASE SeedFacts(s)
    <3>1. UNCHANGED exists
      BY <2>7 DEF SeedFacts
    <3> SUFFICES ASSUME exists, TradesOf(Feed) # {} PROVE Seeded'
      BY <2>2, <3>1 DEF OneSeeder
    <3>2. NothingSeeded \/ Seeded
      BY <2>1 DEF OneSeeder
    <3> QED
      BY <2>1, <2>3, <2>7, <3>2, FactsMove
  <2>8. CASE SeedRun(s) \/ SeedJob(s) \/ SeedScores(s) \/ SeedViolations(s) \/ SeedEdge(s)
    <3>1. UNCHANGED exists
      BY <2>8 DEF SeedRun, SeedJob, SeedScores, SeedViolations, SeedEdge
    <3> SUFFICES ASSUME exists, TradesOf(Feed) # {} PROVE Seeded'
      BY <2>2, <3>1 DEF OneSeeder
    <3>2. pc[s] \in Writing
      <4>1. SeedRun(s) \/ SeedEdge(s) => pc[s] \in {"runs", "edges"}
        BY RunRow, EdgeRow
      <4>2. SeedJob(s) \/ SeedScores(s) \/ SeedViolations(s) =>
                pc[s] \in {"job", "scores", "violations"}
        BY DEF SeedJob, SeedScores, SeedViolations, Goto
      <4> QED
        BY <2>8, <4>1, <4>2 DEF Writing
    <3>3. Seeded /\ Lone(s)
      BY <2>1, <3>2 DEF OneSeeder, NothingSeeded, Seeded
    <3>4. Begun' /\ (pc'[s] \in Writing => At(s)') /\ UNCHANGED facts
      <4>1. Begun /\ At(s)
        BY <3>3 DEF Seeded, Lone
      <4> QED
        BY <2>1, <2>3, <2>8, <4>1, WriterMoves
    <3>5. AllFacts'
      BY <2>2, <3>3, <3>4 DEF Seeded, AllFacts
    <3>6. \A t \in Sessions \ {s} : pc'[t] \notin Writing
      BY <2>1, <3>3 DEF Lone
    <3>7. ASSUME NEW t \in Sessions, pc'[t] \in Writing PROVE Lone(t)'
      <4>1. t = s
        BY <3>6, <3>7
      <4> QED
        BY <3>4, <3>6, <3>7, <4>1 DEF Lone
    <3> QED
      BY <3>4, <3>5, <3>7 DEF Seeded
  <2> QED
    BY <1>4, <2>4, <2>5, <2>6, <2>7, <2>8 DEF SessionStep, Seed
<1> QED
  BY <1>1, <1>2, <1>3, <1>4, StepCases

-----------------------------------------------------------------------------
(* Seeders that see the same rows number the products the same way *)

OneNumbering ==
    ~touched /\ exists /\ ~Tied(Feed) =>
        \A rows \in CleanTrades(Feed) :
            /\ dimProduct \in {{}, ProductsOf(rows)}
            /\ (\E s \in Sessions : pc[s] \in {"dates", "facts"}) => dimProduct = ProductsOf(rows)

LEMMA StepNumbering ==
  Typed /\ NoFileYet /\ OneFeed /\ OneNumbering /\ [Next]_vars => OneNumbering'
<1> SUFFICES ASSUME Typed, NoFileYet, OneFeed, OneNumbering, [Next]_vars,
                    ~touched', exists', ~Tied(Feed'), NEW rows \in CleanTrades(Feed')
             PROVE  /\ dimProduct' \in {{}, ProductsOf(rows)}
                    /\ (\E s \in Sessions : pc'[s] \in {"dates", "facts"}) =>
                            dimProduct' = ProductsOf(rows)
  BY DEF OneNumbering
<1> DEFINE Goal == /\ dimProduct' \in {{}, ProductsOf(rows)}
                   /\ (\E s \in Sessions : pc'[s] \in {"dates", "facts"}) =>
                            dimProduct' = ProductsOf(rows)
<1>1. ASSUME NEW d \in Days, OpenFeed(d) \/ WriteLine(d) PROVE FALSE
  BY <1>1, FeedStep
<1>2. ASSUME Crash PROVE Goal
  <2>1. /\ UNCHANGED <<present, csv, exists, touched, dimProduct>>
        /\ \A s \in Sessions : pc'[s] = "out"
    BY <1>2, CrashStep
  <2>2. rows \in CleanTrades(Feed) /\ ~Tied(Feed)
    BY <2>1, SameFeed
  <2> QED
    BY <2>1, <2>2 DEF OneNumbering
<1>3. ASSUME UNCHANGED vars PROVE Goal
  <2>1. UNCHANGED <<present, csv, exists, touched, dimProduct, pc>>
    BY <1>3 DEF vars, feed, star, page
  <2>2. rows \in CleanTrades(Feed) /\ ~Tied(Feed)
    BY <2>1, SameFeed
  <2> QED
    BY <2>1, <2>2 DEF OneNumbering
<1>4. ASSUME NEW s \in Sessions, SessionStep(s) PROVE Goal
  <2>1. /\ UNCHANGED <<present, csv, touched>>
        /\ \A t \in Sessions \ {s} : pc'[t] = pc[t]
    BY <1>4, SessionMoves
  <2>2. rows \in CleanTrades(Feed) /\ ~Tied(Feed) /\ ~touched /\ ReadsFeed(s)
    BY <2>1, SameFeed DEF OneFeed
  <2>3. CASE Connect(s) /\ ~exists
    <3>1. UNCHANGED dimProduct /\ pc'[s] = "schema"
      BY <2>3 DEF Connect, Goto, star, Typed
    <3>2. dimProduct = {} /\ \A t \in Sessions : pc[t] \notin {"dates", "facts"}
      BY <2>3 DEF NoFileYet
    <3> QED
      BY <2>1, <3>1, <3>2
  <2>4. CASE ~(Connect(s) /\ ~exists)
    <3>1. exists
      BY <1>4, <2>4 DEF SessionStep, Missing, FindFeed, Seed, Connect, CreateSchema, CountRaw,
             CountClean, SeedProducts, SeedDates, SeedFacts, SeedRun, SeedJob, SeedScores,
             SeedViolations, SeedEdge, SeedingRaises
    <3>2. /\ dimProduct \in {{}, ProductsOf(rows)}
          /\ \A t \in Sessions : pc[t] \in {"dates", "facts"} => dimProduct = ProductsOf(rows)
      BY <2>2, <3>1 DEF OneNumbering
    <3>3. CASE SeedProducts(s)
      <4>1. pc[s] = "products" /\ Lines(s) = Feed
        BY <2>2, <3>3 DEF SeedProducts, Goto, ReadsFeed, Lines, Feed
      <4>2. PICK q \in CleanTrades(Feed) : InsertProducts({r.product : r \in q} \ {None})
        BY <3>3, <4>1 DEF SeedProducts
      <4>3. Feed \in Seq(Line)
        BY <4>1 DEF Lines, Typed
      <4>4. q = rows
        BY <2>2, <4>2, <4>3, OneEvaluation
      <4>5. dimProduct' = ProductsOf(rows)
        BY <3>2, <4>2, <4>4, SameProducts
      <4> QED
        BY <4>5
    <3>4. CASE ~SeedProducts(s)
      <4>1. UNCHANGED dimProduct
        BY <1>4, <3>4 DEF SessionStep, Missing, FindFeed, Seed, Connect, CreateSchema, CountRaw,
               CountClean, SeedDates, SeedFacts, SeedRun, SeedJob, SeedScores, SeedViolations,
               SeedEdge, SeedingRaises, star
      <4>2. pc'[s] \in {"dates", "facts"} => pc[s] \in {"dates", "facts"}
        <5>1. CASE SeedRun(s) \/ SeedEdge(s)
          <6>1. Leave({s}) => pc'[s] = "out"
            BY LeaveTyped
          <6>2. pc' = [pc EXCEPT ![s] = "job"] => pc'[s] = "job"
            BY DEF Typed
          <6>3. UNCHANGED pc \/ pc'[s] \in {"job", "out"}
            BY <5>1, <6>1, <6>2, RunRow, EdgeRow
          <6> QED
            BY <6>3
        <5>2. CASE SeedingRaises(s)
          BY <5>2, LeaveTyped DEF SeedingRaises
        <5>3. CASE Missing(s) \/ FindFeed(s) \/ Connect(s) \/ CreateSchema(s) \/ CountRaw(s)
                   \/ CountClean(s)
          BY <5>3 DEF Missing, FindFeed, Connect, CreateSchema, CountRaw, CountClean, Goto, Typed
        <5>4. CASE SeedDates(s) \/ SeedFacts(s) \/ SeedJob(s) \/ SeedScores(s) \/ SeedViolations(s)
          BY <5>4 DEF SeedDates, SeedFacts, SeedJob, SeedScores, SeedViolations, Goto, Typed
        <5> QED
          BY <1>4, <3>4, <5>1, <5>2, <5>3, <5>4 DEF SessionStep, Seed
      <4> QED
        BY <2>1, <3>2, <4>1, <4>2
    <3> QED
      BY <3>3, <3>4
  <2> QED
    BY <2>3, <2>4
<1> QED
  BY <1>1, <1>2, <1>3, <1>4, StepCases

-----------------------------------------------------------------------------
(* The products of the facts *)

\* the product of a fact is its trade's, of some day's feed
ProductHad(f) ==
    f.product # None =>
        \E o \in dimProduct, d \in Days : o[1] = f.product /\ Had(Content[d], f.trade, o[2])

\* why it may be missing
MissingExcused(f) ==
    f.product = None => touched \/ Tied(Feed) \/ Had(Feed, f.trade, None)

\* A product, once numbered, keeps its row.
LEMMA ProductsStay ==
  ASSUME Typed, [Next]_vars
  PROVE  dimProduct \subseteq dimProduct'
<1>1. ASSUME NEW d \in Days, OpenFeed(d) \/ WriteLine(d) PROVE UNCHANGED dimProduct
  BY <1>1, FeedStep
<1>2. ASSUME Crash PROVE UNCHANGED dimProduct
  BY <1>2, CrashStep
<1>3. ASSUME UNCHANGED vars PROVE UNCHANGED dimProduct
  BY <1>3 DEF vars, star
<1>4. ASSUME NEW s \in Sessions, SessionStep(s) PROVE dimProduct \subseteq dimProduct'
  <2>1. CASE SeedProducts(s)
    BY <2>1 DEF SeedProducts, InsertProducts
  <2>2. CASE ~SeedProducts(s)
    BY <1>4, <2>2 DEF SessionStep, Missing, FindFeed, Seed, Connect, CreateSchema, CountRaw,
           CountClean, SeedDates, SeedFacts, SeedRun, SeedJob, SeedScores, SeedViolations,
           SeedEdge, SeedingRaises, star
  <2> QED
    BY <2>1, <2>2
<1> QED
  BY <1>1, <1>2, <1>3, <1>4, StepCases

\* Facts come in one step, and from a session that read the feed.
LEMMA FactsCome ==
  ASSUME Typed, [Next]_vars, facts' # facts
  PROVE  \E s \in Sessions : SeedFacts(s)
<1>1. ASSUME NEW d \in Days, OpenFeed(d) \/ WriteLine(d) PROVE FALSE
  BY <1>1, FeedStep
<1>2. ~Crash
  BY CrashStep
<1>3. ~UNCHANGED vars
  BY DEF vars, star
<1>4. PICK s \in Sessions : SessionStep(s)
  BY <1>1, <1>2, <1>3, StepCases
<1>5. SeedFacts(s)
  BY <1>4 DEF SessionStep, Missing, FindFeed, Seed, Connect, CreateSchema, CountRaw,
         CountClean, SeedProducts, SeedDates, SeedRun, SeedJob, SeedScores, SeedViolations,
         SeedEdge, SeedingRaises, star
<1> QED
  BY <1>5

\* what one INSERT of facts brings
LEMMA NewFacts ==
  ASSUME Typed, NoFileYet, OneFeed, OneNumbering,
         NEW s \in Sessions, SeedFacts(s), NEW f \in facts' \ facts
  PROVE  ProductHad(f) /\ MissingExcused(f)
<1>1. pc[s] = "facts"
  BY DEF SeedFacts, Goto
<1>2. PICK rows \in CleanTrades(Lines(s)) : facts' = facts \union FactsOf(rows)
  BY DEF SeedFacts
<1>3. PICK r \in rows : f.trade = r.trade /\ f.product = KeyOf(r.product)
  <2>1. f \in FactsOf(rows)
    BY <1>2
  <2>2. PICK r \in rows : f = [key     |-> RowNumber({q.trade : q \in rows}, r.trade),
                              trade   |-> r.trade,
                              product |-> KeyOf(r.product)]
    BY <2>1 DEF FactsOf
  <2> QED
    BY <2>2
<1>4. path[s] \in Days /\ Lines(s) = csv[path[s]] /\ Lines(s) \in Seq(Line)
  BY DEF Lines, Typed
<1>5. PICK k \in DOMAIN Lines(s) : r = Lines(s)[k]
  BY <1>2, <1>4, RowPerTrade
<1>6. ProductHad(f)
  <2> SUFFICES ASSUME f.product # None
               PROVE  \E o \in dimProduct, d \in Days :
                          o[1] = f.product /\ Had(Content[d], f.trade, o[2])
    BY DEF ProductHad
  <2>1. PICK o \in dimProduct : o[1] = f.product /\ o[2] = r.product
    BY <1>3, KeyFound
  <2> DEFINE d == path[s]
  <2>2. k \in 1 .. Len(csv[d]) /\ Len(csv[d]) <= Len(Content[d]) /\ r = Content[d][k]
    BY <1>4, <1>5 DEF Typed
  <2>3. k \in DOMAIN Content[d]
    BY <1>4, <2>2, ContentType
  <2>4. Had(Content[d], f.trade, o[2])
    BY <1>3, <2>1, <2>2, <2>3 DEF Had
  <2> QED
    BY <1>4, <2>1, <2>4
<1>7. MissingExcused(f)
  <2> SUFFICES ASSUME f.product = None, ~touched, ~Tied(Feed)
               PROVE  Had(Feed, f.trade, None)
    BY DEF MissingExcused
  <2>1. Lines(s) = Feed
    BY <1>1 DEF OneFeed, ReadsFeed, Lines, Feed
  <2>2. exists
    BY <1>1 DEF NoFileYet
  <2>3. dimProduct = ProductsOf(rows)
    BY <1>1, <1>2, <2>1, <2>2 DEF OneNumbering
  <2>4. r.product = None
    BY <1>2, <1>3, <1>4, <2>3, NumberedIsFound
  <2> QED
    BY <1>3, <1>5, <2>1, <2>4 DEF Had
<1> QED
  BY <1>6, <1>7

LEMMA FactsKeepIsBoth ==
  FactsKeepTheirProduct <=> \A f \in facts : ProductHad(f) /\ MissingExcused(f)
BY DEF FactsKeepTheirProduct, ProductHad, MissingExcused, Feed

LEMMA StepFacts ==
  Typed /\ NoFileYet /\ OneFeed /\ OneNumbering /\ FactsKeepTheirProduct /\ [Next]_vars
    => FactsKeepTheirProduct'
<1> SUFFICES ASSUME Typed, NoFileYet, OneFeed, OneNumbering, FactsKeepTheirProduct, [Next]_vars,
                    NEW f \in facts'
             PROVE  ProductHad(f)' /\ MissingExcused(f)'
  BY DEF FactsKeepTheirProduct, ProductHad, MissingExcused, Feed
<1>1. ProductHad(f) /\ MissingExcused(f)
  <2>1. CASE f \in facts
    BY <2>1, FactsKeepIsBoth
  <2>2. CASE f \notin facts
    BY <2>2, FactsCome, NewFacts
  <2> QED
    BY <2>1, <2>2
<1>2. ProductHad(f)'
  BY <1>1, ProductsStay DEF ProductHad
<1>3. MissingExcused(f)'
  <2> SUFFICES ASSUME ~touched' PROVE touched' = touched /\ Feed' = Feed
    BY <1>1 DEF MissingExcused
  <2>1. ASSUME NEW d \in Days, OpenFeed(d) \/ WriteLine(d) PROVE FALSE
    <3>1. facts' = {}
      BY <2>1, FeedStep DEF NoFileYet
    <3> QED
      BY <3>1
  <2>2. ASSUME Crash PROVE UNCHANGED <<present, csv, touched>>
    BY <2>2, CrashStep
  <2>3. ASSUME UNCHANGED vars PROVE UNCHANGED <<present, csv, touched>>
    BY <2>3 DEF vars, feed
  <2>4. UNCHANGED <<present, csv, touched>>
    BY <2>1, <2>2, <2>3, SessionMoves, StepCases
  <2> QED
    BY <2>4, SameFeed
<1> QED
  BY <1>2, <1>3

-----------------------------------------------------------------------------
(* The theorems *)

IInv ==
    /\ Typed /\ NoFileYet /\ OneFeed /\ RowsInRange /\ OneSeeder /\ OneNumbering
    /\ FactsKeepTheirProduct

LEMMA InitIInv == Init => IInv
<1> SUFFICES ASSUME Init PROVE IInv
  OBVIOUS
<1>1. /\ exists = FALSE /\ dimProduct = {} /\ facts = {} /\ runs = <<>>
      /\ jobs = 0 /\ scores = 0 /\ violations = 0 /\ edges = 0
      /\ \A s \in Sessions : pc[s] = "out" /\ row[s] = 0
  BY DEF Init
<1>2. NoFileYet /\ RowsInRange
  BY <1>1 DEF NoFileYet, RowsInRange, RowInRange
<1>3. OneFeed
  BY <1>1 DEF OneFeed, ReadsFeed, Counted, Writing
<1>4. OneSeeder /\ OneNumbering /\ FactsKeepTheirProduct
  BY <1>1 DEF OneSeeder, OneNumbering, FactsKeepTheirProduct
<1> QED
  BY <1>2, <1>3, <1>4, InitTyped DEF IInv

LEMMA StepIInv == IInv /\ [Next]_vars => IInv'
BY StepTyped, StepNoFile, StepOneFeed, StepRows, StepOneSeeder, StepNumbering, StepFacts DEF IInv

LEMMA InvariantHolds == Spec => []IInv
<1>1. Init => IInv
  BY InitIInv
<1>2. IInv /\ [Next]_vars => IInv'
  BY StepIInv
<1> QED
  BY <1>1, <1>2, PTL DEF Spec

\* SeededOnce: as long as the feed does not change, the tables of runs, jobs,
\* scores, violations and lineage hold the beginning of what one seeder writes
\* behind all facts of the feed, however many sessions seed at once, and wherever
\* they raise or the process dies (data_bootstrap.py: _seed_demo_database).
THEOREM SeededByOne == Spec => []SeededOnce
<1>1. IInv => SeededOnce
  <2> SUFFICES ASSUME IInv, ~touched, runs # <<>>, TradesOf(Feed) # {}
               PROVE  SeededOnce
    BY DEF SeededOnce, Feed
  <2>1. exists
    BY DEF IInv, NoFileYet
  <2>2. AllFacts /\ Begun
    BY <2>1 DEF IInv, OneSeeder, NothingSeeded, Seeded
  <2>3. ToSet(runs) = {<<Len(Feed), Cardinality(facts)>>}
    <3> DEFINE e == <<Len(Feed), Cardinality(facts)>>
    <3>1. \A k \in DOMAIN runs : runs[k] = e
      BY <2>2 DEF AllFacts, Begun
    <3>2. 1 \in DOMAIN runs
      <4>1. runs \in Seq(Nat \X Nat)
        BY DEF IInv, Typed
      <4> QED
        BY <4>1
    <3> HIDE DEF e
    <3> QED
      BY <3>1, <3>2 DEF ToSet, e
  <2> QED
    BY <2>2, <2>3 DEF SeededOnce, AllFacts, Begun, Doubles, Feed
<1> QED
  BY <1>1, InvariantHolds, PTL

\* FactsKeepTheirProduct: a fact's key is of a product that its trade has in some
\* day's feed, however the seeders' INSERT OR IGNORE statements overlap, and it is
\* missing only for a cause that is in the feed (data_bootstrap.py: the LEFT JOINs
\* of fact_trades).
THEOREM ProductsKept == Spec => []FactsKeepTheirProduct
<1>1. IInv => FactsKeepTheirProduct
  BY DEF IInv
<1> QED
  BY <1>1, InvariantHolds, PTL

=============================================================================
