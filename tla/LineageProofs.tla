---------------------------- MODULE LineageProofs ----------------------------
(* What lineage is recorded (Lineage), for every configuration and every file, *)
(* and what the stores make of it (GraphStore), for every sequence of calls.   *)
(* The two specifications have no variable in common.                          *)
EXTENDS Lineage, GraphStore, FiniteSetTheorems, WellFoundedInduction, TLAPS

-----------------------------------------------------------------------------
(* Induction, as the least element of a set of counterexamples *)

LEMMA HasLeast ==
  ASSUME NEW S \in SUBSET Nat, S # {}
  PROVE  \E m \in S : \A k \in S : m <= k
<1>1. PICK m \in S : \A k \in S : ~ (<<k, m>> \in OpToRel(<, Nat))
  BY NatLessThanWellFounded, WFMin
<1>2. \A k \in S : k \in Nat /\ m \in Nat /\ ~(k < m)
  BY <1>1 DEF OpToRel
<1> QED
  BY <1>2

\* f holds what a loop has after k steps, from b by n steps S.
Loop(X, b, n, S, f) ==
    f \in [0 .. n -> X] /\ f[0] = b /\ \A k \in 1 .. n : f[k] = S[<<f[k - 1], k>>]

LEMMA Iterates ==
  ASSUME NEW X, NEW b \in X, NEW n \in Nat, NEW S \in [X \X (1 .. n) -> X]
  PROVE  \E f : Loop(X, b, n, S, f)
<1> DEFINE Course(m, f) == /\ f \in [0 .. m -> X] /\ f[0] = b
                           /\ \A k \in 1 .. m : f[k] = S[<<f[k - 1], k>>]
           Bad == {m \in 0 .. n : ~\E f : Course(m, f)}
<1>1. Bad = {}
  <2> SUFFICES ASSUME Bad # {} PROVE FALSE
    OBVIOUS
  <2>1. PICK m \in Bad : \A k \in Bad : m <= k
    <3>1. Bad \in SUBSET Nat
      OBVIOUS
    <3> HIDE DEF Bad
    <3> QED
      BY <3>1, HasLeast
  <2>2. m # 0
    <3>1. Course(0, [k \in 0 .. 0 |-> b])
      OBVIOUS
    <3> QED
      BY <3>1
  <2>3. m \in 1 .. n /\ m - 1 \in 0 .. n /\ m - 1 \notin Bad
    <3>1. m \in 0 .. n /\ m # 0
      BY <2>1, <2>2
    <3>2. m \in 1 .. n /\ m - 1 \in 0 .. n /\ ~(m <= m - 1)
      BY <3>1
    <3> HIDE DEF Bad
    <3> QED
      BY <2>1, <3>2
  <2>4. PICK f : Course(m - 1, f)
    BY <2>3
  <2> DEFINE g == [k \in 0 .. m |-> IF k = m THEN S[<<f[m - 1], m>>] ELSE f[k]]
  <2>5. f[m - 1] \in X /\ S[<<f[m - 1], m>>] \in X
    BY <2>3, <2>4
  <2>6. g \in [0 .. m -> X]
    BY <2>3, <2>4, <2>5
  <2>7. g[0] = b
    BY <2>3, <2>4
  <2>8. ASSUME NEW k \in 1 .. m PROVE g[k] = S[<<g[k - 1], k>>]
    <3>1. CASE k = m
      <4>1. k - 1 \in 0 .. m /\ k - 1 # m
        BY <2>3, <3>1
      <4> QED
        BY <4>1, <3>1
    <3>2. CASE k # m
      <4>1. k \in 1 .. m - 1 /\ k - 1 \in 0 .. m /\ k - 1 # m
        BY <3>2, <2>3
      <4> QED
        BY <4>1, <3>2, <2>4
    <3> QED
      BY <3>1, <3>2
  <2> QED
    BY <2>1, <2>6, <2>7, <2>8
<1>2. PICK f : Course(n, f)
  BY <1>1
<1> QED
  BY <1>2 DEF Loop

-----------------------------------------------------------------------------
(* Columns upstream *)

Step(G, A) == A \union {e.source : e \in {f \in G : f.target \in A}}

IsCourse(G, c, k, f) == f = [j \in 0 .. k |-> IF j = 0 THEN {c} ELSE Step(G, f[j - 1])]

LEMMA UpstreamCourse ==
  ASSUME NEW G, NEW c, NEW k \in Nat
  PROVE  \E f : IsCourse(G, c, k, f) /\ Upstream(G, c, k) = f[k]
<1> DEFINE X == SUBSET (Nodes(G) \union {c})
           S == [p \in X \X (1 .. k) |-> Step(G, p[1])]
<1>1. \A A \in X : Step(G, A) \in X
  BY DEF Step, Nodes
<1>2. S \in [X \X (1 .. k) -> X] /\ {c} \in X
  BY <1>1
<1>3. PICK f : Loop(X, {c}, k, S, f)
  <2> DEFINE b == {c}
  <2>1. b \in X
    BY <1>2
  <2> HIDE DEF X, S, b
  <2>2. \E f : Loop(X, b, k, S, f)
    BY <1>2, <2>1, Iterates
  <2> QED
    BY <2>2 DEF b
<1>4. IsCourse(G, c, k, f)
  <2>1. ASSUME NEW j \in 0 .. k, j # 0
        PROVE  f[j] = Step(G, f[j - 1])
    <3>1. j \in 1 .. k /\ j - 1 \in 0 .. k
      BY <2>1
    <3>2. f[j - 1] \in X /\ f[j] = S[<<f[j - 1], j>>]
      BY <1>3, <3>1, <2>1 DEF Loop
    <3> QED
      BY <3>1, <3>2
  <2>2. f = [j \in 0 .. k |-> f[j]] /\ f[0] = {c}
    BY <1>3 DEF Loop
  <2> HIDE DEF X, S
  <2> QED
    BY <2>1, <2>2 DEF IsCourse
<1> HIDE DEF X, S
<1> QED
  BY <1>4 DEF Upstream, IsCourse, Step

LEMMA CoursesAgree ==
  ASSUME NEW G, NEW c, NEW k \in Nat, NEW n \in Nat, k <= n, NEW f, NEW g,
         IsCourse(G, c, k, f), IsCourse(G, c, n, g)
  PROVE  \A j \in 0 .. k : f[j] = g[j]
<1> DEFINE Bad == {j \in 0 .. k : f[j] # g[j]}
<1> SUFFICES ASSUME Bad # {} PROVE FALSE
  OBVIOUS
<1>1. PICK m \in Bad : \A j \in Bad : m <= j
  <2>1. Bad \in SUBSET Nat
    OBVIOUS
  <2> HIDE DEF Bad
  <2> QED
    BY <2>1, HasLeast
<1>2. f[0] = {c} /\ g[0] = {c}
  BY DEF IsCourse
<1>3. m \in 1 .. k /\ m - 1 \in 0 .. k /\ m - 1 \notin Bad
  <2>1. m \in 0 .. k /\ m # 0
    BY <1>1, <1>2
  <2>2. m \in 1 .. k /\ m - 1 \in 0 .. k /\ ~(m <= m - 1)
    BY <2>1
  <2> HIDE DEF Bad
  <2> QED
    BY <1>1, <2>2
<1>4. f[m] = Step(G, f[m - 1]) /\ g[m] = Step(G, g[m - 1])
  <2>1. m \in 0 .. k /\ m \in 0 .. n /\ m # 0
    BY <1>3
  <2> QED
    BY <2>1 DEF IsCourse
<1> QED
  BY <1>1, <1>3, <1>4

\* Upstream by its number of edges
LEMMA UpstreamGrows ==
  ASSUME NEW G, NEW c
  PROVE  /\ Upstream(G, c, 0) = {c}
         /\ \A k \in Nat : Upstream(G, c, k + 1) = Step(G, Upstream(G, c, k))
<1>1. Upstream(G, c, 0) = {c}
  <2>1. PICK f : IsCourse(G, c, 0, f) /\ Upstream(G, c, 0) = f[0]
    BY UpstreamCourse
  <2> QED
    BY <2>1 DEF IsCourse
<1>2. ASSUME NEW k \in Nat
      PROVE  Upstream(G, c, k + 1) = Step(G, Upstream(G, c, k))
  <2>1. PICK f : IsCourse(G, c, k, f) /\ Upstream(G, c, k) = f[k]
    BY UpstreamCourse
  <2>2. PICK g : IsCourse(G, c, k + 1, g) /\ Upstream(G, c, k + 1) = g[k + 1]
    BY UpstreamCourse
  <2>3. f[k] = g[k]
    BY <2>1, <2>2, CoursesAgree
  <2>4. g[k + 1] = Step(G, g[k])
    <3>1. k + 1 \in 0 .. k + 1 /\ k + 1 # 0 /\ (k + 1) - 1 = k
      OBVIOUS
    <3> QED
      BY <2>2, <3>1 DEF IsCourse
  <2> QED
    BY <2>1, <2>2, <2>3, <2>4
<1> QED
  BY <1>1, <1>2

LEMMA UpstreamFacts ==
  ASSUME NEW G, NEW c, NEW k \in Nat
  PROVE  /\ c \in Upstream(G, c, k)
         /\ Upstream(G, c, k) \subseteq Nodes(G) \union {c}
         /\ \A j \in 0 .. k : Upstream(G, c, j) \subseteq Upstream(G, c, k)
<1> DEFINE U(j) == Upstream(G, c, j)
           Good(n) == /\ c \in U(n) /\ U(n) \subseteq Nodes(G) \union {c}
                      /\ \A j \in 0 .. n : U(j) \subseteq U(n)
           Bad == {n \in Nat : ~Good(n)}
<1>1. U(0) = {c} /\ \A n \in Nat : U(n + 1) = Step(G, U(n))
  BY UpstreamGrows
<1> HIDE DEF U
<1>2. Bad = {}
  <2> SUFFICES ASSUME Bad # {} PROVE FALSE
    OBVIOUS
  <2>1. PICK m \in Bad : \A n \in Bad : m <= n
    <3>1. Bad \in SUBSET Nat
      OBVIOUS
    <3> HIDE DEF Bad
    <3> QED
      BY <3>1, HasLeast
  <2>2. m # 0
    <3>1. Good(0)
      BY <1>1
    <3> QED
      BY <3>1
  <2>3. m \in Nat /\ m - 1 \in Nat /\ m - 1 \notin Bad /\ (m - 1) + 1 = m
    BY <2>1, <2>2
  <2>4. Good(m - 1)
    BY <2>3
  <2>5. U(m) = Step(G, U(m - 1))
    BY <1>1, <2>3
  <2>6. U(m - 1) \subseteq U(m) /\ U(m) \subseteq U(m - 1) \union Nodes(G)
    BY <2>5 DEF Step, Nodes
  <2>7. \A j \in 0 .. m : j \in 0 .. m - 1 \/ j = m
    BY <2>3
  <2> QED
    BY <2>1, <2>4, <2>6, <2>7
<1>3. Good(k)
  BY <1>2
<1> QED
  BY <1>3 DEF U

LEMMA ImageIsFinite ==
  ASSUME NEW S, IsFiniteSet(S), NEW f, f = [x \in S |-> f[x]]
  PROVE  IsFiniteSet({f[x] : x \in S})
<1>1. f \in Surjection(S, {f[x] : x \in S})
  BY DEF Surjection
<1> QED
  BY <1>1, FS_Surjection

LEMMA NodesAreFinite ==
  ASSUME NEW G, IsFiniteSet(G)
  PROVE  IsFiniteSet(Nodes(G)) /\ Cardinality(Nodes(G)) \in Nat
<1> DEFINE from == [e \in G |-> e.source]
           to   == [e \in G |-> e.target]
<1>1. IsFiniteSet({from[e] : e \in G})
  BY ImageIsFinite
<1>2. IsFiniteSet({to[e] : e \in G})
  BY ImageIsFinite
<1>3. Nodes(G) = {from[e] : e \in G} \union {to[e] : e \in G}
  BY DEF Nodes
<1> HIDE DEF from, to
<1>4. IsFiniteSet(Nodes(G))
  BY <1>1, <1>2, <1>3, FS_Union
<1> QED
  BY <1>4, FS_CardinalityType

\* As many steps as there are columns reach all there is to reach.
Closed(G, A) == \A e \in G : e.target \in A => e.source \in A

LEMMA UpstreamIsClosed ==
  ASSUME NEW G, IsFiniteSet(G), NEW c \in Nodes(G)
  PROVE  Closed(G, Upstream(G, c, Cardinality(Nodes(G))))
<1> DEFINE U(j) == Upstream(G, c, j)
           N == Cardinality(Nodes(G))
           Good(n) == Closed(G, U(n)) \/ Cardinality(U(n)) > n
           Bad == {n \in Nat : ~Good(n)}
<1>1. U(0) = {c} /\ \A n \in Nat : U(n + 1) = Step(G, U(n))
  BY UpstreamGrows
<1>2. IsFiniteSet(Nodes(G)) /\ N \in Nat
  BY NodesAreFinite
<1>3. ASSUME NEW n \in Nat
      PROVE  /\ U(n) \subseteq Nodes(G) /\ IsFiniteSet(U(n))
             /\ Cardinality(U(n)) \in Nat /\ Cardinality(U(n)) <= N
  <2>1. U(n) \subseteq Nodes(G)
    BY UpstreamFacts
  <2> HIDE DEF U
  <2> QED
    BY <2>1, <1>2, FS_Subset, FS_CardinalityType
<1> HIDE DEF U
<1>4. Bad = {}
  <2> SUFFICES ASSUME Bad # {} PROVE FALSE
    OBVIOUS
  <2>1. PICK m \in Bad : \A n \in Bad : m <= n
    <3>1. Bad \in SUBSET Nat
      OBVIOUS
    <3> HIDE DEF Bad
    <3> QED
      BY <3>1, HasLeast
  <2>2. m # 0
    <3>1. Cardinality(U(0)) = 1
      BY <1>1, FS_Singleton
    <3> QED
      BY <3>1
  <2>3. m \in Nat /\ m - 1 \in Nat /\ m - 1 \notin Bad /\ (m - 1) + 1 = m
    BY <2>1, <2>2
  <2>4. Good(m - 1)
    BY <2>3
  <2>5. U(m) = Step(G, U(m - 1))
    BY <1>1, <2>3
  <2>6. CASE Closed(G, U(m - 1))
    <3>1. U(m) = U(m - 1)
      BY <2>5, <2>6 DEF Closed, Step
    <3> QED
      BY <2>1, <2>6, <3>1
  <2>7. CASE ~Closed(G, U(m - 1))
    <3>1. U(m - 1) \subseteq U(m) /\ U(m - 1) # U(m)
      BY <2>5, <2>7 DEF Closed, Step
    <3>2. Cardinality(U(m - 1)) < Cardinality(U(m))
      BY <3>1, <1>3, <2>3, FS_Subset
    <3>3. Cardinality(U(m - 1)) > m - 1
      BY <2>4, <2>7
    <3>4. Cardinality(U(m)) > m
      BY <3>2, <3>3, <2>3, <1>3
    <3> QED
      BY <2>1, <3>4
  <2> QED
    BY <2>6, <2>7
<1>5. Good(N)
  BY <1>2, <1>4
<1>6. Closed(G, U(N))
  BY <1>5, <1>2, <1>3
<1> QED
  BY <1>6 DEF U

LEMMA ClosedHolds ==
  ASSUME NEW G, NEW A, Closed(G, A), NEW c \in A, NEW k \in Nat
  PROVE  Upstream(G, c, k) \subseteq A
<1> DEFINE U(j) == Upstream(G, c, j)
           Bad == {n \in Nat : ~(U(n) \subseteq A)}
<1>1. U(0) = {c} /\ \A n \in Nat : U(n + 1) = Step(G, U(n))
  BY UpstreamGrows
<1> HIDE DEF U
<1>2. Bad = {}
  <2> SUFFICES ASSUME Bad # {} PROVE FALSE
    OBVIOUS
  <2>1. PICK m \in Bad : \A n \in Bad : m <= n
    <3>1. Bad \in SUBSET Nat
      OBVIOUS
    <3> HIDE DEF Bad
    <3> QED
      BY <3>1, HasLeast
  <2>2. m # 0
    BY <1>1
  <2>3. m \in Nat /\ m - 1 \in Nat /\ m - 1 \notin Bad /\ (m - 1) + 1 = m
    BY <2>1, <2>2
  <2>4. U(m) = Step(G, U(m - 1)) /\ U(m - 1) \subseteq A
    BY <1>1, <2>3
  <2> QED
    BY <2>1, <2>4 DEF Closed, Step
<1>3. U(k) \subseteq A
  BY <1>2
<1> QED
  BY <1>3 DEF U

LEMMA AncestorFacts ==
  ASSUME NEW G, IsFiniteSet(G), NEW c \in Nodes(G)
  PROVE  /\ c \in DOMAIN AncestorsOf(G)
         /\ AncestorsOf(G)[c] = Upstream(G, c, Cardinality(Nodes(G))) \ {c}
         /\ AncestorsOf(G)[c] \subseteq Nodes(G)
         /\ Closed(G, AncestorsOf(G)[c] \union {c})
<1>1. AncestorsOf(G)[c] = Upstream(G, c, Cardinality(Nodes(G))) \ {c}
  BY DEF AncestorsOf
<1>2. c \in Upstream(G, c, Cardinality(Nodes(G)))
      /\ Upstream(G, c, Cardinality(Nodes(G))) \subseteq Nodes(G)
  BY NodesAreFinite, UpstreamFacts
<1>3. AncestorsOf(G)[c] \union {c} = Upstream(G, c, Cardinality(Nodes(G)))
  BY <1>1, <1>2
<1>4. c \in DOMAIN AncestorsOf(G)
  BY DEF AncestorsOf
<1> QED
  BY <1>1, <1>2, <1>3, <1>4, UpstreamIsClosed

LEMMA AncestorsOfAncestors ==
  ASSUME NEW G, IsFiniteSet(G), NEW c \in Nodes(G), NEW b \in AncestorsOf(G)[c],
         NEW a \in AncestorsOf(G)[b]
  PROVE  a \in AncestorsOf(G)[c] \union {c}
<1>1. b \in Nodes(G) /\ Closed(G, AncestorsOf(G)[c] \union {c})
  BY AncestorFacts
<1>2. a \in Upstream(G, b, Cardinality(Nodes(G)))
  BY <1>1, AncestorFacts
<1> QED
  BY <1>1, <1>2, ClosedHolds, NodesAreFinite

-----------------------------------------------------------------------------
(* Graphs in which each edge climbs by one rank *)

Rank(c) ==
    CASE c[1] = "raw"                -> 0
      [] c[1] \in {"clean", "typed"} -> 1
      [] c[1] = "dedup"              -> 2
      [] c[1] = "enriched"           -> IF c[2] \in {"notional_eur", "net_notional_usd"} THEN 3 ELSE 2
      [] c[1] = "risk_report"        -> IF c[2] = "usd_exposure" THEN 3 ELSE 4
      [] OTHER                       -> IF c[2] = "notional_usd" THEN 3 ELSE 4

Graded(G) == \A e \in G : Rank(e.target) = Rank(e.source) + 1

LEMMA RankIsNumber == \A c : Rank(c) \in Nat
  BY DEF Rank

\* A column d ranks below c is first met d edges upstream of it.
LEMMA RankIsDepth ==
  ASSUME NEW G, Graded(G), NEW c, NEW k \in Nat, NEW x \in Upstream(G, c, k)
  PROVE  \E d \in 0 .. k : Rank(x) + d = Rank(c) /\ x \in Upstream(G, c, d)
<1> DEFINE U(j) == Upstream(G, c, j)
           Good(n) == \A y \in U(n) : \E d \in 0 .. n : Rank(y) + d = Rank(c) /\ y \in U(d)
           Bad == {n \in Nat : ~Good(n)}
<1>1. U(0) = {c} /\ \A n \in Nat : U(n + 1) = Step(G, U(n))
  BY UpstreamGrows
<1> HIDE DEF U
<1>2. Bad = {}
  <2> SUFFICES ASSUME Bad # {} PROVE FALSE
    OBVIOUS
  <2>1. PICK m \in Bad : \A n \in Bad : m <= n
    <3>1. Bad \in SUBSET Nat
      OBVIOUS
    <3> HIDE DEF Bad
    <3> QED
      BY <3>1, HasLeast
  <2>2. m # 0
    <3>1. Good(0)
      BY <1>1, RankIsNumber
    <3> QED
      BY <3>1
  <2>3. m \in Nat /\ m - 1 \in Nat /\ m - 1 \notin Bad /\ (m - 1) + 1 = m
    BY <2>1, <2>2
  <2>4. Good(m - 1)
    BY <2>3
  <2>5. U(m) = Step(G, U(m - 1))
    BY <1>1, <2>3
  <2>6. ASSUME NEW y \in U(m)
        PROVE  \E d \in 0 .. m : Rank(y) + d = Rank(c) /\ y \in U(d)
    <3>1. CASE y \in U(m - 1)
      BY <3>1, <2>3, <2>4
    <3>2. CASE y \notin U(m - 1)
      <4>1. PICK e \in G : e.target \in U(m - 1) /\ y = e.source
        BY <3>2, <2>5 DEF Step
      <4>2. PICK d \in 0 .. m - 1 : Rank(e.target) + d = Rank(c) /\ e.target \in U(d)
        BY <4>1, <2>4
      <4>3. Rank(e.target) = Rank(y) + 1
        BY <4>1 DEF Graded
      <4>4. d \in Nat /\ d + 1 \in 0 .. m /\ Rank(y) + (d + 1) = Rank(c)
        BY <2>3, <4>2, <4>3, RankIsNumber
      <4>5. y \in U(d + 1)
        BY <1>1, <4>1, <4>2, <4>4 DEF Step
      <4> QED
        BY <4>4, <4>5
    <3> QED
      BY <3>1, <3>2
  <2> QED
    BY <2>1, <2>6
<1>3. Good(k)
  BY <1>2
<1> QED
  BY <1>3 DEF U

LEMMA AncestorsRankLower ==
  ASSUME NEW G, IsFiniteSet(G), Graded(G), NEW c \in Nodes(G), NEW a \in AncestorsOf(G)[c]
  PROVE  Rank(a) < Rank(c)
<1> DEFINE N == Cardinality(Nodes(G))
<1>1. N \in Nat /\ a \in Upstream(G, c, N) /\ a # c
  BY NodesAreFinite, AncestorFacts
<1>2. PICK d \in 0 .. N : Rank(a) + d = Rank(c) /\ a \in Upstream(G, c, d)
  <2> HIDE DEF N
  <2> QED
    BY <1>1, RankIsDepth
<1>3. d # 0
  BY <1>1, <1>2, UpstreamGrows
<1> QED
  BY <1>1, <1>2, <1>3, RankIsNumber

LEMMA DistanceIsRank ==
  ASSUME NEW G, IsFiniteSet(G), Graded(G), NEW c \in Nodes(G), NEW a \in AncestorsOf(G)[c]
  PROVE  Distance(G, a, c) \in Nat /\ Rank(a) + Distance(G, a, c) = Rank(c)
<1> DEFINE N == Cardinality(Nodes(G))
           First(k) == a \in Upstream(G, c, k) \ Upstream(G, c, k - 1)
<1>1. N \in Nat /\ a \in Upstream(G, c, N) /\ Rank(a) < Rank(c)
  BY NodesAreFinite, AncestorFacts, AncestorsRankLower
<1>2. ASSUME NEW k \in Nat, a \in Upstream(G, c, k)
      PROVE  \E d \in 0 .. k : Rank(a) + d = Rank(c) /\ a \in Upstream(G, c, d)
  BY <1>2, RankIsDepth
<1>3. PICK d \in 0 .. N : Rank(a) + d = Rank(c) /\ a \in Upstream(G, c, d)
  BY <1>1, <1>2
<1>4. d \in 1 .. N /\ d - 1 \in Nat
  BY <1>1, <1>3, RankIsNumber
<1>5. First(d)
  <2>1. ASSUME a \in Upstream(G, c, d - 1) PROVE FALSE
    <3>1. PICK i \in 0 .. d - 1 : Rank(a) + i = Rank(c)
      BY <1>2, <1>4, <2>1
    <3> QED
      BY <3>1, <1>3, <1>4, RankIsNumber
  <2> QED
    BY <2>1, <1>3
<1>6. Distance(G, a, c) \in 1 .. N /\ First(Distance(G, a, c))
  BY <1>4, <1>5 DEF Distance
<1> DEFINE k == Distance(G, a, c)
<1> HIDE DEF k
<1>7. k \in 1 .. N /\ First(k)
  BY <1>6 DEF k
<1>8. PICK i \in 0 .. k : Rank(a) + i = Rank(c) /\ a \in Upstream(G, c, i)
  BY <1>1, <1>2, <1>7
<1>9. i = k
  <2>1. ASSUME i # k PROVE FALSE
    <3>1. k - 1 \in Nat /\ i \in 0 .. k - 1
      BY <2>1, <1>1, <1>7, <1>8
    <3>2. Upstream(G, c, i) \subseteq Upstream(G, c, k - 1)
      BY <3>1, UpstreamFacts
    <3> QED
      BY <3>2, <1>7, <1>8
  <2> QED
    BY <2>1
<1>10. k \in Nat /\ Rank(a) + k = Rank(c)
  BY <1>1, <1>7, <1>8, <1>9
<1> QED
  BY <1>10 DEF k

LEMMA GradedIsAcyclic ==
  ASSUME NEW G, IsFiniteSet(G), Graded(G), NEW e \in G
  PROVE  e.source # e.target /\ e.target \notin AncestorsOf(G)[e.source]
<1>1. e.source \in Nodes(G)
  BY DEF Nodes
<1>2. Rank(e.target) = Rank(e.source) + 1 /\ Rank(e.source) \in Nat
  BY RankIsNumber DEF Graded
<1>3. e.target \in AncestorsOf(G)[e.source] => Rank(e.target) < Rank(e.source)
  BY <1>1, AncestorsRankLower
<1> QED
  BY <1>2, <1>3

LEMMA GradedIsRootFirst ==
  ASSUME NEW G, IsFiniteSet(G), Graded(G), NEW c \in Nodes(G),
         NEW b \in AncestorsOf(G)[c], NEW a \in AncestorsOf(G)[b]
  PROVE  ListedBefore(G, c, a, b)
<1>1. b \in Nodes(G)
  BY AncestorFacts
<1>2. Rank(a) < Rank(b) /\ Rank(b) < Rank(c)
  BY <1>1, AncestorsRankLower
<1>3. a \in AncestorsOf(G)[c]
  <2>1. Rank(a) # Rank(c)
    BY <1>2, RankIsNumber
  <2> QED
    BY <2>1, AncestorsOfAncestors
<1>4. /\ Distance(G, a, c) \in Nat /\ Rank(a) + Distance(G, a, c) = Rank(c)
      /\ Distance(G, b, c) \in Nat /\ Rank(b) + Distance(G, b, c) = Rank(c)
  BY <1>3, DistanceIsRank
<1>5. Distance(G, a, c) > Distance(G, b, c)
  BY <1>2, <1>4, RankIsNumber
<1> QED
  BY <1>5 DEF ListedBefore

-----------------------------------------------------------------------------
(* The invariant of Lineage *)

Figures == {LoadColumns[k] : k \in DOMAIN LoadColumns}
Derived(c) == c[1] \in {"enriched", "risk_report", "fact_trades"}

\* what is true of each edge, whoever emits it
WellMade(e) ==
    /\ Rank(e.target) = Rank(e.source) + 1
    /\ Derived(e.target) => Derived(e.source) \/ e.source[1] = "clean"
    /\ e.target = <<"enriched", "notional_usd">> => e.source = <<"clean", "notional">>
    /\ \A n \in {"notional_eur", "net_notional_usd"} :
          e.target = <<"enriched", n>> => e.source = <<"enriched", "notional_usd">>
    /\ \A n \in Figures : e.target = <<"fact_trades", n>> => e.source = <<"enriched", n>>

AllWellMade ==
    /\ \A k \in DOMAIN edges : WellMade(edges[k])
    /\ \A r \in lineageEdges : WellMade(r)

\* an edge from a derived column comes behind one to it
Grounded ==
    /\ \A k \in DOMAIN edges : Derived(edges[k].source) =>
          \E j \in 1 .. k - 1 : edges[j].target = edges[k].source
    /\ \A r \in lineageEdges : Derived(r.source) =>
          \E q \in lineageEdges : q.batch = r.batch /\ q.target = r.source

Reached(c) == \E k \in DOMAIN edges : edges[k].target = c

\* a figure is in the frame after an edge to it
FrameReached == pc = "transform" => \A n \in columns \intersect Figures : Reached(<<"enriched", n>>)

SentIsThere ==
    pc = "transform" /\ step <= Len(plan) =>
        \A k \in 1 .. sent : \E j \in DOMAIN edges : edges[j] = Emissions[k]

\* the loads behind the run have left their edges, those of a stored run in the table
LoadsReached ==
    /\ pc # "idle" /\ ~empty =>
          \A k \in 1 .. step - 1 : plan[k] = "WriteStarSchema" =>
              \A n \in Figures : Reached(<<"fact_trades", n>>)
    /\ pc = "persist" /\ ended = "stored" => step = Len(plan) + 1
    /\ pc = "idle" /\ ended = "stored" /\ ~empty =>
          \A k \in DOMAIN plan : plan[k] = "WriteStarSchema" =>
              \A n \in Figures : \E r \in lineageEdges :
                  r.batch = batch /\ r.target = <<"fact_trades", n>>

Bookkeeping ==
    /\ IsFiniteSet(lineageEdges)
    /\ pc # "idle" => batch \in Batches

IInv == /\ TypeOK /\ Bookkeeping /\ AllWellMade /\ Grounded
        /\ FrameReached /\ SentIsThere /\ LoadsReached

-----------------------------------------------------------------------------
(* Kept names *)

LEMMA KeepFacts ==
  ASSUME NEW T, NEW list \in Seq(T), NEW S
  PROVE  /\ Keep(list, S) \in Seq(T)
         /\ \A j \in DOMAIN Keep(list, S) : \E k \in DOMAIN list : Keep(list, S)[j] = list[k] /\ list[k] \in S
         /\ \A k \in DOMAIN list : list[k] \in S =>
               \E j \in DOMAIN Keep(list, S) : Keep(list, S)[j] = list[k]
<1> DEFINE n == Len(list)
           X == Seq(T)
           Next1(s, k) == IF list[k] \in S THEN Append(s, list[k]) ELSE s
           L == [p \in X \X (1 .. n) |-> Next1(p[1], p[2])]
           Keeping(f) == f = [k \in 0 .. n |-> IF k = 0 THEN <<>> ELSE
                                IF list[k] \in S THEN Append(f[k - 1], list[k]) ELSE f[k - 1]]
<1>1. n \in Nat /\ DOMAIN list = 1 .. n /\ \A k \in 1 .. n : list[k] \in T
  OBVIOUS
<1> HIDE DEF n
<1>2. \A s \in X, k \in 1 .. n : Next1(s, k) \in X
  BY <1>1
<1>3. PICK f : Loop(X, <<>>, n, L, f)
  <2> DEFINE b == <<>>
  <2>1. b \in X /\ L \in [X \X (1 .. n) -> X]
    BY <1>2
  <2> HIDE DEF X, L, b
  <2>2. \E f : Loop(X, b, n, L, f)
    BY <1>1, <2>1, Iterates
  <2> QED
    BY <2>2 DEF b
<1>4. f \in [0 .. n -> X] /\ f[0] = <<>>
      /\ \A k \in 1 .. n : k - 1 \in 0 .. n /\ f[k - 1] \in X /\ f[k] = Next1(f[k - 1], k)
  <2>1. f \in [0 .. n -> X] /\ f[0] = <<>> /\ \A k \in 1 .. n : f[k] = L[<<f[k - 1], k>>]
    BY <1>3 DEF Loop
  <2>2. ASSUME NEW k \in 1 .. n
        PROVE  k - 1 \in 0 .. n /\ f[k - 1] \in X /\ f[k] = Next1(f[k - 1], k)
    <3>1. k - 1 \in 0 .. n
      BY <1>1
    <3>2. f[k - 1] \in X
      BY <2>1, <3>1
    <3> QED
      BY <2>1, <3>1, <3>2
  <2> HIDE DEF X, L, Next1
  <2> QED
    BY <2>1, <2>2
<1>5. Keeping(f)
  <2>1. ASSUME NEW k \in 0 .. n, k # 0
        PROVE  f[k] = IF list[k] \in S THEN Append(f[k - 1], list[k]) ELSE f[k - 1]
    <3>1. k \in 1 .. n
      BY <1>1, <2>1
    <3> QED
      BY <3>1, <1>4
  <2>2. f = [k \in 0 .. n |-> f[k]] /\ f[0] = <<>>
    BY <1>4
  <2> HIDE DEF X, L
  <2> QED
    BY <2>1, <2>2
<1>6. PICK g : Keeping(g) /\ Keep(list, S) = g[n]
  BY <1>5 DEF Keep, n
<1> DEFINE Good(k) == /\ g[k] \in X
                      /\ \A j \in DOMAIN g[k] : \E i \in 1 .. n : g[k][j] = list[i] /\ list[i] \in S
                      /\ \A i \in 1 .. k : list[i] \in S => \E j \in DOMAIN g[k] : g[k][j] = list[i]
           Bad == {k \in 0 .. n : ~Good(k)}
<1>7. g[0] = <<>> /\ \A k \in 1 .. n : g[k] = Next1(g[k - 1], k)
  <2>1. 0 \in 0 .. n /\ \A k \in 1 .. n : k \in 0 .. n /\ k # 0
    BY <1>1
  <2> QED
    BY <1>6, <2>1
<1>8. Bad = {}
  <2> SUFFICES ASSUME Bad # {} PROVE FALSE
    OBVIOUS
  <2>1. PICK m \in Bad : \A k \in Bad : m <= k
    <3>1. Bad \in SUBSET Nat
      BY <1>1
    <3> HIDE DEF Bad
    <3> QED
      BY <3>1, HasLeast
  <2>2. m # 0
    <3>1. Good(0)
      BY <1>7
    <3> QED
      BY <3>1
  <2>3. m \in 1 .. n /\ m - 1 \in 0 .. n /\ m - 1 \notin Bad
    <3>1. m \in 0 .. n /\ m # 0
      BY <2>1, <2>2
    <3>2. m \in 1 .. n /\ m - 1 \in 0 .. n /\ ~(m <= m - 1)
      BY <3>1, <1>1
    <3> HIDE DEF Bad
    <3> QED
      BY <2>1, <3>2
  <2> DEFINE s == g[m - 1]
             t == g[m]
  <2>4. /\ s \in X
        /\ \A j \in DOMAIN s : \E i \in 1 .. n : s[j] = list[i] /\ list[i] \in S
        /\ \A i \in 1 .. m - 1 : list[i] \in S => \E j \in DOMAIN s : s[j] = list[i]
    BY <2>3
  <2>5. t = IF list[m] \in S THEN Append(s, list[m]) ELSE s
    BY <1>7, <2>3
  <2> HIDE DEF s, t
  <2>6. t \in X
    BY <1>1, <2>3, <2>4, <2>5
  <2>7. \A j \in DOMAIN t : \E i \in 1 .. n : t[j] = list[i] /\ list[i] \in S
    <3>1. CASE list[m] \in S
      <4>1. t = Append(s, list[m]) /\ s \in Seq(T)
        BY <2>4, <2>5, <3>1
      <4>2. \A j \in DOMAIN t : (j \in DOMAIN s /\ t[j] = s[j]) \/ t[j] = list[m]
        BY <4>1
      <4> QED
        BY <4>2, <2>3, <2>4, <3>1
    <3>2. CASE list[m] \notin S
      BY <2>4, <2>5, <3>2
    <3> QED
      BY <3>1, <3>2
  <2>8. DOMAIN s \subseteq DOMAIN t /\ \A j \in DOMAIN s : t[j] = s[j]
    BY <1>1, <2>3, <2>4, <2>5
  <2>9. list[m] \in S => \E j \in DOMAIN t : t[j] = list[m]
    <3>1. CASE list[m] \in S
      <4>1. Len(t) \in DOMAIN t /\ t[Len(t)] = list[m]
        BY <3>1, <1>1, <2>3, <2>4, <2>5
      <4> QED
        BY <4>1
    <3> QED
      BY <3>1
  <2>10. ASSUME NEW i \in 1 .. m, list[i] \in S
         PROVE  \E j \in DOMAIN t : t[j] = list[i]
    <3>1. CASE i = m
      BY <3>1, <2>9, <2>10
    <3>2. CASE i \in 1 .. m - 1
      BY <3>2, <2>4, <2>8, <2>10
    <3> QED
      BY <3>1, <3>2, <2>3, <1>1
  <2>11. Good(m)
    BY <2>6, <2>7, <2>10 DEF t
  <2> QED
    BY <2>1, <2>11
<1>9. Good(n)
  BY <1>1, <1>8
<1> DEFINE h == g[n]
<1>10. /\ h \in X
       /\ \A j \in DOMAIN h : \E i \in 1 .. n : h[j] = list[i] /\ list[i] \in S
       /\ \A i \in 1 .. n : list[i] \in S => \E j \in DOMAIN h : h[j] = list[i]
  BY <1>9
<1>11. Keep(list, S) = h /\ DOMAIN list = 1 .. n
  BY <1>1, <1>6
<1> HIDE DEF h
<1> QED
  BY <1>10, <1>11

-----------------------------------------------------------------------------
(* What transforms emit *)

LEMMA FigureNames == Figures = {"notional_usd", "notional_eur", "net_notional_usd"}
  BY DEF Figures, LoadColumns

LEMMA Lists ==
  /\ Fills \in Seq(Names) /\ Casts \in Seq(Names)
  /\ CalendarColumns \in Seq(Names) /\ LeiColumns \in Seq(Names)
  /\ \A k \in DOMAIN CalendarColumns : CalendarColumns[k] \notin Figures
  /\ \A k \in DOMAIN LeiColumns : LeiColumns[k] \notin Figures
<1>1. Listed \subseteq Names
  BY DEF Names
<1>2. \A list \in Seq(Listed) : list \in Seq(Names)
  BY <1>1
<1> QED
  BY <1>2, ListsAssumption DEF Figures

\* sources of a list of edges: a clean or raw column, the target of an earlier edge, or a
\* figure of the frame
Founded(es) ==
    \A k \in DOMAIN es : Derived(es[k].source) =>
        \/ \E j \in 1 .. k - 1 : es[j].target = es[k].source
        \/ \E n \in columns \intersect Figures : es[k].source = <<"enriched", n>>

Sound(es) == /\ es \in Seq(EdgeType) /\ Founded(es)
             /\ \A k \in DOMAIN es : WellMade(es[k])

LEMMA NoneIsSound == Sound(None)
  BY DEF Sound, Founded, None

LEMMA EdgeFacts ==
  ASSUME NEW from, NEW to, NEW name
  PROVE  /\ Edge(from, to, name).source = from /\ Edge(from, to, name).target = to
         /\ from \in Column /\ to \in Column /\ name \in EdgeNames
              => Edge(from, to, name) \in EdgeType
  BY DEF Edge, EdgeType, EdgeNames

LEMMA FunctionIsSeq ==
  ASSUME NEW T, NEW n \in Nat, NEW f \in [1 .. n -> T]
  PROVE  f \in Seq(T)
  OBVIOUS

\* the columns the transforms name
LEMMA NamedColumns ==
  \A l \in Layers :
      /\ \A n \in Names : <<l, n>> \in Column
      /\ \A n \in {"notional", "notional_usd", "notional_eur", "net_notional_usd", "trade_id",
                   "trade_date", "counterparty_id", "days_to_settlement", "usd_exposure",
                   "eur_exposure"} : <<l, n>> \in Column
<1>1. Column = Layers \X Names
  BY DEF Column
<1>2. {LoadColumns[k] : k \in DOMAIN LoadColumns} = {"notional_usd", "notional_eur", "net_notional_usd"}
  BY FigureNames DEF Figures
<1>3. {"notional", "notional_usd", "notional_eur", "net_notional_usd", "trade_id", "trade_date",
       "counterparty_id", "days_to_settlement", "usd_exposure", "eur_exposure"} \subseteq Names
  BY <1>2 DEF Names, LoadReads
<1> QED
  BY <1>1, <1>3

LEMMA PerColumnFacts ==
  ASSUME NEW cs \in Seq(Names), NEW from \in Layers, NEW to \in Layers, NEW name \in EdgeNames
  PROVE  /\ PerColumn(cs, from, to, name) \in Seq(EdgeType)
         /\ DOMAIN PerColumn(cs, from, to, name) = DOMAIN cs
         /\ \A k \in DOMAIN cs : /\ PerColumn(cs, from, to, name)[k].source = <<from, cs[k]>>
                                 /\ PerColumn(cs, from, to, name)[k].target = <<to, cs[k]>>
<1> DEFINE es == PerColumn(cs, from, to, name)
<1>1. es = [k \in DOMAIN cs |-> Edge(<<from, cs[k]>>, <<to, cs[k]>>, name)]
  BY DEF PerColumn
<1>2. Len(cs) \in Nat /\ DOMAIN cs = 1 .. Len(cs) /\ \A k \in DOMAIN cs : cs[k] \in Names
  OBVIOUS
<1> HIDE DEF es
<1>3. \A k \in DOMAIN cs : es[k] \in EdgeType
  BY <1>1, <1>2, EdgeFacts, NamedColumns
<1>4. es \in Seq(EdgeType)
  <2>1. es \in [1 .. Len(cs) -> EdgeType]
    BY <1>1, <1>2, <1>3
  <2> QED
    BY <2>1, <1>2, FunctionIsSeq
<1>5. \A k \in DOMAIN cs : es[k].source = <<from, cs[k]>> /\ es[k].target = <<to, cs[k]>>
  BY <1>1, EdgeFacts
<1>6. DOMAIN es = DOMAIN cs
  BY <1>1
<1> QED
  BY <1>4, <1>5, <1>6 DEF es

LEMMA FromCleanFacts ==
  ASSUME NEW c \in Names, NEW list \in Seq(Names), NEW name \in EdgeNames
  PROVE  /\ FromClean(c, list, name) \in Seq(EdgeType)
         /\ DOMAIN FromClean(c, list, name) = DOMAIN list
         /\ \A k \in DOMAIN list : /\ FromClean(c, list, name)[k].source = <<"clean", c>>
                                   /\ FromClean(c, list, name)[k].target = <<"enriched", list[k]>>
<1> DEFINE es == FromClean(c, list, name)
<1>1. es = [k \in DOMAIN list |-> Edge(<<"clean", c>>, <<"enriched", list[k]>>, name)]
  BY DEF FromClean
<1>2. Len(list) \in Nat /\ DOMAIN list = 1 .. Len(list) /\ \A k \in DOMAIN list : list[k] \in Names
  OBVIOUS
<1> HIDE DEF es
<1>3. \A k \in DOMAIN list : es[k] \in EdgeType
  BY <1>1, <1>2, EdgeFacts, NamedColumns DEF Layers
<1>4. es \in Seq(EdgeType)
  <2>1. es \in [1 .. Len(list) -> EdgeType]
    BY <1>1, <1>2, <1>3
  <2> QED
    BY <2>1, <1>2, FunctionIsSeq
<1>5. \A k \in DOMAIN list : es[k].source = <<"clean", c>> /\ es[k].target = <<"enriched", list[k]>>
  BY <1>1, EdgeFacts
<1>6. DOMAIN es = DOMAIN list
  BY <1>1
<1> QED
  BY <1>4, <1>5, <1>6 DEF es

\* From the raw or typed layer, edges are well made and need no foundation.
LEMMA EarlyIsSound ==
  ASSUME NEW es \in Seq(EdgeType),
         \A k \in DOMAIN es : \E n : \/ es[k].source = <<"raw", n>> /\ es[k].target = <<"clean", n>>
                                     \/ es[k].source = <<"raw", n>> /\ es[k].target = <<"typed", n>>
                                     \/ es[k].source = <<"typed", n>> /\ es[k].target = <<"dedup", n>>
  PROVE  Sound(es)
<1>1. ASSUME NEW k \in DOMAIN es
      PROVE  WellMade(es[k]) /\ ~Derived(es[k].source)
  <2>1. PICK n : \/ es[k].source = <<"raw", n>> /\ es[k].target = <<"clean", n>>
                 \/ es[k].source = <<"raw", n>> /\ es[k].target = <<"typed", n>>
                 \/ es[k].source = <<"typed", n>> /\ es[k].target = <<"dedup", n>>
    OBVIOUS
  <2>2. Rank(es[k].target) = Rank(es[k].source) + 1
    BY <2>1 DEF Rank
  <2>3. es[k].target[1] \notin {"enriched", "risk_report", "fact_trades"}
    BY <2>1
  <2> QED
    BY <2>1, <2>2, <2>3 DEF WellMade, Derived
<1> QED
  BY <1>1 DEF Sound, Founded

\* an enriched column that is not a figure, from a clean one
LEMMA FromCleanIsSound ==
  ASSUME NEW es \in Seq(EdgeType),
         \A k \in DOMAIN es : \E c, n : /\ es[k].source = <<"clean", c>>
                                        /\ es[k].target = <<"enriched", n>> /\ n \notin Figures
  PROVE  Sound(es)
<1>1. ASSUME NEW k \in DOMAIN es
      PROVE  WellMade(es[k]) /\ ~Derived(es[k].source)
  <2>1. PICK c, n : /\ es[k].source = <<"clean", c>>
                    /\ es[k].target = <<"enriched", n>> /\ n \notin Figures
    OBVIOUS
  <2>2. Rank(es[k].target) = Rank(es[k].source) + 1
    BY <2>1, FigureNames DEF Rank
  <2> QED
    BY <2>1, <2>2, FigureNames DEF WellMade, Derived
<1> QED
  BY <1>1 DEF Sound, Founded

LEMMA NullFillIsSound == Sound(NullFillEdges)
<1> DEFINE cs == Keep(Fills, columns \intersect nulls)
<1>1. cs \in Seq(Names)
  BY Lists, KeepFacts
<1>2. NullFillEdges = PerColumn(cs, "raw", "clean", "null_fill")
  BY DEF NullFillEdges
<1> HIDE DEF cs
<1> DEFINE es == NullFillEdges
<1>3. es \in Seq(EdgeType) /\ DOMAIN es = DOMAIN cs
      /\ \A k \in DOMAIN cs : es[k].source = <<"raw", cs[k]>> /\ es[k].target = <<"clean", cs[k]>>
  <2>1. "raw" \in Layers /\ "clean" \in Layers /\ "null_fill" \in EdgeNames
    BY DEF Layers, EdgeNames
  <2>2. es = PerColumn(cs, "raw", "clean", "null_fill")
    BY <1>2
  <2> HIDE DEF es
  <2> QED
    BY <1>1, <2>1, <2>2, PerColumnFacts
<1> HIDE DEF es
<1>4. Sound(es)
  BY <1>3, EarlyIsSound
<1> QED
  BY <1>4 DEF es

LEMMA TypeCastIsSound == Sound(TypeCastEdges)
<1> DEFINE cs == Keep(Casts, columns)
<1>1. cs \in Seq(Names)
  BY Lists, KeepFacts
<1>2. TypeCastEdges = PerColumn(cs, "raw", "typed", "type_cast")
  BY DEF TypeCastEdges
<1> HIDE DEF cs
<1> DEFINE es == TypeCastEdges
<1>3. es \in Seq(EdgeType) /\ DOMAIN es = DOMAIN cs
      /\ \A k \in DOMAIN cs : es[k].source = <<"raw", cs[k]>> /\ es[k].target = <<"typed", cs[k]>>
  <2>1. "raw" \in Layers /\ "typed" \in Layers /\ "type_cast" \in EdgeNames
    BY DEF Layers, EdgeNames
  <2>2. es = PerColumn(cs, "raw", "typed", "type_cast")
    BY <1>2
  <2> HIDE DEF es
  <2> QED
    BY <1>1, <2>1, <2>2, PerColumnFacts
<1> HIDE DEF es
<1>4. Sound(es)
  BY <1>3, EarlyIsSound
<1> QED
  BY <1>4 DEF es

LEMMA DedupIsSound == Sound(DedupEdges)
<1> DEFINE e == Edge(<<"typed", "trade_id">>, <<"dedup", "trade_id">>, "dedup")
<1>1. e \in EdgeType /\ e.source = <<"typed", "trade_id">> /\ e.target = <<"dedup", "trade_id">>
  <2>1. <<"typed", "trade_id">> \in Column /\ <<"dedup", "trade_id">> \in Column
    BY NamedColumns DEF Layers
  <2> QED
    BY <2>1, EdgeFacts DEF EdgeNames
<1>2. DedupEdges = <<e>> \/ DedupEdges = None
  BY DEF DedupEdges
<1> HIDE DEF e
<1>3. Sound(<<e>>)
  BY <1>1, EarlyIsSound
<1> QED
  BY <1>2, <1>3, NoneIsSound

LEMMA FxConvertIsSound ==
  /\ Sound(FxConvertEdges)
  /\ Has({"notional"}) => \A n \in {"notional_usd", "notional_eur"} :
        \E k \in DOMAIN FxConvertEdges : FxConvertEdges[k].target = <<"enriched", n>>
<1> DEFINE d == Edge(<<"clean", "notional">>, <<"enriched", "notional_usd">>, "fx_convert")
           e == Edge(<<"enriched", "notional_usd">>, <<"enriched", "notional_eur">>, "fx_to_eur")
<1>1. /\ d \in EdgeType /\ e \in EdgeType
      /\ d.source = <<"clean", "notional">> /\ d.target = <<"enriched", "notional_usd">>
      /\ e.source = <<"enriched", "notional_usd">> /\ e.target = <<"enriched", "notional_eur">>
  <2>1. /\ <<"clean", "notional">> \in Column
        /\ <<"enriched", "notional_usd">> \in Column
        /\ <<"enriched", "notional_eur">> \in Column
    BY NamedColumns DEF Layers
  <2> QED
    BY <2>1, EdgeFacts DEF EdgeNames
<1>2. FxConvertEdges = IF Has({"notional"}) THEN <<d, e>> ELSE None
  BY DEF FxConvertEdges
<1> HIDE DEF d, e
<1>3. WellMade(d)
  BY <1>1, FigureNames DEF WellMade, Rank, Derived
<1>4. WellMade(e)
  BY <1>1, FigureNames DEF WellMade, Rank, Derived
<1>5. Founded(<<d, e>>)
  <2>1. ~Derived(d.source)
    BY <1>1 DEF Derived
  <2>2. \A k \in DOMAIN <<d, e>> : k = 1 \/ k = 2
    OBVIOUS
  <2>3. 1 \in 1 .. 2 - 1 /\ <<d, e>>[1] = d /\ <<d, e>>[2] = e
    OBVIOUS
  <2> QED
    BY <2>1, <2>2, <2>3, <1>1 DEF Founded
<1>6. Sound(<<d, e>>)
  BY <1>1, <1>3, <1>4, <1>5 DEF Sound
<1>7. \A n \in {"notional_usd", "notional_eur"} :
         \E k \in DOMAIN <<d, e>> : <<d, e>>[k].target = <<"enriched", n>>
  <2>1. 1 \in DOMAIN <<d, e>> /\ 2 \in DOMAIN <<d, e>> /\ <<d, e>>[1] = d /\ <<d, e>>[2] = e
    OBVIOUS
  <2> QED
    BY <2>1, <1>1
<1> QED
  BY <1>2, <1>6, <1>7, NoneIsSound

LEMMA SoundJoins ==
  ASSUME NEW es, NEW fs, Sound(es), Sound(fs), \A k \in DOMAIN fs : ~Derived(fs[k].source)
  PROVE  Sound(es \o fs)
<1> DEFINE gs == es \o fs
<1>1. /\ es \in Seq(EdgeType) /\ fs \in Seq(EdgeType) /\ gs \in Seq(EdgeType)
      /\ Len(es) \in Nat /\ DOMAIN es = 1 .. Len(es) /\ DOMAIN fs = 1 .. Len(fs)
      /\ DOMAIN gs = 1 .. Len(es) + Len(fs)
      /\ \A k \in DOMAIN es : gs[k] = es[k]
      /\ \A k \in DOMAIN gs : k \notin DOMAIN es => k - Len(es) \in DOMAIN fs /\ gs[k] = fs[k - Len(es)]
  BY DEF Sound
<1> HIDE DEF gs
<1>2. \A k \in DOMAIN gs : WellMade(gs[k])
  BY <1>1 DEF Sound
<1>3. Founded(gs)
  <2> SUFFICES ASSUME NEW k \in DOMAIN gs, Derived(gs[k].source)
               PROVE  \/ \E j \in 1 .. k - 1 : gs[j].target = gs[k].source
                      \/ \E n \in columns \intersect Figures : gs[k].source = <<"enriched", n>>
    BY DEF Founded
  <2>1. k \in DOMAIN es /\ gs[k] = es[k]
    BY <1>1
  <2>2. CASE \E j \in 1 .. k - 1 : es[j].target = es[k].source
    <3>1. \A j \in 1 .. k - 1 : j \in DOMAIN es
      BY <1>1, <2>1
    <3> QED
      BY <3>1, <2>1, <2>2, <1>1
  <2> QED
    BY <2>1, <2>2 DEF Sound, Founded
<1> QED
  BY <1>1, <1>2, <1>3 DEF Sound, gs

LEMMA DateExpandIsSound == Sound(DateExpandEdges)
<1> DEFINE es == FromClean("trade_date", <<"days_to_settlement">>, "date_expand")
           fs == FromClean("trade_date", CalendarColumns, "date_expand")
<1>1. "trade_date" \in Names /\ "days_to_settlement" \in Names /\ "date_expand" \in EdgeNames
  BY DEF Names, LoadReads, EdgeNames
<1>2. /\ <<"days_to_settlement">> \in Seq(Names) /\ DOMAIN <<"days_to_settlement">> = {1}
      /\ <<"days_to_settlement">>[1] = "days_to_settlement"
  BY <1>1
<1>3. /\ es \in Seq(EdgeType)
      /\ \A k \in DOMAIN es : /\ es[k].source = <<"clean", "trade_date">>
                              /\ es[k].target = <<"enriched", "days_to_settlement">>
  <2> DEFINE ds == <<"days_to_settlement">>
  <2>1. ds \in Seq(Names) /\ \A k \in DOMAIN ds : ds[k] = "days_to_settlement"
    BY <1>2
  <2> HIDE DEF ds
  <2>2. /\ FromClean("trade_date", ds, "date_expand") \in Seq(EdgeType)
        /\ \A k \in DOMAIN FromClean("trade_date", ds, "date_expand") :
              /\ FromClean("trade_date", ds, "date_expand")[k].source = <<"clean", "trade_date">>
              /\ FromClean("trade_date", ds, "date_expand")[k].target = <<"enriched", "days_to_settlement">>
    BY <1>1, <2>1, FromCleanFacts
  <2> QED
    BY <2>2 DEF ds
<1>4. /\ fs \in Seq(EdgeType) /\ DOMAIN fs = DOMAIN CalendarColumns
      /\ \A k \in DOMAIN fs : /\ fs[k].source = <<"clean", "trade_date">>
                              /\ fs[k].target = <<"enriched", CalendarColumns[k]>>
  BY <1>1, Lists, FromCleanFacts
<1>5. DateExpandEdges \in {None, None \o fs, es \o fs}
  BY DEF DateExpandEdges
<1> HIDE DEF es, fs
<1>6. Sound(es)
  <2>1. "days_to_settlement" \notin Figures
    BY FigureNames
  <2> QED
    BY <2>1, <1>3, FromCleanIsSound
<1>7. Sound(fs)
  BY <1>4, Lists, FromCleanIsSound
<1>8. \A k \in DOMAIN fs : ~Derived(fs[k].source)
  BY <1>4 DEF Derived
<1>9. Sound(None \o fs) /\ Sound(es \o fs)
  BY <1>6, <1>7, <1>8, NoneIsSound, SoundJoins
<1> QED
  BY <1>5, <1>9, NoneIsSound

LEMMA LeiLookupIsSound == Sound(LeiLookupEdges)
<1> DEFINE es == FromClean("counterparty_id", LeiColumns, "lei_lookup")
<1>1. "counterparty_id" \in Names /\ "lei_lookup" \in EdgeNames
  BY DEF Names, LoadReads, EdgeNames
<1>2. /\ es \in Seq(EdgeType) /\ DOMAIN es = DOMAIN LeiColumns
      /\ \A k \in DOMAIN es : /\ es[k].source = <<"clean", "counterparty_id">>
                              /\ es[k].target = <<"enriched", LeiColumns[k]>>
  BY <1>1, Lists, FromCleanFacts
<1>3. LeiLookupEdges \in {None, es}
  BY DEF LeiLookupEdges
<1> HIDE DEF es
<1>4. Sound(es)
  BY <1>2, Lists, FromCleanIsSound
<1> QED
  BY <1>3, <1>4, NoneIsSound

LEMMA PositionNetIsSound ==
  /\ Sound(PositionNetEdges)
  /\ PositionNetEdges # None =>
        \E k \in DOMAIN PositionNetEdges : PositionNetEdges[k].target = <<"enriched", "net_notional_usd">>
<1> DEFINE e == Edge(<<"enriched", "notional_usd">>, <<"enriched", "net_notional_usd">>, "position_net")
<1>1. /\ e \in EdgeType
      /\ e.source = <<"enriched", "notional_usd">> /\ e.target = <<"enriched", "net_notional_usd">>
  <2>1. <<"enriched", "notional_usd">> \in Column /\ <<"enriched", "net_notional_usd">> \in Column
    BY NamedColumns DEF Layers
  <2> QED
    BY <2>1, EdgeFacts DEF EdgeNames
<1> DEFINE H == Has({"notional_usd", "direction", "counterparty_id", "product_id"})
<1>2. PositionNetEdges = (IF H THEN <<e>> ELSE None) /\ (H => "notional_usd" \in columns)
  <2>1. PositionNetEdges = IF H THEN <<e>> ELSE None
    BY DEF PositionNetEdges
  <2>2. H => "notional_usd" \in columns
    BY DEF Has
  <2> QED
    BY <2>1, <2>2
<1> HIDE DEF e, H
<1>3. WellMade(e)
  BY <1>1, FigureNames DEF WellMade, Rank, Derived
<1>4. ASSUME "notional_usd" \in columns PROVE Sound(<<e>>)
  <2>1. \A k \in DOMAIN <<e>> : <<e>>[k] = e
    OBVIOUS
  <2>2. Founded(<<e>>)
    BY <1>1, <1>4, <2>1, FigureNames DEF Founded
  <2> QED
    BY <1>1, <1>3, <2>1, <2>2 DEF Sound
<1>5. 1 \in DOMAIN <<e>> /\ <<e>>[1] = e
  OBVIOUS
<1> QED
  BY <1>1, <1>2, <1>4, <1>5, NoneIsSound

LEMMA ExposureRollupIsSound == Sound(ExposureRollupEdges)
<1> DEFINE d == Edge(<<"enriched", "notional_usd">>, <<"risk_report", "usd_exposure">>, "exposure_rollup")
           e == Edge(<<"risk_report", "usd_exposure">>, <<"risk_report", "eur_exposure">>, "eur_conversion")
<1>1. /\ d \in EdgeType /\ e \in EdgeType
      /\ d.source = <<"enriched", "notional_usd">> /\ d.target = <<"risk_report", "usd_exposure">>
      /\ e.source = <<"risk_report", "usd_exposure">> /\ e.target = <<"risk_report", "eur_exposure">>
  <2>1. /\ <<"enriched", "notional_usd">> \in Column
        /\ <<"risk_report", "usd_exposure">> \in Column
        /\ <<"risk_report", "eur_exposure">> \in Column
    BY NamedColumns DEF Layers
  <2> QED
    BY <2>1, EdgeFacts DEF EdgeNames
<1> DEFINE gs == <<d>> \o <<e>>
<1>2. \/ ExposureRollupEdges = None
      \/ "notional_usd" \in columns /\ ExposureRollupEdges = gs
      \/ "notional_usd" \in columns /\ ExposureRollupEdges = <<d>> \o None
  BY DEF ExposureRollupEdges, Has
<1> HIDE DEF d, e
<1>3. WellMade(d) /\ WellMade(e)
  BY <1>1, FigureNames DEF WellMade, Rank, Derived
<1>4. /\ <<d>> \o None = <<d>>
      /\ gs \in Seq(EdgeType) /\ DOMAIN gs = 1 .. 2 /\ gs[1] = d /\ gs[2] = e
  <2>1. <<d>> \o <<>> = <<d>>
    OBVIOUS
  <2>2. <<d>> \in Seq(EdgeType) /\ <<e>> \in Seq(EdgeType)
    BY <1>1
  <2>3. Len(<<d>>) = 1 /\ Len(<<e>>) = 1 /\ <<d>>[1] = d /\ <<e>>[1] = e
    OBVIOUS
  <2>4. gs \in Seq(EdgeType) /\ DOMAIN gs = 1 .. 2 /\ gs[1] = d /\ gs[2] = e
    BY <2>2, <2>3
  <2> QED
    BY <2>1, <2>4 DEF None
<1> HIDE DEF gs
<1>5. ASSUME "notional_usd" \in columns PROVE Sound(<<d>>)
  <2>1. \A k \in DOMAIN <<d>> : <<d>>[k] = d
    OBVIOUS
  <2>2. Founded(<<d>>)
    BY <1>1, <1>5, <2>1, FigureNames DEF Founded
  <2> QED
    BY <1>1, <1>3, <2>1, <2>2 DEF Sound
<1>6. ASSUME "notional_usd" \in columns PROVE Sound(gs)
  <2>1. \A k \in DOMAIN gs : k = 1 \/ k = 2
    BY <1>4
  <2>2. 1 \in 1 .. 2 - 1
    OBVIOUS
  <2>3. Founded(gs)
    BY <1>1, <1>4, <1>6, <2>1, <2>2, FigureNames DEF Founded
  <2> QED
    BY <1>3, <1>4, <2>1, <2>3 DEF Sound
<1> QED
  BY <1>2, <1>4, <1>5, <1>6, NoneIsSound

LEMMA WriteStarSchemaIsSound ==
  /\ Sound(WriteStarSchemaEdges)
  /\ ~empty /\ Figures \subseteq columns =>
        \A n \in Figures : \E k \in DOMAIN WriteStarSchemaEdges :
            WriteStarSchemaEdges[k].target = <<"fact_trades", n>>
<1> DEFINE cs == Keep(LoadColumns, columns)
           es == PerColumn(cs, "enriched", "fact_trades", "write_star_schema")
<1>1. LoadColumns \in Seq(Figures) /\ DOMAIN LoadColumns = 1 .. 3 /\ Figures \subseteq Names
  <2>1. LoadColumns \in Seq({"notional_usd", "notional_eur", "net_notional_usd"}) /\ DOMAIN LoadColumns = 1 .. 3
    BY DEF LoadColumns
  <2> QED
    BY <2>1, FigureNames DEF Names, Figures
<1>2. /\ cs \in Seq(Figures)
      /\ \A j \in DOMAIN cs : cs[j] \in columns
      /\ \A k \in DOMAIN LoadColumns : LoadColumns[k] \in columns =>
            \E j \in DOMAIN cs : cs[j] = LoadColumns[k]
  <2>1. /\ cs \in Seq(Figures)
        /\ \A j \in DOMAIN cs : \E k \in DOMAIN LoadColumns : cs[j] = LoadColumns[k] /\ LoadColumns[k] \in columns
        /\ \A k \in DOMAIN LoadColumns : LoadColumns[k] \in columns =>
              \E j \in DOMAIN cs : cs[j] = LoadColumns[k]
    <3> DEFINE lc == LoadColumns
    <3>1. lc \in Seq(Figures)
      BY <1>1
    <3> HIDE DEF lc
    <3>2. /\ Keep(lc, columns) \in Seq(Figures)
          /\ \A j \in DOMAIN Keep(lc, columns) : \E k \in DOMAIN lc :
                Keep(lc, columns)[j] = lc[k] /\ lc[k] \in columns
          /\ \A k \in DOMAIN lc : lc[k] \in columns =>
                \E j \in DOMAIN Keep(lc, columns) : Keep(lc, columns)[j] = lc[k]
      BY <3>1, KeepFacts
    <3> QED
      BY <3>2 DEF lc
  <2> HIDE DEF cs
  <2> QED
    BY <2>1
<1>3. cs \in Seq(Names) /\ \A k \in DOMAIN cs : cs[k] \in Figures
  <2> HIDE DEF cs
  <2> QED
    BY <1>1, <1>2
<1> HIDE DEF cs
<1>4. /\ es \in Seq(EdgeType) /\ DOMAIN es = DOMAIN cs
      /\ \A k \in DOMAIN cs : es[k].source = <<"enriched", cs[k]>> /\ es[k].target = <<"fact_trades", cs[k]>>
  <2>1. "enriched" \in Layers /\ "fact_trades" \in Layers /\ "write_star_schema" \in EdgeNames
    BY DEF Layers, EdgeNames
  <2> QED
    BY <1>3, <2>1, PerColumnFacts
<1>5. WriteStarSchemaEdges = IF empty THEN None ELSE es
  BY DEF WriteStarSchemaEdges, cs
<1> HIDE DEF es
<1>6. ASSUME NEW k \in DOMAIN es
      PROVE  WellMade(es[k]) /\ \E n \in columns \intersect Figures : es[k].source = <<"enriched", n>>
  <2>1. /\ cs[k] \in columns \intersect Figures
        /\ es[k].source = <<"enriched", cs[k]>> /\ es[k].target = <<"fact_trades", cs[k]>>
    BY <1>2, <1>3, <1>4
  <2>2. Rank(es[k].target) = Rank(es[k].source) + 1
    BY <2>1, FigureNames DEF Rank
  <2> QED
    BY <2>1, <2>2 DEF WellMade, Derived
<1>7. Sound(es)
  BY <1>4, <1>6 DEF Sound, Founded
<1>8. ASSUME Figures \subseteq columns, NEW n \in Figures
      PROVE  \E k \in DOMAIN es : es[k].target = <<"fact_trades", n>>
  BY <1>2, <1>4, <1>8 DEF Figures
<1> QED
  BY <1>5, <1>7, <1>8, NoneIsSound


\* whatever the transform, what it emits is sound
LEMMA EmissionsAreSound ==
  ASSUME Current \in Transforms
  PROVE  Sound(Emissions)
<1>1. Current \in {"NullFill", "TypeCast", "Dedup", "FxConvert", "DateExpand", "LeiLookup",
                   "ExposureRollup", "PositionNet", "WriteStarSchema"}
  BY DEF Transforms
<1>2. Emissions \in {NullFillEdges, TypeCastEdges, DedupEdges, FxConvertEdges, DateExpandEdges,
                     LeiLookupEdges, ExposureRollupEdges, PositionNetEdges, WriteStarSchemaEdges}
  BY <1>1 DEF Emissions
<1> QED
  BY <1>2, NullFillIsSound, TypeCastIsSound, DedupIsSound, FxConvertIsSound, DateExpandIsSound,
     LeiLookupIsSound, ExposureRollupIsSound, PositionNetIsSound, WriteStarSchemaIsSound

Emits(c) == \E k \in DOMAIN Emissions : Emissions[k].target = c

\* A figure that joins the frame has its edge.
LEMMA AddedIsEmitted ==
  /\ Added \subseteq Figures
  /\ \A n \in Added : Emits(<<"enriched", n>>)
<1>1. CASE Current = "FxConvert" /\ Has({"notional"})
  <2>1. Added = {"notional_usd", "notional_eur"} /\ Emissions = FxConvertEdges
    BY <1>1 DEF Added, Emissions
  <2> QED
    BY <1>1, <2>1, FxConvertIsSound, FigureNames DEF Emits
<1>2. CASE Current = "PositionNet" /\ PositionNetEdges # None
  <2>1. Added = {"net_notional_usd"} /\ Emissions = PositionNetEdges
    BY <1>2 DEF Added, Emissions
  <2> QED
    BY <1>2, <2>1, PositionNetIsSound, FigureNames DEF Emits
<1>3. CASE /\ ~(Current = "FxConvert" /\ Has({"notional"}))
           /\ ~(Current = "PositionNet" /\ PositionNetEdges # None)
  <2>1. Added = {}
    BY <1>3 DEF Added
  <2> QED
    BY <2>1
<1> QED
  BY <1>1, <1>2, <1>3

\* A load that does not raise has an edge to each figure.
LEMMA LoadIsEmitted ==
  ASSUME Current = "WriteStarSchema", ~Raises, ~empty, NEW n \in Figures
  PROVE  Emits(<<"fact_trades", n>>)
<1>1. Emissions = WriteStarSchemaEdges
  BY DEF Emissions
<1>2. Figures \subseteq columns
  BY DEF Raises, Has, Figures
<1> QED
  BY <1>1, <1>2, WriteStarSchemaIsSound DEF Emits

LEMMA SameEmissions ==
  ASSUME UNCHANGED <<columns, nulls, empty, plan, step>>
  PROVE  Emissions' = Emissions
<1>1. Current' = Current
  BY DEF Current
<1>2. NullFillEdges' = NullFillEdges /\ TypeCastEdges' = TypeCastEdges
  BY DEF NullFillEdges, TypeCastEdges
<1>3. DedupEdges' = DedupEdges /\ FxConvertEdges' = FxConvertEdges
  BY DEF DedupEdges, FxConvertEdges, Has
<1>4. DateExpandEdges' = DateExpandEdges /\ LeiLookupEdges' = LeiLookupEdges
  BY DEF DateExpandEdges, LeiLookupEdges, Has
<1>5. ExposureRollupEdges' = ExposureRollupEdges /\ PositionNetEdges' = PositionNetEdges
  BY DEF ExposureRollupEdges, PositionNetEdges, Has
<1>6. WriteStarSchemaEdges' = WriteStarSchemaEdges
  BY DEF WriteStarSchemaEdges
<1> QED
  BY <1>1, <1>2, <1>3, <1>4, <1>5, <1>6 DEF Emissions

-----------------------------------------------------------------------------
(* The invariant is inductive *)

LEMMA PlanIsTyped ==
  ASSUME TypeOK
  PROVE  /\ plan \in Seq(Transforms) /\ Len(plan) \in Nat /\ DOMAIN plan = 1 .. Len(plan)
         /\ step \in 1 .. Len(plan) => Current \in Transforms
<1>1. plan \in Seq(Transforms)
  <2>1. CASE plan = <<>>
    BY <2>1
  <2>2. CASE plan \in UNION {Plans[b] : b \in Batches}
    BY <2>2, PlansAssumption
  <2> QED
    BY <2>1, <2>2 DEF TypeOK
<1> QED
  BY <1>1 DEF Current

LEMMA EdgesAreTyped ==
  ASSUME TypeOK
  PROVE  edges \in Seq(EdgeType) /\ Len(edges) \in Nat /\ DOMAIN edges = 1 .. Len(edges)
  BY DEF TypeOK

LEMMA LineageInit == Init => IInv
<1> SUFFICES ASSUME Init PROVE IInv
  OBVIOUS
<1>1. TypeOK
  <2>1. IsFiniteSet({}) /\ Len(<<>>) = 0 /\ <<>> \in Seq(EdgeType)
    BY FS_EmptySet
  <2> QED
    BY <2>1, AttemptsAssumption DEF Init, TypeOK
<1>2. Bookkeeping
  BY FS_EmptySet DEF Init, Bookkeeping
<1>3. AllWellMade /\ Grounded
  BY DEF Init, AllWellMade, Grounded
<1>4. FrameReached /\ SentIsThere /\ LoadsReached
  BY DEF Init, FrameReached, SentIsThere, LoadsReached
<1> QED
  BY <1>1, <1>2, <1>3, <1>4 DEF IInv

LEMMA StartRunKeeps ==
  ASSUME IInv, StartRun
  PROVE  IInv'
<1>1. /\ TypeOK /\ Bookkeeping /\ AllWellMade /\ Grounded
  BY DEF IInv
<1>2. batch' \in Batches /\ batch' = batch + 1
  BY <1>1 DEF StartRun, TypeOK, Batches
<1>3. PICK i \in Inputs[batch'] : columns' = i.columns /\ nulls' = i.nulls /\ empty' = i.empty
  BY DEF StartRun
<1>4. /\ IsFiniteSet(columns') /\ nulls' \subseteq columns' /\ empty' \in BOOLEAN
      /\ columns' \intersect Figures = {}
  BY <1>2, <1>3, InputsAssumption DEF Figures
<1>5. plan' \in UNION {Plans[b] : b \in Batches} /\ plan' \in Seq(Transforms) /\ Len(plan') \in Nat
  BY <1>2, PlansAssumption DEF StartRun
<1>6. TypeOK'
  <2>1. edges' \in Seq(EdgeType)
    BY DEF StartRun
  <2> QED
    BY <1>1, <1>2, <1>4, <1>5, <2>1, AttemptsAssumption DEF StartRun, TypeOK
<1>7. Bookkeeping'
  BY <1>1, <1>2 DEF Bookkeeping, StartRun
<1>8. AllWellMade' /\ Grounded'
  BY <1>1 DEF AllWellMade, Grounded, StartRun
<1>9. FrameReached' /\ SentIsThere' /\ LoadsReached'
  BY <1>4 DEF FrameReached, SentIsThere, LoadsReached, StartRun
<1> QED
  BY <1>6, <1>7, <1>8, <1>9 DEF IInv

LEMMA EmitKeeps ==
  ASSUME IInv, Emit
  PROVE  IInv'
<1>1. /\ TypeOK /\ Bookkeeping /\ AllWellMade /\ Grounded
      /\ FrameReached /\ SentIsThere /\ LoadsReached
  BY DEF IInv
<1> DEFINE es == Emissions
           n == Len(edges)
           e == es[sent + 1]
<1>2. step \in 1 .. Len(plan) /\ Sound(es)
  BY <1>1, PlanIsTyped, EmissionsAreSound DEF Emit, TypeOK
<1>3. /\ es \in Seq(EdgeType) /\ Len(es) \in Nat /\ DOMAIN es = 1 .. Len(es)
      /\ sent \in Nat /\ sent + 1 \in DOMAIN es /\ 1 .. sent \subseteq DOMAIN es
  <2>1. sent \in Nat /\ sent < Len(es)
    BY <1>1 DEF Emit, TypeOK
  <2> HIDE DEF es
  <2> QED
    BY <2>1, <1>2 DEF Sound
<1>4. edges' = Append(edges, e) /\ sent' = sent + 1 /\ pc' = pc /\ pc = "transform"
      /\ lineageEdges' = lineageEdges /\ batch' = batch /\ plan' = plan /\ step' = step
      /\ attempt' = attempt /\ ended' = ended /\ columns' = columns /\ nulls' = nulls /\ empty' = empty
  BY DEF Emit, frame
<1>5. es' = es
  BY <1>4, SameEmissions
<1> HIDE DEF es
<1>6. /\ n \in Nat /\ DOMAIN edges = 1 .. n /\ DOMAIN edges' = 1 .. n + 1
      /\ edges' \in Seq(EdgeType)
      /\ \A k \in 1 .. n : edges'[k] = edges[k]
      /\ edges'[n + 1] = e
  BY <1>1, <1>3, <1>4, EdgesAreTyped
<1> HIDE DEF n
<1>7. \A c : Reached(c) => Reached(c)'
  BY <1>6 DEF Reached
<1>8. TypeOK'
  BY <1>1, <1>3, <1>4, <1>6 DEF TypeOK
<1>9. Bookkeeping'
  BY <1>1, <1>4 DEF Bookkeeping
<1>10. AllWellMade'
  <2>1. WellMade(e)
    BY <1>2, <1>3 DEF Sound
  <2>2. \A k \in DOMAIN edges' : k \in 1 .. n \/ k = n + 1
    BY <1>6
  <2> QED
    BY <1>1, <1>4, <1>6, <2>1, <2>2 DEF AllWellMade
<1>11. Grounded'
  <2>1. Derived(e.source) => \E j \in 1 .. n : edges[j].target = e.source
    <3> SUFFICES ASSUME Derived(e.source)
                 PROVE  \E j \in 1 .. n : edges[j].target = e.source
      OBVIOUS
    <3>1. \/ \E j \in 1 .. (sent + 1) - 1 : es[j].target = e.source
          \/ \E m \in columns \intersect Figures : e.source = <<"enriched", m>>
      BY <1>2, <1>3 DEF Sound, Founded
    <3>2. CASE \E j \in 1 .. sent : es[j].target = e.source
      BY <1>1, <1>2, <1>3, <1>4, <1>6, <3>2 DEF SentIsThere, es
    <3>3. CASE \E m \in columns \intersect Figures : e.source = <<"enriched", m>>
      BY <1>1, <1>4, <1>6, <3>3 DEF FrameReached, Reached
    <3> QED
      BY <3>1, <3>2, <3>3, <1>3
  <2>2. ASSUME NEW k \in DOMAIN edges', Derived(edges'[k].source)
        PROVE  \E j \in 1 .. k - 1 : edges'[j].target = edges'[k].source
    <3>1. CASE k = n + 1
      <4>1. (n + 1) - 1 = n
        BY <1>6
      <4> QED
        BY <1>6, <2>1, <2>2, <3>1, <4>1
    <3>2. CASE k \in 1 .. n
      <4>1. PICK j \in 1 .. k - 1 : edges[j].target = edges[k].source
        BY <1>1, <1>6, <2>2, <3>2 DEF Grounded
      <4>2. j \in 1 .. n
        BY <1>6, <3>2
      <4> QED
        BY <1>6, <3>2, <4>1, <4>2
    <3> QED
      BY <3>1, <3>2, <1>6
  <2> QED
    BY <1>1, <1>4, <2>2 DEF Grounded
<1>12. FrameReached'
  BY <1>1, <1>4, <1>7 DEF FrameReached
<1>13. SentIsThere'
  <2>1. ASSUME NEW k \in 1 .. sent + 1
        PROVE  \E j \in DOMAIN edges' : edges'[j] = es[k]
    <3>1. CASE k = sent + 1
      BY <3>1, <1>6
    <3>2. CASE k \in 1 .. sent
      <4>1. PICK j \in DOMAIN edges : edges[j] = es[k]
        BY <1>1, <1>2, <1>4, <3>2 DEF SentIsThere, es
      <4> QED
        BY <4>1, <1>6
    <3> QED
      BY <3>1, <3>2, <1>3
  <2>2. Emissions' = es
    BY <1>5 DEF es
  <2> QED
    BY <1>4, <2>1, <2>2 DEF SentIsThere
<1>14. LoadsReached'
  BY <1>1, <1>4, <1>7 DEF LoadsReached
<1> QED
  BY <1>8, <1>9, <1>10, <1>11, <1>12, <1>13, <1>14 DEF IInv

LEMMA TransformSucceedsKeeps ==
  ASSUME IInv, TransformSucceeds
  PROVE  IInv'
<1>1. /\ TypeOK /\ Bookkeeping /\ AllWellMade /\ Grounded
      /\ FrameReached /\ SentIsThere /\ LoadsReached
  BY DEF IInv
<1>2. /\ columns' = columns \union Added /\ nulls' = nulls \ Filled /\ empty' = empty
      /\ step' = step + 1 /\ attempt' = 1 /\ sent' = 0
      /\ lineageEdges' = lineageEdges /\ pc' = pc /\ pc = "transform" /\ batch' = batch
      /\ plan' = plan /\ edges' = edges /\ ended' = ended
  BY DEF TransformSucceeds
<1>3. /\ step \in 1 .. Len(plan) /\ Len(plan) \in Nat /\ step + 1 \in 1 .. Len(plan) + 1
      /\ Current \in Transforms /\ sent = Len(Emissions) /\ ~Raises
  <2>1. step <= Len(plan) /\ sent = Len(Emissions) /\ ~Raises
    BY DEF TransformSucceeds
  <2> QED
    BY <1>1, <2>1, PlanIsTyped DEF TypeOK
<1>4. \A c : Reached(c)' = Reached(c)
  BY <1>2 DEF Reached
<1>5. \A c : Emits(c) => Reached(c)
  <2>1. Emissions \in Seq(EdgeType)
    BY <1>3, EmissionsAreSound DEF Sound
  <2>2. DOMAIN Emissions = 1 .. sent
    BY <1>3, <2>1
  <2> QED
    BY <1>1, <1>2, <1>3, <2>2 DEF SentIsThere, Emits, Reached
<1>6. TypeOK'
  <2>1. IsFiniteSet(columns')
    <3>1. IsFiniteSet(Figures)
      <4>1. IsFiniteSet({"notional_usd"} \union {"notional_eur"} \union {"net_notional_usd"})
        BY FS_Singleton, FS_Union
      <4>2. Figures = {"notional_usd"} \union {"notional_eur"} \union {"net_notional_usd"}
        BY FigureNames
      <4> QED
        BY <4>1, <4>2
    <3>2. IsFiniteSet(Added)
      BY <3>1, AddedIsEmitted, FS_Subset
    <3>3. IsFiniteSet(columns)
      BY <1>1 DEF TypeOK
    <3> QED
      BY <1>2, <3>2, <3>3, FS_Union
  <2> QED
    BY <1>1, <1>2, <1>3, <2>1, AttemptsAssumption DEF TypeOK
<1>7. Bookkeeping'
  BY <1>1, <1>2 DEF Bookkeeping
<1>8. AllWellMade' /\ Grounded'
  BY <1>1, <1>2 DEF AllWellMade, Grounded
<1>9. FrameReached'
  BY <1>1, <1>2, <1>4, <1>5, AddedIsEmitted DEF FrameReached
<1>10. SentIsThere'
  BY <1>2 DEF SentIsThere
<1>11. LoadsReached'
  <2>1. ASSUME ~empty, NEW k \in 1 .. step, plan[k] = "WriteStarSchema", NEW n \in Figures
        PROVE  Reached(<<"fact_trades", n>>)
    <3>1. CASE k = step
      <4>1. Current = "WriteStarSchema"
        BY <2>1, <3>1 DEF Current
      <4> QED
        BY <1>3, <1>5, <2>1, <4>1, LoadIsEmitted
    <3>2. CASE k # step
      <4>1. k \in 1 .. step - 1
        BY <1>3, <3>2
      <4> QED
        BY <1>1, <1>2, <2>1, <4>1 DEF LoadsReached
    <3> QED
      BY <3>1, <3>2
  <2>2. (step + 1) - 1 = step
    BY <1>3
  <2> QED
    BY <1>2, <1>4, <2>1, <2>2 DEF LoadsReached
<1> QED
  BY <1>6, <1>7, <1>8, <1>9, <1>10, <1>11 DEF IInv

LEMMA AttemptFailsKeeps ==
  ASSUME IInv, AttemptFails
  PROVE  IInv'
<1>1. /\ TypeOK /\ Bookkeeping /\ AllWellMade /\ Grounded
      /\ FrameReached /\ SentIsThere /\ LoadsReached
  BY DEF IInv
<1>2. /\ attempt' = attempt + 1 /\ sent' = 0 /\ attempt < MaxAttempts
      /\ columns' = columns /\ nulls' = nulls /\ empty' = empty /\ step' = step
      /\ lineageEdges' = lineageEdges /\ pc' = pc /\ pc = "transform" /\ batch' = batch
      /\ plan' = plan /\ edges' = edges /\ ended' = ended
  BY DEF AttemptFails, frame
<1>3. TypeOK'
  <2>1. attempt' \in 1 .. MaxAttempts
    BY <1>1, <1>2, AttemptsAssumption DEF TypeOK
  <2> QED
    BY <1>1, <1>2, <2>1 DEF TypeOK
<1>4. \A c : Reached(c)' = Reached(c)
  BY <1>2 DEF Reached
<1>5. Bookkeeping' /\ AllWellMade' /\ Grounded'
  BY <1>1, <1>2 DEF Bookkeeping, AllWellMade, Grounded
<1>6. FrameReached' /\ SentIsThere'
  BY <1>1, <1>2, <1>4 DEF FrameReached, SentIsThere
<1>7. LoadsReached'
  BY <1>1, <1>2, <1>4 DEF LoadsReached
<1> QED
  BY <1>3, <1>5, <1>6, <1>7 DEF IInv

LEMMA EndKeeps ==
  ASSUME IInv, RunFails \/ RunCompletes
  PROVE  IInv'
<1>1. /\ TypeOK /\ Bookkeeping /\ AllWellMade /\ Grounded
      /\ FrameReached /\ SentIsThere /\ LoadsReached
  BY DEF IInv
<1>2. /\ columns' = columns /\ nulls' = nulls /\ empty' = empty /\ step' = step
      /\ attempt' = attempt /\ sent' = sent
      /\ lineageEdges' = lineageEdges /\ pc' = "persist" /\ pc = "transform" /\ batch' = batch
      /\ plan' = plan /\ edges' = edges
      /\ ended' = "other" \/ (ended' = "stored" /\ step > Len(plan))
  BY DEF RunFails, RunCompletes, frame
<1>3. TypeOK'
  BY <1>1, <1>2 DEF TypeOK
<1>4. \A c : Reached(c)' = Reached(c)
  BY <1>2 DEF Reached
<1>5. Bookkeeping' /\ AllWellMade' /\ Grounded'
  BY <1>1, <1>2 DEF Bookkeeping, AllWellMade, Grounded
<1>6. FrameReached' /\ SentIsThere'
  BY <1>2 DEF FrameReached, SentIsThere
<1>7. LoadsReached'
  <2>1. step > Len(plan) => step = Len(plan) + 1
    BY <1>1, PlanIsTyped DEF TypeOK
  <2> QED
    BY <1>1, <1>2, <1>4, <2>1 DEF LoadsReached
<1> QED
  BY <1>3, <1>5, <1>6, <1>7 DEF IInv

LEMMA RowFacts ==
  ASSUME NEW b, NEW e
  PROVE  /\ Row(b, e).batch = b /\ Row(b, e).source = e.source /\ Row(b, e).target = e.target
         /\ Edge(Row(b, e).source, Row(b, e).target, Row(b, e).transform)
              = Edge(e.source, e.target, e.transform)
         /\ WellMade(e) => WellMade(Row(b, e))
<1>1. /\ Row(b, e).batch = b /\ Row(b, e).source = e.source /\ Row(b, e).target = e.target
      /\ Row(b, e).transform = e.transform
  BY DEF Row
<1>2. WellMade(e) => WellMade(Row(b, e))
  BY <1>1 DEF WellMade
<1> QED
  BY <1>1, <1>2

\* Storing the first n edges, all or not, and forgetting the run
LEMMA StoredRows ==
  ASSUME TypeOK, Bookkeeping, AllWellMade, Grounded, pc = "persist",
         NEW n \in 0 .. Len(edges), lineageEdges' = lineageEdges \union Rows(n), edges' = <<>>
  PROVE  /\ \A r \in lineageEdges' : r.batch \in Batches /\ Edge(r.source, r.target, r.transform) \in EdgeType
         /\ IsFiniteSet(lineageEdges')
         /\ AllWellMade' /\ Grounded'
<1>1. edges \in Seq(EdgeType) /\ Len(edges) \in Nat /\ DOMAIN edges = 1 .. Len(edges) /\ n \in Nat
      /\ \A k \in 1 .. n : k \in DOMAIN edges /\ edges[k] \in EdgeType
  BY EdgesAreTyped
<1>2. batch \in Batches
  BY DEF Bookkeeping
<1>3. \A k \in 1 .. n : Row(batch, edges[k]) \in lineageEdges'
  BY DEF Rows
<1>4. \A r \in lineageEdges' : r \notin lineageEdges => \E k \in 1 .. n : r = Row(batch, edges[k])
  BY DEF Rows
<1>5. ASSUME NEW r \in lineageEdges'
      PROVE  r.batch \in Batches /\ Edge(r.source, r.target, r.transform) \in EdgeType
  <2>1. CASE r \in lineageEdges
    BY <2>1 DEF TypeOK
  <2>2. CASE r \notin lineageEdges
    <3>1. PICK k \in 1 .. n : r = Row(batch, edges[k])
      BY <1>4, <2>2
    <3>2. edges[k] \in EdgeType
      BY <1>1
    <3>3. Edge(edges[k].source, edges[k].target, edges[k].transform) = edges[k]
      BY <3>2 DEF EdgeType, Edge
    <3> QED
      BY <1>2, <3>1, <3>2, <3>3, RowFacts
  <2> QED
    BY <2>1, <2>2
<1>6. IsFiniteSet(lineageEdges')
  <2> DEFINE f == [k \in 1 .. n |-> Row(batch, edges[k])]
  <2>1. IsFiniteSet({f[k] : k \in 1 .. n})
    <3>1. IsFiniteSet(1 .. n) /\ f = [k \in 1 .. n |-> f[k]]
      BY <1>1, FS_Interval
    <3> HIDE DEF f
    <3> QED
      BY <3>1, ImageIsFinite
  <2>2. Rows(n) = {f[k] : k \in 1 .. n}
    BY DEF Rows
  <2> HIDE DEF f
  <2> QED
    BY <2>1, <2>2, FS_Union DEF Bookkeeping
<1>7. AllWellMade'
  <2>1. \A k \in 1 .. n : WellMade(Row(batch, edges[k]))
    BY <1>1, RowFacts DEF AllWellMade
  <2>2. \A r \in lineageEdges' : WellMade(r)
    BY <1>4, <2>1 DEF AllWellMade
  <2> QED
    BY <2>2 DEF AllWellMade
<1>8. Grounded'
  <2>1. ASSUME NEW r \in lineageEdges', Derived(r.source)
        PROVE  \E q \in lineageEdges' : q.batch = r.batch /\ q.target = r.source
    <3>1. CASE r \in lineageEdges
      BY <2>1, <3>1 DEF Grounded
    <3>2. CASE r \notin lineageEdges
      <4>1. PICK k \in 1 .. n : r = Row(batch, edges[k])
        BY <1>4, <3>2
      <4>2. Derived(edges[k].source)
        BY <2>1, <4>1, RowFacts
      <4>3. PICK j \in 1 .. k - 1 : edges[j].target = edges[k].source
        BY <1>1, <4>2 DEF Grounded
      <4>4. j \in 1 .. n
        BY <1>1
      <4>5. Row(batch, edges[j]) \in lineageEdges'
        BY <1>3, <4>4
      <4>6. /\ Row(batch, edges[j]).batch = r.batch
            /\ Row(batch, edges[j]).target = r.source
        BY <4>1, <4>3, RowFacts
      <4> QED
        BY <4>5, <4>6
    <3> QED
      BY <3>1, <3>2
  <2> QED
    BY <2>1 DEF Grounded
<1> QED
  BY <1>5, <1>6, <1>7, <1>8

LEMMA ResetIsTyped ==
  ASSUME TypeOK, Reset, batch' = batch, plan' = plan, empty' = empty, pc' = "idle",
         ended' \in {"none", "stored", "other"},
         \A r \in lineageEdges' : r.batch \in Batches /\ Edge(r.source, r.target, r.transform) \in EdgeType
  PROVE  TypeOK'
<1>1. /\ step' = 1 /\ attempt' = 1 /\ columns' = {} /\ nulls' = {} /\ sent' = 0 /\ edges' = <<>>
  BY DEF Reset
<1>2. 1 \in 1 .. Len(plan) + 1 /\ 1 \in 1 .. MaxAttempts
  BY PlanIsTyped, AttemptsAssumption
<1>3. IsFiniteSet(columns') /\ edges' \in Seq(EdgeType)
  BY <1>1, FS_EmptySet
<1> QED
  BY <1>1, <1>2, <1>3 DEF TypeOK

LEMMA PersistKeeps ==
  ASSUME IInv, Persist
  PROVE  IInv'
<1>1. /\ TypeOK /\ Bookkeeping /\ AllWellMade /\ Grounded /\ LoadsReached
  BY DEF IInv
<1>2. /\ lineageEdges' = lineageEdges \union Rows(Len(edges)) /\ pc = "persist" /\ pc' = "idle"
      /\ Reset /\ edges' = <<>>
      /\ batch' = batch /\ plan' = plan /\ empty' = empty /\ ended' = ended
  BY DEF Persist, Reset
<1>3. edges \in Seq(EdgeType) /\ Len(edges) \in Nat /\ DOMAIN edges = 1 .. Len(edges)
  BY <1>1, EdgesAreTyped
<1>4. /\ \A r \in lineageEdges' : r.batch \in Batches /\ Edge(r.source, r.target, r.transform) \in EdgeType
      /\ IsFiniteSet(lineageEdges') /\ AllWellMade' /\ Grounded'
  <2>1. Len(edges) \in 0 .. Len(edges)
    BY <1>3
  <2> QED
    BY <1>1, <1>2, <2>1, StoredRows
<1>5. TypeOK'
  <2>1. ended' \in {"none", "stored", "other"}
    BY <1>1, <1>2 DEF TypeOK
  <2> QED
    BY <1>1, <1>2, <1>4, <2>1, ResetIsTyped
<1>6. Bookkeeping' /\ FrameReached' /\ SentIsThere'
  BY <1>2, <1>4 DEF Bookkeeping, FrameReached, SentIsThere
<1>7. LoadsReached'
  <2>1. ASSUME ended = "stored", ~empty, NEW k \in DOMAIN plan, plan[k] = "WriteStarSchema",
               NEW n \in Figures
        PROVE  \E r \in lineageEdges' : r.batch = batch /\ r.target = <<"fact_trades", n>>
    <3>1. step = Len(plan) + 1
      BY <1>1, <1>2, <2>1 DEF LoadsReached
    <3>2. k \in 1 .. step - 1
      BY <1>1, <3>1, PlanIsTyped
    <3>3. Reached(<<"fact_trades", n>>)
      BY <1>1, <1>2, <2>1, <3>2 DEF LoadsReached
    <3>4. PICK j \in DOMAIN edges : edges[j].target = <<"fact_trades", n>>
      BY <3>3 DEF Reached
    <3>5. Row(batch, edges[j]) \in lineageEdges'
      BY <1>2, <1>3 DEF Rows
    <3> QED
      BY <3>4, <3>5, RowFacts
  <2> QED
    BY <1>2, <2>1 DEF LoadsReached
<1> QED
  BY <1>4, <1>5, <1>6, <1>7 DEF IInv

LEMMA PersistSomeKeeps ==
  ASSUME IInv, PersistSome
  PROVE  IInv'
<1>1. /\ TypeOK /\ Bookkeeping /\ AllWellMade /\ Grounded
  BY DEF IInv
<1>2. /\ pc = "persist" /\ pc' = "idle" /\ Reset /\ edges' = <<>>
      /\ batch' = batch /\ plan' = plan /\ empty' = empty /\ ended' = "other"
  BY DEF PersistSome, Reset
<1>3. PICK n \in 0 .. Len(edges) : lineageEdges' = lineageEdges \union Rows(n)
  BY DEF PersistSome
<1>4. /\ \A r \in lineageEdges' : r.batch \in Batches /\ Edge(r.source, r.target, r.transform) \in EdgeType
      /\ IsFiniteSet(lineageEdges') /\ AllWellMade' /\ Grounded'
  BY <1>1, <1>2, <1>3, StoredRows
<1>5. TypeOK'
  BY <1>1, <1>2, <1>4, ResetIsTyped
<1>6. Bookkeeping' /\ FrameReached' /\ SentIsThere' /\ LoadsReached'
  BY <1>2, <1>4 DEF Bookkeeping, FrameReached, SentIsThere, LoadsReached
<1> QED
  BY <1>4, <1>5, <1>6 DEF IInv

LEMMA CrashKeeps ==
  ASSUME IInv, Crash
  PROVE  IInv'
<1>1. /\ TypeOK /\ Bookkeeping /\ AllWellMade /\ Grounded
  BY DEF IInv
<1>2. /\ lineageEdges' = lineageEdges /\ pc' = "idle" /\ Reset /\ edges' = <<>>
      /\ batch' = batch /\ plan' = plan /\ empty' = empty /\ ended' = "other"
  BY DEF Crash, Reset
<1>3. TypeOK'
  <2>1. \A r \in lineageEdges' : r.batch \in Batches /\ Edge(r.source, r.target, r.transform) \in EdgeType
    BY <1>1, <1>2 DEF TypeOK
  <2> QED
    BY <1>1, <1>2, <2>1, ResetIsTyped
<1>4. AllWellMade' /\ Grounded'
  BY <1>1, <1>2 DEF AllWellMade, Grounded
<1>5. Bookkeeping' /\ FrameReached' /\ SentIsThere' /\ LoadsReached'
  BY <1>1, <1>2 DEF Bookkeeping, FrameReached, SentIsThere, LoadsReached
<1> QED
  BY <1>3, <1>4, <1>5 DEF IInv

LEMMA LineageStep == IInv /\ [Next]_vars => IInv'
<1> SUFFICES ASSUME IInv, [Next]_vars PROVE IInv'
  OBVIOUS
<1>1. CASE UNCHANGED vars
  <2>1. /\ columns' = columns /\ nulls' = nulls /\ empty' = empty /\ step' = step
        /\ attempt' = attempt /\ sent' = sent /\ lineageEdges' = lineageEdges /\ pc' = pc
        /\ batch' = batch /\ plan' = plan /\ edges' = edges /\ ended' = ended
    BY <1>1 DEF vars, frame
  <2>2. Emissions' = Emissions
    BY <2>1, SameEmissions
  <2>3. \A c : Reached(c)' = Reached(c)
    BY <2>1 DEF Reached
  <2>4. TypeOK' /\ Bookkeeping' /\ AllWellMade' /\ Grounded'
    BY <2>1 DEF IInv, TypeOK, Bookkeeping, AllWellMade, Grounded
  <2>5. FrameReached' /\ SentIsThere' /\ LoadsReached'
    BY <2>1, <2>2, <2>3 DEF IInv, FrameReached, SentIsThere, LoadsReached
  <2> QED
    BY <2>4, <2>5 DEF IInv
<1>2. CASE StartRun
  BY <1>2, StartRunKeeps
<1>3. CASE Emit
  BY <1>3, EmitKeeps
<1>4. CASE TransformSucceeds
  BY <1>4, TransformSucceedsKeeps
<1>5. CASE AttemptFails
  BY <1>5, AttemptFailsKeeps
<1>6. CASE RunFails \/ RunCompletes
  BY <1>6, EndKeeps
<1>7. CASE Persist
  BY <1>7, PersistKeeps
<1>8. CASE PersistSome
  BY <1>8, PersistSomeKeeps
<1>9. CASE Crash
  BY <1>9, CrashKeeps
<1> QED
  BY <1>1, <1>2, <1>3, <1>4, <1>5, <1>6, <1>7, <1>8, <1>9 DEF Next

LEMMA LineageInvariant == Spec => []IInv
  BY LineageInit, LineageStep, PTL DEF Spec

-----------------------------------------------------------------------------
(* What is recorded *)

\* Every edge of the table has a type, every frame and cursor too, and no transform
\* is attempted more than max_attempts times.
THEOREM LineageIsTyped == Spec => []TypeOK
<1>1. IInv => TypeOK
  BY DEF IInv
<1> QED
  BY <1>1, LineageInvariant, PTL

LEMMA GraphFacts ==
  ASSUME IInv, NEW bs
  PROVE  /\ IsFiniteSet(LoadGraph(bs)) /\ Graded(LoadGraph(bs))
         /\ \A e \in LoadGraph(bs) : WellMade(e)
<1> DEFINE T == {q \in lineageEdges : q.batch \in bs}
           f == [r \in T |-> Edge(r.source, r.target, r.transform)]
<1>1. IsFiniteSet(T)
  BY FS_Subset DEF IInv, Bookkeeping
<1>2. LoadGraph(bs) = {f[r] : r \in T}
  BY DEF LoadGraph
<1>3. IsFiniteSet({f[r] : r \in T})
  <2>1. f = [r \in T |-> f[r]]
    OBVIOUS
  <2> HIDE DEF f, T
  <2> QED
    BY <1>1, <2>1, ImageIsFinite
<1>4. ASSUME NEW e \in LoadGraph(bs)
      PROVE  WellMade(e)
  <2>1. PICK r \in lineageEdges : e = Edge(r.source, r.target, r.transform)
    BY DEF LoadGraph
  <2>2. e.source = r.source /\ e.target = r.target
    BY <2>1, EdgeFacts
  <2>3. WellMade(r)
    BY DEF IInv, AllWellMade
  <2> QED
    BY <2>2, <2>3 DEF WellMade
<1> QED
  BY <1>2, <1>3, <1>4 DEF Graded, WellMade

\* README: the edges form a directed acyclic graph. No batch, file, failed attempt or
\* half-stored run ever closes a cycle in the graph of all batches together, whatever
\* plans the runs had.
THEOREM RecordedIsAcyclic == Spec => []LineageIsAcyclic
<1>1. IInv => LineageIsAcyclic
  BY GraphFacts, GradedIsAcyclic DEF LineageIsAcyclic
<1> QED
  BY <1>1, LineageInvariant, PTL

\* LineageGraph.ancestors, sorted by distance and reversed, is root-first: in the graph of
\* all batches a column that leads to another one is never listed behind it.
THEOREM ListedRootFirst == Spec => []AncestorsRootFirst
<1>1. ASSUME IInv PROVE AncestorsRootFirst
  <2> DEFINE G == LoadGraph(Batches)
  <2>1. IsFiniteSet(G) /\ Graded(G)
    BY <1>1, GraphFacts
  <2>2. DOMAIN AncestorsOf(G) = Nodes(G)
    BY DEF AncestorsOf
  <2> HIDE DEF G
  <2>3. \A c \in DOMAIN AncestorsOf(G) : \A b \in AncestorsOf(G)[c] : \A a \in AncestorsOf(G)[b] :
            ListedBefore(G, c, a, b)
    BY <2>1, <2>2, GradedIsRootFirst
  <2> QED
    BY <2>3 DEF AncestorsRootFirst, G
<1> QED
  BY <1>1, LineageInvariant, PTL

\* some edge of the batch leads to c
Made(b, c) == \E e \in LoadGraph({b}) : e.target = c

LEMMA SourcesAreMade ==
  ASSUME IInv, NEW b, NEW e \in LoadGraph({b}), Derived(e.source)
  PROVE  Made(b, e.source)
<1>1. PICK r \in lineageEdges : r.batch = b /\ e = Edge(r.source, r.target, r.transform)
  BY DEF LoadGraph
<1>2. e.source = r.source
  BY <1>1, EdgeFacts
<1>3. PICK q \in lineageEdges : q.batch = r.batch /\ q.target = r.source
  BY <1>2 DEF IInv, Grounded
<1>4. Edge(q.source, q.target, q.transform) \in LoadGraph({b})
  BY <1>1, <1>3 DEF LoadGraph
<1> QED
  BY <1>2, <1>3, <1>4, EdgeFacts DEF Made

\* a clean column is met below the lowest derived column upstream
LEMMA DerivedIsTraced ==
  ASSUME IInv, NEW b, NEW c \in Nodes(LoadGraph({b})), Derived(c)
  PROVE  \E a \in AncestorsOf(LoadGraph({b}))[c] : a[1] = "clean"
<1> DEFINE G == LoadGraph({b})
           A == AncestorsOf(G)[c] \union {c}
           D == {y \in A : Derived(y)}
           ranks == {Rank(y) : y \in D}
<1>1. IsFiniteSet(G) /\ \A e \in G : WellMade(e)
  BY GraphFacts
<1>2. A \subseteq Nodes(G) /\ Closed(G, A)
  BY <1>1, AncestorFacts
<1>3. PICK m \in ranks : \A k \in ranks : m <= k
  <2>1. ranks \in SUBSET Nat /\ ranks # {}
    BY RankIsNumber
  <2> HIDE DEF ranks
  <2> QED
    BY <2>1, HasLeast
<1>4. PICK y \in D : Rank(y) = m
  BY <1>3
<1> HIDE DEF A
<1>5. PICK e \in G : e.target = y
  <2>1. CASE \E f \in G : f.source = y
    <3>1. PICK f \in G : f.source = y
      BY <2>1
    <3> QED
      BY <3>1, <1>4, SourcesAreMade DEF Made
  <2>2. CASE \E f \in G : f.target = y
    BY <2>2
  <2> QED
    BY <1>2, <1>4, <2>1, <2>2 DEF Nodes
<1>6. e.source \in A /\ WellMade(e)
  BY <1>1, <1>2, <1>4, <1>5 DEF Closed
<1>7. ~Derived(e.source)
  <2>1. ASSUME Derived(e.source) PROVE FALSE
    <3>1. Rank(e.source) \in ranks
      BY <1>6, <2>1
    <3>2. m = Rank(e.source) + 1 /\ m <= Rank(e.source)
      BY <1>3, <1>4, <1>5, <1>6, <3>1 DEF WellMade
    <3> QED
      BY <3>2, RankIsNumber
  <2> QED
    BY <2>1
<1>8. e.source[1] = "clean"
  BY <1>4, <1>5, <1>6, <1>7 DEF WellMade
<1>9. e.source # c
  BY <1>7
<1> QED
  BY <1>6, <1>8, <1>9 DEF A

\* from a loaded figure through the enriched columns to the notional
LEMMA LoadIsTraced ==
  ASSUME IInv, NEW b, NEW n \in Figures, Made(b, <<"fact_trades", n>>)
  PROVE  /\ <<"fact_trades", n>> \in Nodes(LoadGraph({b}))
         /\ <<"clean", "notional">> \in AncestorsOf(LoadGraph({b}))[<<"fact_trades", n>>]
<1> DEFINE G == LoadGraph({b})
           c == <<"fact_trades", n>>
           A == AncestorsOf(G)[c] \union {c}
<1>1. IsFiniteSet(G) /\ \A e \in G : WellMade(e)
  BY GraphFacts
<1>2. c \in Nodes(G)
  BY DEF Made, Nodes
<1>3. Closed(G, A) /\ c \in A
  BY <1>1, <1>2, AncestorFacts
<1> HIDE DEF A
<1>4. <<"enriched", n>> \in A /\ Made(b, <<"enriched", n>>)
  <2>1. PICK e \in G : e.target = c
    BY DEF Made
  <2>2. e.source = <<"enriched", n>> /\ e.source \in A
    BY <1>1, <1>3, <2>1 DEF WellMade, Closed
  <2>3. Derived(e.source)
    BY <2>2 DEF Derived
  <2> QED
    BY <2>2, <2>3, SourcesAreMade
<1>5. <<"enriched", "notional_usd">> \in A /\ Made(b, <<"enriched", "notional_usd">>)
  <2>1. CASE n = "notional_usd"
    BY <1>4, <2>1
  <2>2. CASE n # "notional_usd"
    <3>1. n \in {"notional_eur", "net_notional_usd"}
      BY <2>2, FigureNames
    <3>2. PICK e \in G : e.target = <<"enriched", n>>
      BY <1>4 DEF Made
    <3>3. e.source = <<"enriched", "notional_usd">> /\ e.source \in A
      BY <1>1, <1>3, <1>4, <3>1, <3>2 DEF WellMade, Closed
    <3>4. Derived(e.source)
      BY <3>3 DEF Derived
    <3> QED
      BY <3>3, <3>4, SourcesAreMade
  <2> QED
    BY <2>1, <2>2
<1>6. <<"clean", "notional">> \in A
  <2>1. PICK e \in G : e.target = <<"enriched", "notional_usd">>
    BY <1>5 DEF Made
  <2>2. WellMade(e) /\ e.source \in A
    BY <1>1, <1>3, <1>5, <2>1 DEF Closed
  <2> QED
    BY <2>1, <2>2 DEF WellMade
<1>7. <<"clean", "notional">> # c
  OBVIOUS
<1> QED
  BY <1>2, <1>6, <1>7 DEF A

\* No figure loses its origin. Whatever is stored of enriched, reported or loaded columns,
\* of failed and cut-short runs too, leads back to a clean column in its own batch; and after a
\* run that loaded rows and stored its lineage, each loaded figure leads back to the notional.
THEOREM FiguresAreTraced == Spec => []FiguresTraced
<1>1. ASSUME IInv PROVE DerivedTracesToClean
  <2> SUFFICES ASSUME NEW b \in Batches, NEW c \in DOMAIN AncestorsOf(LoadGraph({b})),
                      c[1] \in {"enriched", "risk_report", "fact_trades"}
               PROVE  \E a \in AncestorsOf(LoadGraph({b}))[c] : a[1] = "clean"
    BY DEF DerivedTracesToClean
  <2>1. c \in Nodes(LoadGraph({b})) /\ Derived(c)
    BY DEF AncestorsOf, Derived
  <2> QED
    BY <1>1, <2>1, DerivedIsTraced
<1>2. ASSUME IInv PROVE LoadedFiguresTraced
  <2> SUFFICES ASSUME pc = "idle", ended = "stored", ~empty,
                      \E k \in DOMAIN plan : plan[k] = "WriteStarSchema",
                      NEW k \in DOMAIN LoadColumns
               PROVE  LET anc == AncestorsOf(LoadGraph({batch})) IN
                        /\ <<"fact_trades", LoadColumns[k]>> \in DOMAIN anc
                        /\ <<"clean", "notional">> \in anc[<<"fact_trades", LoadColumns[k]>>]
    BY DEF LoadedFiguresTraced, Settled
  <2> DEFINE n == LoadColumns[k]
  <2>1. n \in Figures
    BY DEF Figures
  <2> HIDE DEF n
  <2>2. PICK r \in lineageEdges : r.batch = batch /\ r.target = <<"fact_trades", n>>
    BY <1>2, <2>1 DEF IInv, LoadsReached
  <2>3. Edge(r.source, r.target, r.transform) \in LoadGraph({batch})
    BY <2>2 DEF LoadGraph
  <2>4. Made(batch, <<"fact_trades", n>>)
    BY <2>2, <2>3, EdgeFacts DEF Made
  <2>5. /\ <<"fact_trades", n>> \in Nodes(LoadGraph({batch}))
        /\ <<"clean", "notional">> \in AncestorsOf(LoadGraph({batch}))[<<"fact_trades", n>>]
    BY <1>2, <2>1, <2>4, LoadIsTraced
  <2>6. DOMAIN AncestorsOf(LoadGraph({batch})) = Nodes(LoadGraph({batch}))
    BY DEF AncestorsOf
  <2> QED
    BY <2>5, <2>6 DEF n
<1>3. IInv => FiguresTraced
  BY <1>1, <1>2 DEF FiguresTraced
<1> QED
  BY <1>3, LineageInvariant, PTL

-----------------------------------------------------------------------------
(* The RDF database of GraphStore *)

(* The database is the union of the documents that reached it: no call adds,  *)
(* loses or changes triples of one document on behalf of another.             *)
TriplesArePosted == triples = UNION {DocTriples(d) : d \in posted}

LEMMA InitTriples == StoreInit => TriplesArePosted
  BY DEF StoreInit, TriplesArePosted

LEMMA PostKeeps ==
  ASSUME NEW d, TriplesArePosted, PostTurtle(d)
  PROVE  TriplesArePosted'
<1>1. triples' = triples \union DocTriples(d) /\ posted' = posted \union {d}
  BY DEF PostTurtle
<1>2. UNION {DocTriples(e) : e \in posted \union {d}}
        = (UNION {DocTriples(e) : e \in posted}) \union DocTriples(d)
  OBVIOUS
<1> QED
  BY <1>1, <1>2 DEF TriplesArePosted, DocTriples

LEMMA NextTriples == TriplesArePosted /\ [StoreNext]_storeVars => TriplesArePosted'
<1> SUFFICES ASSUME TriplesArePosted, [StoreNext]_storeVars
             PROVE  TriplesArePosted'
  OBVIOUS
<1>1. CASE UNCHANGED inRdf
  BY <1>1 DEF inRdf, TriplesArePosted, DocTriples
<1>2. CASE PersistToStardog
  BY <1>2, PostKeeps DEF PersistToStardog
<1>3. CASE WriteEdges
  BY <1>3, PostKeeps DEF WriteEdges
<1>4. CASE ClearDatabase
  BY <1>4 DEF ClearDatabase, TriplesArePosted
<1>5. PersistRun \/ NewGraph \/ BuildFromDuckDB \/ AddFromTracker \/ SaveJson \/ LoadJson
        \/ UNCHANGED storeVars => UNCHANGED inRdf
  BY DEF PersistRun, NewGraph, BuildFromDuckDB, AddFromTracker, SaveJson, LoadJson, storeVars
<1> QED
  BY <1>1, <1>2, <1>3, <1>4, <1>5 DEF StoreNext

(* Every document written stays in the database, whole, until it is cleared. *)
THEOREM TriplesSound == StoreSpec => []TriplesArePosted
  BY InitTriples, NextTriples, PTL DEF StoreSpec

-----------------------------------------------------------------------------
(* Where the triples of an edge are, and where a triple comes from *)

LEMMA EdgeHasTriples ==
  ASSUME TriplesArePosted, NEW d \in posted, NEW k \in DOMAIN d
  PROVE  /\ <<k, "source", SafeUri[d[k].source]>> \in triples
         /\ <<k, "target", SafeUri[d[k].target]>> \in triples
         /\ <<k, "transform", d[k].transform>> \in triples
  BY DEF TriplesArePosted, DocTriples

LEMMA TripleHasEdge ==
  ASSUME TriplesArePosted, NEW t \in triples
  PROVE  \E d \in posted : \E k \in DOMAIN d :
            /\ t[1] = k
            /\ t[2] = "source" => t[3] = SafeUri[d[k].source]
            /\ t[2] = "target" => t[3] = SafeUri[d[k].target]
            /\ t[2] = "transform" => t[3] = d[k].transform
  BY DEF TriplesArePosted, DocTriples

LEMMA JoinedHas ==
  ASSUME NEW at, NEW col, NEW ask, NEW t \in triples, t[2] = ask, <<t[1], at, col>> \in triples,
         NEW u \in triples, u[1] = t[1], u[2] = "transform"
  PROVE  <<t[3], u[3]>> \in Joined(at, col, ask)
  BY DEF Joined

(* The queries find every edge of every document. *)
LEMMA EdgeAnswered ==
  ASSUME TriplesArePosted, NEW e \in EdgesPosted, NEW c
  PROVE  /\ SameUri(e.target, c) => <<SafeUri[e.source], e.transform>> \in TraceAncestry(c)
         /\ SameUri(e.source, c) => <<SafeUri[e.target], e.transform>> \in TraceImpact(c)
         /\ SameUri(e.source, c) \/ SameUri(e.target, c) => e.transform \in TransformsForColumn(c)
<1>1. PICK d \in posted : \E k \in DOMAIN d : e = d[k]
  BY DEF EdgesPosted
<1> PICK k \in DOMAIN d : e = d[k]
  BY <1>1
<1> DEFINE s == <<k, "source", SafeUri[e.source]>>
           t == <<k, "target", SafeUri[e.target]>>
           n == <<k, "transform", e.transform>>
<1>2. s \in triples /\ t \in triples /\ n \in triples
  BY EdgeHasTriples
<1>3. s[1] = k /\ t[1] = k /\ n[1] = k /\ s[2] = "source" /\ t[2] = "target" /\ n[2] = "transform"
        /\ s[3] = SafeUri[e.source] /\ t[3] = SafeUri[e.target] /\ n[3] = e.transform
  OBVIOUS
<1>4. ASSUME SameUri(e.target, c) PROVE <<SafeUri[e.source], e.transform>> \in TraceAncestry(c)
  <2>1. <<s[1], "target", SafeUri[c]>> \in triples
    BY <1>2, <1>3, <1>4 DEF SameUri
  <2>2. <<s[3], n[3]>> \in Joined("target", SafeUri[c], "source")
    <3> HIDE DEF s, n
    <3> QED
      BY <1>2, <1>3, <2>1, JoinedHas
  <2> QED
    BY <2>2 DEF TraceAncestry
<1>5. ASSUME SameUri(e.source, c) PROVE <<SafeUri[e.target], e.transform>> \in TraceImpact(c)
  <2>1. <<t[1], "source", SafeUri[c]>> \in triples
    BY <1>2, <1>3, <1>5 DEF SameUri
  <2>2. <<t[3], n[3]>> \in Joined("source", SafeUri[c], "target")
    <3> HIDE DEF t, n
    <3> QED
      BY <1>2, <1>3, <2>1, JoinedHas
  <2> QED
    BY <2>2 DEF TraceImpact
<1>6. ASSUME SameUri(e.source, c) \/ SameUri(e.target, c)
      PROVE  e.transform \in TransformsForColumn(c)
  <2>1. \E at \in {"source", "target"} : <<n[1], at, SafeUri[c]>> \in triples
    BY <1>2, <1>3, <1>6 DEF SameUri
  <2> HIDE DEF s, t, n
  <2> QED
    BY <1>2, <1>3, <2>1 DEF TransformsForColumn
<1> QED
  BY <1>4, <1>5, <1>6

-----------------------------------------------------------------------------
(* If the documents agree, a resource is one edge *)

Describes(t, e) ==
    /\ t[2] = "source" => t[3] = SafeUri[e.source]
    /\ t[2] = "target" => t[3] = SafeUri[e.target]
    /\ t[2] = "transform" => t[3] = e.transform

LEMMA ResourceIsEdge ==
  ASSUME TriplesArePosted, OneDocument, NEW r \in triples
  PROVE  \E e \in EdgesPosted : \A t \in triples : t[1] = r[1] => Describes(t, e)
<1>1. PICK d \in posted : \E k \in DOMAIN d : r[1] = k
  BY TripleHasEdge
<1> PICK k \in DOMAIN d : r[1] = k
  BY <1>1
<1>2. d[k] \in EdgesPosted
  BY DEF EdgesPosted
<1>3. ASSUME NEW t \in triples, t[1] = r[1]
      PROVE  Describes(t, d[k])
  <2>1. PICK f \in posted : \E j \in DOMAIN f : t[1] = j /\ Describes(t, f[j])
    BY TripleHasEdge DEF Describes
  <2>2. k \in DOMAIN f /\ Describes(t, f[k])
    BY <1>3, <2>1
  <2>3. f[k] = d[k]
    BY <2>2 DEF OneDocument
  <2> QED
    BY <2>2, <2>3
<1> QED
  BY <1>2, <1>3

LEMMA JoinedIsEdge ==
  ASSUME TriplesArePosted, OneDocument, NEW at, NEW ask, NEW col, NEW x \in Joined(at, col, ask)
  PROVE  \E e \in EdgesPosted : \E t, u, w \in triples :
            /\ x = <<t[3], u[3]>>
            /\ t[2] = ask /\ u[2] = "transform" /\ w[2] = at /\ w[3] = col
            /\ Describes(t, e) /\ Describes(u, e) /\ Describes(w, e)
<1>1. PICK t \in triples, u \in triples :
        /\ x = <<t[3], u[3]>> /\ t[2] = ask /\ <<t[1], at, col>> \in triples
        /\ u[1] = t[1] /\ u[2] = "transform"
  BY DEF Joined
<1>2. PICK e \in EdgesPosted : \A v \in triples : v[1] = t[1] => Describes(v, e)
  BY ResourceIsEdge
<1> DEFINE w == <<t[1], at, col>>
<1>3. w \in triples /\ w[1] = t[1] /\ w[2] = at /\ w[3] = col
  BY <1>1
<1>4. Describes(t, e) /\ Describes(u, e) /\ Describes(w, e)
  BY <1>1, <1>2, <1>3
<1> QED
  BY <1>1, <1>3, <1>4

LEMMA TransformIsOfEdge ==
  ASSUME TriplesArePosted, OneDocument, NEW c, NEW x \in TransformsForColumn(c)
  PROVE  \E e \in EdgesPosted : x = e.transform /\ (SameUri(e.source, c) \/ SameUri(e.target, c))
<1>1. PICK t \in triples, at \in {"source", "target"} :
        x = t[3] /\ t[2] = "transform" /\ <<t[1], at, SafeUri[c]>> \in triples
  BY DEF TransformsForColumn
<1>2. PICK e \in EdgesPosted : \A v \in triples : v[1] = t[1] => Describes(v, e)
  BY ResourceIsEdge
<1> DEFINE w == <<t[1], at, SafeUri[c]>>
<1>3. w \in triples /\ w[1] = t[1] /\ w[2] = at /\ w[3] = SafeUri[c]
  BY <1>1
<1>4. Describes(t, e) /\ Describes(w, e)
  BY <1>2, <1>3
<1> QED
  BY <1>1, <1>3, <1>4 DEF Describes, SameUri

LEMMA AgreedIsExact ==
  ASSUME TriplesArePosted, OneDocument, NEW c
  PROVE  /\ TraceAncestry(c) = {<<SafeUri[e.source], e.transform>> :
                                   e \in {f \in EdgesPosted : SameUri(f.target, c)}}
         /\ TraceImpact(c) = {<<SafeUri[e.target], e.transform>> :
                                   e \in {f \in EdgesPosted : SameUri(f.source, c)}}
         /\ TransformsForColumn(c) =
               {e.transform : e \in {f \in EdgesPosted :
                                       SameUri(f.source, c) \/ SameUri(f.target, c)}}
<1>1. ASSUME NEW x \in TraceAncestry(c)
      PROVE  \E e \in EdgesPosted : SameUri(e.target, c) /\ x = <<SafeUri[e.source], e.transform>>
  <2>1. x \in Joined("target", SafeUri[c], "source")
    BY <1>1 DEF TraceAncestry
  <2> QED
    BY <2>1, JoinedIsEdge DEF Describes, SameUri
<1>2. ASSUME NEW x \in TraceImpact(c)
      PROVE  \E e \in EdgesPosted : SameUri(e.source, c) /\ x = <<SafeUri[e.target], e.transform>>
  <2>1. x \in Joined("source", SafeUri[c], "target")
    BY <1>2 DEF TraceImpact
  <2> QED
    BY <2>1, JoinedIsEdge DEF Describes, SameUri
<1>3. TraceAncestry(c) = {<<SafeUri[e.source], e.transform>> :
                            e \in {f \in EdgesPosted : SameUri(f.target, c)}}
  BY <1>1, EdgeAnswered
<1>4. TraceImpact(c) = {<<SafeUri[e.target], e.transform>> :
                          e \in {f \in EdgesPosted : SameUri(f.source, c)}}
  BY <1>2, EdgeAnswered
<1>5. TransformsForColumn(c) =
        {e.transform : e \in {f \in EdgesPosted : SameUri(f.source, c) \/ SameUri(f.target, c)}}
  <2>1. \A x \in TransformsForColumn(c) :
          \E e \in EdgesPosted : x = e.transform /\ (SameUri(e.source, c) \/ SameUri(e.target, c))
    BY TransformIsOfEdge
  <2>2. \A e \in EdgesPosted : SameUri(e.source, c) \/ SameUri(e.target, c)
                                 => e.transform \in TransformsForColumn(c)
    BY EdgeAnswered
  <2> QED
    BY <2>1, <2>2
<1> QED
  BY <1>3, <1>4, <1>5

(* The answers miss no direct edge and have no false one, as long as the       *)
(* documents agree: to repeat a write, or to write a list that has only grown  *)
(* at its end, is safe.                                                        *)
THEOREM AgreedDocumentsExact == StoreSpec => []OneDocumentIsExact
<1>1. TriplesArePosted => OneDocumentIsExact
  BY AgreedIsExact DEF OneDocumentIsExact
<1> QED
  BY <1>1, TriplesSound, PTL

-----------------------------------------------------------------------------
(* Edges added to a graph *)

\* one edge for each pair of columns
Single(g) == \A j, k \in DOMAIN g : SamePair(g[j], g[k]) => j = k

\* those of g whose pair no edge of the list has
Untouched(g, list) == {e \in ToSet(g) : \A k \in DOMAIN list : ~SamePair(e, list[k])}

LEMMA InSet == \A s : \A e : e \in ToSet(s) <=> \E k \in DOMAIN s : e = s[k]
  BY DEF ToSet

LEMMA AddEdgeFacts ==
  ASSUME NEW g \in Seq(StoredEdge), Single(g), NEW e \in StoredEdge
  PROVE  /\ AddEdge(g, e) \in Seq(StoredEdge) /\ Single(AddEdge(g, e))
         /\ \A x : x \in ToSet(AddEdge(g, e)) <=> x = e \/ (x \in ToSet(g) /\ ~SamePair(x, e))
<1> DEFINE h == AddEdge(g, e)
           n == Len(g)
<1>1. n \in Nat /\ DOMAIN g = 1 .. n /\ \A k \in 1 .. n : g[k] \in StoredEdge
  OBVIOUS
<1>2. CASE \E k \in DOMAIN g : SamePair(g[k], e)
  <2>1. h = [k \in DOMAIN g |-> IF SamePair(g[k], e) THEN e ELSE g[k]]
    BY <1>2 DEF AddEdge
  <2> HIDE DEF h
  <2>2. DOMAIN h = 1 .. n /\ \A k \in 1 .. n : h[k] = IF SamePair(g[k], e) THEN e ELSE g[k]
    BY <2>1, <1>1
  <2>3. h \in Seq(StoredEdge)
    <3>1. h \in [1 .. n -> StoredEdge]
      BY <1>1, <2>1, <2>2
    <3> HIDE DEF n
    <3> QED
      BY <1>1, <3>1, FunctionIsSeq
  <2>4. Single(h)
    <3>1. \A k \in 1 .. n : SamePair(h[k], g[k])
      BY <2>2 DEF SamePair
    <3> QED
      BY <1>1, <2>2, <3>1 DEF Single, SamePair
  <2>5. \A x : x \in ToSet(h) <=> x = e \/ (x \in ToSet(g) /\ ~SamePair(x, e))
    BY <1>1, <1>2, <2>2, InSet
  <2> QED
    BY <2>3, <2>4, <2>5 DEF h
<1>3. CASE ~\E k \in DOMAIN g : SamePair(g[k], e)
  <2>1. h = Append(g, e)
    BY <1>3 DEF AddEdge
  <2> HIDE DEF h
  <2>2. /\ h \in Seq(StoredEdge) /\ DOMAIN h = 1 .. n + 1 /\ h[n + 1] = e
        /\ \A k \in 1 .. n : h[k] = g[k]
    BY <2>1, <1>1
  <2> HIDE DEF n
  <2>3. Single(h)
    <3> SUFFICES ASSUME NEW j \in 1 .. n + 1, NEW k \in 1 .. n + 1, SamePair(h[j], h[k])
                 PROVE  j = k
      BY <2>2 DEF Single
    <3>1. (j \in 1 .. n \/ j = n + 1) /\ (k \in 1 .. n \/ k = n + 1)
      BY <1>1
    <3> QED
      BY <1>1, <1>3, <2>2, <3>1 DEF Single, SamePair
  <2>4. \A x : x \in ToSet(h) <=> x = e \/ (x \in ToSet(g) /\ ~SamePair(x, e))
    <3>1. \A k \in 1 .. n + 1 : k \in 1 .. n \/ k = n + 1
      BY <1>1
    <3>2. n + 1 \in 1 .. n + 1 /\ \A k \in 1 .. n : k \in 1 .. n + 1
      BY <1>1
    <3> QED
      BY <1>1, <1>3, <2>2, <3>1, <3>2, InSet
  <2> QED
    BY <2>2, <2>3, <2>4 DEF h
<1> QED
  BY <1>2, <1>3

\* the pair of each edge of a list has a last edge in it
LEMMA LastsHit ==
  ASSUME NEW list \in Seq(StoredEdge), NEW k \in DOMAIN list
  PROVE  \E e \in LastOfPairs(list) : SamePair(list[k], e)
<1> DEFINE n == Len(list)
           S == {n - j : j \in {i \in DOMAIN list : SamePair(list[k], list[i])}}
<1>1. n \in Nat /\ DOMAIN list = 1 .. n
  OBVIOUS
<1> HIDE DEF n
<1>2. PICK m \in S : \A i \in S : m <= i
  <2>1. S \in SUBSET Nat /\ S # {}
    BY <1>1 DEF SamePair
  <2> HIDE DEF S
  <2> QED
    BY <2>1, HasLeast
<1>3. PICK j \in DOMAIN list : SamePair(list[k], list[j]) /\ m = n - j
  BY <1>2
<1>4. ASSUME NEW i \in DOMAIN list, SamePair(list[i], list[j])
      PROVE  i <= j
  <2>1. SamePair(list[k], list[i])
    BY <1>3, <1>4 DEF SamePair
  <2>2. n - j <= n - i
    BY <1>2, <1>3, <2>1
  <2> QED
    BY <2>2, <1>1
<1>5. list[j] \in LastOfPairs(list)
  BY <1>4 DEF LastOfPairs
<1> QED
  BY <1>3, <1>5

LEMMA AddAllFacts ==
  ASSUME NEW g \in Seq(StoredEdge), Single(g), NEW list \in Seq(StoredEdge)
  PROVE  /\ AddAll(g, list) \in Seq(StoredEdge) /\ Single(AddAll(g, list))
         /\ ToSet(AddAll(g, list)) = LastOfPairs(list) \union Untouched(g, list)
<1> DEFINE n == Len(list)
           X == {h \in Seq(StoredEdge) : Single(h)}
           L == [p \in X \X (1 .. n) |-> AddEdge(p[1], list[p[2]])]
           Adding(f) == f = [k \in 0 .. n |-> IF k = 0 THEN g ELSE AddEdge(f[k - 1], list[k])]
<1>1. n \in Nat /\ DOMAIN list = 1 .. n /\ \A k \in 1 .. n : list[k] \in StoredEdge
  OBVIOUS
<1> HIDE DEF n
<1>2. \A h \in X, k \in 1 .. n : AddEdge(h, list[k]) \in X
  BY <1>1, AddEdgeFacts
<1>3. PICK f : Loop(X, g, n, L, f)
  <2>1. g \in X /\ L \in [X \X (1 .. n) -> X]
    BY <1>2
  <2> HIDE DEF X, L
  <2> QED
    BY <1>1, <2>1, Iterates
<1>4. f \in [0 .. n -> X] /\ f[0] = g
      /\ \A k \in 1 .. n : k - 1 \in 0 .. n /\ f[k - 1] \in X /\ f[k] = AddEdge(f[k - 1], list[k])
  <2>1. f \in [0 .. n -> X] /\ f[0] = g /\ \A k \in 1 .. n : f[k] = L[<<f[k - 1], k>>]
    BY <1>3 DEF Loop
  <2>2. ASSUME NEW k \in 1 .. n
        PROVE  k - 1 \in 0 .. n /\ f[k - 1] \in X /\ f[k] = AddEdge(f[k - 1], list[k])
    <3>1. k - 1 \in 0 .. n
      BY <1>1
    <3>2. f[k - 1] \in X
      BY <2>1, <3>1
    <3> QED
      BY <2>1, <3>1, <3>2
  <2> HIDE DEF X, L
  <2> QED
    BY <2>1, <2>2
<1>5. Adding(f)
  <2>1. \A k \in 0 .. n : k # 0 => k \in 1 .. n
    BY <1>1
  <2>2. f = [k \in 0 .. n |-> f[k]]
    BY <1>4
  <2>3. \A k \in 0 .. n : f[k] = IF k = 0 THEN g ELSE AddEdge(f[k - 1], list[k])
    BY <1>4, <2>1
  <2> HIDE DEF X, L
  <2> QED
    BY <2>2, <2>3
<1>6. PICK r : Adding(r) /\ AddAll(g, list) = r[n]
  BY <1>5 DEF AddAll, n
<1>7. r[0] = g /\ \A k \in 1 .. n : r[k] = AddEdge(r[k - 1], list[k])
  <2>1. 0 \in 0 .. n /\ \A k \in 1 .. n : k \in 0 .. n /\ k # 0
    BY <1>1
  <2> QED
    BY <1>6, <2>1
<1> DEFINE Lately(x, k) == \E i \in 1 .. k : x = list[i] /\ \A j \in 1 .. k : SamePair(list[j], list[i]) => j <= i
           Older(x, k) == x \in ToSet(g) /\ \A j \in 1 .. k : ~SamePair(x, list[j])
           Good(k) == /\ r[k] \in Seq(StoredEdge) /\ Single(r[k])
                      /\ \A x : x \in ToSet(r[k]) <=> Lately(x, k) \/ Older(x, k)
           Bad == {k \in 0 .. n : ~Good(k)}
<1>8. Bad = {}
  <2> SUFFICES ASSUME Bad # {} PROVE FALSE
    OBVIOUS
  <2>1. PICK m \in Bad : \A k \in Bad : m <= k
    <3>1. Bad \in SUBSET Nat
      BY <1>1
    <3> HIDE DEF Bad
    <3> QED
      BY <3>1, HasLeast
  <2>2. m # 0
    <3>1. Good(0)
      BY <1>7
    <3> QED
      BY <3>1
  <2>3. m \in 1 .. n /\ m - 1 \in 0 .. n /\ m - 1 \notin Bad
    <3>1. m \in 0 .. n /\ m # 0
      BY <2>1, <2>2
    <3>2. m \in 1 .. n /\ m - 1 \in 0 .. n /\ ~(m <= m - 1)
      BY <3>1, <1>1
    <3> HIDE DEF Bad
    <3> QED
      BY <2>1, <3>2
  <2>4. Good(m - 1)
    BY <2>3
  <2>5. r[m] = AddEdge(r[m - 1], list[m]) /\ list[m] \in StoredEdge
    BY <1>1, <1>7, <2>3
  <2>6. /\ r[m] \in Seq(StoredEdge) /\ Single(r[m])
        /\ \A x : x \in ToSet(r[m]) <=> x = list[m] \/ (x \in ToSet(r[m - 1]) /\ ~SamePair(x, list[m]))
    <3> DEFINE s == r[m - 1]
               e == list[m]
    <3>1. s \in Seq(StoredEdge) /\ Single(s) /\ e \in StoredEdge /\ r[m] = AddEdge(s, e)
      BY <2>4, <2>5
    <3> HIDE DEF s, e
    <3>2. /\ r[m] \in Seq(StoredEdge) /\ Single(r[m])
          /\ \A x : x \in ToSet(r[m]) <=> x = e \/ (x \in ToSet(s) /\ ~SamePair(x, e))
      BY <3>1, AddEdgeFacts
    <3> QED
      BY <3>2 DEF s, e
  <2>7. \A j \in 1 .. m : j = m \/ j \in 1 .. m - 1
    BY <2>3, <1>1
  <2>8. m \in 1 .. m /\ \A j \in 1 .. m - 1 : j \in 1 .. m /\ ~(m <= j)
    BY <2>3, <1>1
  <2>9. ASSUME NEW x
        PROVE  x \in ToSet(r[m]) <=> Lately(x, m) \/ Older(x, m)
    <3>1. x = list[m] => Lately(x, m)
      BY <2>3, <2>8
    <3>2. Lately(x, m - 1) /\ ~SamePair(x, list[m]) => Lately(x, m)
      BY <2>7, <2>8 DEF SamePair
    <3>3. Older(x, m - 1) /\ ~SamePair(x, list[m]) => Older(x, m)
      BY <2>7
    <3>4. Lately(x, m) => x = list[m] \/ (Lately(x, m - 1) /\ ~SamePair(x, list[m]))
      BY <2>7, <2>8 DEF SamePair
    <3>5. Older(x, m) => Older(x, m - 1) /\ ~SamePair(x, list[m])
      BY <2>8
    <3> HIDE DEF Lately, Older
    <3> QED
      BY <2>4, <2>6, <3>1, <3>2, <3>3, <3>4, <3>5
  <2>10. Good(m)
    BY <2>6, <2>9
  <2> QED
    BY <2>1, <2>10
<1>9. Good(n)
  <2> HIDE DEF Good
  <2>1. n \in 0 .. n
    BY <1>1
  <2> QED
    BY <2>1, <1>8
<1>10. \A x : Lately(x, n) <=> x \in LastOfPairs(list)
  BY <1>1 DEF LastOfPairs
<1>11. \A x : Older(x, n) <=> x \in Untouched(g, list)
  BY <1>1 DEF Untouched
<1> DEFINE h == r[n]
<1>12. h \in Seq(StoredEdge) /\ Single(h)
       /\ \A x : x \in ToSet(h) <=> Lately(x, n) \/ Older(x, n)
  BY <1>9
<1>13. AddAll(g, list) = h
  BY <1>6
<1> HIDE DEF h, Lately, Older
<1> QED
  BY <1>10, <1>11, <1>12, <1>13

-----------------------------------------------------------------------------
(* The edges as they are listed *)

LEMMA PlaceFacts ==
  ASSUME NEW g \in Seq(StoredEdge), NEW c, \E k \in DOMAIN g : g[k].source = c
  PROVE  /\ NodePlace(g, c) \in Nat
         /\ \E k \in DOMAIN g : \/ NodePlace(g, c) = 2 * k /\ g[k].source = c
                                \/ NodePlace(g, c) = 2 * k + 1 /\ g[k].target = c
<1> DEFINE S == {2 * k : k \in {j \in DOMAIN g : g[j].source = c}}
                  \union {2 * k + 1 : k \in {j \in DOMAIN g : g[j].target = c}}
<1>1. DOMAIN g \in SUBSET Nat
  OBVIOUS
<1>2. S \in SUBSET Nat /\ S # {}
  <2>1. \A k \in DOMAIN g : 2 * k \in Nat /\ 2 * k + 1 \in Nat
    BY <1>1
  <2>2. S \in SUBSET Nat
    BY <2>1
  <2>3. PICK k \in DOMAIN g : g[k].source = c
    OBVIOUS
  <2>4. 2 * k \in S
    BY <2>3
  <2> HIDE DEF S
  <2> QED
    BY <2>2, <2>4
<1>3. NodePlace(g, c) = CHOOSE x \in S : \A y \in S : x <= y
  BY DEF NodePlace, Min
<1>4. \A x \in S : \E k \in DOMAIN g : \/ x = 2 * k /\ g[k].source = c
                                       \/ x = 2 * k + 1 /\ g[k].target = c
  OBVIOUS
<1> HIDE DEF S
<1>5. NodePlace(g, c) \in S
  BY <1>2, <1>3, HasLeast
<1> QED
  BY <1>2, <1>4, <1>5

\* Columns have different places.
LEMMA PlacesDiffer ==
  ASSUME NEW g \in Seq(StoredEdge), NEW i \in DOMAIN g, NEW j \in DOMAIN g,
         NodePlace(g, g[i].source) = NodePlace(g, g[j].source)
  PROVE  g[i].source = g[j].source
<1> DEFINE p == NodePlace(g, g[i].source)
<1>1. PICK k \in DOMAIN g : \/ p = 2 * k /\ g[k].source = g[i].source
                            \/ p = 2 * k + 1 /\ g[k].target = g[i].source
  BY PlaceFacts
<1>2. PICK l \in DOMAIN g : \/ p = 2 * l /\ g[l].source = g[j].source
                            \/ p = 2 * l + 1 /\ g[l].target = g[j].source
  BY PlaceFacts
<1>3. k \in Nat /\ l \in Nat
  OBVIOUS
<1> HIDE DEF p
<1>4. k = l
  BY <1>1, <1>2, <1>3
<1>5. 2 * k # 2 * k + 1
  BY <1>3
<1> QED
  BY <1>1, <1>2, <1>4, <1>5

\* The list is a strict total order of the edges.
LEMMA AheadOrders ==
  ASSUME NEW g \in Seq(StoredEdge)
  PROVE  /\ \A j \in DOMAIN g : ~Ahead(g, j, j)
         /\ \A j, k \in DOMAIN g : j # k => Ahead(g, j, k) \/ Ahead(g, k, j)
         /\ \A i, j, k \in DOMAIN g : Ahead(g, i, j) /\ Ahead(g, j, k) => Ahead(g, i, k)
<1> DEFINE P(k) == NodePlace(g, g[k].source)
<1>1. \A k \in DOMAIN g : P(k) \in Nat /\ k \in Nat
  BY PlaceFacts
<1>2. \A j, k \in DOMAIN g : g[j].source = g[k].source <=> P(j) = P(k)
  BY PlacesDiffer
<1>3. \A j, k \in DOMAIN g : Ahead(g, j, k) <=> P(j) < P(k) \/ (g[j].source = g[k].source /\ j < k)
  BY DEF Ahead
<1> HIDE DEF P
<1>4. \A j, k \in DOMAIN g : Ahead(g, j, k) <=> P(j) < P(k) \/ (P(j) = P(k) /\ j < k)
  BY <1>2, <1>3
<1>5. \A j \in DOMAIN g : ~Ahead(g, j, j)
  BY <1>1, <1>4
<1>6. \A j, k \in DOMAIN g : j # k => Ahead(g, j, k) \/ Ahead(g, k, j)
  BY <1>1, <1>4
<1>7. ASSUME NEW i \in DOMAIN g, NEW j \in DOMAIN g, NEW k \in DOMAIN g,
             Ahead(g, i, j), Ahead(g, j, k)
      PROVE  Ahead(g, i, k)
  <2>1. P(i) \in Nat /\ P(j) \in Nat /\ P(k) \in Nat /\ i \in Nat /\ j \in Nat /\ k \in Nat
    BY <1>1
  <2>2. P(i) < P(j) \/ (P(i) = P(j) /\ i < j)
    BY <1>4, <1>7
  <2>3. P(j) < P(k) \/ (P(j) = P(k) /\ j < k)
    BY <1>4, <1>7
  <2>4. P(i) < P(k) \/ (P(i) = P(k) /\ i < k)
    BY <2>1, <2>2, <2>3
  <2> QED
    BY <1>4, <2>4
<1> QED
  BY <1>5, <1>6, <1>7

\* It has each edge of the graph, and no other.
LEMMA EdgeListFacts ==
  ASSUME NEW g \in Seq(StoredEdge)
  PROVE  EdgeList(g) \in Seq(StoredEdge) /\ ToSet(EdgeList(g)) = ToSet(g)
<1> DEFINE n == Len(g)
           Before(k) == {j \in DOMAIN g : Ahead(g, j, k)}
           place == [k \in 1 .. n |-> Cardinality(Before(k))]
           behind(m) == CHOOSE k \in DOMAIN g : Cardinality(Before(k)) = m
<1>1. n \in Nat /\ DOMAIN g = 1 .. n /\ \A k \in 1 .. n : g[k] \in StoredEdge
  OBVIOUS
<1>2. EdgeList(g) = [m \in DOMAIN g |-> g[behind(m - 1)]]
  BY DEF EdgeList
<1> HIDE DEF n
<1>3. IsFiniteSet(DOMAIN g) /\ Cardinality(DOMAIN g) = n
  <2>1. IsFiniteSet(1 .. n) /\ Cardinality(1 .. n) = n
    BY <1>1, FS_Interval
  <2> QED
    BY <1>1, <2>1
<1>4. ASSUME NEW k \in DOMAIN g
      PROVE  /\ IsFiniteSet(Before(k)) /\ Cardinality(Before(k)) \in Nat
             /\ Cardinality(Before(k)) < n
  <2>1. Before(k) \in SUBSET DOMAIN g /\ Before(k) # DOMAIN g
    BY AheadOrders
  <2> HIDE DEF Before
  <2>2. /\ IsFiniteSet(Before(k)) /\ Cardinality(Before(k)) <= n
        /\ Cardinality(Before(k)) # n
    BY <1>3, <2>1, FS_Subset
  <2>3. Cardinality(Before(k)) \in Nat
    BY <2>2, FS_CardinalityType
  <2> QED
    BY <1>1, <2>2, <2>3
<1>5. ASSUME NEW j \in DOMAIN g, NEW k \in DOMAIN g, Ahead(g, j, k)
      PROVE  Cardinality(Before(j)) < Cardinality(Before(k))
  <2>1. Before(j) \subseteq Before(k) /\ j \in Before(k) /\ j \notin Before(j)
    BY <1>5, AheadOrders
  <2> HIDE DEF Before
  <2>2. Before(j) \in SUBSET Before(k) /\ Before(j) # Before(k)
    BY <2>1
  <2>3. /\ Cardinality(Before(j)) <= Cardinality(Before(k))
        /\ Cardinality(Before(j)) # Cardinality(Before(k))
    BY <1>4, <2>2, FS_Subset
  <2> QED
    BY <1>4, <2>3
<1>6. \A j, k \in DOMAIN g : Cardinality(Before(j)) = Cardinality(Before(k)) => j = k
  <2> SUFFICES ASSUME NEW j \in DOMAIN g, NEW k \in DOMAIN g, j # k
               PROVE  Cardinality(Before(j)) # Cardinality(Before(k))
    OBVIOUS
  <2>1. Ahead(g, j, k) \/ Ahead(g, k, j)
    BY AheadOrders
  <2>2. \/ Cardinality(Before(j)) < Cardinality(Before(k))
        \/ Cardinality(Before(k)) < Cardinality(Before(j))
    <3> HIDE DEF Before
    <3> QED
      BY <1>5, <2>1
  <2> HIDE DEF Before
  <2> QED
    BY <1>4, <2>2
<1> HIDE DEF Before
<1>7. place \in Injection(1 .. n, 0 .. n - 1)
  <2>1. \A k \in 1 .. n : Cardinality(Before(k)) \in 0 .. n - 1
    BY <1>1, <1>4
  <2> QED
    BY <1>1, <1>6, <2>1 DEF Injection, IsInjective
<1>8. place \in Surjection(1 .. n, 0 .. n - 1)
  <2>1. /\ IsFiniteSet(0 .. n - 1) /\ Cardinality(0 .. n - 1) = n
        /\ Cardinality(1 .. n) = n
    <3>1. 0 \in Int /\ n - 1 \in Int /\ 1 \in Int /\ n \in Int
      BY <1>1
    <3>2. /\ IsFiniteSet(0 .. n - 1)
          /\ Cardinality(0 .. n - 1) = IF 0 > n - 1 THEN 0 ELSE (n - 1) - 0 + 1
          /\ Cardinality(1 .. n) = IF 1 > n THEN 0 ELSE n - 1 + 1
      BY <3>1, FS_Interval
    <3> QED
      BY <1>1, <3>2
  <2> HIDE DEF place
  <2> QED
    BY <1>7, <2>1, FS_Injection
<1>9. ASSUME NEW m \in 0 .. n - 1
      PROVE  behind(m) \in DOMAIN g /\ Cardinality(Before(behind(m))) = m
  <2>1. \E k \in DOMAIN g : Cardinality(Before(k)) = m
    BY <1>1, <1>8 DEF Surjection
  <2> QED
    BY <2>1
<1>10. \A k \in DOMAIN g : behind(Cardinality(Before(k))) = k
  <2>1. \A k \in DOMAIN g : Cardinality(Before(k)) \in 0 .. n - 1
    BY <1>1, <1>4
  <2> HIDE DEF behind
  <2> QED
    BY <1>6, <1>9, <2>1
<1> HIDE DEF behind
<1> DEFINE l == EdgeList(g)
<1>11. DOMAIN l = 1 .. n /\ \A m \in 1 .. n : m - 1 \in 0 .. n - 1 /\ l[m] = g[behind(m - 1)]
  BY <1>1, <1>2
<1>12. l \in Seq(StoredEdge)
  <2>1. \A m \in 1 .. n : l[m] \in StoredEdge
    BY <1>1, <1>9, <1>11
  <2>2. l = [m \in 1 .. n |-> l[m]]
    BY <1>1, <1>2
  <2> HIDE DEF l
  <2>3. l \in [1 .. n -> StoredEdge]
    BY <2>1, <2>2
  <2> QED
    BY <1>1, <2>3, FunctionIsSeq
<1> HIDE DEF l
<1>13. \A x \in ToSet(l) : x \in ToSet(g)
  <2> SUFFICES ASSUME NEW x \in ToSet(l)
               PROVE  x \in ToSet(g)
    OBVIOUS
  <2> PICK m \in DOMAIN l : x = l[m]
    BY InSet
  <2>1. behind(m - 1) \in DOMAIN g
    BY <1>9, <1>11
  <2> QED
    BY <1>11, <2>1, InSet
<1>14. \A x \in ToSet(g) : x \in ToSet(l)
  <2> SUFFICES ASSUME NEW k \in DOMAIN g
               PROVE  g[k] \in ToSet(l)
    BY InSet
  <2> DEFINE m == Cardinality(Before(k)) + 1
  <2>1. m \in 1 .. n /\ m - 1 = Cardinality(Before(k))
    BY <1>4, <1>1
  <2>2. l[m] = g[k]
    BY <1>10, <1>11, <2>1
  <2> HIDE DEF m
  <2> QED
    BY <1>11, <2>1, <2>2, InSet
<1>15. ToSet(l) = ToSet(g)
  BY <1>13, <1>14
<1> QED
  BY <1>12, <1>15 DEF l

\* a query's answer has all rows, in the order of their times
LEMMA OrderedFacts ==
  ASSUME NEW rows, IsFiniteSet(rows), NEW list \in Ordered(rows)
  PROVE  /\ list \in Seq(rows) /\ \A r \in rows : \E k \in DOMAIN list : list[k] = r
         /\ \A j, k \in DOMAIN list : j < k => list[j].ts <= list[k].ts
<1> DEFINE n == Cardinality(rows)
<1>1. n \in Nat
  BY FS_CardinalityType
<1>2. /\ list \in [1 .. n -> rows]
      /\ \A i, j \in 1 .. n : i # j => list[i] # list[j]
      /\ \A j, k \in DOMAIN list : j < k => list[j].ts <= list[k].ts
  BY DEF Ordered, SetToSeqs
<1>3. Cardinality(1 .. n) = n
  <2>1. Cardinality(1 .. n) = IF 1 > n THEN 0 ELSE n - 1 + 1
    BY <1>1, FS_Interval
  <2> QED
    BY <1>1, <2>1
<1> HIDE DEF n
<1>4. list \in Injection(1 .. n, rows)
  BY <1>2 DEF Injection, IsInjective
<1>5. list \in Surjection(1 .. n, rows)
  <2>1. Cardinality(1 .. n) = Cardinality(rows)
    BY <1>3 DEF n
  <2> QED
    BY <1>4, <2>1, FS_Injection
<1>6. list \in Seq(rows)
  BY <1>1, <1>2, FunctionIsSeq
<1>7. \A r \in rows : \E k \in DOMAIN list : list[k] = r
  BY <1>2, <1>5 DEF Surjection
<1> QED
  BY <1>2, <1>6, <1>7

-----------------------------------------------------------------------------
(* The invariant of GraphStore *)

StoreInv ==
    /\ StoreTypeOK /\ ShowsLatest
    /\ IsFiniteSet(lineageRows) /\ IsFiniteSet(posted)
    /\ saved = ToSet(file)

LEMMA EdgesOfFacts ==
  ASSUME NEW r \in Runs, NEW b \in BatchIds \union {Unknown}
  PROVE  /\ EdgesOf(r, b) \in Seq(StoredEdge)
         /\ Len(r.edges) \in Nat /\ DOMAIN r.edges = 1 .. Len(r.edges)
         /\ \A k \in DOMAIN r.edges : InBatch(r.edges[k], b) \in StoredEdge
         /\ r.batch \in BatchIds
<1> DEFINE n == Len(r.edges)
           es == EdgesOf(r, b)
<1>1. /\ r.batch \in BatchIds /\ n \in Nat /\ DOMAIN r.edges = 1 .. n
      /\ \A k \in 1 .. n :
            r.edges[k] \in [source : Columns, target : Columns, transform : TransformNames]
  <2> DEFINE T == [source : Columns, target : Columns, transform : TransformNames]
             s == r.edges
  <2>1. r.batch \in BatchIds /\ s \in Seq(T)
    BY RunsAssumption
  <2> HIDE DEF T, s
  <2>2. Len(s) \in Nat /\ DOMAIN s = 1 .. Len(s) /\ \A k \in 1 .. Len(s) : s[k] \in T
    BY <2>1
  <2> QED
    BY <2>1, <2>2 DEF T, s
<1>2. \A k \in 1 .. n : InBatch(r.edges[k], b) \in StoredEdge
  BY <1>1 DEF InBatch, StoredEdge
<1>3. es = [k \in 1 .. n |-> InBatch(r.edges[k], b)]
  BY <1>1 DEF EdgesOf
<1> HIDE DEF n, es
<1>4. es \in [1 .. n -> StoredEdge]
  BY <1>2, <1>3
<1>5. es \in Seq(StoredEdge)
  BY <1>1, <1>4, FunctionIsSeq
<1> QED
  BY <1>1, <1>2, <1>5 DEF n, es

\* a filling with the edges of a list, of which some may count as the last of their pair
LEMMA FillingShows ==
  ASSUME StoreInv, NEW list \in Seq(StoredEdge), NEW new \in SUBSET StoredEdge,
         LastOfPairs(list) \subseteq new, \A e \in new : \E k \in DOMAIN list : e = list[k],
         graph' = AddAll(graph, list), meant' = Overlaid(new)
  PROVE  graph' \in Seq(StoredEdge) /\ meant' \subseteq StoredEdge /\ ShowsLatest'
<1>1. graph \in Seq(StoredEdge) /\ Single(graph) /\ meant \subseteq StoredEdge
  BY DEF StoreInv, StoreTypeOK, ShowsLatest, Single
<1>2. /\ graph' \in Seq(StoredEdge) /\ Single(graph')
      /\ ToSet(graph') = LastOfPairs(list) \union Untouched(graph, list)
  BY <1>1, AddAllFacts
<1>3. meant' = new \union {e \in meant : \A f \in new : ~SamePair(e, f)}
  BY DEF Overlaid
<1>4. ToSet(graph') \subseteq meant'
  <2>1. ASSUME NEW e \in Untouched(graph, list)
        PROVE  e \in meant /\ \A f \in new : ~SamePair(e, f)
    BY <2>1 DEF Untouched, StoreInv, ShowsLatest
  <2> QED
    BY <1>2, <1>3, <2>1
<1>5. ASSUME NEW e \in meant'
      PROVE  \E f \in ToSet(graph') : SamePair(e, f)
  <2>1. CASE e \in new
    <3>1. PICK k \in DOMAIN list : e = list[k]
      BY <2>1
    <3>2. \E f \in LastOfPairs(list) : SamePair(e, f)
      BY <3>1, LastsHit
    <3> QED
      BY <1>2, <3>2
  <2>2. CASE e \notin new
    <3>1. e \in meant /\ \A f \in new : ~SamePair(e, f)
      BY <1>3, <2>2
    <3>2. PICK f \in ToSet(graph) : SamePair(e, f)
      BY <3>1 DEF StoreInv, ShowsLatest
    <3>3. ASSUME NEW k \in DOMAIN list, SamePair(f, list[k])
          PROVE  FALSE
      <4>1. PICK h \in LastOfPairs(list) : SamePair(list[k], h)
        BY LastsHit
      <4>2. SamePair(e, h) /\ h \in new
        BY <3>2, <3>3, <4>1 DEF SamePair
      <4> QED
        BY <3>1, <4>2
    <3>4. f \in Untouched(graph, list)
      BY <3>3 DEF Untouched
    <3> QED
      BY <1>2, <3>2, <3>4
  <2> QED
    BY <2>1, <2>2
<1>6. ShowsLatest'
  BY <1>2, <1>4, <1>5 DEF ShowsLatest, Single
<1> QED
  BY <1>1, <1>2, <1>3, <1>6

LEMMA LastsAreListed ==
  ASSUME NEW list
  PROVE  \A e \in LastOfPairs(list) : \E k \in DOMAIN list : e = list[k]
  BY DEF LastOfPairs

LEMMA StoreInitHolds == StoreInit => StoreInv
<1> SUFFICES ASSUME StoreInit PROVE StoreInv
  OBVIOUS
<1>1. <<>> \in Seq(StoredEdge) /\ DOMAIN <<>> = {} /\ ToSet(<<>>) = {}
  BY DEF ToSet
<1>2. StoreTypeOK
  BY <1>1, BoundsAssumption DEF StoreInit, StoreTypeOK, NoFile
<1>3. ShowsLatest
  BY <1>1 DEF StoreInit, ShowsLatest
<1> QED
  BY <1>1, <1>2, <1>3, FS_EmptySet DEF StoreInit, StoreInv, NoFile

LEMMA PersistRunKeeps ==
  ASSUME StoreInv, PersistRun
  PROVE  StoreInv'
<1>1. StoreTypeOK /\ ShowsLatest
  BY DEF StoreInv
<1> DEFINE n == Cardinality(lineageRows)
<1> PICK r \in Runs : \E ts \in [DOMAIN r.edges -> 1 .. MaxTs] :
        /\ n + Len(r.edges) + Cardinality(posted) <= MaxStored
        /\ lineageRows' = lineageRows \union
              {[id |-> n + k, ts |-> ts[k], edge |-> InBatch(r.edges[k], r.batch)] :
                  k \in DOMAIN r.edges}
        /\ UNCHANGED <<inMemory, file, saved, inRdf>>
  BY DEF PersistRun
<1>2. PICK ts \in [DOMAIN r.edges -> 1 .. MaxTs] :
        /\ n + Len(r.edges) + Cardinality(posted) <= MaxStored
        /\ lineageRows' = lineageRows \union
              {[id |-> n + k, ts |-> ts[k], edge |-> InBatch(r.edges[k], r.batch)] :
                  k \in DOMAIN r.edges}
        /\ UNCHANGED <<inMemory, file, saved, inRdf>>
  OBVIOUS
<1>3. n \in Nat /\ Cardinality(posted) \in Nat
  BY FS_CardinalityType DEF StoreInv
<1>4. UNCHANGED <<graph, batchIds, fills, meant, file, saved, triples, posted>>
  BY <1>2 DEF inMemory, inRdf
<1> HIDE DEF n
<1> DEFINE f == [k \in DOMAIN r.edges |->
                    [id |-> n + k, ts |-> ts[k], edge |-> InBatch(r.edges[k], r.batch)]]
           new == {f[k] : k \in DOMAIN r.edges}
<1>5. lineageRows' = lineageRows \union new
  BY <1>2
<1>6. /\ Len(r.edges) \in Nat /\ DOMAIN r.edges = 1 .. Len(r.edges)
      /\ \A k \in DOMAIN r.edges : InBatch(r.edges[k], r.batch) \in StoredEdge
  BY EdgesOfFacts, RunsAssumption
<1>7. ASSUME NEW k \in DOMAIN r.edges
      PROVE  f[k].edge \in StoredEdge /\ f[k].id \in 1 .. MaxStored /\ f[k].ts \in 1 .. MaxTs
  <2>1. f[k].edge = InBatch(r.edges[k], r.batch) /\ f[k].id = n + k /\ f[k].ts = ts[k]
    OBVIOUS
  <2>2. n + k \in 1 .. MaxStored
    BY <1>2, <1>3, <1>6, BoundsAssumption
  <2> QED
    BY <1>6, <2>1, <2>2
<1>8. IsFiniteSet(new)
  <2> DEFINE D == DOMAIN r.edges
  <2>1. f = [k \in D |-> f[k]] /\ IsFiniteSet(D)
    BY <1>6, FS_Interval
  <2> HIDE DEF f, D
  <2>2. IsFiniteSet({f[k] : k \in D})
    BY <2>1, ImageIsFinite
  <2> QED
    BY <2>2 DEF D
<1>9. \A q \in new : q.edge \in StoredEdge /\ q.id \in 1 .. MaxStored /\ q.ts \in 1 .. MaxTs
  BY <1>7
<1> HIDE DEF new, f
<1>10. StoreTypeOK'
  BY <1>1, <1>4, <1>5, <1>9 DEF StoreTypeOK
<1>11. ShowsLatest'
  BY <1>1, <1>4 DEF ShowsLatest
<1>12. IsFiniteSet(lineageRows')
  BY <1>5, <1>8, FS_Union DEF StoreInv
<1> QED
  BY <1>4, <1>10, <1>11, <1>12 DEF StoreInv

LEMMA NewGraphKeeps ==
  ASSUME StoreInv, NewGraph
  PROVE  StoreInv'
<1>1. /\ graph' = <<>> /\ batchIds' = {} /\ fills' = 0 /\ meant' = {}
      /\ UNCHANGED <<lineageRows, file, saved, triples, posted>>
  BY DEF NewGraph, onDisk, inRdf
<1>2. <<>> \in Seq(StoredEdge) /\ DOMAIN <<>> = {} /\ ToSet(<<>>) = {}
  BY DEF ToSet
<1>3. StoreTypeOK'
  BY <1>1, <1>2, BoundsAssumption DEF StoreInv, StoreTypeOK
<1>4. ShowsLatest'
  BY <1>1, <1>2 DEF ShowsLatest
<1> QED
  BY <1>1, <1>3, <1>4 DEF StoreInv

\* what the three fillings have in common
LEMMA FillingKeeps ==
  ASSUME StoreInv, Fill, UNCHANGED <<onDisk, inRdf>>, batchIds' \subseteq BatchIds,
         graph' \in Seq(StoredEdge), meant' \subseteq StoredEdge, ShowsLatest'
  PROVE  StoreInv'
<1>1. UNCHANGED <<lineageRows, file, saved, triples, posted>>
  BY DEF onDisk, inRdf
<1>2. fills' \in 0 .. MaxFills
  BY BoundsAssumption DEF Fill, StoreInv, StoreTypeOK
<1>3. StoreTypeOK'
  BY <1>1, <1>2 DEF StoreInv, StoreTypeOK
<1> QED
  BY <1>1, <1>3 DEF StoreInv

LEMMA BuildFromDuckDBKeeps ==
  ASSUME StoreInv, BuildFromDuckDB
  PROVE  StoreInv'
<1>1. PICK bs \in {BatchIds} \union {{b} : b \in BatchIds} :
        LET rows == {r \in lineageRows : r.edge.batch \in bs} IN
        /\ Fill
        /\ \E list \in Ordered(rows) :
              graph' = AddAll(graph, [k \in DOMAIN list |-> list[k].edge])
        /\ batchIds' = batchIds \union {r.edge.batch : r \in rows}
        /\ meant' = Overlaid({r.edge : r \in {r \in rows :
                        \A q \in rows : SamePair(q.edge, r.edge) => q.ts <= r.ts}})
        /\ UNCHANGED <<onDisk, inRdf>>
  BY DEF BuildFromDuckDB
<1> DEFINE rows == {r \in lineageRows : r.edge.batch \in bs}
           latest == {r \in rows : \A q \in rows : SamePair(q.edge, r.edge) => q.ts <= r.ts}
           new == {r.edge : r \in latest}
<1>2. PICK list \in Ordered(rows) : graph' = AddAll(graph, [k \in DOMAIN list |-> list[k].edge])
  BY <1>1
<1> DEFINE es == [k \in DOMAIN list |-> list[k].edge]
<1>3. /\ Fill /\ graph' = AddAll(graph, es) /\ meant' = Overlaid(new)
      /\ batchIds' = batchIds \union {r.edge.batch : r \in rows}
      /\ UNCHANGED <<onDisk, inRdf>>
  BY <1>1, <1>2
<1>4. batchIds' \subseteq BatchIds
  <2>1. bs \subseteq BatchIds /\ \A r \in rows : r.edge.batch \in bs
    OBVIOUS
  <2> QED
    BY <1>3, <2>1 DEF StoreInv, StoreTypeOK
<1>5. IsFiniteSet(rows)
  BY FS_Subset DEF StoreInv
<1>6. \A r \in rows : r.edge \in StoredEdge /\ r.ts \in Nat
  BY BoundsAssumption DEF StoreInv, StoreTypeOK
<1> HIDE DEF rows
<1>7. /\ list \in Seq(rows) /\ \A r \in rows : \E k \in DOMAIN list : list[k] = r
      /\ \A j, k \in DOMAIN list : j < k => list[j].ts <= list[k].ts
  BY <1>5, OrderedFacts
<1> DEFINE n == Len(list)
<1>8. n \in Nat /\ DOMAIN list = 1 .. n /\ \A k \in 1 .. n : list[k] \in rows
  BY <1>7
<1> HIDE DEF n
<1>9. DOMAIN es = 1 .. n /\ \A k \in 1 .. n : es[k] = list[k].edge
  BY <1>8
<1>10. es \in Seq(StoredEdge)
  <2>1. es \in [1 .. n -> StoredEdge]
    BY <1>6, <1>8
  <2> HIDE DEF es
  <2> QED
    BY <1>8, <2>1, FunctionIsSeq
<1> HIDE DEF es
<1>11. LastOfPairs(es) \subseteq new
  <2> SUFFICES ASSUME NEW k \in 1 .. n, \A j \in 1 .. n : SamePair(es[j], es[k]) => j <= k
               PROVE  list[k] \in latest /\ es[k] = list[k].edge
    BY <1>9 DEF LastOfPairs
  <2>1. ASSUME NEW q \in rows, SamePair(q.edge, list[k].edge)
        PROVE  q.ts <= list[k].ts
    <3>1. PICK j \in 1 .. n : list[j] = q
      BY <1>7, <1>8
    <3>2. j <= k
      BY <1>9, <2>1, <3>1
    <3>3. j < k \/ j = k
      BY <1>8, <3>2
    <3> QED
      BY <1>6, <1>7, <1>8, <3>1, <3>3
  <2> QED
    BY <1>8, <1>9, <2>1
<1>12. \A e \in new : \E k \in DOMAIN es : e = es[k]
  BY <1>7, <1>8, <1>9
<1>13. new \in SUBSET StoredEdge
  BY <1>6
<1> HIDE DEF new
<1>14. graph' \in Seq(StoredEdge) /\ meant' \subseteq StoredEdge /\ ShowsLatest'
  BY <1>3, <1>10, <1>11, <1>12, <1>13, FillingShows
<1> QED
  BY <1>3, <1>4, <1>14, FillingKeeps

LEMMA AddFromTrackerKeeps ==
  ASSUME StoreInv, AddFromTracker
  PROVE  StoreInv'
<1>1. PICK r \in Runs :
        /\ Fill
        /\ graph' = AddAll(graph, EdgesOf(r, r.batch))
        /\ batchIds' = batchIds \union {r.batch}
        /\ meant' = Overlaid(LastOfPairs(EdgesOf(r, r.batch)))
        /\ UNCHANGED <<onDisk, inRdf>>
  BY DEF AddFromTracker
<1> DEFINE es == EdgesOf(r, r.batch)
<1>2. es \in Seq(StoredEdge) /\ r.batch \in BatchIds
  BY EdgesOfFacts, RunsAssumption
<1> HIDE DEF es
<1>3. batchIds' \subseteq BatchIds
  BY <1>1, <1>2 DEF StoreInv, StoreTypeOK
<1>4. LastOfPairs(es) \in SUBSET StoredEdge
  <2>1. \A k \in DOMAIN es : es[k] \in StoredEdge
    BY <1>2
  <2> QED
    BY <2>1, LastsAreListed
<1>5. graph' = AddAll(graph, es) /\ meant' = Overlaid(LastOfPairs(es))
  BY <1>1 DEF es
<1>6. graph' \in Seq(StoredEdge) /\ meant' \subseteq StoredEdge /\ ShowsLatest'
  BY <1>2, <1>4, <1>5, LastsAreListed, FillingShows
<1> QED
  BY <1>1, <1>3, <1>6, FillingKeeps

LEMMA SaveJsonKeeps ==
  ASSUME StoreInv, SaveJson
  PROVE  StoreInv'
<1>1. /\ file' = EdgeList(graph) /\ saved' = ToSet(graph)
      /\ UNCHANGED <<graph, batchIds, fills, meant, lineageRows, triples, posted>>
  BY DEF SaveJson, inMemory, inRdf
<1>2. graph \in Seq(StoredEdge)
  BY DEF StoreInv, StoreTypeOK
<1>3. file' \in Seq(StoredEdge) /\ ToSet(file') = ToSet(graph)
  BY <1>1, <1>2, EdgeListFacts
<1>4. ToSet(graph) \subseteq StoredEdge
  BY <1>2 DEF ToSet
<1>5. StoreTypeOK'
  BY <1>1, <1>3, <1>4 DEF StoreInv, StoreTypeOK
<1>6. ShowsLatest'
  BY <1>1 DEF StoreInv, ShowsLatest
<1>7. saved' = ToSet(file')
  BY <1>1, <1>3
<1> QED
  BY <1>1, <1>5, <1>6, <1>7 DEF StoreInv, ToSet

LEMMA LoadJsonKeeps ==
  ASSUME StoreInv, LoadJson
  PROVE  StoreInv'
<1>1. /\ Fill /\ graph' = AddAll(graph, file) /\ meant' = Overlaid(saved)
      /\ batchIds' = batchIds /\ UNCHANGED <<onDisk, inRdf>>
  BY DEF LoadJson
<1>2. /\ file \in Seq(StoredEdge) /\ saved \in SUBSET StoredEdge /\ saved = ToSet(file)
      /\ batchIds' \subseteq BatchIds
  BY <1>1 DEF StoreInv, StoreTypeOK
<1>3. LastOfPairs(file) \subseteq saved /\ \A e \in saved : \E k \in DOMAIN file : e = file[k]
  BY <1>2, LastsAreListed, InSet
<1>4. graph' \in Seq(StoredEdge) /\ meant' \subseteq StoredEdge /\ ShowsLatest'
  BY <1>1, <1>2, <1>3, FillingShows
<1> QED
  BY <1>1, <1>2, <1>4, FillingKeeps

LEMMA PostingKeeps ==
  ASSUME StoreInv, NEW d \in Seq(StoredEdge), PostTurtle(d), UNCHANGED <<inMemory, onDisk>>
  PROVE  StoreInv'
<1>1. /\ posted' = posted \union {d} /\ triples' = triples \union DocTriples(d)
      /\ UNCHANGED <<graph, batchIds, fills, meant, lineageRows, file, saved>>
  BY DEF PostTurtle, inMemory, onDisk
<1>2. \A t \in DocTriples(d) : t[2] \in {"source", "target", "transform", "batch"}
  BY DEF DocTriples
<1>3. StoreTypeOK'
  BY <1>1, <1>2 DEF StoreInv, StoreTypeOK
<1>4. ShowsLatest'
  BY <1>1 DEF StoreInv, ShowsLatest
<1>5. IsFiniteSet(posted')
  BY <1>1, FS_AddElement DEF StoreInv
<1> QED
  BY <1>1, <1>3, <1>4, <1>5 DEF StoreInv

LEMMA ClearDatabaseKeeps ==
  ASSUME StoreInv, ClearDatabase
  PROVE  StoreInv'
<1>1. /\ triples' = {} /\ posted' = {}
      /\ UNCHANGED <<graph, batchIds, fills, meant, lineageRows, file, saved>>
  BY DEF ClearDatabase, inMemory, onDisk
<1>2. StoreTypeOK' /\ ShowsLatest'
  BY <1>1 DEF StoreInv, StoreTypeOK, ShowsLatest
<1> QED
  BY <1>1, <1>2, FS_EmptySet DEF StoreInv

LEMMA StoreStep == StoreInv /\ [StoreNext]_storeVars => StoreInv'
<1> SUFFICES ASSUME StoreInv, [StoreNext]_storeVars PROVE StoreInv'
  OBVIOUS
<1>1. CASE UNCHANGED storeVars
  <2>1. UNCHANGED <<graph, batchIds, fills, meant, lineageRows, file, saved, triples, posted>>
    BY <1>1 DEF storeVars, inMemory, onDisk, inRdf
  <2> QED
    BY <2>1 DEF StoreInv, StoreTypeOK, ShowsLatest
<1>2. CASE PersistRun
  BY <1>2, PersistRunKeeps
<1>3. CASE NewGraph
  BY <1>3, NewGraphKeeps
<1>4. CASE BuildFromDuckDB
  BY <1>4, BuildFromDuckDBKeeps
<1>5. CASE AddFromTracker
  BY <1>5, AddFromTrackerKeeps
<1>6. CASE SaveJson
  BY <1>6, SaveJsonKeeps
<1>7. CASE LoadJson
  BY <1>7, LoadJsonKeeps
<1>8. CASE PersistToStardog
  <2>1. EdgeList(graph) \in Seq(StoredEdge)
    BY EdgeListFacts DEF StoreInv, StoreTypeOK
  <2> QED
    BY <1>8, <2>1, PostingKeeps DEF PersistToStardog
<1>9. CASE WriteEdges
  <2>1. PICK r \in Runs : PostTurtle(EdgesOf(r, Unknown))
    BY <1>9 DEF WriteEdges
  <2>2. EdgesOf(r, Unknown) \in Seq(StoredEdge)
    BY EdgesOfFacts
  <2> QED
    BY <1>9, <2>1, <2>2, PostingKeeps DEF WriteEdges
<1>10. CASE ClearDatabase
  BY <1>10, ClearDatabaseKeeps
<1> QED
  BY <1>1, <1>2, <1>3, <1>4, <1>5, <1>6, <1>7, <1>8, <1>9, <1>10 DEF StoreNext

LEMMA StoreInvariant == StoreSpec => []StoreInv
  BY StoreInitHolds, StoreStep, PTL DEF StoreSpec

\* Every variable has its type: what is listed, saved, loaded and posted are edges.
THEOREM StoreIsTyped == StoreSpec => []StoreTypeOK
<1>1. StoreInv => StoreTypeOK
  BY DEF StoreInv
<1> QED
  BY <1>1, StoreInvariant, PTL

\* However often and from whatever a graph is filled (table, trackers, its own JSON file),
\* it shows one edge for each pair of columns, with the attributes of a latest one.
THEOREM LatestIsShown == StoreSpec => []ShowsLatest
<1>1. StoreInv => ShowsLatest
  BY DEF StoreInv
<1> QED
  BY <1>1, StoreInvariant, PTL
=====
