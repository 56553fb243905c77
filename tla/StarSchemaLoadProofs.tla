------------------------ MODULE StarSchemaLoadProofs ------------------------
(* The load keeps its promises for any number of loaders, trades, frames and *)
(* attempts: a clean frame meets no constraint, and behind the generated     *)
(* keys readers see the ledger of FactLedger.                                *)
EXTENDS StarSchemaLoad, FiniteSetTheorems, TLAPS

-----------------------------------------------------------------------------
(* Generated keys *)

\* a largest key, or none
HasMax(K) == \E m \in K \union {0} : \A k \in K \union {0} : k <= m

LEMMA KeyBaseIsMax ==
  ASSUME NEW K \in SUBSET Nat, HasMax(K)
  PROVE  /\ KeyBase(K) \in Nat /\ KeyBase(K) \in K \union {0}
         /\ \A k \in K : k <= KeyBase(K)
<1>1. \E m \in K \union {0} : \A k \in K \union {0} : k <= m
  BY DEF HasMax
<1>2. /\ KeyBase(K) \in K \union {0}
      /\ \A k \in K \union {0} : k <= KeyBase(K)
  BY <1>1 DEF KeyBase
<1>3. K \union {0} \subseteq Nat
  OBVIOUS
<1>4. KeyBase(K) \in Nat
  BY <1>2, <1>3
<1>5. \A k \in K : k <= KeyBase(K)
  BY <1>2
<1> QED
  BY <1>2, <1>4, <1>5

\* A finite set of numbers has a largest one, by induction over its subsets.
LEMMA FiniteHasMax ==
  ASSUME NEW K \in SUBSET Nat, IsFiniteSet(K)
  PROVE  HasMax(K)
<1> DEFINE Bad == {A \in FiniteSubsetsOf(Nat) : ~HasMax(A)}
<1>1. SUFFICES ASSUME Bad # {} PROVE FALSE
  BY DEF FiniteSubsetsOf
<1>2. PICK A \in Bad : \A B \in Bad : <<B, A>> \notin StrictSubsetOrdering(Nat)
  <2>1. Bad \subseteq FiniteSubsetsOf(Nat)
    OBVIOUS
  <2> HIDE DEF Bad
  <2> QED
    BY <1>1, <2>1, FS_StrictSubsetOrderingWellFounded, WFMin
<1>3. A \subseteq Nat /\ IsFiniteSet(A) /\ ~HasMax(A)
  BY DEF FiniteSubsetsOf
<1>4. PICK a \in A : TRUE
  BY <1>3 DEF HasMax
<1> DEFINE B == A \ {a}
<1>5. B \subseteq Nat /\ B \subseteq A /\ B # A /\ IsFiniteSet(B)
  BY <1>3, <1>4, FS_RemoveElement
<1>6. HasMax(B)
  <2>1. <<B, A>> \in StrictSubsetOrdering(Nat)
    BY <1>3, <1>5 DEF StrictSubsetOrdering
  <2> QED
    BY <1>2, <1>5, <2>1 DEF FiniteSubsetsOf
<1>7. PICK m \in B \union {0} : \A k \in B \union {0} : k <= m
  BY <1>6 DEF HasMax
<1>8. m \in Nat /\ a \in Nat /\ A = B \union {a}
  BY <1>3, <1>4, <1>5, <1>7
<1>9. CASE a <= m
  BY <1>3, <1>5, <1>7, <1>8, <1>9 DEF HasMax
<1>10. CASE m <= a
  <2>1. \A k \in A \union {0} : k <= a
    BY <1>5, <1>7, <1>8, <1>10
  <2> QED
    BY <1>3, <1>4, <2>1 DEF HasMax
<1> QED
  BY <1>8, <1>9, <1>10

LEMMA SubsetHasMax ==
  ASSUME NEW L \in SUBSET Nat, HasMax(L), NEW K \in SUBSET L
  PROVE  HasMax(K)
<1>1. PICK m \in L \union {0} : \A k \in L \union {0} : k <= m
  BY DEF HasMax
<1>2. K \in SUBSET Nat /\ m \in Nat /\ \A k \in K : k <= m
  BY <1>1
<1>3. IsFiniteSet(K)
  BY <1>2, FS_BoundedSetOfNaturals
<1> QED
  BY <1>2, <1>3, FiniteHasMax

\* A numbering of a finite set is onto.
LEMMA NumberingFacts ==
  ASSUME NEW S, IsFiniteSet(S), NEW f \in Numberings(S)
  PROVE  /\ Cardinality(S) \in Nat
         /\ \A x \in S : f[x] \in 1 .. Cardinality(S)
         /\ \A x, y \in S : f[x] = f[y] => x = y
         /\ S # {} => \E x \in S : f[x] = Cardinality(S)
<1> DEFINE n == Cardinality(S)
<1>1. n \in Nat
  BY FS_CardinalityType
<1>2. f \in Injection(S, 1 .. n)
  BY DEF Numberings, Injection, IsInjective
<1>3. IsFiniteSet(1 .. n) /\ Cardinality(1 .. n) = n
  BY <1>1, FS_Interval
<1>4. f \in Surjection(S, 1 .. n)
  BY <1>1, <1>2, <1>3, FS_Injection
<1>5. ASSUME S # {} PROVE \E x \in S : f[x] = n
  <2>1. n # 0
    BY <1>5, FS_EmptySet
  <2>2. n \in 1 .. n
    BY <1>1, <2>1
  <2> QED
    BY <1>4, <2>2 DEF Surjection
<1> QED
  BY <1>1, <1>5 DEF Numberings

\* Keys that continue the numbering above the largest one are new, and different.
LEMMA KeysContinue ==
  ASSUME NEW K \in SUBSET (Nat \ {0}), HasMax(K), NEW S, IsFiniteSet(S), NEW f \in Numberings(S)
  PROVE  /\ \A x \in S : KeyBase(K) + f[x] \in Nat \ {0} /\ KeyBase(K) + f[x] \notin K
         /\ \A x, y \in S : KeyBase(K) + f[x] = KeyBase(K) + f[y] => x = y
         /\ HasMax(K \union {KeyBase(K) + f[x] : x \in S})
<1> DEFINE base == KeyBase(K)
           n == Cardinality(S)
           L == K \union {base + f[x] : x \in S}
<1>1. base \in Nat /\ base \in K \union {0} /\ \A k \in K : k <= base
  BY KeyBaseIsMax
<1>2. /\ n \in Nat /\ \A x \in S : f[x] \in 1 .. n
      /\ \A x, y \in S : f[x] = f[y] => x = y
      /\ S # {} => \E x \in S : f[x] = n
  BY NumberingFacts
<1>3. \A x \in S : base + f[x] \in Nat \ {0} /\ base + f[x] \notin K
  BY <1>1, <1>2
<1>4. \A x, y \in S : base + f[x] = base + f[y] => x = y
  BY <1>1, <1>2
<1>5. HasMax(L)
  <2>1. CASE S = {}
    <3>1. L = K
      BY <2>1
    <3> QED
      BY <3>1
  <2>2. CASE S # {}
    <3>1. base + n \in L
      BY <1>2, <2>2
    <3>2. \A k \in L \union {0} : k <= base + n
      <4>1. \A k \in K : k <= base + n
        BY <1>1, <1>2
      <4>2. \A x \in S : base + f[x] <= base + n
        BY <1>1, <1>2
      <4>3. 0 <= base + n
        BY <1>1, <1>2
      <4> QED
        BY <4>1, <4>2, <4>3
    <3> QED
      BY <3>1, <3>2 DEF HasMax
  <2> QED
    BY <2>1, <2>2
<1> QED
  BY <1>3, <1>4, <1>5

-----------------------------------------------------------------------------
(* The inductive invariant *)

Statement == {"product", "counterparty", "dates", "delete", "insert"}

\* every generated key is below a largest one; no two members share a key
KeysGenerated ==
    /\ \A d \in Dimensions : HasMax(KeysOf(d))
    /\ HasMax(FactKeys)
    /\ \A d \in Dimensions : \A m, n \in DOMAIN dims[d] : dims[d][m] = dims[d][n] => m = n

\* trade_id is unique, and a foreign key is NULL or refers to a row
ConstraintsHold ==
    /\ \A f, g \in facts : f.id = g.id => f = g
    /\ \A f \in facts, d \in Dimensions : f.dimKeys[d] \in KeysOf(d) \union {NoKey}

\* who is between two statements has the file open, so no one else has
OneWriter == \A l \in Loaders : pc[l] \in Statement => writer = l

Known(l, d) == \A i \in Positions(l) : Rows(l)[i].refs[d] \in DOMAIN dims[d] \union {Null}

\* what the statements that a loader has behind it have achieved
Progress ==
    \A l \in Loaders :
        /\ pc[l] \in {"counterparty", "dates", "delete", "insert"} => Known(l, "product")
        /\ pc[l] \in {"dates", "delete", "insert"} => Known(l, "counterparty")
        /\ pc[l] \in {"delete", "insert"} =>
              \A i \in Positions(l) : Rows(l)[i].date \in dates \union {Null}
        /\ pc[l] = "insert" =>
              \A i \in Positions(l) : Rows(l)[i].id \notin {f.id : f \in facts}

IInv == TypeOK /\ KeysGenerated /\ ConstraintsHold /\ OneWriter /\ Progress

LEMMA StatementNames == {Statements[k] : k \in DOMAIN Statements} = Statement
<1>1. DOMAIN Statements = 1 .. 5
  BY DEF Statements
<1>2. 1 .. 5 = {1, 2, 3, 4, 5}
  OBVIOUS
<1> QED
  BY <1>1, <1>2 DEF Statements, Statement

\* A frame's rows are a sequence of rows of its type.
LEMMA FrameRows ==
  ASSUME TypeOK, NEW l \in Loaders
  PROVE  /\ Rows(l) \in Seq(RowType)
         /\ Len(Rows(l)) \in Nat /\ Positions(l) = 1 .. Len(Rows(l))
         /\ IsFiniteSet(Positions(l))
         /\ \A i \in Positions(l) :
               /\ Rows(l)[i] \in RowType
               /\ Rows(l)[i].id \in Trades \union {Null} /\ Rows(l)[i].date \in Dates \union {Null}
               /\ \A d \in Dimensions : Rows(l)[i].refs[d] \in Members \union {Null}
<1>1. frame[l] \in Frames \union {NoFrame}
  BY DEF TypeOK
<1>2. Rows(l) \in Seq(RowType)
  <2>1. CASE frame[l] \in Frames
    BY <2>1, FramesAssumption DEF FrameType, Rows
  <2>2. CASE frame[l] = NoFrame
    <3>1. Rows(l) = <<>>
      BY <2>2 DEF NoFrame, Rows
    <3> QED
      BY <3>1
  <2> QED
    BY <1>1, <2>1, <2>2
<1>3. Len(Rows(l)) \in Nat /\ Positions(l) = 1 .. Len(Rows(l))
  BY <1>2 DEF Positions
<1>4. IsFiniteSet(Positions(l))
  BY <1>3, FS_Interval
<1>5. \A i \in Positions(l) : Rows(l)[i] \in RowType
  BY <1>2, <1>3
<1> QED
  BY <1>2, <1>3, <1>4, <1>5 DEF RowType

LEMMA NewMembersFinite ==
  ASSUME TypeOK, NEW l \in Loaders, NEW d \in Dimensions
  PROVE  IsFiniteSet(NewMembers(l, d)) /\ NewMembers(l, d) \subseteq Members
<1> DEFINE ref == [i \in Positions(l) |-> Rows(l)[i].refs[d]]
           R == {Rows(l)[i].refs[d] : i \in Positions(l)}
<1>1. ref \in Surjection(Positions(l), R)
  BY DEF Surjection
<1>2. IsFiniteSet(R)
  BY <1>1, FrameRows, FS_Surjection
<1>3. NewMembers(l, d) \in SUBSET R
  BY DEF NewMembers
<1>4. IsFiniteSet(NewMembers(l, d))
  BY <1>2, <1>3, FS_Subset
<1>5. NewMembers(l, d) \subseteq Members
  BY FrameRows DEF NewMembers
<1> QED
  BY <1>4, <1>5

\* The INSERT OR IGNORE of a dimension keeps what is there, gives each new member
\* a key of its own, and leaves out none of the frame.
LEMMA AddMembersAdds ==
  ASSUME TypeOK, KeysGenerated, NEW l \in Loaders, NEW d \in Dimensions, AddMembers(l, d)
  PROVE  /\ DOMAIN dims' = Dimensions
         /\ \A e \in Dimensions :
               /\ DOMAIN dims[e] \subseteq DOMAIN dims'[e] /\ DOMAIN dims'[e] \subseteq Members
               /\ \A m \in DOMAIN dims[e] : dims'[e][m] = dims[e][m]
               /\ KeysOf(e)' \subseteq Nat \ {0} /\ HasMax(KeysOf(e)')
               /\ \A m, n \in DOMAIN dims'[e] : dims'[e][m] = dims'[e][n] => m = n
         /\ \A i \in Positions(l) : Rows(l)[i].refs[d] \in DOMAIN dims'[d] \union {Null}
<1> DEFINE New == NewMembers(l, d)
           K == KeysOf(d)
           key(number, m) == KeyBase(K) + number[m]
<1>1. PICK number \in Numberings(New) :
         dims' = [dims EXCEPT ![d] =
             [m \in DOMAIN dims[d] \union {n \in New : key(number, n) \notin K} |->
                 IF m \in {n \in New : key(number, n) \notin K} THEN key(number, m)
                 ELSE dims[d][m]]]
  BY DEF AddMembers
<1>2. K \in SUBSET (Nat \ {0}) /\ HasMax(K) /\ IsFiniteSet(New) /\ New \subseteq Members
  BY NewMembersFinite DEF TypeOK, KeysGenerated
<1>3. /\ \A x \in New : key(number, x) \in Nat \ {0} /\ key(number, x) \notin K
      /\ \A x, y \in New : key(number, x) = key(number, y) => x = y
      /\ HasMax(K \union {key(number, x) : x \in New})
  <2> HIDE DEF New, K
  <2> QED
    BY <1>2, KeysContinue
<1> DEFINE dim == [m \in DOMAIN dims[d] \union New |->
                      IF m \in New THEN key(number, m) ELSE dims[d][m]]
<1>4. {n \in New : key(number, n) \notin K} = New
  BY <1>3
<1>5. dims' = [dims EXCEPT ![d] = dim]
  BY <1>1, <1>4
<1>6. /\ DOMAIN dims' = Dimensions /\ dims'[d] = dim
      /\ \A e \in Dimensions \ {d} : dims'[e] = dims[e]
  BY <1>5 DEF TypeOK
<1>7. New \intersect DOMAIN dims[d] = {}
  BY DEF NewMembers
<1>8. KeysOf(d)' = K \union {key(number, x) : x \in New}
  <2>1. KeysOf(d)' = {dim[m] : m \in DOMAIN dims[d] \union New}
    BY <1>6 DEF KeysOf
  <2>2. \A m \in DOMAIN dims[d] : dim[m] = dims[d][m]
    BY <1>7
  <2>3. \A m \in New : dim[m] = key(number, m)
    OBVIOUS
  <2>4. K = {dims[d][m] : m \in DOMAIN dims[d]}
    BY DEF KeysOf
  <2> HIDE DEF New, K, dim, key
  <2> QED
    BY <2>1, <2>2, <2>3, <2>4
<1>9. \A m, n \in DOMAIN dim : dim[m] = dim[n] => m = n
  <2>1. \A m \in DOMAIN dims[d] : dim[m] = dims[d][m] /\ dim[m] \in K
    BY <1>7 DEF KeysOf
  <2>2. \A m \in New : dim[m] = key(number, m)
    OBVIOUS
  <2>3. \A m, n \in DOMAIN dims[d] : dims[d][m] = dims[d][n] => m = n
    BY DEF KeysGenerated
  <2>4. DOMAIN dim = DOMAIN dims[d] \union New
    OBVIOUS
  <2> HIDE DEF New, K, dim, key
  <2> QED
    BY <1>3, <2>1, <2>2, <2>3, <2>4
<1>10. \A e \in Dimensions \ {d} : KeysOf(e)' = KeysOf(e)
  BY <1>6 DEF KeysOf
<1>11. \A i \in Positions(l) : Rows(l)[i].refs[d] \in DOMAIN dims[d] \union New \union {Null}
  BY DEF NewMembers
<1>12. ASSUME NEW e \in Dimensions
       PROVE  /\ DOMAIN dims[e] \subseteq DOMAIN dims'[e] /\ DOMAIN dims'[e] \subseteq Members
              /\ \A m \in DOMAIN dims[e] : dims'[e][m] = dims[e][m]
              /\ KeysOf(e)' \subseteq Nat \ {0} /\ HasMax(KeysOf(e)')
              /\ \A m, n \in DOMAIN dims'[e] : dims'[e][m] = dims'[e][n] => m = n
  <2>1. CASE e # d
    BY <1>6, <1>10, <2>1 DEF TypeOK, KeysGenerated
  <2>2. CASE e = d
    <3>1. DOMAIN dims[d] \subseteq Members /\ DOMAIN dim = DOMAIN dims[d] \union New
      BY DEF TypeOK
    <3>2. \A m \in DOMAIN dims[d] : dim[m] = dims[d][m]
      BY <1>7
    <3> HIDE DEF New, K, dim, key
    <3>3. KeysOf(d)' \subseteq Nat \ {0} /\ HasMax(KeysOf(d)')
      BY <1>2, <1>3, <1>8
    <3> QED
      BY <1>2, <1>6, <1>9, <2>2, <3>1, <3>2, <3>3
  <2> QED
    BY <2>1, <2>2
<1> QED
  BY <1>6, <1>11, <1>12

-----------------------------------------------------------------------------
(* It is inductive *)

\* A step that leaves the star schema alone, and goes on no further than it may.
LEMMA StoreAlone ==
  ASSUME IInv, TypeOK', UNCHANGED store,
         NEW l \in Loaders,
         \A k \in Loaders \ {l} : pc'[k] = pc[k] /\ frame'[k] = frame[k] /\ (writer = k => writer' = k),
         pc'[l] \notin Statement \/ (pc'[l] = "product" /\ writer' = l)
  PROVE  IInv'
<1>1. KeysGenerated' /\ ConstraintsHold'
  BY DEF IInv, KeysGenerated, ConstraintsHold, KeysOf, FactKeys, store
<1>2. OneWriter'
  BY DEF IInv, OneWriter
<1>3. Progress'
  <2> SUFFICES ASSUME NEW k \in Loaders
               PROVE  /\ pc'[k] \in {"counterparty", "dates", "delete", "insert"} => Known(k, "product")'
                      /\ pc'[k] \in {"dates", "delete", "insert"} => Known(k, "counterparty")'
                      /\ pc'[k] \in {"delete", "insert"} =>
                            \A i \in Positions(k)' : Rows(k)'[i].date \in dates' \union {Null}
                      /\ pc'[k] = "insert" =>
                            \A i \in Positions(k)' : Rows(k)'[i].id \notin {f.id : f \in facts'}
    BY DEF Progress
  <2>1. CASE k = l
    BY <2>1 DEF Statement
  <2>2. CASE k # l
    <3>1. Rows(k)' = Rows(k) /\ Positions(k)' = Positions(k) /\ pc'[k] = pc[k]
      BY <2>2 DEF Rows, Positions
    <3>2. \A d \in Dimensions : Known(k, d)' <=> Known(k, d)
      BY <3>1 DEF Known, store
    <3> QED
      BY <3>1, <3>2 DEF IInv, Progress, store, Dimensions
  <2> QED
    BY <2>1, <2>2
<1> QED
  BY <1>1, <1>2, <1>3 DEF IInv

\* A statement of one loader: the others are between none.
LEMMA OthersIdle ==
  ASSUME OneWriter, NEW l \in Loaders, pc[l] \in Statement, NEW k \in Loaders \ {l}
  PROVE  pc[k] \notin Statement
BY DEF OneWriter

LEMMA InitInv == Init => IInv
<1> SUFFICES ASSUME Init PROVE IInv
  OBVIOUS
<1>1. \A d \in Dimensions : dims[d] = <<>> /\ DOMAIN dims[d] = {} /\ KeysOf(d) = {}
  BY DEF Init, KeysOf
<1>2. FactKeys = {}
  BY DEF Init, FactKeys
<1>3. HasMax({})
  BY DEF HasMax
<1>4. TypeOK
  BY <1>1, BoundsAssumption DEF Init, TypeOK
<1>5. KeysGenerated /\ ConstraintsHold
  BY <1>1, <1>2, <1>3 DEF Init, KeysGenerated, ConstraintsHold
<1>6. OneWriter /\ Progress
  BY DEF Init, OneWriter, Progress, Statement
<1> QED
  BY <1>4, <1>5, <1>6 DEF IInv

-----------------------------------------------------------------------------
(* Steps *)

\* pc, as any action sets it
LEMMA Places ==
  ASSUME TypeOK, NEW l \in Loaders, NEW place, Goto(l, place)
  PROVE  /\ pc'[l] = place /\ \A k \in Loaders \ {l} : pc'[k] = pc[k]
         /\ place \in {"idle", "connect", "failed", "loaded"} \union Statement =>
               pc' \in [Loaders -> {"idle", "connect", "failed", "loaded"} \union Statement]
BY StatementNames DEF TypeOK, Goto

\* what a step without effect on the star schema keeps of the types
LEMMA TypesAlone ==
  ASSUME TypeOK, UNCHANGED store,
         writer' \in Loaders \union {NoLoader},
         pc' \in [Loaders -> {"idle", "connect", "failed", "loaded"} \union Statement],
         frame' \in [Loaders -> Frames \union {NoFrame}], batch' \in [Loaders -> Batches],
         attempt' \in [Loaders -> 1 .. MaxAttempts], loads' \in Nat
  PROVE  TypeOK'
BY StatementNames DEF TypeOK, store, KeysOf

LEMMA StartInv ==
  ASSUME IInv, NEW l \in Loaders, StartLoad(l)
  PROVE  IInv'
<1>1. pc'[l] = "connect" /\ \A k \in Loaders \ {l} : pc'[k] = pc[k]
  BY Places DEF IInv, StartLoad
<1>2. /\ UNCHANGED <<store, writer>>
      /\ pc' \in [Loaders -> {"idle", "connect", "failed", "loaded"} \union Statement]
  BY Places DEF IInv, StartLoad
<1>3. /\ frame' \in [Loaders -> Frames \union {NoFrame}] /\ batch' \in [Loaders -> Batches]
      /\ \A k \in Loaders \ {l} : frame'[k] = frame[k]
  BY DEF StartLoad, IInv, TypeOK
<1>4. attempt' \in [Loaders -> 1 .. MaxAttempts] /\ loads' \in Nat
  BY BoundsAssumption DEF StartLoad, IInv, TypeOK
<1>5. TypeOK'
  BY <1>2, <1>3, <1>4, TypesAlone DEF IInv, TypeOK
<1> QED
  BY <1>1, <1>2, <1>3, <1>5, StoreAlone DEF Statement

LEMMA QuietInv ==
  ASSUME IInv, NEW l \in Loaders,
         \/ NothingToLoad(l) \/ Connect(l) \/ LoadFails(l) \/ RetryLoad(l) \/ GiveUp(l)
         \/ FinishLoad(l) \/ Crash(l)
  PROVE  IInv'
<1>1. PICK place \in {"idle", "connect", "failed", "loaded", "product"} :
         Goto(l, place) /\ (place = "product" => writer' = l)
  BY DEF NothingToLoad, Connect, LoadFails, RetryLoad, GiveUp, FinishLoad, Crash
<1>2. /\ pc'[l] = place /\ \A k \in Loaders \ {l} : pc'[k] = pc[k]
      /\ pc' \in [Loaders -> {"idle", "connect", "failed", "loaded"} \union Statement]
  BY <1>1, Places DEF IInv, Statement
<1>3. /\ UNCHANGED <<store, batch, loads>>
      /\ frame' \in [Loaders -> Frames \union {NoFrame}]
      /\ \A k \in Loaders \ {l} : frame'[k] = frame[k]
  <2>1. CASE RetryLoad(l)
    BY <2>1 DEF RetryLoad, Restage, IInv, TypeOK
  <2>2. CASE ~RetryLoad(l)
    BY <2>2 DEF NothingToLoad, Connect, LoadFails, GiveUp, FinishLoad, Crash, IInv, TypeOK
  <2> QED
    BY <2>1, <2>2
<1>4. /\ writer' \in Loaders \union {NoLoader}
      /\ \A k \in Loaders \ {l} : writer = k => writer' = k
  BY LoadersAssumption DEF NothingToLoad, Connect, LoadFails, RetryLoad, GiveUp, FinishLoad, Crash, IInv, TypeOK
<1>5. attempt' \in [Loaders -> 1 .. MaxAttempts]
  <2>1. CASE RetryLoad(l)
    <3>1. attempt[l] \in 1 .. MaxAttempts /\ attempt[l] < MaxAttempts
      BY <2>1 DEF RetryLoad, IInv, TypeOK
    <3>2. attempt[l] + 1 \in 1 .. MaxAttempts
      BY <3>1, BoundsAssumption
    <3> QED
      BY <2>1, <3>2 DEF RetryLoad, IInv, TypeOK
  <2>2. CASE UNCHANGED attempt
    BY <2>2 DEF IInv, TypeOK
  <2> QED
    BY <2>1, <2>2 DEF NothingToLoad, Connect, LoadFails, GiveUp, FinishLoad, Crash
<1>6. TypeOK'
  BY <1>2, <1>3, <1>4, <1>5, TypesAlone DEF IInv, TypeOK
<1> QED
  BY <1>1, <1>2, <1>3, <1>4, <1>6, StoreAlone DEF Statement

LEMMA CollectInv ==
  ASSUME IInv, NEW l \in Loaders, Collect(l)
  PROVE  IInv'
<1>1. /\ UNCHANGED <<store, pc, frame, batch, attempt, loads>> /\ writer = l /\ writer' = NoLoader
      /\ pc[l] \notin Statement
  BY StatementNames DEF Collect, loader, Working
<1>2. TypeOK'
  BY <1>1, StatementNames, TypesAlone DEF IInv, TypeOK
<1> QED
  BY <1>1, <1>2, LoadersAssumption, StoreAlone

LEMMA AddMembersInv ==
  ASSUME IInv, NEW l \in Loaders, NEW d \in Dimensions, AddMembers(l, d)
  PROVE  IInv'
<1>1. /\ DOMAIN dims' = Dimensions
      /\ \A e \in Dimensions :
            /\ DOMAIN dims[e] \subseteq DOMAIN dims'[e] /\ DOMAIN dims'[e] \subseteq Members
            /\ \A m \in DOMAIN dims[e] : dims'[e][m] = dims[e][m]
            /\ KeysOf(e)' \subseteq Nat \ {0} /\ HasMax(KeysOf(e)')
            /\ \A m, n \in DOMAIN dims'[e] : dims'[e][m] = dims'[e][n] => m = n
      /\ \A i \in Positions(l) : Rows(l)[i].refs[d] \in DOMAIN dims'[d] \union {Null}
  BY AddMembersAdds DEF IInv
<1>2. /\ UNCHANGED <<dates, facts, writer, frame, batch, attempt, loads>>
      /\ pc[l] = d /\ pc[l] \in Statement /\ Goto(l, IF d = "product" THEN "counterparty" ELSE "dates")
  BY DEF AddMembers, At, Dimensions, Statement
<1>3. /\ pc'[l] = IF d = "product" THEN "counterparty" ELSE "dates"
      /\ \A k \in Loaders \ {l} : pc'[k] = pc[k]
      /\ pc' \in [Loaders -> {"idle", "connect", "failed", "loaded"} \union Statement]
  BY <1>2, Places DEF IInv, Statement
<1>4. \A k \in Loaders : Rows(k)' = Rows(k) /\ Positions(k)' = Positions(k)
  BY <1>2 DEF Rows, Positions
<1>5. TypeOK'
  BY <1>1, <1>2, <1>3, StatementNames DEF IInv, TypeOK
<1>6. KeysGenerated'
  BY <1>1, <1>2 DEF IInv, KeysGenerated, FactKeys
<1>7. ASSUME NEW e \in Dimensions PROVE KeysOf(e) \subseteq KeysOf(e)'
  <2>1. \A m \in DOMAIN dims[e] : m \in DOMAIN dims'[e] /\ dims'[e][m] = dims[e][m]
    BY <1>1
  <2> QED
    BY <2>1 DEF KeysOf
<1>8. ConstraintsHold'
  BY <1>2, <1>7 DEF IInv, ConstraintsHold
<1>9. OneWriter'
  BY <1>2, <1>3 DEF IInv, OneWriter
<1>10. Progress'
  <2>1. \A k \in Loaders, e \in Dimensions : Known(k, e) => Known(k, e)'
    BY <1>1, <1>4 DEF Known
  <2>2. Known(l, d)'
    BY <1>1, <1>4 DEF Known
  <2>3. /\ pc'[l] \in {"counterparty", "dates", "delete", "insert"} => Known(l, "product")'
        /\ pc'[l] \in {"dates", "delete", "insert"} => Known(l, "counterparty")'
        /\ pc'[l] \notin {"delete", "insert"}
    BY <1>2, <1>3, <2>1, <2>2 DEF IInv, Progress, Dimensions
  <2>4. ASSUME NEW k \in Loaders \ {l} PROVE pc'[k] \notin Statement
    BY <1>2, <1>3, OthersIdle DEF IInv
  <2> QED
    BY <2>3, <2>4 DEF Progress, Statement
<1> QED
  BY <1>5, <1>6, <1>8, <1>9, <1>10 DEF IInv

LEMMA AddDatesInv ==
  ASSUME IInv, NEW l \in Loaders, AddDates(l)
  PROVE  IInv'
<1>1. /\ UNCHANGED <<dims, facts, writer, frame, batch, attempt, loads>>
      /\ pc[l] = "dates" /\ pc[l] \in Statement /\ Goto(l, "delete")
  BY DEF AddDates, At, Statement
<1>2. /\ pc'[l] = "delete" /\ \A k \in Loaders \ {l} : pc'[k] = pc[k]
      /\ pc' \in [Loaders -> {"idle", "connect", "failed", "loaded"} \union Statement]
  BY <1>1, Places DEF IInv, Statement
<1>3. dates' \subseteq Dates /\ \A i \in Positions(l) : Rows(l)[i].date \in dates' \union {Null}
  BY FrameRows DEF AddDates, IInv, TypeOK
<1>4. \A k \in Loaders : Rows(k)' = Rows(k) /\ Positions(k)' = Positions(k)
  BY <1>1 DEF Rows, Positions
<1>5. \A e \in Dimensions : KeysOf(e)' = KeysOf(e)
  BY <1>1 DEF KeysOf
<1>6. TypeOK'
  BY <1>1, <1>2, <1>3, <1>5, StatementNames DEF IInv, TypeOK
<1>7. KeysGenerated' /\ ConstraintsHold'
  BY <1>1, <1>5 DEF IInv, KeysGenerated, ConstraintsHold, FactKeys
<1>8. OneWriter'
  BY <1>1, <1>2 DEF IInv, OneWriter
<1>9. Progress'
  <2>1. \A e \in Dimensions : Known(l, e)' <=> Known(l, e)
    BY <1>1, <1>4 DEF Known
  <2>2. Known(l, "product")' /\ Known(l, "counterparty")'
    BY <1>1, <2>1 DEF IInv, Progress, Dimensions
  <2>3. ASSUME NEW k \in Loaders \ {l} PROVE pc'[k] \notin Statement
    BY <1>1, <1>2, OthersIdle DEF IInv
  <2> QED
    BY <1>2, <1>3, <1>4, <2>2, <2>3 DEF Progress, Statement
<1> QED
  BY <1>6, <1>7, <1>8, <1>9 DEF IInv

LEMMA DeleteInv ==
  ASSUME IInv, NEW l \in Loaders, DeleteTrades(l)
  PROVE  IInv'
<1>1. /\ UNCHANGED <<dims, dates, writer, frame, batch, attempt, loads>>
      /\ pc[l] = "delete" /\ pc[l] \in Statement /\ Goto(l, "insert")
      /\ facts' = {f \in facts : f.id \notin {Rows(l)[i].id : i \in Positions(l)}}
  BY DEF DeleteTrades, At, Statement
<1>2. /\ pc'[l] = "insert" /\ \A k \in Loaders \ {l} : pc'[k] = pc[k]
      /\ pc' \in [Loaders -> {"idle", "connect", "failed", "loaded"} \union Statement]
  BY <1>1, Places DEF IInv, Statement
<1>3. \A k \in Loaders : Rows(k)' = Rows(k) /\ Positions(k)' = Positions(k)
  BY <1>1 DEF Rows, Positions
<1>4. \A e \in Dimensions : KeysOf(e)' = KeysOf(e)
  BY <1>1 DEF KeysOf
<1>5. facts' \subseteq facts
  BY <1>1
<1>6. TypeOK'
  BY <1>1, <1>2, <1>4, <1>5, StatementNames DEF IInv, TypeOK
<1>7. KeysGenerated' /\ ConstraintsHold'
  <2>1. FactKeys \subseteq Nat /\ FactKeys' \subseteq FactKeys
    BY <1>5 DEF FactKeys, IInv, TypeOK, FactType
  <2>2. HasMax(FactKeys')
    BY <2>1, SubsetHasMax DEF IInv, KeysGenerated
  <2> QED
    BY <1>1, <1>4, <1>5, <2>2 DEF IInv, KeysGenerated, ConstraintsHold
<1>8. OneWriter'
  BY <1>1, <1>2 DEF IInv, OneWriter
<1>9. Progress'
  <2>1. \A e \in Dimensions : Known(l, e)' <=> Known(l, e)
    BY <1>1, <1>3 DEF Known
  <2>2. Known(l, "product")' /\ Known(l, "counterparty")'
    BY <1>1, <2>1 DEF IInv, Progress, Dimensions
  <2>3. ASSUME NEW k \in Loaders \ {l} PROVE pc'[k] \notin Statement
    BY <1>1, <1>2, OthersIdle DEF IInv
  <2>4. \A i \in Positions(l)' : Rows(l)'[i].date \in dates' \union {Null}
    BY <1>1, <1>3 DEF IInv, Progress
  <2>5. \A i \in Positions(l)' : Rows(l)'[i].id \notin {f.id : f \in facts'}
    BY <1>1, <1>3
  <2> QED
    BY <2>2, <2>3, <2>4, <2>5 DEF Progress, Statement
<1> QED
  BY <1>6, <1>7, <1>8, <1>9 DEF IInv

\* What the INSERT of a frame adds: a row per staged row, under new keys.
Inserted(l, number) == {FactRow(l, i, KeyBase(FactKeys) + number[i]) : i \in Positions(l)}

LEMMA InsertedRows ==
  ASSUME IInv, NEW l \in Loaders, Insertable(l), NEW number \in Numberings(Positions(l))
  PROVE  /\ Inserted(l, number) \subseteq FactType
         /\ \A f \in Inserted(l, number) : \E i \in Positions(l) :
               f = FactRow(l, i, KeyBase(FactKeys) + number[i]) /\ f.id = Rows(l)[i].id
         /\ \A i \in Positions(l) : \E f \in Inserted(l, number) :
               f = FactRow(l, i, KeyBase(FactKeys) + number[i]) /\ f.id = Rows(l)[i].id
         /\ \A f \in Inserted(l, number), d \in Dimensions :
               f.dimKeys[d] \in KeysOf(d) \union {NoKey}
         /\ \A f, g \in facts \union Inserted(l, number) : f.id = g.id => f = g
         /\ HasMax(FactKeys \union {f.key : f \in Inserted(l, number)})
<1> DEFINE base == KeyBase(FactKeys)
           New == Inserted(l, number)
<1>1. FactKeys \in SUBSET (Nat \ {0}) /\ HasMax(FactKeys) /\ IsFiniteSet(Positions(l))
  BY FrameRows DEF IInv, TypeOK, FactType, FactKeys, KeysGenerated
<1>2. /\ \A i \in Positions(l) : base + number[i] \in Nat \ {0}
      /\ HasMax(FactKeys \union {base + number[i] : i \in Positions(l)})
  BY <1>1, KeysContinue
<1>3. \A d \in Dimensions : \A m : Joined(d, m) \in KeysOf(d) \union {NoKey}
  BY DEF Joined, KeysOf
<1>4. \A d \in Dimensions : \A m : Joined(d, m) \in Nat
  BY <1>3 DEF IInv, TypeOK, NoKey
<1>5. ASSUME NEW i \in Positions(l), NEW key \in Nat \ {0}
      PROVE  FactRow(l, i, key) \in FactType /\ FactRow(l, i, key).id = Rows(l)[i].id
  <2>1. Rows(l)[i].id \in Trades /\ Rows(l)[i].date \in Dates \union {Null}
    BY FrameRows DEF Insertable, IInv
  <2>2. batch[l] \in Batches
    BY DEF IInv, TypeOK
  <2> QED
    BY <1>4, <2>1, <2>2 DEF FactRow, FactType
<1>6. New \subseteq FactType
  BY <1>2, <1>5 DEF Inserted
<1>7. \A f \in New : \E i \in Positions(l) : f = FactRow(l, i, base + number[i]) /\ f.id = Rows(l)[i].id
  BY <1>2, <1>5 DEF Inserted
<1>8. \A i \in Positions(l) : \E f \in New : f = FactRow(l, i, base + number[i]) /\ f.id = Rows(l)[i].id
  BY <1>2, <1>5 DEF Inserted
<1>9. ASSUME NEW f \in New, NEW d \in Dimensions PROVE f.dimKeys[d] \in KeysOf(d) \union {NoKey}
  <2>1. PICK i \in Positions(l) : f = FactRow(l, i, base + number[i])
    BY <1>7
  <2>2. f.dimKeys[d] = Joined(d, Rows(l)[i].refs[d])
    BY <2>1 DEF FactRow
  <2> QED
    BY <1>3, <2>2
<1>10. ASSUME NEW f \in facts \union New, NEW g \in facts \union New, f.id = g.id PROVE f = g
  <2>1. CASE f \in facts /\ g \in facts
    BY <1>10, <2>1 DEF IInv, ConstraintsHold
  <2>2. ASSUME NEW h \in New, NEW k \in facts PROVE h.id # k.id
    BY <1>7, <2>2 DEF Insertable
  <2>3. CASE f \in New /\ g \in New
    <3>1. PICK i \in Positions(l) : f = FactRow(l, i, base + number[i]) /\ f.id = Rows(l)[i].id
      BY <1>7, <2>3
    <3>2. PICK j \in Positions(l) : g = FactRow(l, j, base + number[j]) /\ g.id = Rows(l)[j].id
      BY <1>7, <2>3
    <3>3. i = j
      BY <1>10, <3>1, <3>2 DEF Insertable
    <3> QED
      BY <3>1, <3>2, <3>3
  <2> QED
    BY <1>10, <2>1, <2>2, <2>3
<1>11. HasMax(FactKeys \union {f.key : f \in New})
  <2>1. \A i \in Positions(l) : FactRow(l, i, base + number[i]).key = base + number[i]
    BY DEF FactRow
  <2>2. {f.key : f \in New} = {base + number[i] : i \in Positions(l)}
    BY <2>1 DEF Inserted
  <2> QED
    BY <1>2, <2>2
<1> QED
  BY <1>6, <1>7, <1>8, <1>9, <1>10, <1>11

LEMMA InsertInv ==
  ASSUME IInv, NEW l \in Loaders, InsertTrades(l)
  PROVE  IInv'
<1>1. PICK number \in Numberings(Positions(l)) : facts' = facts \union Inserted(l, number)
  BY DEF InsertTrades, Inserted
<1>2. /\ UNCHANGED <<dims, dates, frame, batch, attempt, loads>>
      /\ pc[l] = "insert" /\ pc[l] \in Statement /\ Goto(l, "loaded")
      /\ writer' = NoLoader /\ Insertable(l)
  BY DEF InsertTrades, At, Statement
<1>3. /\ pc'[l] = "loaded" /\ \A k \in Loaders \ {l} : pc'[k] = pc[k]
      /\ pc' \in [Loaders -> {"idle", "connect", "failed", "loaded"} \union Statement]
  BY <1>2, Places DEF IInv, Statement
<1>4. \A e \in Dimensions : KeysOf(e)' = KeysOf(e)
  BY <1>2 DEF KeysOf
<1>5. /\ facts' \subseteq FactType
      /\ \A f \in facts', d \in Dimensions : f.dimKeys[d] \in KeysOf(d) \union {NoKey}
      /\ \A f, g \in facts' : f.id = g.id => f = g
  BY <1>1, <1>2, InsertedRows DEF IInv, TypeOK, ConstraintsHold
<1>6. TypeOK'
  BY <1>2, <1>3, <1>4, <1>5, StatementNames DEF IInv, TypeOK
<1>7. KeysGenerated'
  <2>1. FactKeys' = FactKeys \union {f.key : f \in Inserted(l, number)}
    BY <1>1 DEF FactKeys
  <2>2. HasMax(FactKeys')
    BY <1>2, <2>1, InsertedRows
  <2> QED
    BY <1>2, <1>4, <2>2 DEF IInv, KeysGenerated
<1>8. ConstraintsHold'
  BY <1>4, <1>5 DEF ConstraintsHold
<1>9. \A k \in Loaders : pc'[k] \notin Statement
  BY <1>2, <1>3, OthersIdle DEF IInv, Statement
<1>10. OneWriter' /\ Progress'
  BY <1>9 DEF OneWriter, Progress, Statement
<1> QED
  BY <1>6, <1>7, <1>8, <1>10 DEF IInv

LEMMA NextInv == IInv /\ [Next]_vars => IInv'
<1> SUFFICES ASSUME IInv, [Next]_vars PROVE IInv'
  OBVIOUS
<1>1. CASE UNCHANGED vars
  <2>1. /\ UNCHANGED <<dims, dates, facts, writer, pc, frame, batch, attempt, loads>>
    BY <1>1 DEF vars, store, loader
  <2>2. /\ \A e \in Dimensions : KeysOf(e)' = KeysOf(e)
        /\ \A k \in Loaders, e \in Dimensions : Known(k, e)' <=> Known(k, e)
        /\ \A k \in Loaders : Rows(k)' = Rows(k) /\ Positions(k)' = Positions(k)
    BY <2>1 DEF KeysOf, Known, Rows, Positions
  <2>3. TypeOK'
    BY <2>1, <2>2 DEF IInv, TypeOK
  <2>4. KeysGenerated' /\ ConstraintsHold' /\ OneWriter'
    BY <2>1, <2>2 DEF IInv, KeysGenerated, ConstraintsHold, OneWriter, FactKeys
  <2>5. Progress'
    BY <2>1, <2>2 DEF IInv, Progress, Dimensions
  <2> QED
    BY <2>3, <2>4, <2>5 DEF IInv
<1>2. ASSUME NEW l \in Loaders, LoadStep(l) \/ StartLoad(l) \/ Collect(l) \/ Crash(l)
      PROVE  IInv'
  BY <1>2, StartInv, QuietInv, CollectInv, AddMembersInv, AddDatesInv, DeleteInv, InsertInv
     DEF LoadStep
<1> QED
  BY <1>1, <1>2 DEF Next

LEMMA Inductive == Spec => []IInv
  BY InitInv, NextInv, PTL DEF Spec

-----------------------------------------------------------------------------
(* Theorems *)

\* Every variable of loaders and star schema keeps its type, and no generated key
\* is 0, which stands for NULL.
THEOREM TypesRight == Spec => []TypeOK
  BY Inductive, PTL DEF IInv

\* No constraint of fact_trades stands against a clean frame that has come to its
\* INSERT, whatever other loaders, failed attempts and crashes have left.
THEOREM CleanLoads == Spec => []CleanFrameLoads
<1>1. IInv => CleanFrameLoads
  <2> SUFFICES ASSUME IInv, NEW l \in Loaders, pc[l] = "insert", Clean(frame[l])
               PROVE  Insertable(l)
    BY DEF CleanFrameLoads, At
  <2>1. \A i \in Positions(l) : KeyBase(FactKeys) + i \notin FactKeys
    <3>1. FactKeys \in SUBSET Nat /\ HasMax(FactKeys)
      BY DEF IInv, TypeOK, FactType, FactKeys, KeysGenerated
    <3>2. KeyBase(FactKeys) \in Nat /\ \A k \in FactKeys : k <= KeyBase(FactKeys)
      BY <3>1, KeyBaseIsMax
    <3>3. Positions(l) \subseteq Nat \ {0}
      BY FrameRows DEF IInv
    <3>4. ASSUME NEW i \in Nat \ {0} PROVE KeyBase(FactKeys) + i \notin FactKeys
      <4>1. ~(KeyBase(FactKeys) + i <= KeyBase(FactKeys))
        BY <3>2, <3>4
      <4> QED
        BY <3>2, <4>1
    <3> QED
      BY <3>3, <3>4
  <2>2. /\ \A i \in Positions(l) : Rows(l)[i].date \in dates \union {Null}
        /\ \A i \in Positions(l) : Rows(l)[i].id \notin {f.id : f \in facts}
    BY DEF IInv, Progress
  <2> QED
    BY <2>1, <2>2 DEF Insertable, Clean, Rows, Positions
<1> QED
  BY Inductive, <1>1, PTL

\* A load returns only with all its rows in fact_trades, under its batch.
THEOREM ReturnedLanded == Spec => ReturnedLoadLanded
<1>1. IInv /\ [Next]_vars =>
         \A l \in Loaders : ~At(l, "loaded") /\ pc'[l] = "loaded" =>
             \A i \in Positions(l) : \E f \in facts' :
                 f.id = Rows(l)[i].id /\ f.batch = batch[l]
  <2> SUFFICES ASSUME IInv, [Next]_vars, NEW l \in Loaders, pc[l] # "loaded", pc'[l] = "loaded",
                      NEW i \in Positions(l)
               PROVE  \E f \in facts' : f.id = Rows(l)[i].id /\ f.batch = batch[l]
    BY DEF At
  <2>1. PICK k \in Loaders : LoadStep(k) \/ StartLoad(k) \/ Crash(k)
    BY DEF Next, vars, loader, Collect
  <2>2. k = l
    <3>1. \E place : Goto(k, place)
      BY <2>1 DEF LoadStep, StartLoad, Crash, NothingToLoad, Connect, AddMembers, AddDates,
                  DeleteTrades, InsertTrades, LoadFails, RetryLoad, GiveUp, FinishLoad
    <3> QED
      BY <3>1, Places DEF IInv
  <2>3. CASE NothingToLoad(l)
    BY <2>3 DEF NothingToLoad, Positions
  <2>4. CASE InsertTrades(l)
    <3>1. PICK number \in Numberings(Positions(l)) : facts' = facts \union Inserted(l, number)
      BY <2>4 DEF InsertTrades, Inserted
    <3>2. \A j \in Positions(l) : \E f \in Inserted(l, number) :
             f = FactRow(l, j, KeyBase(FactKeys) + number[j]) /\ f.id = Rows(l)[j].id
      BY <2>4, InsertedRows DEF InsertTrades
    <3>3. PICK f \in facts' :
             f = FactRow(l, i, KeyBase(FactKeys) + number[i]) /\ f.id = Rows(l)[i].id
      BY <3>1, <3>2
    <3> QED
      BY <3>3 DEF FactRow
  <2>5. CASE ~(NothingToLoad(l) \/ InsertTrades(l))
    <3>1. \E place \in {"idle", "connect", "failed"} \union Statement : Goto(l, place)
      BY <2>1, <2>2, <2>5 DEF LoadStep, StartLoad, Crash, Connect, AddMembers, AddDates,
                  DeleteTrades, LoadFails, RetryLoad, GiveUp, FinishLoad, Statement
    <3> QED
      BY <3>1, Places DEF IInv, Statement
  <2> QED
    BY <2>3, <2>4, <2>5
<1> QED
  BY Inductive, <1>1, PTL DEF Spec, ReturnedLoadLanded

-----------------------------------------------------------------------------
(* The ledger that readers see *)

\* what a fact says, by natural ids
Entry(f) == [refs |-> [d \in Dimensions |-> Name(d, f.dimKeys[d])],
             date |-> f.date, batch |-> f.batch]

LEMMA OnlyFact ==
  ASSUME NEW F, NEW f \in F, \A g, h \in F : g.id = h.id => g = h
  PROVE  (CHOOSE g \in F : g.id = f.id) = f
OBVIOUS

\* Readers see each fact, and nothing of a trade without one: now, and next.
LEMMA ViewOfFacts ==
  ASSUME ConstraintsHold
  PROVE  /\ \A t \in Trades, f \in facts : f.id = t => View[t] = Entry(f)
         /\ \A t \in Trades : (\A f \in facts : f.id # t) => View[t] = NoRow
<1>1. ASSUME NEW t \in Trades, NEW f \in facts, f.id = t PROVE View[t] = Entry(f)
  <2>1. (CHOOSE g \in facts : g.id = t) = f
    BY <1>1, OnlyFact DEF ConstraintsHold
  <2> QED
    BY <1>1, <2>1 DEF View, Entry
<1>2. ASSUME NEW t \in Trades, \A f \in facts : f.id # t PROVE View[t] = NoRow
  BY <1>2 DEF View
<1> QED
  BY <1>1, <1>2

LEMMA ViewOfNextFacts ==
  ASSUME ConstraintsHold'
  PROVE  /\ \A t \in Trades, f \in facts' : f.id = t => View'[t] = Entry(f)'
         /\ \A t \in Trades : (\A f \in facts' : f.id # t) => View'[t] = NoRow
<1>1. ASSUME NEW t \in Trades, NEW f \in facts', f.id = t PROVE View'[t] = Entry(f)'
  <2>1. (CHOOSE g \in facts' : g.id = t) = f
    BY <1>1, OnlyFact DEF ConstraintsHold
  <2> QED
    BY <1>1, <2>1 DEF View, Entry
<1>2. ASSUME NEW t \in Trades, \A f \in facts' : f.id # t PROVE View'[t] = NoRow
  BY <1>2 DEF View
<1> QED
  BY <1>1, <1>2

LEMMA NameOfMember ==
  ASSUME KeysGenerated, NEW d \in Dimensions, NEW m \in DOMAIN dims[d]
  PROVE  Name(d, dims[d][m]) = m
BY DEF KeysGenerated, Name, KeysOf

\* A dimension that only grows changes no name.
LEMMA NamesStay ==
  ASSUME IInv, IInv', NEW d \in Dimensions, NEW key \in KeysOf(d) \union {NoKey},
         DOMAIN dims[d] \subseteq DOMAIN dims'[d],
         \A m \in DOMAIN dims[d] : dims'[d][m] = dims[d][m]
  PROVE  Name(d, key)' = Name(d, key)
<1>1. CASE key \in KeysOf(d)
  <2>1. PICK m \in DOMAIN dims[d] : dims[d][m] = key
    BY <1>1 DEF KeysOf
  <2>2. Name(d, key) = m
    BY <2>1, NameOfMember DEF IInv
  <2>3. \A n \in DOMAIN dims'[d] : dims'[d][n] = key <=> n = m
    BY <2>1 DEF IInv, KeysGenerated
  <2>4. Name(d, key)' = m
    <3>1. (CHOOSE n \in DOMAIN dims'[d] : dims'[d][n] = key) = m
      BY <2>1, <2>3
    <3>2. key \in KeysOf(d)'
      BY <2>1, <2>3 DEF KeysOf
    <3> QED
      BY <3>1, <3>2 DEF Name
  <2> QED
    BY <2>2, <2>4
<1>2. CASE key = NoKey
  <2>1. key \notin KeysOf(d) /\ key \notin KeysOf(d)'
    BY <1>2 DEF IInv, TypeOK, NoKey
  <2> QED
    BY <2>1 DEF Name
<1> QED
  BY <1>1, <1>2

\* A step that changes no fact and only adds members changes nothing for readers.
LEMMA ViewStays ==
  ASSUME IInv, IInv', UNCHANGED facts,
         \A d \in Dimensions : /\ DOMAIN dims[d] \subseteq DOMAIN dims'[d]
                               /\ \A m \in DOMAIN dims[d] : dims'[d][m] = dims[d][m]
  PROVE  View' = View
<1>1. ASSUME NEW f \in facts PROVE Entry(f)' = Entry(f)
  <2>1. \A d \in Dimensions : Name(d, f.dimKeys[d])' = Name(d, f.dimKeys[d])
    BY NamesStay DEF IInv, ConstraintsHold
  <2> QED
    BY <2>1 DEF Entry
<1>2. \A t \in Trades : View'[t] = View[t]
  <2> SUFFICES ASSUME NEW t \in Trades PROVE View'[t] = View[t]
    OBVIOUS
  <2>1. CASE \E f \in facts : f.id = t
    BY <1>1, <2>1, ViewOfFacts, ViewOfNextFacts DEF IInv
  <2>2. CASE \A f \in facts : f.id # t
    BY <2>2, ViewOfFacts, ViewOfNextFacts DEF IInv
  <2> QED
    BY <2>1, <2>2
<1> QED
  BY <1>2 DEF View

LEMMA StagedStay ==
  ASSUME NEW l \in Loaders, frame'[l] = frame[l], batch'[l] = batch[l]
  PROVE  StagedRows(l)' = StagedRows(l)
BY DEF StagedRows, Rows, Positions

\* the trades that a loader has staged
LEMMA StagedIds ==
  ASSUME NEW l \in Loaders
  PROVE  Ledger!Ids(l) = {t \in Trades : \E i \in Positions(l) : Rows(l)[i].id = t}
<1>1. Ledger!Ids(l) = {t \in Trades : \E p \in StagedRows(l) : p[1] = t}
  BY DEF Ledger!Ids
<1>2. \A p \in StagedRows(l) : \E i \in Positions(l) : p[1] = Rows(l)[i].id
  BY DEF StagedRows
<1>3. ASSUME NEW i \in Positions(l) PROVE \E p \in StagedRows(l) : p[1] = Rows(l)[i].id
  <2> DEFINE p == <<Rows(l)[i].id, [refs |-> Rows(l)[i].refs, date |-> Rows(l)[i].date,
                                    batch |-> batch[l]]>>
  <2>1. p \in StagedRows(l)
    BY DEF StagedRows
  <2>2. p[1] = Rows(l)[i].id
    OBVIOUS
  <2> QED
    BY <2>1, <2>2
<1> QED
  BY <1>1, <1>2, <1>3

\* The DELETE withdraws the staged trades.
LEMMA DeleteWithdraws ==
  ASSUME IInv, IInv', NEW l \in Loaders, DeleteTrades(l)
  PROVE  View' = [t \in Trades |-> IF t \in Ledger!Ids(l) THEN NoRow ELSE View[t]]
<1>1. /\ facts' = {f \in facts : f.id \notin {Rows(l)[i].id : i \in Positions(l)}} /\ UNCHANGED dims
  BY DEF DeleteTrades
<1>2. ASSUME NEW f \in facts PROVE Entry(f)' = Entry(f)
  BY <1>1 DEF Entry, Name, KeysOf
<1>3. ASSUME NEW t \in Trades
      PROVE  View'[t] = IF t \in Ledger!Ids(l) THEN NoRow ELSE View[t]
  <2>1. CASE t \in Ledger!Ids(l)
    <3>1. \A f \in facts' : f.id # t
      BY <1>1, <2>1, StagedIds
    <3> QED
      BY <2>1, <3>1, ViewOfNextFacts DEF IInv
  <2>2. CASE t \notin Ledger!Ids(l) /\ \E f \in facts : f.id = t
    <3>1. PICK f \in facts : f.id = t
      BY <2>2
    <3>2. f \in facts'
      BY <1>1, <2>2, <3>1, StagedIds
    <3> QED
      BY <1>2, <2>2, <3>1, <3>2, ViewOfFacts, ViewOfNextFacts DEF IInv
  <2>3. CASE t \notin Ledger!Ids(l) /\ \A f \in facts : f.id # t
    BY <1>1, <2>3, ViewOfFacts, ViewOfNextFacts DEF IInv
  <2> QED
    BY <2>1, <2>2, <2>3
<1> QED
  BY <1>3 DEF View

\* At its INSERT, a staged row's keys lead back to its own members.
LEMMA NamesOfRow ==
  ASSUME IInv, NEW l \in Loaders, pc[l] = "insert", NEW i \in Positions(l), NEW key
  PROVE  Entry(FactRow(l, i, key)) = [refs |-> Rows(l)[i].refs, date |-> Rows(l)[i].date,
                                      batch |-> batch[l]]
<1> DEFINE f == FactRow(l, i, key)
           r == Rows(l)[i].refs
<1>1. r \in [Dimensions -> Members \union {Null}]
  BY FrameRows DEF IInv, RowType
<1>2. ASSUME NEW d \in Dimensions PROVE Name(d, f.dimKeys[d]) = r[d]
  <2>1. f.dimKeys[d] = Joined(d, r[d])
    BY DEF FactRow
  <2>2. r[d] \in DOMAIN dims[d] \union {Null}
    BY DEF IInv, Progress, Known, Dimensions
  <2>3. CASE r[d] \in DOMAIN dims[d]
    BY <2>1, <2>3, NameOfMember DEF IInv, Joined
  <2>4. CASE r[d] = Null
    <3>1. Null \notin DOMAIN dims[d] /\ NoKey \notin KeysOf(d)
      BY NullAssumption DEF IInv, TypeOK, NoKey
    <3> QED
      BY <2>1, <2>4, <3>1 DEF Joined, Name
  <2> QED
    BY <2>2, <2>3, <2>4
<1>3. [d \in Dimensions |-> Name(d, f.dimKeys[d])] = r
  BY <1>1, <1>2
<1>4. f.date = Rows(l)[i].date /\ f.batch = batch[l]
  BY DEF FactRow
<1> QED
  BY <1>3, <1>4 DEF Entry

\* what a staged row shall say
Said(l, i) == [refs |-> Rows(l)[i].refs, date |-> Rows(l)[i].date, batch |-> batch[l]]

\* The INSERT publishes the staged rows, where there was none.
LEMMA InsertPublishes ==
  ASSUME IInv, IInv', NEW l \in Loaders, InsertTrades(l)
  PROVE  /\ \A p, q \in StagedRows(l) : p[1] = q[1] => p = q
         /\ \A t \in Ledger!Ids(l) : View[t] = NoRow
         /\ View' = [t \in Trades |-> IF t \in Ledger!Ids(l)
                                      THEN (CHOOSE p \in StagedRows(l) : p[1] = t)[2]
                                      ELSE View[t]]
<1>1. /\ pc[l] = "insert" /\ Insertable(l) /\ UNCHANGED <<dims, dates, frame, batch>>
  BY DEF InsertTrades, At
<1>2. PICK number \in Numberings(Positions(l)) : facts' = facts \union Inserted(l, number)
  BY DEF InsertTrades, Inserted
<1>3. /\ \A f \in Inserted(l, number) : \E i \in Positions(l) :
             f = FactRow(l, i, KeyBase(FactKeys) + number[i]) /\ f.id = Rows(l)[i].id
      /\ \A i \in Positions(l) : \E f \in Inserted(l, number) :
             f = FactRow(l, i, KeyBase(FactKeys) + number[i]) /\ f.id = Rows(l)[i].id
  BY <1>1, InsertedRows
<1>4. \A p \in StagedRows(l) : \E i \in Positions(l) : p = <<Rows(l)[i].id, Said(l, i)>>
  BY DEF StagedRows, Said
<1>5. \A i \in Positions(l) : <<Rows(l)[i].id, Said(l, i)>> \in StagedRows(l)
  BY DEF StagedRows, Said
<1>6. ASSUME NEW p \in StagedRows(l), NEW q \in StagedRows(l), p[1] = q[1] PROVE p = q
  <2>1. PICK i \in Positions(l) : p = <<Rows(l)[i].id, Said(l, i)>>
    BY <1>4
  <2>2. PICK j \in Positions(l) : q = <<Rows(l)[j].id, Said(l, j)>>
    BY <1>4
  <2>3. i = j
    BY <1>1, <1>6, <2>1, <2>2 DEF Insertable
  <2> QED
    BY <2>1, <2>2, <2>3
<1>7. ASSUME NEW t \in Ledger!Ids(l) PROVE View[t] = NoRow
  <2>1. PICK i \in Positions(l) : Rows(l)[i].id = t
    BY StagedIds
  <2>2. t \in Trades /\ \A f \in facts : f.id # t
    BY <1>1, <2>1, StagedIds DEF Insertable
  <2> QED
    BY <2>2, ViewOfFacts DEF IInv
<1>8. ASSUME NEW f PROVE Entry(f)' = Entry(f)
  BY <1>1 DEF Entry, Name, KeysOf
<1>9. ASSUME NEW t \in Trades
      PROVE  View'[t] = IF t \in Ledger!Ids(l) THEN (CHOOSE p \in StagedRows(l) : p[1] = t)[2]
                        ELSE View[t]
  <2>1. CASE t \in Ledger!Ids(l)
    <3>1. PICK i \in Positions(l) : Rows(l)[i].id = t
      BY <2>1, StagedIds
    <3> DEFINE chosen == CHOOSE p \in StagedRows(l) : p[1] = t
    <3>2. chosen = <<t, Said(l, i)>>
      BY <1>5, <1>6, <3>1
    <3>3. PICK f \in facts' : f = FactRow(l, i, KeyBase(FactKeys) + number[i]) /\ f.id = t
      BY <1>2, <1>3, <3>1
    <3>4. Entry(f) = Said(l, i)
      BY <1>1, <3>3, NamesOfRow DEF Said
    <3>5. View'[t] = Entry(f)'
      BY <3>3, ViewOfNextFacts DEF IInv
    <3>6. Entry(f)' = Entry(f)
      BY <1>8
    <3>7. chosen[2] = Said(l, i)
      <4> HIDE DEF chosen
      <4> QED
        BY <3>2
    <3>8. View'[t] = chosen[2]
      <4> HIDE DEF chosen
      <4> QED
        BY <3>4, <3>5, <3>6, <3>7
    <3> QED
      BY <2>1, <3>8
  <2>2. CASE t \notin Ledger!Ids(l) /\ \E f \in facts : f.id = t
    <3>1. PICK f \in facts : f.id = t
      BY <2>2
    <3>2. f \in facts'
      BY <1>2
    <3> QED
      BY <1>8, <2>2, <3>1, <3>2, ViewOfFacts, ViewOfNextFacts DEF IInv
  <2>3. CASE t \notin Ledger!Ids(l) /\ \A f \in facts : f.id # t
    <3>1. \A f \in facts' : f.id # t
      BY <1>2, <1>3, <2>3, StagedIds
    <3> QED
      BY <2>3, <3>1, ViewOfFacts, ViewOfNextFacts DEF IInv
  <2> QED
    BY <2>1, <2>2, <2>3
<1>10. View' = [t \in Trades |-> IF t \in Ledger!Ids(l)
                                 THEN (CHOOSE p \in StagedRows(l) : p[1] = t)[2]
                                 ELSE View[t]]
  BY <1>9 DEF View
<1> QED
  BY <1>6, <1>7, <1>10

AllStaged == [l \in Loaders |-> StagedRows(l)]

\* Each step of the load is a step of the ledger, or shows to no one.
LEMMA StepRefines ==
  ASSUME IInv, IInv', [Next]_vars
  PROVE  Ledger!Next \/ UNCHANGED <<View, AllStaged>>
<1>1. CASE UNCHANGED vars
  <2>1. UNCHANGED <<dims, facts, frame, batch>>
    BY <1>1 DEF vars, store, loader
  <2>2. View' = View
    BY <2>1, ViewStays
  <2>3. AllStaged' = AllStaged
    BY <2>1, StagedStay DEF AllStaged
  <2> QED
    BY <2>2, <2>3
<1>2. ASSUME NEW l \in Loaders, UNCHANGED <<frame, batch>> PROVE AllStaged' = AllStaged
  BY <1>2, StagedStay DEF AllStaged
<1>3. ASSUME NEW l \in Loaders, StartLoad(l) \/ RetryLoad(l) PROVE Ledger!Next
  <2>1. /\ UNCHANGED <<dims, facts>>
        /\ \A k \in Loaders \ {l} : frame'[k] = frame[k] /\ batch'[k] = batch[k]
    BY <1>3 DEF StartLoad, RetryLoad, Restage, store, IInv, TypeOK
  <2>2. View' = View
    BY <2>1, ViewStays
  <2>3. \A k \in Loaders \ {l} : AllStaged'[k] = AllStaged[k]
    BY <2>1, StagedStay DEF AllStaged
  <2>4. Ledger!Stage
    BY <2>2, <2>3 DEF Ledger!Stage, AllStaged
  <2> QED
    BY <2>4 DEF Ledger!Next
<1>4. ASSUME NEW l \in Loaders, DeleteTrades(l) PROVE Ledger!Next
  <2>1. View' = [t \in Trades |-> IF t \in Ledger!Ids(l) THEN NoRow ELSE View[t]]
    BY <1>4, DeleteWithdraws
  <2>2. AllStaged' = AllStaged
    BY <1>2, <1>4 DEF DeleteTrades
  <2>3. Ledger!Withdraw(l)
    BY <2>1, <2>2 DEF Ledger!Withdraw, AllStaged
  <2> QED
    BY <2>3 DEF Ledger!Next
<1>5. ASSUME NEW l \in Loaders, InsertTrades(l) PROVE Ledger!Next
  <2>1. /\ \A p, q \in StagedRows(l) : p[1] = q[1] => p = q
        /\ \A t \in Ledger!Ids(l) : View[t] = NoRow
        /\ View' = [t \in Trades |-> IF t \in Ledger!Ids(l)
                                     THEN (CHOOSE p \in StagedRows(l) : p[1] = t)[2]
                                     ELSE View[t]]
    BY <1>5, InsertPublishes
  <2>2. AllStaged' = AllStaged
    BY <1>2, <1>5 DEF InsertTrades
  <2>3. AllStaged[l] = StagedRows(l)
    BY DEF AllStaged
  <2>4. Ledger!Publish(l)
    BY <2>1, <2>2, <2>3 DEF Ledger!Publish, AllStaged
  <2> QED
    BY <2>4 DEF Ledger!Next
<1>6. ASSUME NEW l \in Loaders, NEW d \in Dimensions, AddMembers(l, d)
      PROVE  UNCHANGED <<View, AllStaged>>
  <2>1. \A e \in Dimensions : /\ DOMAIN dims[e] \subseteq DOMAIN dims'[e]
                              /\ \A m \in DOMAIN dims[e] : dims'[e][m] = dims[e][m]
    BY <1>6, AddMembersAdds DEF IInv
  <2>2. UNCHANGED <<facts, frame, batch>>
    BY <1>6 DEF AddMembers
  <2>3. View' = View
    BY <2>1, <2>2, ViewStays
  <2> QED
    BY <1>2, <2>2, <2>3
<1>7. ASSUME NEW l \in Loaders,
             \/ NothingToLoad(l) \/ Connect(l) \/ AddDates(l) \/ LoadFails(l)
             \/ GiveUp(l) \/ FinishLoad(l) \/ Crash(l) \/ Collect(l)
      PROVE  UNCHANGED <<View, AllStaged>>
  <2>1. UNCHANGED <<dims, facts, frame, batch>>
    BY <1>7 DEF NothingToLoad, Connect, AddDates, LoadFails, GiveUp, FinishLoad, Crash,
                Collect, store, loader
  <2>2. View' = View
    BY <2>1, ViewStays
  <2> QED
    BY <1>2, <2>1, <2>2
<1> QED
  BY <1>1, <1>3, <1>4, <1>5, <1>6, <1>7 DEF Next, LoadStep

\* Behind surrogate keys and statements that commit one by one, readers see the
\* ledger of FactLedger: rows come all at once, and go only for a load's own trades.
THEOREM LedgerImplemented == Spec => ImplementsLedger
<1>1. Init => Ledger!Init
  <2> SUFFICES ASSUME Init PROVE Ledger!Init
    OBVIOUS
  <2>1. View = [t \in Trades |-> NoRow]
    BY DEF Init, View
  <2>2. \A l \in Loaders : StagedRows(l) = {}
    BY DEF Init, StagedRows, Rows, Positions, NoFrame
  <2> QED
    BY <2>1, <2>2 DEF Ledger!Init
<1>2. IInv /\ IInv' /\ [Next]_vars => [Ledger!Next]_<<View, [l \in Loaders |-> StagedRows(l)]>>
  BY StepRefines DEF AllStaged
<1> QED
  BY Inductive, <1>1, <1>2, PTL DEF Spec, ImplementsLedger, Ledger!Spec

=============================================================================
