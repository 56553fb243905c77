-------------------------- MODULE JobExecutorProofs --------------------------
(* Theorems about JobExecutor, for every set of definitions files and every   *)
(* root: the order is topological, commands start behind upstream success, an *)
(* exit code of 0 means that every job succeeded, and the executor implements *)
(* the abstract job stream.                                                   *)
EXTENDS JobExecutor, SequenceTheorems, TLAPS

BaseType == DefinitionType /\ VisitType /\ LoopType

\* A defined job has a well-typed spec.
LEMMA SpecOf ==
  ASSUME DefinitionType, NEW n \in DOMAIN jobs
  PROVE  /\ n \in Names
         /\ Deps(n) \in Seq(Names)
         /\ jobs[n].members \in Seq(Names)
         /\ jobs[n].retry_attempts \in Int
         /\ Attempts(n) \in Int
  <1>1. n \in Names /\ jobs[n] \in SpecType
    BY DefinitionsAssumption DEF DefinitionsAssumption, DefinitionType
  <1> QED
    BY <1>1 DEF SpecType, Deps, Attempts

-----------------------------------------------------------------------------
(* The visit *)

\* What the depth-first visit keeps true of the part of the order it has built.
OrderPart ==
    /\ visited = Ran
    /\ \A k, m \in DOMAIN order : order[k] = order[m] => k = m
    /\ \A k \in DOMAIN order : order[k] \in DOMAIN jobs
    /\ \A k \in DOMAIN order : \A i \in DOMAIN Deps(order[k]) :
          \E m \in 1 .. k - 1 : order[m] = Deps(order[k])[i]

\* What it keeps true of the calls in progress: they are calls for defined
\* jobs, of different names, none of them finished; the loop of each call has
\* finished the names before its cursor, and stands at the next call's name.
StackPart ==
    /\ \A j \in DOMAIN stack : stack[j] \in DOMAIN jobs /\ stack[j] \notin visited
    /\ \A j, l \in DOMAIN stack : stack[j] = stack[l] => j = l
    /\ \A j \in DOMAIN stack : \A i \in DOMAIN Deps(stack[j]) :
          i < cursor[stack[j]] => Deps(stack[j])[i] \in visited
    /\ \A j \in 1 .. Len(stack) - 1 :
          /\ cursor[stack[j]] \in DOMAIN Deps(stack[j])
          /\ Deps(stack[j])[cursor[stack[j]]] = stack[j + 1]

VisitInv ==
    /\ BaseType
    /\ OrderPart
    /\ pc = "visit" => StackPart /\ root \in DOMAIN jobs
    /\ pc = "call" => stack = <<>>

\* In the visit, the loop in progress is that of the root list or of a defined job.
LEMMA PendingType ==
  ASSUME VisitInv, pc = "visit"
  PROVE  /\ stack # <<>> => Top \in DOMAIN jobs /\ Len(stack) \in DOMAIN stack
         /\ HasPending => Pending \in Names
  <1>1. stack \in Seq(Names) /\ DefinitionType
    BY DEF VisitInv, BaseType, VisitType
  <1>2. stack # <<>> => Top \in DOMAIN jobs /\ Len(stack) \in DOMAIN stack
    BY <1>1 DEF VisitInv, StackPart, Top
  <1>3. CASE stack = <<>>
    <2>0. root \in Names /\ root \in DOMAIN jobs /\ jobs[root].members \in Seq(Names)
      BY <1>1, SpecOf DEF VisitInv
    <2>1. Expanded \in Seq(Names)
      BY <2>0 DEF Expanded
    <2>2. target \in Nat \ {0}
      BY DEF VisitInv, BaseType, VisitType
    <2> QED
      BY <1>2, <1>3, <2>1, <2>2 DEF HasPending, Pending
  <1>4. CASE stack # <<>>
    <2>1. Deps(Top) \in Seq(Names) /\ Top \in Names
      BY <1>1, <1>2, <1>4, SpecOf
    <2>2. cursor[Top] \in Nat \ {0}
      BY <2>1 DEF VisitInv, BaseType, VisitType
    <2> QED
      BY <1>2, <1>4, <2>1, <2>2 DEF HasPending, Pending
  <1> QED
    BY <1>3, <1>4

\* The order and its jobs do not change: what holds of the order still holds.
LEMMA OrderStutter ==
  ASSUME OrderPart, UNCHANGED <<jobs, visited, order>>
  PROVE  OrderPart'
  BY DEF OrderPart, Ran, Deps

\* A name that was visited is passed over.
LEMMA KnownStep ==
  ASSUME VisitInv, VisitKnown
  PROVE  VisitInv'
  <1>0. /\ stack \in Seq(Names) /\ cursor \in [Names -> Nat \ {0}]
        /\ target \in Nat \ {0} /\ pc = "visit"
    BY DEF VisitInv, BaseType, VisitType, VisitKnown
  <1>1. UNCHANGED <<jobs, root, pc, stack, visited, order>>
    BY DEF VisitKnown, definition
  <1>2. OrderPart'
    BY <1>1, OrderStutter DEF VisitInv
  <1>3. CASE stack = <<>>
    <2>1. target' = target + 1 /\ cursor' = cursor
      BY <1>3 DEF VisitKnown, Advance
    <2>2. BaseType'
      BY <1>0, <1>1, <2>1 DEF VisitKnown, VisitInv, BaseType, DefinitionType, VisitType,
         LoopType, definition, results
    <2>3. StackPart'
      BY <1>0, <1>1, <1>3 DEF StackPart
    <2> QED
      BY <1>0, <1>1, <1>2, <2>2, <2>3 DEF VisitInv
  <1>4. CASE stack # <<>>
    <2>1. /\ target' = target /\ Top \in Names /\ Top \in DOMAIN jobs
          /\ cursor' = [cursor EXCEPT ![Top] = @ + 1]
          /\ Len(stack) \in DOMAIN stack
      BY <1>0, <1>4, PendingType, SpecOf
         DEF VisitKnown, Advance, Top, VisitInv, BaseType
    <2>2. BaseType'
      BY <1>0, <1>1, <2>1 DEF VisitKnown, VisitInv, BaseType, DefinitionType, VisitType,
         LoopType, definition, results
    <2>3. StackPart
      BY <1>0 DEF VisitInv
    <2>4. Deps(Top)[cursor[Top]] \in visited
      BY <1>4 DEF VisitKnown, Pending
    <2>5. ASSUME NEW j \in DOMAIN stack, NEW i \in DOMAIN Deps(stack[j]),
                 i < cursor'[stack[j]]
          PROVE  Deps(stack[j])[i] \in visited
      <3>1. stack[j] \in DOMAIN jobs /\ stack[j] \in Names
        BY <1>0, <2>3 DEF StackPart
      <3>2. i \in Nat /\ Deps(stack[j]) \in Seq(Names)
        BY <3>1, SpecOf DEF VisitInv, BaseType
      <3>3. CASE stack[j] = Top
        <4>1. i < cursor[Top] \/ i = cursor[Top]
          BY <1>0, <2>1, <2>5, <3>2, <3>3
        <4> QED
          BY <2>3, <2>4, <3>3, <4>1 DEF StackPart
      <3>4. CASE stack[j] # Top
        <4>1. cursor'[stack[j]] = cursor[stack[j]]
          BY <1>0, <2>1, <3>1, <3>4
        <4> QED
          BY <2>3, <2>5, <4>1 DEF StackPart
      <3> QED
        BY <3>3, <3>4
    <2>6. ASSUME NEW j \in 1 .. Len(stack) - 1
          PROVE  /\ cursor'[stack[j]] \in DOMAIN Deps(stack[j])
                 /\ Deps(stack[j])[cursor'[stack[j]]] = stack[j + 1]
      <3>1. stack[j] # Top /\ stack[j] \in Names
        BY <1>0, <2>1, <2>3 DEF StackPart, Top
      <3>2. cursor'[stack[j]] = cursor[stack[j]]
        BY <1>0, <2>1, <3>1
      <3> QED
        BY <2>3, <3>2 DEF StackPart
    <2>7. StackPart'
      BY <1>1, <2>3, <2>5, <2>6 DEF StackPart, Deps
    <2> QED
      BY <1>0, <1>1, <1>2, <2>2, <2>7 DEF VisitInv
  <1> QED
    BY <1>3, <1>4

\* A name that is neither finished nor in progress gets a call of its own.
LEMMA EnterStep ==
  ASSUME VisitInv, VisitEnter
  PROVE  VisitInv'
  <1>0. /\ stack \in Seq(Names) /\ cursor \in [Names -> Nat \ {0}] /\ pc = "visit"
        /\ StackPart
    BY DEF VisitInv, BaseType, VisitType, VisitEnter
  <1>1. UNCHANGED <<jobs, root, pc, visited, order>>
    BY DEF VisitEnter, definition
  <1>2. OrderPart'
    BY <1>1, OrderStutter DEF VisitInv
  <1>3. /\ Pending \in DOMAIN jobs /\ Pending \in Names
        /\ Pending \notin visited /\ Pending \notin visiting
        /\ stack' = Append(stack, Pending)
        /\ cursor' = [cursor EXCEPT ![Pending] = 1]
    BY SpecOf DEF VisitEnter, VisitInv, BaseType
  <1>4. /\ Len(stack') = Len(stack) + 1
        /\ DOMAIN stack' = 1 .. Len(stack) + 1
        /\ stack'[Len(stack) + 1] = Pending
        /\ \A j \in 1 .. Len(stack) : stack'[j] = stack[j]
        /\ Len(stack) \in Nat /\ DOMAIN stack = 1 .. Len(stack)
    BY <1>0, <1>3
  <1>5. BaseType'
    BY <1>0, <1>1, <1>3 DEF VisitEnter, VisitInv, BaseType, DefinitionType, VisitType,
       LoopType, definition, results
  <1>6. \A j \in 1 .. Len(stack) : /\ stack[j] # Pending /\ stack[j] \in Names
                                   /\ cursor'[stack[j]] = cursor[stack[j]]
    BY <1>0, <1>3, <1>4 DEF visiting
  <1>7. \A j \in DOMAIN stack' : stack'[j] \in DOMAIN jobs /\ stack'[j] \notin visited
    BY <1>0, <1>3, <1>4 DEF StackPart
  <1>8. \A j, l \in DOMAIN stack' : stack'[j] = stack'[l] => j = l
    BY <1>0, <1>4, <1>6 DEF StackPart
  <1>9. ASSUME NEW j \in DOMAIN stack', NEW i \in DOMAIN Deps(stack'[j]),
               i < cursor'[stack'[j]]
        PROVE  Deps(stack'[j])[i] \in visited
    <2>1. CASE j \in 1 .. Len(stack)
      BY <1>0, <1>4, <1>6, <1>9, <2>1 DEF StackPart
    <2>2. CASE j = Len(stack) + 1
      <3>1. cursor'[Pending] = 1 /\ stack'[j] = Pending
        BY <1>0, <1>3, <1>4, <2>2
      <3>2. Deps(Pending) \in Seq(Names)
        BY <1>3, SpecOf DEF VisitInv, BaseType
      <3> QED
        BY <1>9, <3>1, <3>2
    <2> QED
      BY <1>4, <2>1, <2>2
  <1>10. ASSUME NEW j \in 1 .. Len(stack') - 1
         PROVE  /\ cursor'[stack'[j]] \in DOMAIN Deps(stack'[j])
                /\ Deps(stack'[j])[cursor'[stack'[j]]] = stack'[j + 1]
    <2>1. j \in 1 .. Len(stack) /\ stack'[j] = stack[j] /\ cursor'[stack[j]] = cursor[stack[j]]
      BY <1>4, <1>6
    <2>2. CASE j = Len(stack)
      <3>1. stack # <<>> /\ stack[j] = Top /\ stack'[j + 1] = Pending
        BY <1>0, <1>4, <2>1, <2>2 DEF Top
      <3>2. cursor[Top] <= Len(Deps(Top)) /\ Pending = Deps(Top)[cursor[Top]]
        BY <3>1 DEF VisitEnter, HasPending, Pending
      <3>3. Deps(Top) \in Seq(Names) /\ cursor[Top] \in Nat \ {0}
        BY <1>0, <3>1, PendingType, SpecOf DEF VisitInv, BaseType
      <3> QED
        BY <2>1, <2>2, <3>1, <3>2, <3>3
    <2>3. CASE j # Len(stack)
      <3>5. Len(stack) \in Nat /\ j \in 1 .. Len(stack)
        BY <1>0, <2>1
      <3>0. j + 1 \in 1 .. Len(stack)
        BY <2>3, <3>5
      <3>1. stack'[j + 1] = stack[j + 1]
        BY <1>4, <3>0
      <3>4. j \in 1 .. Len(stack) - 1
        BY <2>3, <3>5
      <3>2. /\ cursor[stack[j]] \in DOMAIN Deps(stack[j])
            /\ Deps(stack[j])[cursor[stack[j]]] = stack[j + 1]
        BY <1>0, <3>4 DEF StackPart
      <3> QED
        BY <2>1, <3>1, <3>2
    <2> QED
      BY <2>2, <2>3
  <1>11. StackPart'
    BY <1>1, <1>7, <1>8, <1>9, <1>10 DEF StackPart, Deps
  <1> QED
    BY <1>0, <1>1, <1>2, <1>5, <1>11 DEF VisitInv

\* A call whose loop is through finishes its job, and its caller goes on.
LEMMA ReturnStep ==
  ASSUME VisitInv, VisitReturn
  PROVE  VisitInv'
  <1>0. /\ stack \in Seq(Names) /\ cursor \in [Names -> Nat \ {0}] /\ pc = "visit"
        /\ order \in Seq(Names) /\ target \in Nat \ {0} /\ visited \subseteq Names
        /\ StackPart /\ OrderPart /\ stack # <<>>
    BY DEF VisitInv, BaseType, VisitType, VisitReturn
  <1>1. UNCHANGED <<jobs, root, pc>>
    BY DEF VisitReturn, definition
  <1> DEFINE n == Len(stack)
  <1>2. /\ Top \in DOMAIN jobs /\ Top \in Names /\ n \in DOMAIN stack
        /\ n \in Nat /\ n > 0 /\ Top = stack[n] /\ Top \notin visited
    <2>1. Top \in DOMAIN jobs /\ n \in DOMAIN stack
      BY <1>0, PendingType
    <2>2. Top = stack[n] /\ n \in Nat /\ n > 0
      BY <1>0, <2>1 DEF Top
    <2> QED
      BY <1>0, <2>1, <2>2, SpecOf DEF VisitInv, BaseType, StackPart
  <1>3. /\ visited' = visited \union {Top}
        /\ order' = Append(order, Top)
        /\ stack' = SubSeq(stack, 1, n - 1)
        /\ Advance(stack')
        /\ ~HasPending
    BY DEF VisitReturn
  <1>4. /\ stack' \in Seq(Names) /\ Len(stack') = n - 1
        /\ \A j \in 1 .. n - 1 : stack'[j] = stack[j]
        /\ DOMAIN stack = 1 .. n
    <2>1. 1 \in 1 .. n + 1 /\ n - 1 \in 0 .. n /\ DOMAIN stack = 1 .. n
      BY <1>0, <1>2
    <2>2. /\ SubSeq(stack, 1, n - 1) \in Seq(Names)
          /\ Len(SubSeq(stack, 1, n - 1)) = IF 1 <= n - 1 THEN (n - 1) - 1 + 1 ELSE 0
          /\ \A j \in 1 .. (n - 1) - 1 + 1 : SubSeq(stack, 1, n - 1)[j] = stack[1 + j - 1]
      BY <1>0, <2>1, SubSeqProperties
    <2>3. Len(SubSeq(stack, 1, n - 1)) = n - 1
      <3>1. Len(SubSeq(stack, 1, n - 1)) = IF 1 <= n - 1 THEN (n - 1) - 1 + 1 ELSE 0
        BY <2>2
      <3>2. CASE 1 <= n - 1
        <4>1. Len(SubSeq(stack, 1, n - 1)) = (n - 1) - 1 + 1
          BY <3>1, <3>2
        <4> QED
          BY <1>2, <4>1
      <3>3. CASE ~(1 <= n - 1)
        <4>1. Len(SubSeq(stack, 1, n - 1)) = 0
          BY <3>1, <3>3
        <4> QED
          BY <1>2, <3>3, <4>1
      <3> QED
        BY <3>2, <3>3
    <2>4. ASSUME NEW j \in 1 .. n - 1
          PROVE  SubSeq(stack, 1, n - 1)[j] = stack[j]
      <3>1. j \in 1 .. (n - 1) - 1 + 1 /\ 1 + j - 1 = j
        BY <1>2
      <3> QED
        BY <2>2, <3>1
    <2> QED
      BY <1>3, <2>1, <2>2, <2>3, <2>4
  <1>5. \A i \in DOMAIN Deps(Top) : Deps(Top)[i] \in visited
    <2>1. Deps(Top) \in Seq(Names) /\ cursor[Top] \in Nat
      BY <1>0, <1>2, SpecOf DEF VisitInv, BaseType
    <2>2. \A i \in DOMAIN Deps(Top) : i < cursor[Top]
      BY <1>0, <1>3, <2>1 DEF HasPending
    <2> QED
      BY <1>0, <1>2, <2>2 DEF StackPart
  <1>6. OrderPart'
    <2>1. /\ Len(order') = Len(order) + 1 /\ DOMAIN order' = 1 .. Len(order) + 1
          /\ order'[Len(order) + 1] = Top
          /\ \A k \in 1 .. Len(order) : order'[k] = order[k]
          /\ Len(order) \in Nat /\ DOMAIN order = 1 .. Len(order)
      BY <1>0, <1>2, <1>3
    <2>2. visited = Ran
      BY <1>0 DEF OrderPart
    <2>3. visited' = Ran'
      BY <1>3, <2>1, <2>2 DEF Ran
    <2>4. \A k \in 1 .. Len(order) : order[k] # Top
      BY <1>2, <2>1, <2>2 DEF Ran
    <2>5. \A k, m \in DOMAIN order' : order'[k] = order'[m] => k = m
      BY <1>0, <2>1, <2>4 DEF OrderPart
    <2>6. \A k \in DOMAIN order' : order'[k] \in DOMAIN jobs
      BY <1>0, <1>2, <2>1 DEF OrderPart
    <2>7. ASSUME NEW k \in DOMAIN order', NEW i \in DOMAIN Deps(order'[k])
          PROVE  \E m \in 1 .. k - 1 : order'[m] = Deps(order'[k])[i]
      <3>1. CASE k \in 1 .. Len(order)
        <4>1. order'[k] = order[k] /\ k \in DOMAIN order
          BY <2>1, <3>1
        <4>2. PICK m \in 1 .. k - 1 : order[m] = Deps(order[k])[i]
          BY <1>0, <2>7, <4>1 DEF OrderPart
        <4>3. order'[m] = order[m]
          BY <2>1, <3>1, <4>2
        <4> QED
          BY <4>1, <4>2, <4>3
      <3>2. CASE k = Len(order) + 1
        <4>1. order'[k] = Top /\ k - 1 = Len(order)
          BY <2>1, <3>2
        <4>2. Deps(Top)[i] \in Ran
          BY <1>5, <2>2, <2>7, <4>1
        <4>3. PICK m \in 1 .. Len(order) : order[m] = Deps(Top)[i]
          BY <2>1, <4>2 DEF Ran
        <4> QED
          BY <2>1, <4>1, <4>3
      <3> QED
        BY <2>1, <3>1, <3>2
    <2> QED
      BY <1>1, <2>3, <2>5, <2>6, <2>7 DEF OrderPart, Deps
  <1>7. /\ cursor' \in [Names -> Nat \ {0}] /\ target' \in Nat \ {0}
        /\ \A j \in 1 .. n - 2 : cursor'[stack[j]] = cursor[stack[j]]
        /\ n > 1 => cursor'[stack[n - 1]] = cursor[stack[n - 1]] + 1
    <2>1. CASE stack' = <<>>
      <3>1. n = 1 /\ cursor' = cursor /\ target' = target + 1
        BY <1>2, <1>3, <1>4, <2>1 DEF Advance
      <3> QED
        BY <1>0, <3>1
    <2>2. CASE stack' # <<>>
      <3>1. n > 1
        BY <1>2, <1>4, <2>2
      <3>2. n - 1 \in 1 .. n /\ stack'[Len(stack')] = stack[n - 1] /\ stack[n - 1] \in Names
        BY <1>0, <1>2, <1>4, <3>1
      <3>3. cursor' = [cursor EXCEPT ![stack[n - 1]] = @ + 1] /\ target' = target
        BY <1>3, <2>2, <3>2 DEF Advance
      <3>4. ASSUME NEW j \in 1 .. n - 2
            PROVE  stack[j] \in Names /\ stack[j] # stack[n - 1]
        <4>1. j \in DOMAIN stack /\ j # n - 1 /\ n - 1 \in DOMAIN stack
          BY <1>2, <1>4, <3>1
        <4> QED
          BY <1>0, <4>1 DEF StackPart
      <3>5. ASSUME NEW j \in 1 .. n - 2
            PROVE  cursor'[stack[j]] = cursor[stack[j]]
        <4>1. stack[j] \in Names /\ stack[j] # stack[n - 1]
          BY <3>4
        <4> QED
          BY <1>0, <3>3, <4>1
      <3>6. cursor'[stack[n - 1]] = cursor[stack[n - 1]] + 1 /\ cursor' \in [Names -> Nat \ {0}]
        BY <1>0, <3>2, <3>3
      <3> QED
        BY <1>0, <3>3, <3>5, <3>6
    <2> QED
      BY <2>1, <2>2
  <1>8. BaseType'
    <2>1. order' \in Seq(Names) /\ visited' \subseteq Names
      BY <1>0, <1>2, <1>3
    <2>2. VisitType'
      BY <1>4, <1>7, <2>1 DEF VisitType
    <2>3. DefinitionType' /\ LoopType'
      BY DEF VisitReturn, VisitInv, BaseType, DefinitionType, LoopType, definition, results
    <2> QED
      BY <2>2, <2>3 DEF BaseType
  <1>9. StackPart'
    <2>0. DOMAIN stack' = 1 .. n - 1
      BY <1>4
    <2>1. ASSUME NEW j \in 1 .. n - 1
          PROVE  /\ j \in DOMAIN stack /\ stack'[j] = stack[j] /\ stack[j] # Top
                 /\ stack[j] \in DOMAIN jobs /\ stack[j] \notin visited
                 /\ stack[j] \in Names
      <3>1. j \in DOMAIN stack /\ stack'[j] = stack[j] /\ j # n
        BY <1>2, <1>4
      <3>2. stack[j] \in Names
        BY <1>0, <3>1
      <3>3. stack[j] \in DOMAIN jobs /\ stack[j] \notin visited /\ stack[j] # Top
        BY <1>0, <1>2, <3>1 DEF StackPart
      <3> QED
        BY <3>1, <3>2, <3>3
    <2>2. \A j, l \in 1 .. n - 1 : stack'[j] = stack'[l] => j = l
      BY <1>0, <2>1 DEF StackPart
    <2>3. \A j \in 1 .. n - 1 : stack'[j] \in DOMAIN jobs /\ stack'[j] \notin visited'
      BY <1>3, <2>1
    <2>4. ASSUME NEW j \in 1 .. n - 1, NEW i \in DOMAIN Deps(stack[j]), i < cursor'[stack[j]]
          PROVE  Deps(stack[j])[i] \in visited'
      <3>1. CASE i < cursor[stack[j]]
        BY <1>0, <1>3, <2>1, <2>4, <3>1 DEF StackPart
      <3>2. CASE ~(i < cursor[stack[j]])
        <4>1. Deps(stack[j]) \in Seq(Names) /\ cursor[stack[j]] \in Nat
          BY <1>0, <2>1, SpecOf DEF VisitInv, BaseType
        <4>2. j = n - 1
          BY <1>2, <1>7, <2>4, <3>2
        <4>3. i = cursor[stack[j]]
          <5>1. n > 1 /\ cursor'[stack[j]] = cursor[stack[j]] + 1
            BY <1>2, <1>7, <4>2
          <5>2. i \in Nat
            BY <2>4, <4>1
          <5>3. i < cursor[stack[j]] + 1
            BY <2>4, <5>1
          <5> QED
            BY <3>2, <4>1, <5>2, <5>3
        <4>4. Deps(stack[j])[cursor[stack[j]]] = stack[j + 1]
          BY <1>0 DEF StackPart
        <4> QED
          BY <1>2, <1>3, <4>2, <4>3, <4>4
      <3> QED
        BY <3>1, <3>2
    <2>5. ASSUME NEW j \in 1 .. n - 2
          PROVE  /\ cursor'[stack'[j]] \in DOMAIN Deps(stack'[j])
                 /\ Deps(stack'[j])[cursor'[stack'[j]]] = stack'[j + 1]
      <3>1. j \in 1 .. n - 1 /\ j + 1 \in 1 .. n - 1
        BY <1>2
      <3>2. /\ cursor[stack[j]] \in DOMAIN Deps(stack[j])
            /\ Deps(stack[j])[cursor[stack[j]]] = stack[j + 1]
        BY <1>0, <3>1 DEF StackPart
      <3>3. /\ cursor'[stack[j]] = cursor[stack[j]]
            /\ stack'[j] = stack[j] /\ stack'[j + 1] = stack[j + 1]
        BY <1>4, <1>7, <3>1
      <3> QED
        BY <3>2, <3>3
    <2>6. Len(stack') - 1 = n - 2
      BY <1>2, <1>4
    <2>7. \A j \in 1 .. n - 1 : \A i \in DOMAIN Deps(stack'[j]) :
             i < cursor'[stack'[j]] => Deps(stack'[j])[i] \in visited'
      BY <2>1, <2>4
    <2> QED
      BY <1>1, <2>0, <2>2, <2>3, <2>5, <2>6, <2>7 DEF StackPart, Deps
  <1> QED
    BY <1>0, <1>1, <1>6, <1>8, <1>9 DEF VisitInv

\* What VisitInv speaks of is left alone once the order is complete, or before.
VisitUnchanged == UNCHANGED <<jobs, root, visit>>

LEMMA VisitKept ==
  ASSUME VisitInv, VisitUnchanged, BaseType',
         pc' = "visit" => pc \in {"visit", "call"} /\ root \in DOMAIN jobs,
         pc' # "call"
  PROVE  VisitInv'
  <1>1. OrderPart'
    BY OrderStutter DEF VisitInv, VisitUnchanged, visit
  <1>2. CASE pc' # "visit"
    BY <1>1, <1>2 DEF VisitInv
  <1>3. CASE pc' = "visit" /\ pc = "visit"
    <2>1. StackPart'
      BY <1>3 DEF VisitInv, VisitUnchanged, visit, StackPart, Deps
    <2> QED
      BY <1>1, <1>3, <2>1 DEF VisitInv, VisitUnchanged
  <1>4. CASE pc' = "visit" /\ pc = "call"
    <2>1. stack' = <<>>
      BY <1>4 DEF VisitInv, VisitUnchanged, visit
    <2>2. StackPart'
      BY <2>1 DEF StackPart
    <2> QED
      BY <1>1, <1>4, <2>2 DEF VisitInv, VisitUnchanged
  <1> QED
    BY <1>2, <1>3, <1>4

-----------------------------------------------------------------------------
(* The loop of run *)

\* A job has a result exactly when the loop has passed it, or is recording it.
StatusPart ==
    /\ pc \in {"call", "visit"} => pos = 1 /\ \A n \in Names : status[n] = "NONE"
    /\ pc \in InLoop => \A k \in DOMAIN order :
          status[order[k]] # "NONE" <=> (k < pos \/ (k = pos /\ pc = "record"))
    /\ pc \in {"attempt", "backoff", "record"} => pos \in DOMAIN order
    /\ pc = "done" => pos > Len(order)

\* A command was started behind the success of its upstream jobs, and the
\* wait between two attempts leaves at least one of them.
AttemptPart ==
    /\ pc \in {"attempt", "backoff"} => attempt \in 1 .. Attempts(Current)
    /\ pc = "backoff" => attempt < Attempts(Current)
    /\ StartedBehindSuccess

\* A skip has a job that ran and did not succeed among the earlier ones.
SkipPart ==
    pc \in InLoop => \A k \in DOMAIN order : status[order[k]] = "SKIPPED" =>
        \E m \in 1 .. k - 1 : status[order[m]] \in {"FAILED", "TIMEOUT", "PENDING"}

LoopInv == StatusPart /\ AttemptPart /\ SkipPart

IInv == VisitInv /\ LoopInv

LEMMA InitInv == Init => IInv
  <1> SUFFICES ASSUME Init PROVE IInv
    OBVIOUS
  <1>1. BaseType
    BY DEF Init, BaseType, DefinitionType, VisitType, LoopType, Status, Errors
  <1>2. OrderPart
    BY DEF Init, OrderPart, Ran
  <1>3. VisitInv
    BY <1>1, <1>2 DEF Init, VisitInv
  <1>4. LoopInv
    BY DEF Init, LoopInv, StatusPart, AttemptPart, SkipPart, StartedBehindSuccess, InLoop
  <1> QED
    BY <1>3, <1>4 DEF IInv

\* The visit leaves the loop's variables alone until the order is complete.
LEMMA VisitStepInv ==
  ASSUME IInv, VisitStep
  PROVE  IInv' /\ UNCHANGED status
  <1>0. UNCHANGED <<pos, attempt, status, history>> /\ pc \in {"call", "visit"}
    BY DEF VisitStep, CallRefused, CallAccepted, VisitKnown, VisitCycle, VisitUndefined,
       VisitEnter, VisitReturn, OrderComplete, results
  <1>1. pc' \in {"visit", "raised"} \/ (OrderComplete /\ pc' = "run")
    BY DEF VisitStep, CallRefused, CallAccepted, VisitKnown, VisitCycle, VisitUndefined,
       VisitEnter, VisitReturn, OrderComplete, Raise
  <1>2. VisitInv'
    <2>0. VisitInv
      BY DEF IInv
    <2>1. CASE VisitKnown
      BY <2>0, <2>1, KnownStep
    <2>2. CASE VisitEnter
      BY <2>0, <2>2, EnterStep
    <2>3. CASE VisitReturn
      BY <2>0, <2>3, ReturnStep
    <2>4. CASE CallRefused \/ CallAccepted \/ VisitCycle \/ VisitUndefined \/ OrderComplete
      <3>1. VisitUnchanged
        BY <2>4 DEF CallRefused, CallAccepted, VisitCycle, VisitUndefined, OrderComplete,
           VisitUnchanged, definition
      <3>2. DefinitionType' /\ VisitType'
        BY <2>0, <2>4 DEF CallRefused, CallAccepted, VisitCycle, VisitUndefined,
           OrderComplete, VisitInv, BaseType, DefinitionType, VisitType, definition, visit
      <3>3. LoopType'
        BY <2>0, <2>4 DEF CallRefused, CallAccepted, VisitCycle, VisitUndefined,
           OrderComplete, VisitInv, BaseType, LoopType, results, Raise, InLoop, Errors
      <3>4. /\ pc' = "visit" => pc \in {"visit", "call"} /\ root \in DOMAIN jobs
            /\ pc' # "call"
        BY <2>4 DEF CallRefused, CallAccepted, VisitCycle, VisitUndefined, OrderComplete,
           Raise
      <3> QED
        BY <2>0, <3>1, <3>2, <3>3, <3>4, VisitKept DEF BaseType
    <2> QED
      BY <2>1, <2>2, <2>3, <2>4 DEF VisitStep
  <1>3. pos = 1 /\ \A n \in Names : status[n] = "NONE"
    BY <1>0 DEF IInv, LoopInv, StatusPart
  <1>4. CASE pc' \in {"visit", "raised"}
    <2>1. LoopInv'
      BY <1>0, <1>3, <1>4 DEF LoopInv, StatusPart, AttemptPart, SkipPart,
         StartedBehindSuccess, InLoop
    <2> QED
      BY <1>0, <1>2, <2>1 DEF IInv
  <1>5. CASE OrderComplete /\ pc' = "run"
    <2>1. order' \in Seq(Names)
      BY <1>2 DEF VisitInv, BaseType, VisitType
    <2>2. \A k \in DOMAIN order' : status'[order'[k]] = "NONE" /\ ~(k < pos')
      BY <1>0, <1>3, <2>1
    <2>3. LoopInv'
      BY <1>0, <1>3, <1>5, <2>2 DEF LoopInv, StatusPart, AttemptPart, SkipPart,
         StartedBehindSuccess, InLoop
    <2> QED
      BY <1>0, <1>2, <2>3 DEF IInv
  <1> QED
    BY <1>1, <1>4, <1>5

\* When the loop stands at a job, its upstream jobs all come earlier in the order
\* and have their results.
LEMMA UpstreamSettled ==
  ASSUME IInv, pc \in InLoop, pos \in DOMAIN order, NEW i \in DOMAIN Deps(Current)
  PROVE  \E m \in 1 .. pos - 1 : /\ order[m] = Deps(Current)[i]
                                 /\ m \in DOMAIN order
                                 /\ status[order[m]] # "NONE"
  <1>1. PICK m \in 1 .. pos - 1 : order[m] = Deps(Current)[i]
    BY DEF IInv, VisitInv, OrderPart, Current
  <1>2. m \in DOMAIN order /\ m < pos
    <2>1. order \in Seq(Names) /\ pos \in Nat
      BY DEF IInv, VisitInv, BaseType, VisitType, LoopType
    <2> QED
      BY <2>1
  <1>3. status[order[m]] # "NONE"
    BY <1>2 DEF IInv, LoopInv, StatusPart
  <1> QED
    BY <1>1, <1>2, <1>3

\* A result is set once, for the job at hand.
LEMMA ResultStep ==
  ASSUME IInv, pc \in {"run", "attempt"}, pos \in DOMAIN order,
         UNCHANGED <<jobs, root, visit, pos>>, BaseType',
         NEW s \in Status \ {"NONE"}, Result(s),
         s = "SKIPPED" => \E m \in 1 .. pos - 1 :
                             status[order[m]] \in {"FAILED", "TIMEOUT", "PENDING"}
  PROVE  IInv' /\ Current \in Names /\ status[Current] = "NONE"
           /\ status' = [status EXCEPT ![Current] = s]
  <1>0. /\ order \in Seq(Names) /\ pos \in Nat /\ status \in [Names -> Status]
        /\ order' = order /\ pos' = pos /\ pc' = "record"
    BY DEF IInv, VisitInv, BaseType, VisitType, LoopType, visit, Result
  <1>1. Current \in Names /\ status' = [status EXCEPT ![Current] = s]
    BY <1>0 DEF Result, Current
  <1>2. VisitInv'
    BY <1>0, VisitKept DEF IInv, VisitUnchanged
  <1>3. ASSUME NEW k \in DOMAIN order
        PROVE  /\ k = pos => status'[order[k]] = s
               /\ k # pos => status'[order[k]] = status[order[k]]
               /\ k \in Nat
    <2>1. k \in Nat /\ order[k] \in Names
      BY <1>0
    <2>2. k # pos => order[k] # Current
      BY DEF IInv, VisitInv, OrderPart, Current
    <2> QED
      BY <1>0, <1>1, <2>1, <2>2 DEF Current
  <1>4. \A k \in DOMAIN order : status[order[k]] # "NONE" <=> k < pos
    BY DEF IInv, LoopInv, StatusPart, InLoop
  <1>5. status[Current] = "NONE"
    BY <1>0, <1>4 DEF Current
  <1>6. StatusPart'
    BY <1>0, <1>3, <1>4 DEF StatusPart, InLoop
  <1>7. AttemptPart'
    BY <1>0 DEF AttemptPart, StartedBehindSuccess
  <1>8. ASSUME NEW k \in DOMAIN order, status'[order[k]] = "SKIPPED"
        PROVE  \E m \in 1 .. k - 1 :
                  status'[order[m]] \in {"FAILED", "TIMEOUT", "PENDING"}
    <2>1. PICK m \in 1 .. k - 1 : status[order[m]] \in {"FAILED", "TIMEOUT", "PENDING"}
      <3>1. CASE k = pos
        BY <1>3, <1>8, <3>1
      <3>2. CASE k # pos
        <4>1. status[order[k]] = "SKIPPED"
          BY <1>3, <1>8, <3>2
        <4> QED
          BY <4>1 DEF IInv, LoopInv, SkipPart, InLoop
      <3> QED
        BY <3>1, <3>2
    <2>2. m \in DOMAIN order
      BY <1>0
    <2>3. m # pos
      BY <1>0, <1>4, <2>1, <2>2
    <2> QED
      BY <1>3, <2>1, <2>2, <2>3
  <1>9. SkipPart'
    BY <1>0, <1>8 DEF SkipPart
  <1> QED
    BY <1>1, <1>2, <1>5, <1>6, <1>7, <1>9 DEF IInv, LoopInv

\* The abstract stream's view of a result: it settles the job at hand.
LEMMA SettleStep ==
  ASSUME IInv, pc \in InLoop, pos \in DOMAIN order, UNCHANGED jobs,
         Current \in Names, status[Current] = "NONE",
         NEW s \in Status \ {"NONE"}, status' = [status EXCEPT ![Current] = s],
         s = "SKIPPED" <=> Blocked # {}
  PROVE  Stream!Next
  <1> DEFINE up == [n \in Names |-> IF n \in DOMAIN jobs
                                    THEN {Deps(n)[i] : i \in DOMAIN Deps(n)} ELSE {}]
  <1>1. Current \in DOMAIN jobs
    BY DEF IInv, VisitInv, OrderPart, Current
  <1>2. up[Current] = {Deps(Current)[i] : i \in DOMAIN Deps(Current)}
    BY <1>1
  <1>3. \A d \in up[Current] : status[d] # "NONE"
    BY <1>2, UpstreamSettled
  <1>4. Blocked # {} <=> \E d \in up[Current] : status[d] # "SUCCESS"
    <2>1. \A i \in DOMAIN Deps(Current) : status[Deps(Current)[i]] # "NONE"
      BY UpstreamSettled
    <2> QED
      BY <1>2, <2>1 DEF Blocked
  <1>5. s \in Stream!Settled
    BY DEF Stream!Settled, Status
  <1>6. up' = up
    BY DEF Deps
  <1>7. Stream!Settle(Current)
    BY <1>3, <1>4, <1>5, <1>6 DEF Stream!Settle
  <1> QED
    BY <1>7 DEF Stream!Next

\* A step that sets a result keeps the invariant and settles one job.
LEMMA SettlingActions ==
  ASSUME IInv, SkipJob \/ PassGroup \/ NoAttempts \/ CommandSucceeds
                  \/ (CommandFails /\ pc' = "record")
  PROVE  IInv' /\ Stream!Next
  <1>0. /\ pc \in {"run", "attempt"} /\ pos \in DOMAIN order
        /\ UNCHANGED <<jobs, root, dryRun, visit, pos, attempt, history, raised>>
    <2>1. /\ (pc = "run" /\ pos <= Len(order)) \/ pc = "attempt"
          /\ UNCHANGED <<jobs, root, dryRun, visit, pos, attempt, history, raised>>
      BY DEF SkipJob, PassGroup, NoAttempts, CommandSucceeds, CommandFails, definition
    <2>2. order \in Seq(Names) /\ pos \in Nat \ {0}
      BY DEF IInv, VisitInv, BaseType, VisitType, LoopType
    <2>3. pc = "run" /\ pos <= Len(order) => pos \in DOMAIN order
      BY <2>2
    <2>4. pc = "attempt" => pos \in DOMAIN order
      BY DEF IInv, LoopInv, StatusPart
    <2> QED
      BY <2>1, <2>3, <2>4
  <1>1. PICK s \in Status \ {"NONE"} :
            /\ Result(s)
            /\ s = "SKIPPED" <=> Blocked # {}
    <2>1. CASE SkipJob
      BY <2>1 DEF SkipJob, Status
    <2>2. CASE PassGroup
      BY <2>2 DEF PassGroup, Status
    <2>3. CASE NoAttempts
      BY <2>3 DEF NoAttempts, Status
    <2>4. CASE CommandSucceeds \/ (CommandFails /\ pc' = "record")
      <3>1. pc = "attempt"
        BY <2>4 DEF CommandSucceeds, CommandFails
      <3>2. Blocked = {}
        BY <3>1 DEF IInv, LoopInv, AttemptPart, StartedBehindSuccess, Blocked
      <3>3. \E s \in {"SUCCESS", "FAILED", "TIMEOUT"} : Result(s)
        BY <2>4 DEF CommandSucceeds, CommandFails
      <3> QED
        BY <3>2, <3>3 DEF Status
    <2> QED
      BY <2>1, <2>2, <2>3, <2>4
  <1>2. ASSUME s = "SKIPPED"
        PROVE  \E m \in 1 .. pos - 1 : status[order[m]] \in {"FAILED", "TIMEOUT", "PENDING"}
    <2>1. PICK i \in DOMAIN Deps(Current) : status[Deps(Current)[i]] \notin {"NONE", "SUCCESS"}
      BY <1>1, <1>2 DEF Blocked
    <2>2. PICK m \in 1 .. pos - 1 : m \in DOMAIN order /\ order[m] = Deps(Current)[i]
      BY <1>0, UpstreamSettled DEF InLoop
    <2>3. /\ status[order[m]] \in {"FAILED", "TIMEOUT", "PENDING", "SKIPPED"}
          /\ order \in Seq(Names) /\ pos \in Nat
      BY <2>1, <2>2 DEF IInv, VisitInv, BaseType, VisitType, LoopType, Status
    <2>4. CASE status[order[m]] = "SKIPPED"
      <3>1. PICK l \in 1 .. m - 1 : status[order[l]] \in {"FAILED", "TIMEOUT", "PENDING"}
        BY <1>0, <2>2, <2>4 DEF IInv, LoopInv, SkipPart, InLoop
      <3>2. l \in 1 .. pos - 1
        BY <2>2, <2>3, <3>1
      <3> QED
        BY <3>1, <3>2
    <2> QED
      BY <2>2, <2>3, <2>4
  <1>3. BaseType'
    <2>1. DefinitionType' /\ VisitType'
      BY <1>0 DEF IInv, VisitInv, BaseType, DefinitionType, VisitType, visit
    <2>2. status' \in [Names -> Status] /\ pc' = "record"
      BY <1>1 DEF Result, IInv, VisitInv, BaseType, LoopType
    <2>3. LoopType'
      BY <1>0, <2>2 DEF IInv, VisitInv, BaseType, LoopType, InLoop
    <2> QED
      BY <2>1, <2>3 DEF BaseType
  <1>4. IInv' /\ Current \in Names /\ status[Current] = "NONE"
          /\ status' = [status EXCEPT ![Current] = s]
    BY <1>0, <1>1, <1>2, <1>3, ResultStep
  <1>5. Stream!Next
    BY <1>0, <1>1, <1>4, SettleStep DEF InLoop
  <1> QED
    BY <1>4, <1>5

\* The other steps of the loop keep the invariant and all results.
LEMMA QuietActions ==
  ASSUME IInv, BadTemplate \/ StartJob \/ (CommandFails /\ pc' = "backoff")
                  \/ RetryCommand \/ WriteHistory \/ ReturnResults
  PROVE  IInv' /\ UNCHANGED status
  <1>0. UNCHANGED <<jobs, root, dryRun, visit, status>>
    BY DEF BadTemplate, StartJob, CommandFails, RetryCommand, WriteHistory, ReturnResults,
       definition, results, Result
  <1>1. /\ order \in Seq(Names) /\ pos \in Nat \ {0} /\ attempt \in Nat
        /\ status \in [Names -> Status] /\ LoopType
    BY DEF IInv, VisitInv, BaseType, VisitType, LoopType
  <1>2. DefinitionType' /\ VisitType'
    BY <1>0 DEF IInv, VisitInv, BaseType, DefinitionType, VisitType, visit
  <1>3. LoopType'
    <2>1. CASE WriteHistory
      <3>1. pos \in DOMAIN order
        BY <2>1 DEF WriteHistory, IInv, LoopInv, StatusPart
      <3>2. <<Current, status[Current]>> \in Names \X Status
        BY <1>1, <3>1 DEF Current
      <3>3. history' = Append(history, <<Current, status[Current]>>) \/ history' = history
        BY <2>1 DEF WriteHistory
      <3>4. history' \in Seq(Names \X Status)
        <4>1. history \in Seq(Names \X Status)
          BY <1>1 DEF LoopType
        <4>2. Append(history, <<Current, status[Current]>>) \in Seq(Names \X Status)
          BY <3>2, <4>1, AppendProperties
        <4> QED
          BY <3>3, <4>1, <4>2
      <3>5. pos' \in Nat \ {0} /\ attempt' \in Nat /\ pc' = "run" /\ raised' = raised
        BY <1>1, <2>1 DEF WriteHistory
      <3> QED
        BY <1>0, <1>1, <3>4, <3>5 DEF LoopType, InLoop
    <2>2. CASE RetryCommand
      BY <1>0, <1>1, <2>2 DEF RetryCommand, LoopType, InLoop, results
    <2>3. CASE BadTemplate \/ StartJob \/ ReturnResults
      BY <1>0, <1>1, <2>3 DEF BadTemplate, StartJob, ReturnResults, LoopType, InLoop,
         results, Raise, Errors
    <2>4. CASE CommandFails /\ pc' = "backoff"
      BY <1>0, <1>1, <2>4 DEF CommandFails, LoopType, InLoop
    <2> QED
      BY <2>1, <2>2, <2>3, <2>4
  <1>4. VisitInv'
    <2>1. pc' \notin {"visit", "call"}
      BY DEF BadTemplate, StartJob, CommandFails, RetryCommand, WriteHistory,
         ReturnResults, Raise
    <2> QED
      BY <1>0, <1>2, <1>3, <2>1, VisitKept DEF IInv, VisitUnchanged, BaseType
  <1>5. /\ order' = order /\ jobs' = jobs /\ status' = status
    BY <1>0 DEF visit
  <1>6. SkipPart'
    <2>1. pc \in InLoop
      BY DEF BadTemplate, StartJob, CommandFails, RetryCommand, WriteHistory,
         ReturnResults, InLoop
    <2> QED
      BY <1>5, <2>1 DEF IInv, LoopInv, SkipPart
  <1>7. CASE BadTemplate
    BY <1>4, <1>5, <1>6, <1>7 DEF BadTemplate, Raise, IInv, LoopInv, StatusPart,
       AttemptPart, StartedBehindSuccess, InLoop
  <1>8. CASE StartJob
    <2>1. pos' = pos /\ pc' = "attempt" /\ pc = "run" /\ attempt' = 1
      BY <1>8 DEF StartJob
    <2>2. pos \in DOMAIN order
      BY <1>1, <1>8 DEF StartJob
    <2>3. StatusPart'
      BY <1>5, <2>1, <2>2 DEF IInv, LoopInv, StatusPart, InLoop
    <2>4. Current \in DOMAIN jobs /\ Current' = Current
      BY <1>5, <2>1, <2>2 DEF IInv, VisitInv, OrderPart, Current
    <2>5. attempt' \in 1 .. Attempts(Current)
      <3>1. Attempts(Current) \in Int /\ Attempts(Current) > 0
        BY <1>8, <2>4, SpecOf DEF StartJob, IInv, VisitInv, BaseType
      <3> QED
        BY <2>1, <3>1
    <2>6. \A i \in DOMAIN Deps(Current) : status[Deps(Current)[i]] = "SUCCESS"
      <3>1. Blocked = {}
        BY <1>8 DEF StartJob
      <3>2. \A i \in DOMAIN Deps(Current) : status[Deps(Current)[i]] # "NONE"
        BY <2>1, <2>2, UpstreamSettled DEF InLoop
      <3> QED
        BY <3>1, <3>2 DEF Blocked
    <2>7. AttemptPart'
      BY <1>5, <2>1, <2>4, <2>5, <2>6 DEF AttemptPart, StartedBehindSuccess, Attempts, Deps
    <2> QED
      BY <1>0, <1>4, <1>6, <2>3, <2>7 DEF IInv, LoopInv
  <1>9. CASE (CommandFails /\ pc' = "backoff") \/ RetryCommand
    <2>1. /\ pc \in {"attempt", "backoff"} /\ pc' \in {"attempt", "backoff"}
          /\ UNCHANGED <<pos>>
      BY <1>9 DEF CommandFails, RetryCommand
    <2>2. StatusPart'
      BY <1>5, <2>1 DEF IInv, LoopInv, StatusPart, InLoop
    <2>3. Current' = Current
      BY <1>5, <2>1 DEF Current
    <2>4. StartedBehindSuccess'
      BY <1>5, <2>1, <2>3 DEF IInv, LoopInv, AttemptPart, StartedBehindSuccess, Deps
    <2>5. Attempts(Current) \in Int /\ Attempts(Current)' = Attempts(Current)
      <3>1. Current \in DOMAIN jobs
        BY <2>1 DEF IInv, VisitInv, OrderPart, LoopInv, StatusPart, Current
      <3> QED
        BY <1>5, <2>3, <3>1, SpecOf DEF IInv, VisitInv, BaseType, Attempts
    <2>6. attempt \in 1 .. Attempts(Current)
      BY <2>1 DEF IInv, LoopInv, AttemptPart
    <2>7. CASE CommandFails /\ pc' = "backoff"
      <3>1. attempt < Attempts(Current) /\ attempt' = attempt
        BY <2>7 DEF CommandFails, Result
      <3>2. AttemptPart'
        BY <2>3, <2>4, <2>5, <2>6, <2>7, <3>1 DEF AttemptPart
      <3> QED
        BY <1>0, <1>4, <1>6, <2>2, <3>2 DEF IInv, LoopInv
    <2>8. CASE RetryCommand
      <3>1. attempt' = attempt + 1 /\ pc' = "attempt" /\ attempt < Attempts(Current)
        BY <2>8 DEF RetryCommand, IInv, LoopInv, AttemptPart
      <3>2. attempt' \in 1 .. Attempts(Current)
        BY <2>5, <2>6, <3>1
      <3>3. AttemptPart'
        BY <2>3, <2>4, <2>5, <3>1, <3>2 DEF AttemptPart
      <3> QED
        BY <1>0, <1>4, <1>6, <2>2, <3>3 DEF IInv, LoopInv
    <2> QED
      BY <1>9, <2>7, <2>8
  <1>10. CASE WriteHistory
    <2>1. pc = "record" /\ pc' = "run" /\ pos' = pos + 1
      BY <1>10 DEF WriteHistory
    <2>2. \A k \in DOMAIN order : status[order[k]] # "NONE" <=> (k < pos \/ k = pos)
      BY <2>1 DEF IInv, LoopInv, StatusPart, InLoop
    <2>3. \A k \in DOMAIN order : k < pos' <=> (k < pos \/ k = pos)
      BY <1>1, <2>1
    <2>4. StatusPart'
      BY <1>5, <2>1, <2>2, <2>3 DEF StatusPart
    <2>5. AttemptPart'
      BY <2>1 DEF AttemptPart, StartedBehindSuccess
    <2> QED
      BY <1>0, <1>4, <1>6, <2>4, <2>5 DEF IInv, LoopInv
  <1>11. CASE ReturnResults
    <2>1. pc = "run" /\ pc' = "done" /\ pos' = pos /\ pos > Len(order)
      BY <1>11 DEF ReturnResults
    <2>2. StatusPart'
      BY <1>5, <2>1 DEF IInv, LoopInv, StatusPart, InLoop
    <2>3. AttemptPart'
      BY <2>1 DEF AttemptPart, StartedBehindSuccess
    <2> QED
      BY <1>0, <1>4, <1>6, <2>2, <2>3 DEF IInv, LoopInv
  <1> QED
    BY <1>0, <1>7, <1>8, <1>9, <1>10, <1>11


-----------------------------------------------------------------------------
(* Theorems *)

\* The invariant is inductive, and every step settles one job or none.
LEMMA StepInv ==
  ASSUME IInv, [Next]_vars
  PROVE  /\ IInv'
         /\ Stream!Next \/ UNCHANGED <<jobs, status>>
  <1>1. CASE VisitStep
    BY <1>1, VisitStepInv DEF VisitStep, CallRefused, CallAccepted, VisitKnown, VisitCycle,
       VisitUndefined, VisitEnter, VisitReturn, OrderComplete, definition
  <1>2. CASE JobStep
    <2>1. CommandFails => pc' \in {"backoff", "record"}
      BY DEF CommandFails, Result
    <2>2. CASE SkipJob \/ PassGroup \/ NoAttempts \/ CommandSucceeds
                 \/ (CommandFails /\ pc' = "record")
      BY <2>2, SettlingActions
    <2>3. CASE BadTemplate \/ StartJob \/ (CommandFails /\ pc' = "backoff")
                 \/ RetryCommand \/ WriteHistory \/ ReturnResults
      <3>1. UNCHANGED jobs
        BY <2>3 DEF BadTemplate, StartJob, CommandFails, RetryCommand, WriteHistory,
           ReturnResults, definition
      <3> QED
        BY <2>3, <3>1, QuietActions
    <2> QED
      BY <1>2, <2>1, <2>2, <2>3 DEF JobStep
  <1>3. CASE UNCHANGED vars
    <2>1. UNCHANGED <<jobs, root, dryRun, pc, visit, pos, attempt, status, history, raised>>
      BY <1>3 DEF vars, definition, results
    <2>2. DefinitionType' /\ VisitType' /\ LoopType'
      BY <2>1 DEF IInv, VisitInv, BaseType, DefinitionType, VisitType, LoopType, visit
    <2>3. pc = "call" => VisitInv'
      BY <2>1, <2>2, OrderStutter DEF IInv, VisitInv, BaseType, visit
    <2>4. pc # "call" => VisitInv'
      BY <2>1, <2>2, VisitKept DEF IInv, VisitInv, VisitUnchanged, BaseType
    <2>5. LoopInv'
      BY <2>1 DEF IInv, LoopInv, StatusPart, AttemptPart, SkipPart, StartedBehindSuccess,
         Current, Attempts, Deps, visit
    <2> QED
      BY <2>1, <2>3, <2>4, <2>5 DEF IInv
  <1> QED
    BY <1>1, <1>2, <1>3 DEF Next

\* The inductive invariant holds in every state of a call of run.
THEOREM InvariantHolds == Spec => []IInv
  <1>1. IInv /\ [Next]_vars => IInv'
    BY StepInv
  <1> QED
    BY <1>1, InitInv, PTL DEF Spec

\* Every variable keeps its type, and no attempt exceeds retry_attempts + 1,
\* for every set of definitions files and every root.
THEOREM TypeCorrect == Spec => []TypeOK
  <1>1. IInv => TypeOK
    BY DEF IInv, VisitInv, BaseType, LoopInv, AttemptPart, TypeOK
  <1> QED
    BY <1>1, InvariantHolds, PTL

\* A command only starts behind the success of all its upstream jobs.
THEOREM GatesRespected == Spec => []StartedBehindSuccess
  <1>1. IInv => StartedBehindSuccess
    BY DEF IInv, LoopInv, AttemptPart
  <1> QED
    BY <1>1, InvariantHolds, PTL

\* An exit code of 0 means that every job of the order succeeded: among the jobs
\* before a skipped one there is one that ran and did not succeed.
THEOREM ExitCodeIsHonest == Spec => []ExitCodeHonest
  <1>1. ASSUME IInv, pc = "done", ExitIsZero, NEW n \in Ran
        PROVE  status[n] = "SUCCESS"
    <2>1. PICK k \in DOMAIN order : order[k] = n
      BY DEF Ran
    <2>2. status[n] \in {"SUCCESS", "SKIPPED"}
      BY <1>1 DEF ExitIsZero
    <2>3. ASSUME status[n] = "SKIPPED" PROVE FALSE
      <3>1. PICK m \in 1 .. k - 1 : status[order[m]] \in {"FAILED", "TIMEOUT", "PENDING"}
        BY <1>1, <2>1, <2>3 DEF IInv, LoopInv, SkipPart, InLoop
      <3>2. order \in Seq(Names)
        BY <1>1 DEF IInv, VisitInv, BaseType, VisitType
      <3>3. m \in DOMAIN order
        BY <2>1, <3>1, <3>2
      <3> QED
        BY <1>1, <3>1, <3>3 DEF ExitIsZero, Ran
    <2> QED
      BY <2>2, <2>3
  <1>2. IInv => ExitCodeHonest
    BY <1>1 DEF ExitCodeHonest
  <1> QED
    BY <1>2, InvariantHolds, PTL

\* The executor implements the abstract job stream: it settles each job at most
\* once, after its upstream jobs, and skips exactly those that have one that
\* did not succeed.
THEOREM StreamImplemented == Spec => ImplementsStream
  <1> DEFINE up == [n \in Names |-> IF n \in DOMAIN jobs
                                    THEN {Deps(n)[i] : i \in DOMAIN Deps(n)} ELSE {}]
  <1>1. Init => Stream!Init
    <2> SUFFICES ASSUME Init PROVE Stream!Init
      OBVIOUS
    <2>1. IInv
      BY InitInv
    <2>2. \A n \in DOMAIN jobs : Deps(n) \in Seq(Names)
      BY <2>1, SpecOf DEF IInv, VisitInv, BaseType
    <2>3. up \in [Names -> SUBSET Names]
      BY <2>2
    <2>4. status = [n \in Names |-> "NONE"]
      BY DEF Init
    <2> QED
      BY <2>3, <2>4 DEF Stream!Init
  <1>2. IInv /\ [Next]_vars => [Stream!Next]_<<up, status>>
    <2> SUFFICES ASSUME IInv, [Next]_vars PROVE Stream!Next \/ UNCHANGED <<up, status>>
      OBVIOUS
    <2>1. CASE UNCHANGED <<jobs, status>>
      BY <2>1 DEF Deps
    <2> QED
      BY <2>1, StepInv
  <1> QED
    BY <1>1, <1>2, InvariantHolds, PTL DEF Spec, ImplementsStream, Stream!Spec

-----------------------------------------------------------------------------
(* The visit finds what the root needs *)

\* Closure(S) holds S, is closed under upstream jobs, and is the least such set.
LEMMA ClosureHas ==
  ASSUME DefinitionType, NEW S \in SUBSET Names
  PROVE  S \subseteq Closure(S) /\ Closure(S) \subseteq Names
  <1>1. \A n \in DOMAIN jobs : Upstream(n) \subseteq Names
    BY SpecOf DEF Upstream
  <1> QED
    BY <1>1 DEF Closure

LEMMA ClosureNext ==
  ASSUME NEW S, NEW n \in Closure(S), n \in DOMAIN jobs, NEW m \in Upstream(n)
  PROVE  m \in Closure(S)
  BY DEF Closure

LEMMA ClosureLeast ==
  ASSUME NEW S, NEW T, S \subseteq T,
         \A n \in T \intersect DOMAIN jobs : Upstream(n) \subseteq T
  PROVE  Closure(S) \subseteq T
  <1> DEFINE mentioned == S \union UNION {Upstream(n) : n \in DOMAIN jobs}
             inside    == T \intersect mentioned
  <1>1. /\ inside \in SUBSET mentioned /\ S \subseteq inside
        /\ \A n \in inside \intersect DOMAIN jobs : Upstream(n) \subseteq inside
    OBVIOUS
  <1>2. Closure(S) \subseteq inside
    <2> HIDE DEF inside
    <2> QED
      BY <1>1 DEF Closure
  <1> QED
    BY <1>2

\* It depends on the definitions alone.
LEMMA ClosureSame ==
  ASSUME UNCHANGED <<jobs, root>>
  PROVE  /\ \A a : Closure(Upstream(a))' = Closure(Upstream(a))
         /\ Needed' = Needed
         /\ Expanded' = Expanded
  BY DEF Closure, Upstream, Deps, Needed, Expanded, IsGroup

\* The list that run visits, and the names that a job mentions, are names.
LEMMA ExpandedType ==
  ASSUME VisitInv, root \in DOMAIN jobs
  PROVE  /\ Expanded \in Seq(Names)
         /\ {Expanded[i] : i \in DOMAIN Expanded} \in SUBSET Names
         /\ \A i \in DOMAIN Expanded : Expanded[i] \in Needed
  <1>1. root \in Names /\ jobs[root].members \in Seq(Names)
    BY SpecOf DEF VisitInv, BaseType
  <1>2. Expanded \in Seq(Names)
    BY <1>1 DEF Expanded
  <1>3. {Expanded[i] : i \in DOMAIN Expanded} \in SUBSET Names
    BY <1>2
  <1> QED
    BY <1>2, <1>3, ClosureHas DEF Needed, VisitInv, BaseType

\* What the visit keeps true of the root's needs: everything it has finished
\* or has in progress is needed, a call in progress needs the calls inside it,
\* and the root list is finished up to where its loop stands.
NeedVisit ==
    /\ visited \subseteq Needed
    /\ \A j \in DOMAIN stack : stack[j] \in Needed
    /\ \A a, b \in Names :
          (\E j, l \in DOMAIN stack : j < l /\ stack[j] = a /\ stack[l] = b)
             => b \in Closure(Upstream(a))
    /\ \A i \in DOMAIN Expanded : i < target => Expanded[i] \in visited
    /\ stack # <<>> => target \in DOMAIN Expanded /\ Expanded[target] = stack[1]

NeedInv ==
    /\ raised # "none" => pc = "raised"
    /\ pc = "call" => visited = {} /\ stack = <<>> /\ target = 1
    /\ pc = "visit" => NeedVisit
    /\ pc \in InLoop => Ran = Needed
    /\ RefusalsJustified

\* The name that is visited next is needed, by the innermost call if there is one.
LEMMA PendingNeeded ==
  ASSUME VisitInv, NeedVisit, pc = "visit", HasPending
  PROVE  /\ Pending \in Names /\ Pending \in Needed
         /\ stack = <<>> => target \in DOMAIN Expanded /\ Pending = Expanded[target]
         /\ stack # <<>> =>
               /\ Top \in DOMAIN jobs /\ Top \in Names /\ Top = stack[Len(stack)]
               /\ Len(stack) \in DOMAIN stack
               /\ Pending \in Upstream(Top)
               /\ Upstream(Top) \in SUBSET Names
  <1>0. /\ root \in DOMAIN jobs /\ DefinitionType /\ Pending \in Names
        /\ target \in Nat \ {0} /\ cursor \in [Names -> Nat \ {0}]
        /\ stack \in Seq(Names)
    BY PendingType DEF VisitInv, BaseType, VisitType
  <1>1. CASE stack = <<>>
    <2>1. target \in DOMAIN Expanded /\ Pending = Expanded[target]
      BY <1>0, <1>1, ExpandedType DEF HasPending, Pending
    <2> QED
      BY <1>0, <1>1, <2>1, ExpandedType
  <1>2. CASE stack # <<>>
    <2>1. Top \in DOMAIN jobs /\ Len(stack) \in DOMAIN stack /\ Top = stack[Len(stack)]
      BY <1>2, PendingType DEF Top
    <2>2. Top \in Names /\ Deps(Top) \in Seq(Names)
      BY <1>0, <2>1, SpecOf
    <2>3. cursor[Top] \in DOMAIN Deps(Top) /\ Pending = Deps(Top)[cursor[Top]]
      BY <1>0, <1>2, <2>2 DEF HasPending, Pending
    <2>4. Pending \in Upstream(Top) /\ Upstream(Top) \in SUBSET Names
      BY <2>2, <2>3 DEF Upstream
    <2>5. Top \in Needed
      BY <2>1 DEF NeedVisit
    <2>6. {Expanded[i] : i \in DOMAIN Expanded} \in SUBSET Names
      BY <1>0, ExpandedType
    <2>7. Pending \in Needed
      BY <1>0, <2>1, <2>4, <2>5, <2>6, ClosureNext DEF Needed
    <2> QED
      BY <1>0, <1>2, <2>1, <2>2, <2>4, <2>7
  <1> QED
    BY <1>1, <1>2

\* Every call in progress needs what the innermost one visits next.
LEMMA PendingBelow ==
  ASSUME VisitInv, NeedVisit, pc = "visit", HasPending, NEW j \in DOMAIN stack
  PROVE  Pending \in Closure(Upstream(stack[j]))
  <1>0. /\ stack \in Seq(Names) /\ stack # <<>> /\ DefinitionType
        /\ stack[j] \in Names /\ stack[j] \in DOMAIN jobs
    BY DEF VisitInv, BaseType, VisitType, StackPart
  <1>1. /\ Top \in DOMAIN jobs /\ Top \in Names /\ Top = stack[Len(stack)]
        /\ Len(stack) \in DOMAIN stack /\ Pending \in Upstream(Top)
        /\ Upstream(Top) \in SUBSET Names
    BY <1>0, PendingNeeded
  <1>2. Upstream(stack[j]) \in SUBSET Names
    BY <1>0, SpecOf DEF Upstream
  <1>3. CASE j = Len(stack)
    BY <1>0, <1>1, <1>3, ClosureHas
  <1>4. CASE j # Len(stack)
    <2>1. j < Len(stack)
      BY <1>0, <1>4
    <2>2. Top \in Closure(Upstream(stack[j]))
      BY <1>0, <1>1, <2>1 DEF NeedVisit
    <2> QED
      BY <1>0, <1>1, <1>2, <2>2, ClosureNext
  <1> QED
    BY <1>3, <1>4

\* A finished call leaves the calls around it as they were.
LEMMA PopStack ==
  ASSUME stack \in Seq(Names), stack # <<>>,
         stack' = SubSeq(stack, 1, Len(stack) - 1)
  PROVE  /\ DOMAIN stack' = 1 .. Len(stack) - 1
         /\ \A j \in 1 .. Len(stack) - 1 : stack'[j] = stack[j]
         /\ stack' = <<>> => Len(stack) = 1
         /\ stack' # <<>> => 1 \in 1 .. Len(stack) - 1
         /\ Len(stack) \in Nat /\ Len(stack) >= 1
         /\ DOMAIN stack = 1 .. Len(stack)
  <1> DEFINE n == Len(stack)
  <1>1. n \in Nat /\ n >= 1 /\ DOMAIN stack = 1 .. n
    OBVIOUS
  <1>2. 1 \in 1 .. n + 1 /\ n - 1 \in 0 .. n
    BY <1>1
  <1>3. /\ SubSeq(stack, 1, n - 1) \in Seq(Names)
        /\ Len(SubSeq(stack, 1, n - 1)) = IF 1 <= n - 1 THEN (n - 1) - 1 + 1 ELSE 0
        /\ \A j \in 1 .. (n - 1) - 1 + 1 : SubSeq(stack, 1, n - 1)[j] = stack[1 + j - 1]
    BY <1>2, SubSeqProperties
  <1> HIDE DEF n
  <1>4. Len(SubSeq(stack, 1, n - 1)) = n - 1
    BY <1>1, <1>3
  <1>5. \A j \in 1 .. n - 1 : SubSeq(stack, 1, n - 1)[j] = stack[j]
    <2> SUFFICES ASSUME NEW j \in 1 .. n - 1
                 PROVE  SubSeq(stack, 1, n - 1)[j] = stack[j]
      OBVIOUS
    <2>1. j \in 1 .. (n - 1) - 1 + 1 /\ 1 + j - 1 = j
      BY <1>1
    <2> QED
      BY <1>3, <2>1
  <1>6. stack' = SubSeq(stack, 1, n - 1)
    BY DEF n
  <1>7. DOMAIN stack' = 1 .. n - 1
    BY <1>3, <1>4, <1>6
  <1>8. stack' = <<>> => n = 1
    BY <1>1, <1>4, <1>6
  <1>9. stack' # <<>> => 1 \in 1 .. n - 1
    BY <1>1, <1>3, <1>4, <1>6
  <1> QED
    BY <1>1, <1>5, <1>6, <1>7, <1>8, <1>9 DEF n

LEMMA NeedKnown ==
  ASSUME VisitInv, NeedVisit, VisitKnown
  PROVE  NeedVisit'
  <1>0. UNCHANGED <<jobs, root, stack, visited>> /\ pc = "visit" /\ HasPending
    BY DEF VisitKnown, definition
  <1>1. \A i \in DOMAIN Expanded : i < target' => Expanded[i] \in visited
    <2>1. CASE stack = <<>>
      <3>1. target' = target + 1 /\ Expanded[target] \in visited
        BY <2>1 DEF VisitKnown, Advance, Pending
      <3>2. Expanded \in Seq(Names) /\ target \in Nat
        BY <1>0, ExpandedType DEF VisitInv, BaseType, VisitType
      <3>3. \A i \in DOMAIN Expanded : i < target' => i < target \/ i = target
        BY <3>1, <3>2
      <3> QED
        BY <3>1, <3>3 DEF NeedVisit
    <2>2. CASE stack # <<>>
      <3>1. target' = target
        BY <2>2 DEF VisitKnown, Advance
      <3> QED
        BY <3>1 DEF NeedVisit
    <2> QED
      BY <2>1, <2>2
  <1>2. stack # <<>> => target' = target
    BY DEF VisitKnown, Advance
  <1> QED
    BY <1>0, <1>1, <1>2, ClosureSame DEF NeedVisit

LEMMA NeedEnter ==
  ASSUME VisitInv, NeedVisit, VisitEnter
  PROVE  NeedVisit'
  <1>0. /\ UNCHANGED <<jobs, root, visited, target>> /\ pc = "visit" /\ HasPending
        /\ stack' = Append(stack, Pending) /\ stack \in Seq(Names)
    BY DEF VisitEnter, definition, VisitInv, BaseType, VisitType
  <1>1. /\ Pending \in Names /\ Pending \in Needed
        /\ stack = <<>> => target \in DOMAIN Expanded /\ Pending = Expanded[target]
    BY <1>0, PendingNeeded
  <1>2. /\ DOMAIN stack' = 1 .. Len(stack) + 1 /\ DOMAIN stack = 1 .. Len(stack)
        /\ \A j \in 1 .. Len(stack) : stack'[j] = stack[j]
        /\ stack'[Len(stack) + 1] = Pending
        /\ Len(stack) \in Nat
        /\ stack # <<>> => stack'[1] = stack[1]
        /\ stack = <<>> => stack'[1] = Pending
    BY <1>0, <1>1
  <1>3. \A j \in DOMAIN stack' : stack'[j] \in Needed
    BY <1>1, <1>2 DEF NeedVisit
  <1>4. ASSUME NEW a \in Names, NEW b \in Names, NEW j \in DOMAIN stack',
               NEW l \in DOMAIN stack', j < l, stack'[j] = a, stack'[l] = b
        PROVE  b \in Closure(Upstream(a))
    <2>1. j \in DOMAIN stack /\ stack[j] = a
      BY <1>2, <1>4
    <2>2. CASE l \in DOMAIN stack
      BY <1>2, <1>4, <2>1, <2>2 DEF NeedVisit
    <2>3. CASE l \notin DOMAIN stack
      <3>1. b = Pending
        BY <1>2, <1>4, <2>3
      <3> QED
        BY <1>0, <2>1, <3>1, PendingBelow
    <2> QED
      BY <2>2, <2>3
  <1>5. /\ \A i \in DOMAIN Expanded : i < target => Expanded[i] \in visited
        /\ target \in DOMAIN Expanded /\ Expanded[target] = stack'[1]
    BY <1>1, <1>2 DEF NeedVisit
  <1>6. visited \subseteq Needed
    BY DEF NeedVisit
  <1>7. \A a, b \in Names :
          (\E j, l \in DOMAIN stack' : j < l /\ stack'[j] = a /\ stack'[l] = b)
             => b \in Closure(Upstream(a))
    BY <1>4
  <1> QED
    BY <1>0, <1>3, <1>5, <1>6, <1>7, ClosureSame DEF NeedVisit

LEMMA NeedReturn ==
  ASSUME VisitInv, NeedVisit, VisitReturn
  PROVE  NeedVisit'
  <1>0. /\ UNCHANGED <<jobs, root>> /\ pc = "visit"
        /\ stack' = SubSeq(stack, 1, Len(stack) - 1) /\ Advance(stack')
        /\ visited' = visited \union {Top}
        /\ stack \in Seq(Names) /\ stack # <<>> /\ target \in Nat \ {0}
    BY DEF VisitReturn, definition, VisitInv, BaseType, VisitType
  <1>1. /\ DOMAIN stack' = 1 .. Len(stack) - 1
        /\ \A j \in 1 .. Len(stack) - 1 : stack'[j] = stack[j]
        /\ stack' = <<>> => Len(stack) = 1
        /\ stack' # <<>> => 1 \in 1 .. Len(stack) - 1
        /\ Len(stack) \in Nat /\ Len(stack) >= 1
        /\ DOMAIN stack = 1 .. Len(stack)
    BY <1>0, PopStack
  <1>2. Top = stack[Len(stack)] /\ Len(stack) \in DOMAIN stack
    BY <1>1 DEF Top
  <1>3. visited' \subseteq Needed /\ \A j \in DOMAIN stack' : stack'[j] \in Needed
    BY <1>0, <1>1, <1>2 DEF NeedVisit
  <1>4. \A a, b \in Names :
          (\E j, l \in DOMAIN stack' : j < l /\ stack'[j] = a /\ stack'[l] = b)
             => b \in Closure(Upstream(a))
    <2>1. \A j \in DOMAIN stack' : j \in DOMAIN stack /\ stack'[j] = stack[j]
      BY <1>1
    <2> QED
      BY <2>1 DEF NeedVisit
  <1>5. \A i \in DOMAIN Expanded : i < target => Expanded[i] \in visited'
    BY <1>0 DEF NeedVisit
  <1>6. target \in DOMAIN Expanded /\ Expanded[target] = stack[1]
    BY <1>0 DEF NeedVisit
  <1>7. CASE stack' = <<>>
    <2>1. target' = target + 1 /\ Expanded[target] \in visited'
      BY <1>0, <1>1, <1>2, <1>6, <1>7 DEF Advance
    <2>2. Expanded \in Seq(Names)
      BY <1>0, ExpandedType DEF VisitInv
    <2>3. \A i \in DOMAIN Expanded : i < target' => i < target \/ i = target
      BY <1>0, <2>1, <2>2
    <2>4. \A i \in DOMAIN Expanded : i < target' => Expanded[i] \in visited'
      BY <1>5, <2>1, <2>3
    <2> QED
      BY <1>0, <1>3, <1>4, <1>7, <2>4, ClosureSame DEF NeedVisit
  <1>8. CASE stack' # <<>>
    <2>1. target' = target /\ stack'[1] = stack[1]
      BY <1>0, <1>1, <1>8 DEF Advance
    <2> QED
      BY <1>0, <1>3, <1>4, <1>5, <1>6, <2>1, ClosureSame DEF NeedVisit
  <1> QED
    BY <1>7, <1>8

\* The order is complete: all of the root list is in it, and with each job its
\* upstream jobs are, so that it holds all that is needed.
LEMMA NeedComplete ==
  ASSUME VisitInv, NeedVisit, OrderComplete
  PROVE  Ran = Needed
  <1>0. /\ pc = "visit" /\ stack = <<>> /\ ~HasPending /\ visited = Ran
        /\ target \in Nat /\ root \in DOMAIN jobs /\ order \in Seq(Names)
        /\ DefinitionType
    BY DEF OrderComplete, VisitInv, OrderPart, BaseType, VisitType
  <1>1. {Expanded[i] : i \in DOMAIN Expanded} \subseteq Ran
    <2>1. Expanded \in Seq(Names)
      BY <1>0, ExpandedType
    <2>2. \A i \in DOMAIN Expanded : i < target
      BY <1>0, <2>1 DEF HasPending
    <2> QED
      BY <1>0, <2>2 DEF NeedVisit
  <1>2. ASSUME NEW n \in Ran \intersect DOMAIN jobs PROVE Upstream(n) \subseteq Ran
    <2>1. PICK k \in DOMAIN order : order[k] = n
      BY <1>2 DEF Ran
    <2>2. ASSUME NEW i \in DOMAIN Deps(n) PROVE Deps(n)[i] \in Ran
      <3>1. PICK m \in 1 .. k - 1 : order[m] = Deps(n)[i]
        BY <2>1, <2>2 DEF VisitInv, OrderPart
      <3>2. m \in DOMAIN order
        BY <1>0, <2>1, <3>1
      <3> QED
        BY <3>1, <3>2 DEF Ran
    <2> QED
      BY <2>2 DEF Upstream
  <1>3. Ran \in SUBSET Names
    BY <1>0 DEF Ran
  <1>4. Needed \subseteq Ran
    BY <1>1, <1>2, <1>3, ClosureLeast DEF Needed
  <1> QED
    BY <1>0, <1>4 DEF NeedVisit

LEMMA NeedStep == IInv /\ NeedInv /\ [Next]_vars => NeedInv'
  <1> SUFFICES ASSUME IInv, NeedInv, [Next]_vars PROVE NeedInv'
    OBVIOUS
  <1>0. VisitInv /\ DefinitionType
    BY DEF IInv, VisitInv, BaseType
  <1>1. UNCHANGED <<jobs, root>>
    BY DEF Next, VisitStep, JobStep, CallRefused, CallAccepted, VisitKnown, VisitCycle,
       VisitUndefined, VisitEnter, VisitReturn, OrderComplete, SkipJob, PassGroup,
       BadTemplate, StartJob, NoAttempts, CommandSucceeds, CommandFails, RetryCommand,
       WriteHistory, ReturnResults, vars, definition
  <1>2. /\ Needed' = Needed
        /\ \A a : Closure(Upstream(a))' = Closure(Upstream(a))
    BY <1>1, ClosureSame
  <1>3. raised' \in {raised, "unknown", "nomembers", "template"} => RefusalsJustified'
    <2>1. \A n : Closure({Deps(n)[i] : i \in DOMAIN Deps(n)})
                   = Closure(Upstream(n))
      BY DEF Upstream
    <2>2. \A n : (Closure({Deps(n)[i] : i \in DOMAIN Deps(n)}))'
                   = Closure(Upstream(n))'
      BY DEF Upstream
    <2> QED
      BY <1>1, <1>2, <2>1, <2>2 DEF NeedInv, RefusalsJustified
  <1>4. CASE CallRefused \/ BadTemplate
    <2>1. pc' = "raised" /\ raised' \in {"unknown", "nomembers", "template"}
      BY <1>4 DEF CallRefused, BadTemplate, Raise
    <2> QED
      BY <1>3, <2>1 DEF NeedInv, InLoop
  <1>5. CASE CallAccepted
    <2>1. /\ pc = "call" /\ pc' = "visit" /\ root \in DOMAIN jobs
          /\ UNCHANGED <<raised, visited, stack, target>>
      BY <1>5 DEF CallAccepted, visit
    <2>2. visited' = {} /\ stack' = <<>> /\ target' = 1 /\ raised' = "none"
      BY <2>1 DEF NeedInv
    <2>3. Expanded' \in Seq(Names)
      BY <1>0, <1>1, <2>1, ExpandedType, ClosureSame
    <2>4. \A i \in DOMAIN Expanded' : ~(i < target')
      BY <2>2, <2>3
    <2>5. NeedVisit'
      BY <2>2, <2>4 DEF NeedVisit
    <2> QED
      BY <1>3, <2>1, <2>2, <2>5 DEF NeedInv, InLoop
  <1>6. CASE VisitKnown \/ VisitEnter \/ VisitReturn
    <2>1. pc = "visit" /\ pc' = "visit" /\ raised' = raised
      BY <1>6 DEF VisitKnown, VisitEnter, VisitReturn
    <2>2. NeedVisit'
      BY <1>0, <1>6, <2>1, NeedKnown, NeedEnter, NeedReturn DEF NeedInv
    <2> QED
      BY <1>3, <2>1, <2>2 DEF NeedInv, InLoop
  <1>7. CASE VisitCycle
    <2>1. /\ pc = "visit" /\ pc' = "raised" /\ raised' = "cycle" /\ HasPending
          /\ Pending \in visiting
      BY <1>7 DEF VisitCycle, Raise
    <2>2. PICK j \in DOMAIN stack : Pending = stack[j]
      BY <2>1 DEF visiting
    <2>3. /\ Pending \in Needed /\ Pending \in DOMAIN jobs
          /\ Pending \in Closure(Upstream(Pending))
      BY <1>0, <2>1, <2>2, PendingNeeded, PendingBelow
         DEF NeedInv, VisitInv, StackPart
    <2>4. \E n \in Needed \intersect DOMAIN jobs : n \in Closure(Upstream(n))
      BY <2>3
    <2>5. \E n \in (Needed \intersect DOMAIN jobs)' : n \in Closure(Upstream(n))'
      BY <1>1, <1>2, <2>4
    <2>6. RefusalsJustified'
      BY <2>1, <2>5 DEF RefusalsJustified, Upstream
    <2> QED
      BY <2>1, <2>6 DEF NeedInv, InLoop
  <1>8. CASE VisitUndefined
    <2>1. /\ pc = "visit" /\ pc' = "raised" /\ raised' = "undefined" /\ HasPending
          /\ Pending \notin DOMAIN jobs
      BY <1>8 DEF VisitUndefined, Raise
    <2>2. Pending \in Needed
      BY <1>0, <2>1, PendingNeeded DEF NeedInv
    <2>3. Needed' \ DOMAIN jobs' # {}
      BY <1>1, <1>2, <2>1, <2>2
    <2> QED
      BY <2>1, <2>3 DEF NeedInv, RefusalsJustified, InLoop
  <1>9. CASE OrderComplete
    <2>1. pc = "visit" /\ pc' = "run" /\ raised' = raised /\ order' = order
      BY <1>9 DEF OrderComplete, visit
    <2>2. Ran' = Needed'
      BY <1>0, <1>2, <1>9, <2>1, NeedComplete DEF NeedInv, Ran
    <2> QED
      BY <1>3, <2>1, <2>2 DEF NeedInv
  <1>10. CASE SkipJob \/ PassGroup \/ StartJob \/ NoAttempts \/ CommandSucceeds
              \/ CommandFails \/ RetryCommand \/ WriteHistory \/ ReturnResults
    <2>1. pc \in InLoop /\ pc' \in InLoop /\ raised' = raised /\ order' = order
      BY <1>10 DEF SkipJob, PassGroup, StartJob, NoAttempts, CommandSucceeds, CommandFails,
         RetryCommand, WriteHistory, ReturnResults, Result, InLoop, visit
    <2>2. Ran' = Needed'
      BY <1>2, <2>1 DEF NeedInv, Ran
    <2>3. raised' # "none" => pc' = "raised"
      BY <2>1 DEF NeedInv, InLoop
    <2> QED
      BY <1>3, <2>1, <2>2, <2>3 DEF NeedInv, InLoop
  <1>11. CASE UNCHANGED vars
    <2>1. UNCHANGED <<pc, raised, order, visited, stack, target>>
      BY <1>11 DEF vars, visit
    <2>2. NeedVisit => NeedVisit'
      BY <1>1, <1>2, <2>1, ClosureSame DEF NeedVisit
    <2> QED
      BY <1>2, <1>3, <2>1, <2>2 DEF NeedInv, Ran
  <1> QED
    BY <1>4, <1>5, <1>6, <1>7, <1>8, <1>9, <1>10, <1>11 DEF Next, VisitStep, JobStep

\* Whatever the graph of depends_on: an order that run follows holds exactly
\* what the root needs, each job once and behind its upstream jobs; a refusal
\* for a cycle or an undefined name has one among what the root needs.
THEOREM OrderAndRefusalsRight == Spec => []VisitIsRight
  <1>1. Init => NeedInv
    BY DEF Init, NeedInv, RefusalsJustified, InLoop
  <1>2. IInv /\ NeedInv => VisitIsRight
    BY DEF IInv, VisitInv, OrderPart, NeedInv, VisitIsRight, OrderIsRight
  <1> QED
    BY <1>1, <1>2, NeedStep, InvariantHolds, PTL DEF Spec

-----------------------------------------------------------------------------
(* job_runs tells the order and the outcome *)

\* The strengthening: what is recorded lies behind the loop.
HistoryInv ==
    /\ pc \in {"call", "visit"} => history = <<>>
    /\ \A k \in DOMAIN history :
          \E p \in DOMAIN order : p < pos /\ order[p] = history[k][1]
    /\ HistoryTruthful

\* A record is appended behind the others.
LEMMA HistoryAppends ==
  ASSUME IInv, HistoryInv, WriteHistory
  PROVE  HistoryInv'
  <1>0. /\ pc = "record" /\ pc' = "run" /\ pos' = pos + 1
        /\ UNCHANGED <<order, status>>
        /\ history' \in {history, Append(history, <<Current, status[Current]>>)}
    BY DEF WriteHistory, visit
  <1>1. /\ pos \in DOMAIN order /\ order \in Seq(Names) /\ pos \in Nat
        /\ history \in Seq(Names \X Status)
    BY <1>0 DEF IInv, VisitInv, BaseType, VisitType, LoopType, LoopInv, StatusPart
  <1>2. ASSUME NEW k \in DOMAIN history
        PROVE  \E p \in DOMAIN order : p < pos' /\ order[p] = history[k][1]
    BY <1>0, <1>1 DEF HistoryInv
  <1>3. CASE history' = history
    BY <1>0, <1>2, <1>3 DEF HistoryInv, HistoryTruthful
  <1>4. CASE history' = Append(history, <<Current, status[Current]>>)
    <2>1. /\ DOMAIN history' = 1 .. Len(history) + 1 /\ DOMAIN history = 1 .. Len(history)
          /\ \A k \in 1 .. Len(history) : history'[k] = history[k]
          /\ history'[Len(history) + 1] = <<Current, status[Current]>>
          /\ Len(history) \in Nat
      BY <1>1, <1>4
    <2>2. ASSUME NEW k \in DOMAIN history'
          PROVE  \E p \in DOMAIN order : p < pos' /\ order[p] = history'[k][1]
      <3>1. CASE k \in DOMAIN history
        BY <1>2, <2>1, <3>1
      <3>2. CASE k \notin DOMAIN history
        <4>1. history'[k][1] = order[pos]
          BY <2>1, <3>2 DEF Current
        <4> QED
          BY <1>0, <1>1, <4>1
      <3> QED
        BY <3>1, <3>2
    <2>3. ASSUME NEW k \in DOMAIN history'
          PROVE  status[history'[k][1]] = history'[k][2]
      BY <2>1 DEF HistoryInv, HistoryTruthful
    <2>4. ASSUME NEW k \in DOMAIN history', NEW m \in 1 .. k - 1
          PROVE  \E i, j \in DOMAIN order :
                    i < j /\ order[i] = history'[m][1] /\ order[j] = history'[k][1]
      <3>1. m \in DOMAIN history /\ history'[m] = history[m]
        BY <2>1
      <3>2. CASE k \in DOMAIN history
        BY <2>1, <3>1, <3>2 DEF HistoryInv, HistoryTruthful
      <3>3. CASE k \notin DOMAIN history
        <4>1. history'[k][1] = order[pos]
          BY <2>1, <3>3 DEF Current
        <4>2. PICK p \in DOMAIN order : p < pos /\ order[p] = history[m][1]
          BY <3>1 DEF HistoryInv
        <4> QED
          BY <1>1, <3>1, <4>1, <4>2
      <3> QED
        BY <3>2, <3>3
    <2>5. HistoryTruthful'
      BY <1>0, <2>3, <2>4 DEF HistoryTruthful
    <2> QED
      BY <1>0, <2>2, <2>5 DEF HistoryInv
  <1> QED
    BY <1>0, <1>3, <1>4

\* A result is for the job the loop stands at, which has no record yet.
LEMMA HistorySettles ==
  ASSUME IInv, HistoryInv, pc \in {"run", "attempt"}, pos \in DOMAIN order,
         UNCHANGED <<order, pos, history>>, NEW s, Result(s)
  PROVE  HistoryInv'
  <1>0. /\ order \in Seq(Names) /\ status \in [Names -> Status] /\ pos \in Nat
        /\ status' = [status EXCEPT ![Current] = s] /\ pc' = "record"
    BY DEF IInv, VisitInv, BaseType, VisitType, LoopType, Result
  <1>1. ASSUME NEW k \in DOMAIN history
        PROVE  status'[history[k][1]] = status[history[k][1]]
    <2>1. PICK p \in DOMAIN order : p < pos /\ order[p] = history[k][1]
      BY DEF HistoryInv
    <2>2. order[p] # Current /\ order[p] \in Names
      BY <1>0, <2>1 DEF IInv, VisitInv, OrderPart, Current
    <2> QED
      BY <1>0, <2>1, <2>2
  <1> QED
    BY <1>0, <1>1 DEF HistoryInv, HistoryTruthful

LEMMA HistoryStep == IInv /\ HistoryInv /\ [Next]_vars => HistoryInv'
  <1> SUFFICES ASSUME IInv, HistoryInv, [Next]_vars PROVE HistoryInv'
    OBVIOUS
  <1>1. CASE VisitStep
    <2>1. pc \in {"call", "visit"} /\ history' = history
      BY <1>1 DEF VisitStep, CallRefused, CallAccepted, VisitKnown, VisitCycle,
         VisitUndefined, VisitEnter, VisitReturn, OrderComplete, results
    <2>2. history' = <<>>
      BY <2>1 DEF HistoryInv
    <2> QED
      BY <2>2 DEF HistoryInv, HistoryTruthful
  <1>2. CASE SkipJob \/ PassGroup \/ NoAttempts \/ CommandSucceeds
               \/ (CommandFails /\ pc' = "record")
    <2>1. /\ (pc = "run" /\ pos <= Len(order)) \/ pc = "attempt"
          /\ UNCHANGED <<order, pos, history>>
          /\ \E s \in Status : Result(s)
      BY <1>2 DEF SkipJob, PassGroup, NoAttempts, CommandSucceeds, CommandFails, visit,
         Status
    <2>2. pos \in DOMAIN order
      BY <2>1 DEF IInv, VisitInv, BaseType, VisitType, LoopType, LoopInv, StatusPart
    <2> QED
      BY <2>1, <2>2, HistorySettles
  <1>3. CASE BadTemplate \/ StartJob \/ (CommandFails /\ pc' = "backoff")
               \/ RetryCommand \/ ReturnResults \/ UNCHANGED vars
    <2>1. /\ UNCHANGED <<order, pos, history, status>>
          /\ pc' = pc \/ pc' \notin {"call", "visit"}
      BY <1>3 DEF BadTemplate, StartJob, CommandFails, RetryCommand, ReturnResults, vars,
         visit, results, Result, Raise
    <2> QED
      BY <2>1 DEF HistoryInv, HistoryTruthful
  <1>4. CASE WriteHistory
    BY <1>4, HistoryAppends
  <1>5. CommandFails => pc' \in {"backoff", "record"}
    BY DEF CommandFails, Result
  <1> QED
    BY <1>1, <1>2, <1>3, <1>4, <1>5 DEF Next, JobStep

\* job_runs lists jobs in the order they ran, each at most once and with the
\* outcome it had, though any of its inserts may have been lost.
THEOREM HistoryIsTruthful == Spec => []HistoryTruthful
  <1>1. Init => HistoryInv
    BY DEF Init, HistoryInv, HistoryTruthful
  <1>2. HistoryInv => HistoryTruthful
    BY DEF HistoryInv
  <1> QED
    BY <1>1, <1>2, HistoryStep, InvariantHolds, PTL DEF Spec

=============================================================================
