-------------------------- MODULE DailyStreamProofs --------------------------
(* No trade is lost by overlapping attempts, retries and streams, and a stream *)
(* that succeeds has loaded its feed, for any number of streams, days, lines   *)
(* and tries.                                                                  *)
EXTENDS DailyStream, TLAPS

LEMMA NoProcessIsNone == NoProcess \notin Processes
  BY DEF NoProcess, Processes, Attempts

LEMMA ProcessPairs ==
  /\ \A s \in Streams, a \in Attempts : <<s, a>> \in Processes
  /\ \A p \in Processes : p[1] \in Streams /\ p[2] \in Attempts /\ p = <<p[1], p[2]>>
  BY DEF Processes

LEMMA AttemptNumbers ==
  1 \in Attempts /\ \A a \in Attempts : a \in Nat /\ a >= 1
  BY DEF Attempts

(* Pairs differ when their attempts do. *)
LEMMA OtherAttempt ==
  ASSUME NEW r, NEW s, NEW a \in Nat, NEW b \in Nat, a > b
  PROVE  <<r, a>> # <<s, b>>
  OBVIOUS

-----------------------------------------------------------------------------
(* Types *)

LEMMA GenerateTypes ==
  ASSUME TypeOK, NEW s \in Streams, Generate(s)
  PROVE  TypeOK'
<1>1. CASE OpenFeed(s)
  BY <1>1 DEF TypeOK, OpenFeed, executor, pipeline, store
<1>2. CASE WriteLine(s)
  <2>1. wrote[s] + 1 \in 0 .. Lines /\ wrote[s] + 1 \in Trades
    BY <1>2, StreamAssumption DEF TypeOK, WriteLine, Trades
  <2>2. wrote' \in [Streams -> 0 .. Lines] /\ feed' \in [Days -> SUBSET Trades]
    BY <1>2, <2>1 DEF TypeOK, WriteLine
  <2> QED
    BY <1>2, <2>2 DEF TypeOK, WriteLine, executor, pipeline, store
<1>3. CASE GeneratorEnds(s) \/ GeneratorFails(s)
  BY <1>3 DEF TypeOK, GeneratorEnds, GeneratorFails, files, executor, pipeline, store
<1> QED
  BY <1>1, <1>2, <1>3 DEF Generate

LEMMA UntriedTypes ==
  ASSUME TypeOK, NEW p \in Processes
  PROVE  Untried(p) \in [Processes -> 1 .. MaxTries]
BY StreamAssumption DEF TypeOK, Untried

LEMMA ProcessTypes ==
  ASSUME TypeOK, NEW p \in Processes, Process(p)
  PROVE  TypeOK'
<1>1. p[1] \in Streams
  BY ProcessPairs
<1>2. CASE StageTrades(p)
  BY <1>1, <1>2 DEF TypeOK, StageTrades, Input, files, executor, generator
<1>3. CASE NothingStaged(p)
  BY <1>3 DEF TypeOK, NothingStaged, files, executor, generator, store
<1>4. CASE DeleteTrades(p)
  BY <1>4 DEF TypeOK, DeleteTrades, files, executor, generator
<1>5. CASE InsertTrades(p)
  BY <1>5 DEF TypeOK, InsertTrades, files, executor, generator
<1>6. CASE PipelineEnds(p)
  BY <1>6, UntriedTypes DEF TypeOK, PipelineEnds, Released, files, executor, generator
<1>7. CASE PipelineFails(p)
  BY <1>7, UntriedTypes DEF TypeOK, PipelineFails, Released, files, executor, generator
<1>8. CASE LoadRaises(p)
  <2>1. tries[p] + 1 \in 1 .. MaxTries
    BY <1>8, StreamAssumption DEF TypeOK, LoadRaises
  <2> QED
    BY <1>8, <2>1 DEF TypeOK, LoadRaises, files, executor, generator, store
<1>9. CASE ConnectionCollected(p)
  BY <1>9 DEF TypeOK, ConnectionCollected, files, executor, generator, pipeline
<1> QED
  BY <1>2, <1>3, <1>4, <1>5, <1>6, <1>7, <1>8, <1>9 DEF Process

LEMMA NextAttemptTypes ==
  ASSUME TypeOK, NEW s \in Streams, NextAttempt(s)
  PROVE  /\ pc' \in [Streams -> {"idle", "generate", "pipeline", "SUCCESS", "FAILED"}]
         /\ attempt' \in [Streams -> Attempts]
         /\ at' \in [Processes -> {"none", "started", "staged", "deleted", "loaded"}]
  BY DEF TypeOK, NextAttempt

LEMMA ExecuteTypes ==
  ASSUME TypeOK, NEW s \in Streams, Execute(s)
  PROVE  TypeOK'
<1>1. CASE GeneratorReturns(s)
  BY <1>1 DEF TypeOK, GeneratorReturns, files, generator, store
<1>2. CASE GeneratorTimeout(s)
  BY <1>2 DEF TypeOK, GeneratorTimeout, files, pipeline, store
<1>3. CASE PipelineReturns(s)
  BY <1>3 DEF TypeOK, PipelineReturns, files, generator, pipeline, store
<1>4. CASE PipelineReturnsError(s)
  <2>1. end' \in [Processes -> {"none", "running", "ok", "failed"}]
    BY <1>4 DEF TypeOK, PipelineReturnsError
  <2> QED
    BY <1>4, <2>1, NextAttemptTypes DEF TypeOK, PipelineReturnsError, files, generator, store
<1>5. CASE PipelineTimeout(s)
  <2>1. /\ end' \in [Processes -> {"none", "running", "ok", "failed"}]
        /\ lock' \in Processes \union {NoProcess}
    BY <1>5 DEF TypeOK, PipelineTimeout, Released
  <2>2. <<s, attempt[s]>> \in Processes
    BY DEF TypeOK, Processes
  <2>3. tries' \in [Processes -> 1 .. MaxTries]
    BY <1>5, <2>2, UntriedTypes DEF TypeOK, PipelineTimeout, Current
  <2> QED
    BY <1>5, <2>1, <2>3, NextAttemptTypes DEF TypeOK, PipelineTimeout, files, generator
<1> QED
  BY <1>1, <1>2, <1>3, <1>4, <1>5 DEF Execute

LEMMA OtherTypes ==
  ASSUME TypeOK, Midnight \/ (\E s \in Streams : StartStream(s)) \/ UNCHANGED vars
  PROVE  TypeOK'
<1>1. CASE Midnight
  <2>1. today + 1 \in Days
    BY <1>1, StreamAssumption DEF TypeOK, Midnight, Days
  <2> QED
    BY <1>1, <2>1 DEF TypeOK, Midnight, files, executor, generator, pipeline, store
<1>2. ASSUME NEW s \in Streams, StartStream(s) PROVE TypeOK'
  BY <1>2 DEF TypeOK, StartStream, files, pipeline, store
<1>3. CASE UNCHANGED vars
  BY <1>3 DEF TypeOK, vars, files, executor, generator, pipeline, store
<1> QED
  BY <1>1, <1>2, <1>3

LEMMA InitTypes == Init => TypeOK
  BY StreamAssumption, NoProcessIsNone DEF Init, TypeOK, Days, Attempts

LEMMA NextTypes ==
  ASSUME TypeOK, [Next]_vars
  PROVE  TypeOK'
BY GenerateTypes, ProcessTypes, ExecuteTypes, OtherTypes DEF Next

-----------------------------------------------------------------------------
(* Why success means that the feed was loaded *)

(* A generator that has not opened its file has written nothing, one that ended *)
(* well has written all; in between its own day's file holds what it wrote.     *)
GeneratorPart ==
    \A s \in Streams :
        /\ pc[s] = "idle" => gen[s] = "none"
        /\ gen[s] \in {"none", "started"} => wrote[s] = 0
        /\ gen[s] = "ok" => wrote[s] = Lines
        /\ gen[s] \in {"writing", "ok"} /\ OwnFeed(s) => feed[runDate[s]] = 1 .. wrote[s]

(* A pipeline has begun behind a generator that ended well, and staged its feed. *)
PipelinePart ==
    \A p \in Processes :
        /\ at[p] # "none" => gen[p[1]] = "ok"
        /\ at[p] \in {"staged", "deleted", "loaded"} /\ OwnFeed(p[1]) => staged[p] = Trades
        /\ end[p] = "running" => at[p] # "none"
        /\ end[p] = "ok" => at[p] = "loaded"

SuccessPart ==
    \A s \in Streams :
        /\ pc[s] = "pipeline" => gen[s] = "ok"
        /\ pc[s] = "SUCCESS" => end[Current(s)] = "ok"

FInv == GeneratorPart /\ PipelinePart /\ SuccessPart

LEMMA InitFInv == Init => FInv
  BY ProcessPairs DEF Init, FInv, GeneratorPart, PipelinePart, SuccessPart

(* A feed that is its own stream's alone was so before any other's step. *)
LEMMA OwnFeedBefore ==
  ASSUME NEW r \in Streams, OwnFeed(r)', runDate'[r] = runDate[r], genDay'[r] = genDay[r],
         \A q \in Streams \ {r} :
            \/ gen[q] \in {"none", "started"}
            \/ gen'[q] \notin {"none", "started"} /\ genDay'[q] = genDay[q]
  PROVE  OwnFeed(r)
  BY DEF OwnFeed, Undisturbed

(* A step of stream s's generator, or of the executor while it has not ended *)

LEMMA GeneratorStep ==
  ASSUME FInv, NEW s \in Streams, gen[s] # "ok", UNCHANGED <<at, end, staged, attempt>>,
         \A r \in Streams \ {s} :
            /\ gen'[r] = gen[r] /\ genDay'[r] = genDay[r] /\ wrote'[r] = wrote[r]
            /\ runDate'[r] = runDate[r] /\ pc'[r] = pc[r],
         pc'[s] \notin {"pipeline", "SUCCESS"},
         \/ gen[s] \in {"none", "started"}
         \/ gen'[s] \notin {"none", "started"} /\ genDay'[s] = genDay[s],
         \A d \in Days : feed'[d] = feed[d] \/ (gen'[s] = "writing" /\ genDay'[s] = d),
         \A r \in Streams : runDate[r] \in Days
  PROVE  /\ PipelinePart' /\ SuccessPart'
         /\ \A r \in Streams \ {s} :
               /\ pc'[r] = "idle" => gen'[r] = "none"
               /\ gen'[r] \in {"none", "started"} => wrote'[r] = 0
               /\ gen'[r] = "ok" => wrote'[r] = Lines
               /\ gen'[r] \in {"writing", "ok"} /\ OwnFeed(r)'
                     => feed'[runDate'[r]] = 1 .. wrote'[r]
<1>1. \A r \in Streams \ {s} : OwnFeed(r)' => OwnFeed(r)
  BY OwnFeedBefore
<1>2. \A r \in Streams : gen[r] = "ok" => r # s /\ gen'[r] = "ok"
  OBVIOUS
<1>3. PipelinePart'
  BY <1>1, <1>2, ProcessPairs DEF FInv, PipelinePart
<1>4. SuccessPart'
  BY <1>2 DEF FInv, SuccessPart, Current
<1>5. ASSUME NEW r \in Streams \ {s}, OwnFeed(r)' PROVE feed'[runDate'[r]] = feed[runDate[r]]
  BY <1>5 DEF OwnFeed, Undisturbed
<1>6. ASSUME NEW r \in Streams \ {s}
      PROVE  /\ pc'[r] = "idle" => gen'[r] = "none"
             /\ gen'[r] \in {"none", "started"} => wrote'[r] = 0
             /\ gen'[r] = "ok" => wrote'[r] = Lines
             /\ gen'[r] \in {"writing", "ok"} /\ OwnFeed(r)'
                   => feed'[runDate'[r]] = 1 .. wrote'[r]
  BY <1>1, <1>5, <1>6 DEF FInv, GeneratorPart
<1> QED
  BY <1>3, <1>4, <1>6

LEMMA OpenFeedFeeds ==
  ASSUME TypeOK, FInv, NEW s \in Streams, OpenFeed(s)
  PROVE  FInv'
<1>1. /\ gen[s] = "started" /\ gen'[s] = "writing" /\ genDay'[s] = today
      /\ feed' = [feed EXCEPT ![today] = {}] /\ UNCHANGED <<wrote, pc, runDate, attempt, at, end, staged>>
      /\ \A r \in Streams \ {s} : gen'[r] = gen[r] /\ genDay'[r] = genDay[r]
  BY DEF OpenFeed, TypeOK, executor, pipeline
<1>2. \A d \in Days : feed'[d] = IF d = today THEN {} ELSE feed[d]
  BY <1>1 DEF TypeOK
<1>3. pc[s] \notin {"idle", "pipeline", "SUCCESS"}
  <2>1. pc[s] # "SUCCESS"
    <3>1. Current(s) \in Processes /\ Current(s)[1] = s
      BY ProcessPairs DEF Current, TypeOK
    <3> QED
      BY <1>1, <3>1 DEF FInv, SuccessPart, PipelinePart
  <2> QED
    BY <1>1, <2>1 DEF FInv, GeneratorPart, SuccessPart
<1>4. /\ PipelinePart' /\ SuccessPart'
      /\ \A r \in Streams \ {s} :
               /\ pc'[r] = "idle" => gen'[r] = "none"
               /\ gen'[r] \in {"none", "started"} => wrote'[r] = 0
               /\ gen'[r] = "ok" => wrote'[r] = Lines
               /\ gen'[r] \in {"writing", "ok"} /\ OwnFeed(r)'
                     => feed'[runDate'[r]] = 1 .. wrote'[r]
  BY <1>1, <1>2, <1>3, GeneratorStep DEF TypeOK
<1>5. OwnFeed(s)' => feed'[runDate'[s]] = 1 .. wrote'[s]
  <2> SUFFICES ASSUME OwnFeed(s)' PROVE feed'[runDate'[s]] = 1 .. wrote'[s]
    OBVIOUS
  <2>1. runDate'[s] = today /\ today \in Days
    BY <1>1 DEF OwnFeed, Undisturbed, TypeOK
  <2>2. wrote'[s] = 0
    BY <1>1 DEF FInv, GeneratorPart
  <2>3. 1 .. 0 = {}
    OBVIOUS
  <2> QED
    BY <1>2, <2>1, <2>2, <2>3
<1>6. GeneratorPart'
  BY <1>1, <1>3, <1>4, <1>5 DEF GeneratorPart
<1> QED
  BY <1>4, <1>6 DEF FInv

LEMMA WriteLineFeeds ==
  ASSUME TypeOK, FInv, NEW s \in Streams, WriteLine(s)
  PROVE  FInv'
<1>1. /\ gen[s] = "writing" /\ gen'[s] = "writing" /\ wrote'[s] = wrote[s] + 1
      /\ feed' = [feed EXCEPT ![genDay[s]] = @ \union {wrote[s] + 1}]
      /\ UNCHANGED <<gen, genDay, pc, runDate, attempt, at, end, staged>>
      /\ \A r \in Streams \ {s} : wrote'[r] = wrote[r]
  BY DEF WriteLine, TypeOK, executor, pipeline
<1>2. \A d \in Days : feed'[d] = IF d = genDay[s] THEN feed[d] \union {wrote[s] + 1} ELSE feed[d]
  BY <1>1 DEF TypeOK
<1>3. pc[s] \notin {"idle", "pipeline", "SUCCESS"}
  <2>1. pc[s] # "SUCCESS"
    <3>1. Current(s) \in Processes /\ Current(s)[1] = s
      BY ProcessPairs DEF Current, TypeOK
    <3> QED
      BY <1>1, <3>1 DEF FInv, SuccessPart, PipelinePart
  <2> QED
    BY <1>1, <2>1 DEF FInv, GeneratorPart, SuccessPart
<1>4. /\ PipelinePart' /\ SuccessPart'
      /\ \A r \in Streams \ {s} :
               /\ pc'[r] = "idle" => gen'[r] = "none"
               /\ gen'[r] \in {"none", "started"} => wrote'[r] = 0
               /\ gen'[r] = "ok" => wrote'[r] = Lines
               /\ gen'[r] \in {"writing", "ok"} /\ OwnFeed(r)'
                     => feed'[runDate'[r]] = 1 .. wrote'[r]
  <2>1. \A d \in Days : feed'[d] = feed[d] \/ (gen'[s] = "writing" /\ genDay'[s] = d)
    BY <1>1, <1>2
  <2>2. \A r \in Streams : runDate[r] \in Days
    BY DEF TypeOK
  <2> QED
    BY <1>1, <1>3, <2>1, <2>2, GeneratorStep
<1>5. OwnFeed(s)' => feed'[runDate'[s]] = 1 .. wrote'[s]
  <2> SUFFICES ASSUME OwnFeed(s)' PROVE feed'[runDate'[s]] = 1 .. wrote'[s]
    OBVIOUS
  <2>1. OwnFeed(s) /\ runDate[s] = genDay[s] /\ runDate[s] \in Days
    BY <1>1 DEF OwnFeed, Undisturbed, TypeOK
  <2>2. feed[runDate[s]] = 1 .. wrote[s]
    BY <1>1, <2>1 DEF FInv, GeneratorPart
  <2>3. 1 .. (wrote[s] + 1) = (1 .. wrote[s]) \union {wrote[s] + 1}
    <3>1. wrote[s] \in Nat
      BY StreamAssumption DEF TypeOK
    <3>2. \A n \in Nat : 1 .. (n + 1) = (1 .. n) \union {n + 1}
      OBVIOUS
    <3> QED
      BY <3>1, <3>2
  <2> QED
    BY <1>1, <1>2, <2>1, <2>2, <2>3
<1>6. GeneratorPart'
  BY <1>1, <1>3, <1>4, <1>5 DEF GeneratorPart
<1> QED
  BY <1>4, <1>6 DEF FInv

LEMMA GeneratorStops ==
  ASSUME TypeOK, FInv, NEW s \in Streams, GeneratorEnds(s) \/ GeneratorFails(s)
  PROVE  FInv'
<1>1. /\ gen[s] \in {"started", "writing"} /\ gen'[s] \in {"ok", "failed"}
      /\ gen'[s] = "ok" => gen[s] = "writing" /\ wrote[s] = Lines
      /\ UNCHANGED <<wrote, genDay, feed, pc, runDate, attempt, at, end, staged>>
      /\ \A r \in Streams \ {s} : gen'[r] = gen[r]
  BY DEF GeneratorEnds, GeneratorFails, TypeOK, files, executor, pipeline
<1>2. pc[s] \notin {"idle", "pipeline", "SUCCESS"}
  <2>1. pc[s] # "SUCCESS"
    <3>1. Current(s) \in Processes /\ Current(s)[1] = s
      BY ProcessPairs DEF Current, TypeOK
    <3> QED
      BY <1>1, <3>1 DEF FInv, SuccessPart, PipelinePart
  <2> QED
    BY <1>1, <2>1 DEF FInv, GeneratorPart, SuccessPart
<1>3. /\ PipelinePart' /\ SuccessPart'
      /\ \A r \in Streams \ {s} :
               /\ pc'[r] = "idle" => gen'[r] = "none"
               /\ gen'[r] \in {"none", "started"} => wrote'[r] = 0
               /\ gen'[r] = "ok" => wrote'[r] = Lines
               /\ gen'[r] \in {"writing", "ok"} /\ OwnFeed(r)'
                     => feed'[runDate'[r]] = 1 .. wrote'[r]
  BY <1>1, <1>2, GeneratorStep DEF TypeOK
<1>4. gen'[s] = "ok" /\ OwnFeed(s)' => feed'[runDate'[s]] = 1 .. wrote'[s]
  <2>1. OwnFeed(s)' => OwnFeed(s)
    BY <1>1 DEF OwnFeed, Undisturbed
  <2> QED
    BY <1>1, <2>1 DEF FInv, GeneratorPart
<1>5. GeneratorPart'
  BY <1>1, <1>2, <1>3, <1>4 DEF GeneratorPart
<1> QED
  BY <1>3, <1>5 DEF FInv

LEMMA StartFeeds ==
  ASSUME TypeOK, FInv, NEW s \in Streams, StartStream(s)
  PROVE  FInv'
<1>1. /\ gen[s] = "none" /\ gen'[s] = "started" /\ pc'[s] = "generate" /\ wrote[s] = 0
      /\ UNCHANGED <<wrote, genDay, feed, attempt, at, end, staged>>
      /\ \A r \in Streams \ {s} :
            gen'[r] = gen[r] /\ pc'[r] = pc[r] /\ runDate'[r] = runDate[r]
  BY DEF StartStream, TypeOK, files, pipeline, FInv, GeneratorPart
<1>2. /\ PipelinePart' /\ SuccessPart'
      /\ \A r \in Streams \ {s} :
               /\ pc'[r] = "idle" => gen'[r] = "none"
               /\ gen'[r] \in {"none", "started"} => wrote'[r] = 0
               /\ gen'[r] = "ok" => wrote'[r] = Lines
               /\ gen'[r] \in {"writing", "ok"} /\ OwnFeed(r)'
                     => feed'[runDate'[r]] = 1 .. wrote'[r]
  BY <1>1, GeneratorStep DEF TypeOK
<1>3. GeneratorPart'
  BY <1>1, <1>2 DEF GeneratorPart
<1> QED
  BY <1>2, <1>3 DEF FInv

LEMMA TimeoutFeeds ==
  ASSUME TypeOK, FInv, NEW s \in Streams, GeneratorTimeout(s)
  PROVE  FInv'
<1>1. /\ gen[s] \in {"started", "writing"} /\ gen'[s] \in {gen[s], "failed"}
      /\ pc'[s] = "FAILED"
      /\ UNCHANGED <<wrote, genDay, feed, runDate, attempt, at, end, staged>>
      /\ \A r \in Streams \ {s} : gen'[r] = gen[r] /\ pc'[r] = pc[r]
  BY DEF GeneratorTimeout, TypeOK, files, pipeline
<1>2. /\ PipelinePart' /\ SuccessPart'
      /\ \A r \in Streams \ {s} :
               /\ pc'[r] = "idle" => gen'[r] = "none"
               /\ gen'[r] \in {"none", "started"} => wrote'[r] = 0
               /\ gen'[r] = "ok" => wrote'[r] = Lines
               /\ gen'[r] \in {"writing", "ok"} /\ OwnFeed(r)'
                     => feed'[runDate'[r]] = 1 .. wrote'[r]
  BY <1>1, GeneratorStep DEF TypeOK
<1>3. gen'[s] = "writing" /\ OwnFeed(s)' => feed'[runDate'[s]] = 1 .. wrote'[s]
  <2>1. OwnFeed(s)' => OwnFeed(s)
    BY <1>1 DEF OwnFeed, Undisturbed
  <2> QED
    BY <1>1, <2>1 DEF FInv, GeneratorPart
<1>4. GeneratorPart'
  BY <1>1, <1>2, <1>3 DEF FInv, GeneratorPart
<1> QED
  BY <1>2, <1>4 DEF FInv

-----------------------------------------------------------------------------
(* Steps that leave the generators and their feeds alone *)

LEMMA FeedsAlone ==
  ASSUME GeneratorPart, UNCHANGED <<generator, feed, runDate>>,
         \A s \in Streams : pc'[s] = "idle" => pc[s] = "idle"
  PROVE  /\ GeneratorPart'
         /\ \A s \in Streams : OwnFeed(s)' <=> OwnFeed(s)
<1>1. \A s \in Streams : OwnFeed(s)' <=> OwnFeed(s)
  BY DEF OwnFeed, Undisturbed, generator
<1> QED
  BY <1>1 DEF GeneratorPart, generator

(* A running pipeline goes on, and ends only when it has loaded. *)
LEMMA ProcessFeeds ==
  ASSUME TypeOK, FInv, NEW p \in Processes, Process(p)
  PROVE  FInv'
<1>1. /\ end[p] = "running"
      /\ UNCHANGED <<generator, feed, executor>>
      /\ \A q \in Processes \ {p} : at'[q] = at[q] /\ end'[q] = end[q] /\ staged'[q] = staged[q]
  BY DEF Process, StageTrades, NothingStaged, DeleteTrades, InsertTrades, LoadRaises,
         ConnectionCollected, PipelineEnds, PipelineFails, TypeOK, files, pipeline
<1>2. GeneratorPart' /\ \A s \in Streams : OwnFeed(s)' <=> OwnFeed(s)
  BY <1>1, FeedsAlone DEF FInv, executor
<1>3. SuccessPart'
  <2>1. \A s \in Streams : pc[s] = "SUCCESS" => Current(s) \in Processes \ {p}
    <3>1. \A s \in Streams : Current(s) \in Processes
      BY ProcessPairs DEF Current, TypeOK
    <3>2. \A s \in Streams : pc[s] = "SUCCESS" => end[Current(s)] = "ok"
      BY DEF FInv, SuccessPart
    <3>3. end[p] # "ok"
      BY <1>1
    <3> QED
      BY <3>1, <3>2, <3>3
  <2>2. \A s \in Streams : Current(s)' = Current(s) /\ pc'[s] = pc[s] /\ gen'[s] = gen[s]
    BY <1>1 DEF Current, executor, generator
  <2> QED
    BY <1>1, <2>1, <2>2 DEF FInv, SuccessPart
<1>4. p[1] \in Streams /\ gen' = gen
  BY <1>1, ProcessPairs DEF generator
<1>5. OwnFeed(p[1]) /\ gen[p[1]] = "ok" => feed[Input(p)] = Trades
  BY <1>4 DEF FInv, GeneratorPart, Input, Trades
<1>6. /\ at'[p] # "none" => gen[p[1]] = "ok"
      /\ at'[p] \in {"staged", "deleted", "loaded"} /\ OwnFeed(p[1]) => staged'[p] = Trades
      /\ end'[p] = "running" => at'[p] # "none"
      /\ end'[p] = "ok" => at'[p] = "loaded"
  <2>1. CASE StageTrades(p)
    BY <2>1, <1>1, <1>5 DEF StageTrades, TypeOK, FInv, PipelinePart
  <2>2. CASE NothingStaged(p)
    BY <2>2, <1>1, <1>5 DEF NothingStaged, TypeOK, FInv, PipelinePart
  <2>3. CASE DeleteTrades(p)
    BY <2>3, <1>1 DEF DeleteTrades, TypeOK, FInv, PipelinePart
  <2>4. CASE InsertTrades(p)
    BY <2>4, <1>1 DEF InsertTrades, TypeOK, FInv, PipelinePart
  <2>5. CASE PipelineEnds(p) \/ PipelineFails(p)
    BY <2>5, <1>1 DEF PipelineEnds, PipelineFails, TypeOK, FInv, PipelinePart
  <2>6. CASE LoadRaises(p) \/ ConnectionCollected(p)
    BY <2>6, <1>1 DEF LoadRaises, ConnectionCollected, TypeOK, FInv, PipelinePart, pipeline
  <2> QED
    BY <2>1, <2>2, <2>3, <2>4, <2>5, <2>6 DEF Process
<1>7. PipelinePart'
  BY <1>1, <1>2, <1>4, <1>6, ProcessPairs DEF FInv, PipelinePart
<1> QED
  BY <1>2, <1>3, <1>7 DEF FInv

(* The executor starts attempts behind the generator, and reads an end. *)
LEMMA ExecuteFeeds ==
  ASSUME TypeOK, FInv, NEW s \in Streams,
         GeneratorReturns(s) \/ PipelineReturns(s) \/ PipelineReturnsError(s) \/ PipelineTimeout(s)
  PROVE  FInv'
<1>1. /\ UNCHANGED <<generator, feed, runDate, staged>>
      /\ pc'[s] # "idle"
      /\ \A r \in Streams \ {s} : pc'[r] = pc[r] /\ attempt'[r] = attempt[r]
  BY DEF GeneratorReturns, PipelineReturns, PipelineReturnsError, PipelineTimeout, NextAttempt,
         TypeOK, files, pipeline
<1>2. GeneratorPart' /\ \A r \in Streams : OwnFeed(r)' <=> OwnFeed(r)
  BY <1>1, FeedsAlone DEF FInv
<1>3. gen[s] = "ok" \/ pc'[s] = "FAILED"
  <2>1. pc[s] = "pipeline" => gen[s] = "ok"
    BY DEF FInv, SuccessPart
  <2>2. CASE GeneratorReturns(s)
    <3>1. gen[s] # "ok" => pc' = [pc EXCEPT ![s] = "FAILED"]
      BY <2>2 DEF GeneratorReturns
    <3> QED
      BY <3>1 DEF TypeOK
  <2>3. CASE PipelineReturns(s)
    BY <2>1, <2>3 DEF PipelineReturns
  <2>4. CASE PipelineReturnsError(s)
    BY <2>1, <2>4 DEF PipelineReturnsError
  <2>5. CASE PipelineTimeout(s)
    BY <2>1, <2>5 DEF PipelineTimeout
  <2> QED
    BY <2>2, <2>3, <2>4, <2>5
<1>4. \A p \in Processes :
         \/ at'[p] = at[p] /\ end'[p] \in {end[p], "failed"} /\ (end[p] = "ok" => end'[p] = "ok")
         \/ p[1] = s /\ gen[s] = "ok" /\ at'[p] = "started" /\ end'[p] = "running"
  <2>1. CASE GeneratorReturns(s)
    BY <2>1, <1>3 DEF GeneratorReturns, TypeOK
  <2>2. CASE PipelineReturns(s)
    BY <2>2 DEF PipelineReturns, pipeline
  <2>3. pc[s] = "pipeline" => gen[s] = "ok"
    BY DEF FInv, SuccessPart
  <2>4. CASE PipelineReturnsError(s)
    BY <2>3, <2>4 DEF PipelineReturnsError, NextAttempt, Begun, TypeOK
  <2>5. CASE PipelineTimeout(s)
    <3>1. \A p \in Processes : at'[p] = IF p \in Begun(s) THEN "started" ELSE at[p]
      BY <2>5 DEF PipelineTimeout, NextAttempt, Begun, TypeOK
    <3>2. /\ pc[s] = "pipeline" /\ end[Current(s)] = "running"
          /\ \A p \in Processes :
               \/ p \in Begun(s) /\ end'[p] = "running"
               \/ p \notin Begun(s) /\ end'[p] = end[p]
               \/ p \notin Begun(s) /\ p = Current(s) /\ end'[p] = "failed"
      BY <2>5 DEF PipelineTimeout
    <3>3. \A p \in Begun(s) : p[1] = s
      BY DEF Begun
    <3> QED
      BY <2>3, <3>1, <3>2, <3>3
  <2> QED
    BY <2>1, <2>2, <2>4, <2>5
<1>5. PipelinePart'
  BY <1>1, <1>2, <1>4, ProcessPairs DEF FInv, PipelinePart, generator
<1>6. \A r \in Streams \ {s} : pc'[r] = "SUCCESS" => end'[Current(r)'] = "ok"
  <2> SUFFICES ASSUME NEW r \in Streams \ {s}, pc[r] = "SUCCESS" PROVE end'[Current(r)] = "ok"
    BY <1>1 DEF Current
  <2>1. Current(r) \in Processes /\ Current(r)[1] = r /\ end[Current(r)] = "ok"
    BY ProcessPairs DEF Current, TypeOK, FInv, SuccessPart
  <2> QED
    BY <1>4, <2>1
<1>7. pc'[s] = "SUCCESS" => end'[Current(s)'] = "ok"
  BY DEF GeneratorReturns, PipelineReturns, PipelineReturnsError, PipelineTimeout, NextAttempt,
         TypeOK, Current, pipeline
<1>8. SuccessPart'
  BY <1>1, <1>3, <1>6, <1>7 DEF FInv, SuccessPart, generator
<1> QED
  BY <1>2, <1>5, <1>8 DEF FInv

LEMMA NextFInv == TypeOK /\ FInv /\ [Next]_vars => FInv'
<1> SUFFICES ASSUME TypeOK, FInv, [Next]_vars PROVE FInv'
  OBVIOUS
<1>1. CASE Midnight \/ UNCHANGED vars
  <2>1. UNCHANGED <<generator, feed, executor, pipeline>>
    BY <1>1 DEF Midnight, vars, files
  <2>2. GeneratorPart' /\ \A s \in Streams : OwnFeed(s)' <=> OwnFeed(s)
    BY <2>1, FeedsAlone DEF FInv, executor
  <2> QED
    BY <2>1, <2>2, ProcessPairs
       DEF FInv, PipelinePart, SuccessPart, Current, generator, executor, pipeline
<1>2. ASSUME NEW s \in Streams, StartStream(s) \/ Execute(s) \/ Generate(s) PROVE FInv'
  BY <1>2, StartFeeds, TimeoutFeeds, ExecuteFeeds, OpenFeedFeeds, WriteLineFeeds, GeneratorStops
     DEF Execute, Generate
<1>3. ASSUME NEW p \in Processes, Process(p) PROVE FInv'
  BY <1>3, ProcessFeeds
<1> QED
  BY <1>1, <1>2, <1>3 DEF Next

-----------------------------------------------------------------------------
(* Who has got at the feeds *)

(* Any day's file was opened by a generator; a load has read such a file. *)
Opened ==
    /\ \A d \in present : \E r \in Streams : gen[r] \notin {"none", "started"} /\ genDay[r] = d
    /\ \A p \in Processes : at[p] \in {"staged", "deleted", "loaded"} => Input(p) \in present

(* An attempt that has not begun has done nothing. *)
Unbegun ==
    \A s \in Streams, a \in Attempts :
        pc[s] \in {"idle", "generate"} \/ (pc[s] = "pipeline" /\ a > attempt[s])
            => at[<<s, a>>] = "none"

(* What a step leaves of a generator that has opened its file, and of a stream  *)
(* whose pipeline has begun.                                                    *)
LEMMA OpenedStays ==
  ASSUME TypeOK, FInv, [Next]_vars, NEW r \in Streams
  PROVE  /\ gen[r] \notin {"none", "started"} =>
               gen'[r] \notin {"none", "started"} /\ genDay'[r] = genDay[r]
         /\ pc[r] # "idle" => runDate'[r] = runDate[r]
         /\ present \subseteq present'
<1>1. CASE Midnight \/ UNCHANGED vars
  BY <1>1 DEF Midnight, vars, files, executor, generator
<1>2. ASSUME NEW s \in Streams, StartStream(s)
      PROVE  /\ gen[r] \notin {"none", "started"} =>
                   gen'[r] \notin {"none", "started"} /\ genDay'[r] = genDay[r]
             /\ pc[r] # "idle" => runDate'[r] = runDate[r]
             /\ present \subseteq present'
  BY <1>2 DEF StartStream, files, TypeOK, FInv, GeneratorPart
<1>3. ASSUME NEW s \in Streams, Generate(s)
      PROVE  /\ gen[r] \notin {"none", "started"} =>
                   gen'[r] \notin {"none", "started"} /\ genDay'[r] = genDay[r]
             /\ pc[r] # "idle" => runDate'[r] = runDate[r]
             /\ present \subseteq present'
  BY <1>3 DEF Generate, OpenFeed, WriteLine, GeneratorEnds, GeneratorFails, files, executor, TypeOK
<1>4. ASSUME NEW s \in Streams, Execute(s)
      PROVE  /\ gen[r] \notin {"none", "started"} =>
                   gen'[r] \notin {"none", "started"} /\ genDay'[r] = genDay[r]
             /\ pc[r] # "idle" => runDate'[r] = runDate[r]
             /\ present \subseteq present'
  BY <1>4 DEF Execute, GeneratorReturns, GeneratorTimeout, PipelineReturns, PipelineReturnsError,
              PipelineTimeout, files, generator, TypeOK
<1>5. ASSUME NEW p \in Processes, Process(p)
      PROVE  UNCHANGED <<files, executor, generator>>
  BY <1>5 DEF Process, StageTrades, NothingStaged, DeleteTrades, InsertTrades, LoadRaises,
              ConnectionCollected, PipelineEnds, PipelineFails
<1> QED
  BY <1>1, <1>2, <1>3, <1>4, <1>5 DEF Next, files, executor, generator

LEMMA NextOpened ==
  ASSUME TypeOK, FInv, Opened, Unbegun, [Next]_vars
  PROVE  Opened'
<1>1. \A d \in present' : \E r \in Streams : gen'[r] \notin {"none", "started"} /\ genDay'[r] = d
  <2> SUFFICES ASSUME NEW d \in present'
               PROVE  \E r \in Streams : gen'[r] \notin {"none", "started"} /\ genDay'[r] = d
    OBVIOUS
  <2>1. CASE d \in present
    BY <2>1, OpenedStays DEF Opened
  <2>2. CASE d \notin present
    <3>1. PICK s \in Streams : OpenFeed(s) /\ d = today
      BY <2>2 DEF Next, Midnight, StartStream, Generate, OpenFeed, WriteLine, GeneratorEnds,
                  GeneratorFails, Execute, GeneratorReturns, GeneratorTimeout, PipelineReturns,
                  PipelineReturnsError, PipelineTimeout, Process, StageTrades, NothingStaged,
                  DeleteTrades, InsertTrades, LoadRaises, ConnectionCollected, PipelineEnds,
                  PipelineFails, vars, files
    <3> QED
      BY <3>1 DEF OpenFeed, TypeOK
  <2> QED
    BY <2>1, <2>2
<1>2. ASSUME NEW p \in Processes, at'[p] \in {"staged", "deleted", "loaded"}
      PROVE  Input(p)' \in present'
  <2>1. at[p] # "none" /\ Input(p) \in present
    <3>1. CASE at[p] \in {"staged", "deleted", "loaded"}
      BY <3>1 DEF Opened
    <3>2. CASE at[p] \notin {"staged", "deleted", "loaded"}
      <4>1. CASE \E q \in Processes : Process(q)
        BY <4>1, <3>2, <1>2 DEF Process, StageTrades, NothingStaged, DeleteTrades, InsertTrades,
                  LoadRaises, ConnectionCollected, PipelineEnds, PipelineFails, pipeline, TypeOK
      <4>2. CASE ~\E q \in Processes : Process(q)
        <5>1. (\E s \in Streams : Execute(s)) => at'[p] \in {at[p], "started"}
          BY DEF Execute, GeneratorReturns, GeneratorTimeout, PipelineReturns,
                  PipelineReturnsError, PipelineTimeout, NextAttempt, pipeline, TypeOK
        <5>2. Midnight \/ (\E s \in Streams : StartStream(s) \/ Generate(s)) \/ UNCHANGED vars
                  => at' = at
          BY DEF Midnight, StartStream, Generate, OpenFeed, WriteLine, GeneratorEnds,
                  GeneratorFails, vars, pipeline
        <5>3. at'[p] \in {at[p], "started"}
          BY <4>2, <5>1, <5>2 DEF Next
        <5> QED
          BY <5>3, <3>2, <1>2
      <4> QED
        BY <4>1, <4>2
    <3> QED
      BY <3>1, <3>2
  <2>2. pc[p[1]] # "idle" /\ p[1] \in Streams
    BY <2>1, ProcessPairs DEF Unbegun
  <2>3. runDate'[p[1]] = runDate[p[1]] /\ present \subseteq present'
    BY <2>2, OpenedStays
  <2> QED
    BY <2>1, <2>3 DEF Input
<1> QED
  BY <1>1, <1>2 DEF Opened

(* A feed that no other stream got at is all there when it is read. *)
LEMMA UndisturbedFeed ==
  ASSUME TypeOK, FInv, Opened, NEW p \in Processes, at[p] # "none", Input(p) \in present,
         Undisturbed(p[1])
  PROVE  OwnFeed(p[1]) /\ feed[Input(p)] = Trades
<1>1. p[1] \in Streams /\ gen[p[1]] = "ok"
  BY ProcessPairs DEF FInv, PipelinePart
<1>2. PICK r \in Streams : gen[r] \notin {"none", "started"} /\ genDay[r] = runDate[p[1]]
  BY DEF Opened, Input
<1>3. r = p[1]
  BY <1>1, <1>2 DEF Undisturbed
<1>4. OwnFeed(p[1])
  BY <1>2, <1>3 DEF OwnFeed
<1> QED
  BY <1>1, <1>4 DEF FInv, GeneratorPart, Input, Trades

LEMMA UndisturbedLoad ==
  ASSUME TypeOK, FInv, Opened, NEW p \in Processes,
         at[p] \in {"staged", "deleted", "loaded"}, Undisturbed(p[1])
  PROVE  staged[p] = Trades
<1>1. Input(p) \in present
  BY DEF Opened
<1>2. OwnFeed(p[1])
  BY <1>1, UndisturbedFeed
<1> QED
  BY <1>2 DEF FInv, PipelinePart

-----------------------------------------------------------------------------
(* The loads *)

(* Who is in the middle of its load has the file open. *)
LockHeld ==
    \A p \in Processes : at[p] \in {"staged", "deleted"} /\ end[p] = "running" => lock = p

DeletersBegan == \A t \in Trades : deleter[t] # NoProcess => at[deleter[t]] # "none"

(* Why a trade that q deleted may be gone *)
Cause(q) ==
    \/ at[q] # "loaded" /\ (lock = q \/ at[q] = "started" \/ end[q] = "failed")
    \/ ~Undisturbed(q[1])

LInv == LockHeld /\ DeletersBegan /\ TradesGoneForCause

IInv == TypeOK /\ FInv /\ Opened /\ Unbegun /\ LInv

LEMMA InitInv == Init => IInv
<1> SUFFICES ASSUME Init PROVE IInv
  OBVIOUS
<1>1. TypeOK /\ FInv
  BY InitTypes, InitFInv
<1>2. Opened /\ Unbegun /\ LInv
  BY ProcessPairs DEF Init, Opened, Unbegun, LInv, LockHeld, DeletersBegan, TradesGoneForCause
<1> QED
  BY <1>1, <1>2 DEF IInv

LEMMA DisturbedStays ==
  ASSUME IInv, [Next]_vars, NEW q \in Processes, at[q] # "none", ~Undisturbed(q[1])
  PROVE  ~Undisturbed(q[1])'
<1>1. q[1] \in Streams /\ pc[q[1]] # "idle"
  BY ProcessPairs DEF IInv, Unbegun
<1>2. runDate'[q[1]] = runDate[q[1]]
  BY <1>1, OpenedStays DEF IInv
<1>3. PICK r \in Streams \ {q[1]} : gen[r] \notin {"none", "started"} /\ genDay[r] = runDate[q[1]]
  BY DEF Undisturbed
<1>4. gen'[r] \notin {"none", "started"} /\ genDay'[r] = genDay[r]
  BY <1>3, OpenedStays DEF IInv
<1> QED
  BY <1>2, <1>3, <1>4 DEF Undisturbed

(* The cause outlasts a step that leaves q where it is, but for killing it. *)
LEMMA CauseStays ==
  ASSUME IInv, [Next]_vars, NEW q \in Processes, at[q] # "none", Cause(q),
         at'[q] = at[q], end'[q] = end[q] \/ end'[q] = "failed",
         lock = q => lock' = q \/ end'[q] = "failed"
  PROVE  Cause(q)'
<1>1. CASE ~Undisturbed(q[1])
  BY <1>1, DisturbedStays DEF Cause
<1>2. CASE Undisturbed(q[1])
  BY <1>2 DEF Cause
<1> QED
  BY <1>1, <1>2

(* Of a deleted trade that is away, the process *)
LEMMA AwayOf ==
  ASSUME IInv, NEW t \in Trades, deleter[t] # NoProcess
  PROVE  /\ deleter[t] \in Processes /\ at[deleter[t]] # "none"
         /\ facts[t] = NoProcess => Cause(deleter[t])
BY DEF IInv, TypeOK, LInv, DeletersBegan, TradesGoneForCause, Cause

LEMMA NextTradesGone ==
  ASSUME IInv, [Next]_vars,
         \A t \in Trades, q \in Processes :
            deleter'[t] = q /\ facts'[t] = NoProcess => Cause(q)'
  PROVE  TradesGoneForCause'
<1>1. \A t \in Trades : deleter'[t] \in Processes \union {NoProcess}
  BY NextTypes DEF IInv, TypeOK
<1> QED
  BY <1>1 DEF TradesGoneForCause, Cause

(* A step of the process p: the others' causes outlast it. *)
LEMMA ProcessKeeps ==
  ASSUME IInv, NEW p \in Processes, Process(p)
  PROVE  Unbegun' /\ LInv'
<1> USE DEF store, pipeline, Released
<1>1. /\ at \in [Processes -> {"none", "started", "staged", "deleted", "loaded"}]
      /\ end \in [Processes -> {"none", "running", "ok", "failed"}]
      /\ staged \in [Processes -> SUBSET Trades]
      /\ facts \in [Trades -> Processes \union {NoProcess}]
      /\ deleter \in [Trades -> Processes \union {NoProcess}]
  BY DEF IInv, TypeOK
<1>2. /\ LockHeld /\ DeletersBegan /\ [Next]_vars
      /\ end[p] = "running" => at[p] # "none"
  BY DEF IInv, LInv, FInv, PipelinePart, Next
<1>3. /\ end[p] = "running" /\ at[p] # "none" /\ at'[p] # "none"
      /\ UNCHANGED <<executor, generator, files>>
      /\ \A q \in Processes \ {p} : at'[q] = at[q] /\ end'[q] = end[q]
  BY <1>1, <1>2 DEF Process, StageTrades, NothingStaged, DeleteTrades, InsertTrades, LoadRaises,
              ConnectionCollected, PipelineEnds, PipelineFails
<1>4. /\ lock' \in {lock, NoProcess, p} /\ (lock' # lock => lock \in {NoProcess, p})
      /\ at'[p] \in {"staged", "deleted"} /\ end'[p] = "running" => lock' = p
  BY <1>1, <1>2 DEF LockHeld, Process, StageTrades, NothingStaged, DeleteTrades, InsertTrades,
              LoadRaises, ConnectionCollected, PipelineEnds, PipelineFails
<1>5. Unbegun'
  BY <1>3, ProcessPairs DEF IInv, Unbegun, executor
<1>6. LockHeld'
  <2>1. \A q \in Processes \ {p} : lock = q => lock' = q
    BY <1>4, NoProcessIsNone
  <2> QED
    BY <1>2, <1>3, <1>4, <2>1 DEF LockHeld
<1>7. \A t \in Trades : \/ deleter'[t] = deleter[t] /\ (facts'[t] = NoProcess => facts[t] = NoProcess)
                       \/ deleter'[t] = p
  BY <1>1, NoProcessIsNone DEF Process, StageTrades, NothingStaged, DeleteTrades, InsertTrades,
              LoadRaises, ConnectionCollected, PipelineEnds, PipelineFails
<1>8. DeletersBegan'
  <2>1. \A t \in Trades : deleter'[t] # NoProcess =>
            deleter'[t] = p \/ (deleter[t] = deleter'[t] /\ deleter[t] \in Processes)
    BY <1>1 DEF Process, StageTrades, NothingStaged, DeleteTrades, InsertTrades, LoadRaises,
              ConnectionCollected, PipelineEnds, PipelineFails
  <2> QED
    BY <1>2, <1>3, <2>1 DEF DeletersBegan
<1>9. ASSUME NEW t \in Trades, deleter'[t] = p, facts'[t] = NoProcess
      PROVE  Cause(p)'
  <2>1. Undisturbed(p[1])' <=> Undisturbed(p[1])
    BY <1>3 DEF Undisturbed, executor, generator
  <2>2. CASE ~Undisturbed(p[1])
    BY <2>1, <2>2 DEF Cause
  <2>3. CASE Undisturbed(p[1])
    <3>1. at[p] # "loaded" \/ facts[t] # NoProcess \/ deleter[t] # p
      BY <2>3, AwayOf, NoProcessIsNone DEF Cause
    <3>2. CASE StageTrades(p) \/ DeleteTrades(p)
      BY <3>2, <1>1, <1>4, <1>3 DEF StageTrades, DeleteTrades, Cause
    <3>3. CASE NothingStaged(p)
      <4>1. feed[Input(p)] = Trades
        BY <3>3, <2>3, <1>3, UndisturbedFeed DEF NothingStaged, IInv
      <4> QED
        BY <3>3, <4>1 DEF NothingStaged
    <3>4. CASE InsertTrades(p)
      <4>1. staged[p] = Trades
        BY <3>4, <2>3, UndisturbedLoad DEF InsertTrades, IInv
      <4>2. facts'[t] = p
        BY <3>4, <4>1, <1>1 DEF InsertTrades
      <4> QED
        BY <4>2, <1>9, NoProcessIsNone
    <3>5. CASE LoadRaises(p)
      <4>1. at'[p] = "started"
        BY <3>5, <1>1 DEF LoadRaises
      <4> QED
        BY <4>1 DEF Cause
    <3>6. CASE ConnectionCollected(p)
      BY <3>1, <3>6, <1>9 DEF ConnectionCollected, Cause
    <3>7. CASE PipelineEnds(p)
      BY <3>1, <3>7, <1>9 DEF PipelineEnds, Cause
    <3>8. CASE PipelineFails(p)
      <4>1. end'[p] = "failed" /\ at' = at /\ UNCHANGED <<facts, deleter>>
        BY <3>8, <1>1 DEF PipelineFails
      <4> QED
        BY <3>1, <4>1, <1>9 DEF Cause
    <3> QED
      BY <3>2, <3>3, <3>4, <3>5, <3>6, <3>7, <3>8 DEF Process
  <2> QED
    BY <2>2, <2>3
<1>10. ASSUME NEW t \in Trades, NEW q \in Processes \ {p}, deleter'[t] = q, facts'[t] = NoProcess
       PROVE  Cause(q)'
  <2>1. deleter[t] = q /\ facts[t] = NoProcess
    BY <1>7, <1>10
  <2>2. at[q] # "none" /\ Cause(q)
    BY <2>1, NoProcessIsNone, AwayOf
  <2>3. lock = q => lock' = q
    BY <1>4, NoProcessIsNone
  <2> QED
    BY <2>2, <2>3, <1>2, <1>3, CauseStays
<1>11. TradesGoneForCause'
  BY <1>2, <1>9, <1>10, NextTradesGone
<1> QED
  BY <1>5, <1>6, <1>8, <1>11 DEF LInv

-----------------------------------------------------------------------------
(* Steps of the executor and the generators: begin some attempts that have not *)
(* begun, and kill some that run.                                              *)

LEMMA BeginKeeps ==
  ASSUME IInv, [Next]_vars, NEW B \in SUBSET Processes, NEW K \in SUBSET Processes,
         \A q \in B : at[q] = "none",
         \A q \in Processes : at'[q] = IF q \in B THEN "started" ELSE at[q],
         \A q \in Processes : end'[q] = IF q \in B THEN "running"
                                        ELSE IF q \in K THEN "failed" ELSE end[q],
         lock' = lock \/ (lock \in K \ B /\ lock' = NoProcess),
         UNCHANGED <<facts, deleter>>
  PROVE  LInv'
<1>1. LockHeld'
  BY DEF IInv, LInv, LockHeld
<1>2. DeletersBegan'
  BY DEF IInv, TypeOK, LInv, DeletersBegan
<1>3. TradesGoneForCause'
  <2> SUFFICES ASSUME NEW t \in Trades, NEW q \in Processes,
                      deleter[t] = q, facts[t] = NoProcess
               PROVE  Cause(q)'
    BY NextTradesGone
  <2>1. at[q] # "none" /\ Cause(q)
    BY NoProcessIsNone, AwayOf
  <2>2. q \notin B /\ at'[q] = at[q] /\ (end'[q] = end[q] \/ end'[q] = "failed")
    BY <2>1
  <2>3. lock = q => lock' = q \/ end'[q] = "failed"
    BY <2>1, <2>2
  <2> QED
    BY <2>1, <2>2, <2>3, CauseStays
<1> QED
  BY <1>1, <1>2, <1>3 DEF LInv

(* A step that leaves the pipelines alone *)
LEMMA QuietKeeps ==
  ASSUME IInv, [Next]_vars, UNCHANGED <<at, end, store>>,
         \A s \in Streams : attempt'[s] = attempt[s]
                              /\ (pc'[s] = pc[s] \/ (pc[s] = "idle" /\ pc'[s] = "generate")
                                    \/ pc'[s] \in {"SUCCESS", "FAILED"})
  PROVE  Unbegun' /\ LInv'
<1>1. Unbegun'
  BY DEF IInv, Unbegun
<1>2. LInv'
  <2>1. {} \in SUBSET Processes
    OBVIOUS
  <2> QED
    BY <2>1, BeginKeeps DEF store
<1> QED
  BY <1>1, <1>2

LEMMA GeneratorReturnsKeeps ==
  ASSUME IInv, NEW s \in Streams, GeneratorReturns(s)
  PROVE  Unbegun' /\ LInv'
<1> DEFINE p == <<s, 1>>
<1>1. p \in Processes /\ 1 \in Attempts
  BY ProcessPairs, AttemptNumbers
<1>2. /\ at \in [Processes -> {"none", "started", "staged", "deleted", "loaded"}]
      /\ end \in [Processes -> {"none", "running", "ok", "failed"}]
      /\ pc \in [Streams -> {"idle", "generate", "pipeline", "SUCCESS", "FAILED"}]
      /\ attempt \in [Streams -> Attempts]
  BY DEF IInv, TypeOK
<1>3. pc[s] = "generate" /\ UNCHANGED <<attempt, store>>
  BY DEF GeneratorReturns
<1>4. at[p] = "none"
  BY <1>1, <1>3 DEF IInv, Unbegun
<1>5. CASE gen[s] = "ok"
  <2>1. /\ pc' = [pc EXCEPT ![s] = "pipeline"]
        /\ at' = [at EXCEPT ![p] = "started"] /\ end' = [end EXCEPT ![p] = "running"]
    BY <1>5 DEF GeneratorReturns
  <2>2. /\ \A q \in Processes : at'[q] = IF q \in {p} THEN "started" ELSE at[q]
        /\ \A q \in Processes : end'[q] = IF q \in {p} THEN "running"
                                           ELSE IF q \in {} THEN "failed" ELSE end[q]
    BY <2>1, <1>2
  <2>3. LInv'
    <3>1. [Next]_vars
      BY DEF Next, Execute
    <3>2. {} \in SUBSET Processes /\ {p} \in SUBSET Processes
      BY <1>1
    <3> QED
      BY <3>1, <3>2, <1>3, <1>4, <2>2, BeginKeeps DEF store
  <2>4. Unbegun'
    <3> SUFFICES ASSUME NEW r \in Streams, NEW a \in Attempts,
                        pc'[r] \in {"idle", "generate"} \/ (pc'[r] = "pipeline" /\ a > attempt'[r])
                 PROVE  at'[<<r, a>>] = "none"
      BY DEF Unbegun
    <3>1. attempt[r] \in Attempts /\ a \in Nat /\ <<r, a>> \in Processes
      BY <1>2, ProcessPairs, AttemptNumbers
    <3>2. CASE r = s
      <4>1. a > attempt[s] /\ attempt[s] >= 1
        BY <3>1, <3>2, <2>1, <1>2, <1>3 DEF Attempts
      <4>2. a > 1
        <5>1. attempt[s] \in Nat
          BY <1>2, AttemptNumbers
        <5> QED
          BY <5>1, <4>1, <3>1
      <4>3. <<r, a>> # p
        BY <4>2, <3>1, OtherAttempt
      <4> QED
        BY <3>1, <3>2, <4>3, <1>3, <2>2 DEF IInv, Unbegun
    <3>3. CASE r # s
      BY <3>1, <3>3, <2>1, <2>2, <1>2, <1>3 DEF IInv, Unbegun
    <3> QED
      BY <3>2, <3>3
  <2> QED
    BY <2>3, <2>4
<1>6. CASE gen[s] # "ok"
  <2>1. pc' = [pc EXCEPT ![s] = "FAILED"] /\ UNCHANGED <<at, end>>
    BY <1>6 DEF GeneratorReturns
  <2>2. \A r \in Streams : attempt'[r] = attempt[r]
                              /\ (pc'[r] = pc[r] \/ (pc[r] = "idle" /\ pc'[r] = "generate")
                                    \/ pc'[r] \in {"SUCCESS", "FAILED"})
    BY <2>1, <1>2, <1>3
  <2> QED
    <3>1. [Next]_vars
      BY DEF Next, Execute
    <3> QED
      BY <2>1, <2>2, <3>1, <1>3, QuietKeeps
<1> QED
  BY <1>5, <1>6

(* What PipelineReturnsError and PipelineTimeout have in common: K is killed.  *)
LEMMA NextAttemptKeeps ==
  ASSUME IInv, [Next]_vars, NEW s \in Streams, pc[s] = "pipeline", NextAttempt(s),
         NEW K \in SUBSET Processes, \A q \in K : at[q] # "none",
         end' = [q \in Processes |-> IF q \in Begun(s) THEN "running"
                                     ELSE IF q \in K THEN "failed" ELSE end[q]],
         lock' = lock \/ (lock \in K /\ lock' = NoProcess),
         UNCHANGED <<facts, deleter>>
  PROVE  Unbegun' /\ LInv'
<1>1. /\ at \in [Processes -> {"none", "started", "staged", "deleted", "loaded"}]
      /\ pc \in [Streams -> {"idle", "generate", "pipeline", "SUCCESS", "FAILED"}]
      /\ attempt \in [Streams -> Attempts]
  BY DEF IInv, TypeOK
<1>2. Begun(s) \in SUBSET Processes
  BY ProcessPairs DEF Begun
<1>3. \A q \in Begun(s) : at[q] = "none"
  <2> SUFFICES ASSUME attempt[s] + 1 \in Attempts
               PROVE  at[<<s, attempt[s] + 1>>] = "none"
    BY DEF Begun
  <2>1. attempt[s] + 1 > attempt[s]
    BY <1>1, AttemptNumbers
  <2> QED
    BY <2>1 DEF IInv, Unbegun
<1>4. \A q \in Processes : at'[q] = IF q \in Begun(s) THEN "started" ELSE at[q]
  BY <1>1, ProcessPairs DEF NextAttempt, Begun
<1>5. LInv'
  <2>1. \A q \in Processes : end'[q] = IF q \in Begun(s) THEN "running"
                                       ELSE IF q \in K THEN "failed" ELSE end[q]
    OBVIOUS
  <2>2. lock' = lock \/ (lock \in K \ Begun(s) /\ lock' = NoProcess)
    BY <1>3
  <2> QED
    BY <1>2, <1>3, <1>4, <2>1, <2>2, BeginKeeps
<1>6. Unbegun'
  <2> SUFFICES ASSUME NEW r \in Streams, NEW a \in Attempts,
                      pc'[r] \in {"idle", "generate"} \/ (pc'[r] = "pipeline" /\ a > attempt'[r])
               PROVE  at'[<<r, a>>] = "none"
    BY DEF Unbegun
  <2>1. <<r, a>> \in Processes /\ a \in Nat /\ attempt[r] \in Nat
    BY <1>1, ProcessPairs, AttemptNumbers
  <2>2. CASE r # s
    BY <2>1, <2>2, <1>1, <1>4 DEF IInv, Unbegun, NextAttempt, Begun
  <2>3. CASE r = s
    <3>1. CASE attempt[s] + 1 \in Attempts
      <4>1. pc' = pc /\ attempt'[s] = attempt[s] + 1 /\ Begun(s) = {<<s, attempt[s] + 1>>}
        BY <3>1, <1>1 DEF NextAttempt, Begun
      <4>2. a > attempt[s] + 1
        BY <4>1, <2>3
      <4>3. a > attempt[s] /\ <<r, a>> \notin Begun(s)
        BY <4>1, <4>2, <2>1, <2>3
      <4> QED
        BY <4>3, <2>1, <2>3, <1>4 DEF IInv, Unbegun
    <3>2. CASE attempt[s] + 1 \notin Attempts
      BY <3>2, <2>3, <1>1 DEF NextAttempt
    <3> QED
      BY <3>1, <3>2
  <2> QED
    BY <2>2, <2>3
<1> QED
  BY <1>5, <1>6

(* The executor's steps *)

LEMMA ExecuteKeeps ==
  ASSUME IInv, NEW s \in Streams, Execute(s)
  PROVE  Unbegun' /\ LInv'
<1>1. /\ pc \in [Streams -> {"idle", "generate", "pipeline", "SUCCESS", "FAILED"}]
      /\ end \in [Processes -> {"none", "running", "ok", "failed"}]
      /\ attempt[s] \in Attempts /\ Current(s) \in Processes
  BY ProcessPairs DEF IInv, TypeOK, Current
<1>0. [Next]_vars
  BY DEF Next
<1>2. CASE GeneratorReturns(s)
  BY <1>2, GeneratorReturnsKeeps
<1>3. CASE GeneratorTimeout(s) \/ PipelineReturns(s)
  <2>1. UNCHANGED <<at, end, store>>
    BY <1>3 DEF GeneratorTimeout, PipelineReturns, pipeline
  <2>2. \A r \in Streams : attempt'[r] = attempt[r]
                              /\ (pc'[r] = pc[r] \/ (pc[r] = "idle" /\ pc'[r] = "generate")
                                    \/ pc'[r] \in {"SUCCESS", "FAILED"})
    BY <1>1, <1>3 DEF GeneratorTimeout, PipelineReturns
  <2> QED
    BY <1>0, <2>1, <2>2, QuietKeeps
<1>4. CASE PipelineReturnsError(s)
  <2>1. /\ end' = [q \in Processes |-> IF q \in Begun(s) THEN "running"
                                       ELSE IF q \in {} THEN "failed" ELSE end[q]]
        /\ pc[s] = "pipeline" /\ NextAttempt(s) /\ lock' = lock /\ UNCHANGED <<facts, deleter>>
    BY <1>4 DEF PipelineReturnsError, store
  <2>2. {} \in SUBSET Processes
    OBVIOUS
  <2> QED
    BY <1>0, <2>1, <2>2, NextAttemptKeeps
<1>5. CASE PipelineTimeout(s)
  <2>1. /\ pc[s] = "pipeline" /\ NextAttempt(s) /\ UNCHANGED <<facts, deleter>>
    BY <1>5 DEF PipelineTimeout
  <2>2. PICK killed \in BOOLEAN :
          /\ end' = [q \in Processes |->
                       IF q \in Begun(s) THEN "running"
                       ELSE IF q = Current(s) /\ killed THEN "failed" ELSE end[q]]
          /\ lock' = IF killed /\ lock = Current(s) THEN NoProcess ELSE lock
    BY <1>5 DEF PipelineTimeout, Released
  <2> DEFINE K == IF killed THEN {Current(s)} ELSE {}
  <2>3. /\ K \in SUBSET Processes
        /\ end' = [q \in Processes |-> IF q \in Begun(s) THEN "running"
                                       ELSE IF q \in K THEN "failed" ELSE end[q]]
        /\ lock' = lock \/ (lock \in K /\ lock' = NoProcess)
    BY <1>1, <2>2
  <2>4. \A q \in K : at[q] # "none"
    BY <1>5, <1>1 DEF PipelineTimeout, IInv, FInv, PipelinePart
  <2> HIDE DEF K
  <2> QED
    BY <1>0, <2>1, <2>3, <2>4, NextAttemptKeeps
<1> QED
  BY <1>2, <1>3, <1>4, <1>5 DEF Execute

LEMMA NextInv == IInv /\ [Next]_vars => IInv'
<1> SUFFICES ASSUME IInv, [Next]_vars PROVE IInv'
  OBVIOUS
<1>1. TypeOK' /\ FInv' /\ Opened'
  BY NextTypes, NextFInv, NextOpened DEF IInv
<1>2. Unbegun' /\ LInv'
  <2>1. CASE Midnight \/ (\E s \in Streams : StartStream(s) \/ Generate(s)) \/ UNCHANGED vars
    <3>1. UNCHANGED <<at, end, store>>
      BY <2>1 DEF Midnight, StartStream, Generate, OpenFeed, WriteLine, GeneratorEnds,
                  GeneratorFails, vars, pipeline
    <3>2. \A r \in Streams : attempt'[r] = attempt[r]
                            /\ (pc'[r] = pc[r] \/ (pc[r] = "idle" /\ pc'[r] = "generate")
                                  \/ pc'[r] \in {"SUCCESS", "FAILED"})
      BY <2>1 DEF IInv, TypeOK, Midnight, StartStream, Generate, OpenFeed, WriteLine,
                  GeneratorEnds, GeneratorFails, vars, executor
    <3> QED
      BY <3>1, <3>2, QuietKeeps
  <2> QED
    BY <2>1, ExecuteKeeps, ProcessKeeps DEF Next
<1> QED
  BY <1>1, <1>2 DEF IInv

LEMMA Inductive == Spec => []IInv
  BY InitInv, NextInv, PTL DEF Spec

-----------------------------------------------------------------------------
(* Theorems *)

\* The variables of the daily stream keep their types.
THEOREM TypesRight == Spec => []TypeOK
  BY Inductive, PTL DEF IInv

\* However attempts, retries, timeouts and streams overlap: a trade that was deleted
\* is back in the star schema, unless the process that deleted it is still at its
\* load, or died there, or another stream rewrote its feed.
THEOREM NothingLost == Spec => []TradesGoneForCause
  BY Inductive, PTL DEF IInv, LInv

\* A stream that ends with SUCCESS has loaded all that its generator wrote, unless
\* midnight or another stream came between the two.
THEOREM SuccessLoads == Spec => []SuccessIsLoaded
<1>1. IInv => SuccessIsLoaded
  <2> SUFFICES ASSUME IInv, NEW s \in Streams, pc[s] = "SUCCESS", OwnFeed(s)
               PROVE  at[Current(s)] = "loaded" /\ staged[Current(s)] = Trades
    BY DEF SuccessIsLoaded
  <2>1. Current(s) \in Processes /\ Current(s)[1] = s
    BY ProcessPairs DEF Current, IInv, TypeOK
  <2> QED
    BY <2>1 DEF IInv, FInv, SuccessPart, PipelinePart
<1> QED
  BY Inductive, <1>1, PTL

=============================================================================
