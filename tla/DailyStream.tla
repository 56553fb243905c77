----------------------------- MODULE DailyStream -----------------------------
(***************************************************************************)
(* job_definitions.json at work: the executor (jobs/job_executor.py) runs  *)
(* the stream daily_trade_pipeline, and its commands are real processes    *)
(* (scripts/generate_sample_data.py and etl/framework.py) that share the   *)
(* feed's files and the star schema with those of other streams, and with  *)
(* those that a timeout has left behind.  JobExecutor.tla has the order,   *)
(* the gates and the history of any stream; StarSchemaLoad.tla the         *)
(* statements of a load.                                                   *)
(*                                                                         *)
(* The generator is seeded: each day's feed has the same lines, 1..Lines,  *)
(* each a trade.  An attempt's process is <<stream, attempt>>.             *)
(***************************************************************************)
EXTENDS Naturals, FiniteSets

CONSTANTS
    Streams,      \* executor processes, by hand or from the schedule
    Lines,        \* lines of a day's feed
    MaxDay,       \* bound: days
    MaxTries      \* retry.max_attempts: tries of a transform within one process

Attempts  == 1 .. 2      \* retry_attempts of run_trade_pipeline is 1
Processes == Streams \X Attempts
Days      == 1 .. MaxDay
Trades    == 1 .. Lines
NoProcess == <<"none", 0>>

ASSUME StreamAssumption == Lines \in Nat /\ MaxDay \in Nat \ {0} /\ MaxTries \in Nat \ {0}

VARIABLES
    today,
    present, feed,   \* days that have a file, and the lines written into it
    \* executors
    pc,              \* "idle" | "generate" | "pipeline" | "SUCCESS" | "FAILED"
    runDate,         \* RUN_DATE of the stream
    attempt,         \* of the pipeline
    \* generators: by stream
    gen,             \* "none" | "started" | "writing" | "ok" | "failed"
    genDay, wrote,
    \* pipelines: by stream and attempt
    at,              \* "none" | "started" | "staged" | "deleted" | "loaded"
    end,             \* "none" | "running" | "ok" | "failed"
    staged,          \* trades that the load has seen
    tries,           \* of the load
    \* the star schema
    lock,            \* the process that has DuckDB's file open
    facts,           \* per trade the process that loaded it, or NoProcess
    deleter          \* per trade the process that deleted it last, or NoProcess

files     == <<present, feed>>
executor  == <<pc, runDate, attempt>>
generator == <<gen, genDay, wrote>>
pipeline  == <<at, end, staged, tries>>
store     == <<lock, facts, deleter>>
vars      == <<today, files, executor, generator, pipeline, store>>

Init ==
    /\ today = 1
    /\ present = {} /\ feed = [d \in Days |-> {}]
    /\ pc = [s \in Streams |-> "idle"] /\ runDate = [s \in Streams |-> 1]
    /\ attempt = [s \in Streams |-> 1]
    /\ gen = [s \in Streams |-> "none"] /\ genDay = [s \in Streams |-> 1]
    /\ wrote = [s \in Streams |-> 0]
    /\ at = [p \in Processes |-> "none"] /\ end = [p \in Processes |-> "none"]
    /\ staged = [p \in Processes |-> {}] /\ tries = [p \in Processes |-> 1]
    /\ lock = NoProcess /\ facts = [t \in Trades |-> NoProcess]
    /\ deleter = [t \in Trades |-> NoProcess]

\* One that nobody sees any more, because all streams have their date and all
\* generators have opened their files, is left out.
Midnight ==
    /\ \E s \in Streams : pc[s] = "idle" \/ gen[s] = "started"
    /\ today < MaxDay /\ today' = today + 1
    /\ UNCHANGED <<files, executor, generator, pipeline, store>>

-----------------------------------------------------------------------------
(* scripts/generate_sample_data.py *)

\* The day is the process's own; open(..., "w") empties a file that is there.
OpenFeed(s) ==
    /\ gen[s] = "started"
    /\ gen' = [gen EXCEPT ![s] = "writing"]
    /\ genDay' = [genDay EXCEPT ![s] = today]
    /\ present' = present \union {today} /\ feed' = [feed EXCEPT ![today] = {}]
    /\ UNCHANGED <<today, wrote, executor, pipeline, store>>

\* Each writer goes on at its own offset.
WriteLine(s) ==
    /\ gen[s] = "writing" /\ wrote[s] < Lines
    /\ wrote' = [wrote EXCEPT ![s] = @ + 1]
    /\ feed' = [feed EXCEPT ![genDay[s]] = @ \union {wrote[s] + 1}]
    /\ UNCHANGED <<today, present, executor, gen, genDay, pipeline, store>>

GeneratorEnds(s) ==
    /\ gen[s] = "writing" /\ wrote[s] = Lines
    /\ gen' = [gen EXCEPT ![s] = "ok"]
    /\ UNCHANGED <<today, files, executor, genDay, wrote, pipeline, store>>

GeneratorFails(s) ==
    /\ gen[s] \in {"started", "writing"}
    /\ gen' = [gen EXCEPT ![s] = "failed"]
    /\ UNCHANGED <<today, files, executor, genDay, wrote, pipeline, store>>

-----------------------------------------------------------------------------
(* etl/framework.py --input TRADE_FILE *)

Input(p) == runDate[p[1]]

\* Mutant: the load does not ask for the file's lock.
StageTrades_Unlocked(p) ==
    /\ end[p] = "running" /\ at[p] = "started"
    /\ Input(p) \in present /\ feed[Input(p)] # {}
    /\ staged' = [staged EXCEPT ![p] = feed[Input(p)]]
    /\ at' = [at EXCEPT ![p] = "staged"]
    /\ lock' = p
    /\ UNCHANGED <<today, files, executor, generator, end, tries, facts, deleter>>

\* A missing file exits 1 (PipelineFails); a file never goes away.
\* toPandas reads it as it is then, whatever earlier actions or tries of the lazy
\* frame saw; the load connects, which takes the lock, unless the process has it
\* from a try before.  A connect that fails raises.
StageTrades(p) ==
    /\ end[p] = "running" /\ at[p] = "started"
    /\ Input(p) \in present /\ feed[Input(p)] # {}
    /\ lock \in {NoProcess, p}
    /\ staged' = [staged EXCEPT ![p] = feed[Input(p)]]
    /\ at' = [at EXCEPT ![p] = "staged"]
    /\ lock' = p
    /\ UNCHANGED <<today, files, executor, generator, end, tries, facts, deleter>>

\* A file without trades: the load returns at once, whatever a try before deleted.
NothingStaged(p) ==
    /\ end[p] = "running" /\ at[p] = "started"
    /\ Input(p) \in present /\ feed[Input(p)] = {}
    /\ staged' = [staged EXCEPT ![p] = {}]
    /\ at' = [at EXCEPT ![p] = "loaded"]
    /\ UNCHANGED <<today, files, executor, generator, end, tries, store>>

DeleteTrades(p) ==
    /\ end[p] = "running" /\ at[p] = "staged"
    /\ facts' = [t \in Trades |-> IF t \in staged[p] THEN NoProcess ELSE facts[t]]
    /\ deleter' = [t \in Trades |-> IF t \in staged[p] THEN p ELSE deleter[t]]
    /\ at' = [at EXCEPT ![p] = "deleted"]
    /\ UNCHANGED <<today, files, executor, generator, end, staged, tries, lock>>

\* The primary and unique keys let no second row in.  The connection is closed; one
\* of a try that raised may still be open.
InsertTrades(p) ==
    /\ end[p] = "running" /\ at[p] = "deleted"
    /\ \A t \in staged[p] : facts[t] = NoProcess
    /\ facts' = [t \in Trades |-> IF t \in staged[p] THEN p ELSE facts[t]]
    /\ at' = [at EXCEPT ![p] = "loaded"]
    /\ lock' \in IF tries[p] = 1 THEN {NoProcess} ELSE {NoProcess, p}
    /\ UNCHANGED <<today, files, executor, generator, end, staged, tries, deleter>>

\* Mutant: the load logs the exception, and returns.
LoadRaises_Swallowed(p) ==
    /\ end[p] = "running" /\ at[p] \in {"started", "staged", "deleted", "loaded"}
    /\ tries[p] < MaxTries
    /\ tries' = [tries EXCEPT ![p] = @ + 1]
    /\ at' = [at EXCEPT ![p] = "loaded"]
    /\ UNCHANGED <<today, files, executor, generator, end, staged, store>>

\* Any exception of the load, or of the count of its rows that follows it: the same
\* process tries again, from the start.  Nobody closes the connection; the exception,
\* which is kept, keeps it open.
LoadRaises(p) ==
    /\ end[p] = "running" /\ at[p] \in {"started", "staged", "deleted", "loaded"}
    /\ tries[p] < MaxTries
    /\ tries' = [tries EXCEPT ![p] = @ + 1]
    /\ staged' = [staged EXCEPT ![p] = {}]
    /\ at' = [at EXCEPT ![p] = "started"]
    /\ UNCHANGED <<today, files, executor, generator, end, store>>

\* ... until the interpreter collects it.
ConnectionCollected(p) ==
    /\ end[p] = "running" /\ at[p] \in {"started", "loaded"}
    /\ lock = p /\ lock' = NoProcess
    /\ UNCHANGED <<today, files, executor, generator, pipeline, facts, deleter>>

\* A process that is over has no file open, and has counted its tries.
Released(p) == IF lock = p THEN NoProcess ELSE lock
Untried(p)  == [tries EXCEPT ![p] = 1]

PipelineEnds(p) ==
    /\ end[p] = "running" /\ at[p] = "loaded"
    /\ end' = [end EXCEPT ![p] = "ok"]
    /\ lock' = Released(p) /\ tries' = Untried(p)
    /\ UNCHANGED <<today, files, executor, generator, at, staged, facts, deleter>>

\* At any point, also after the load (the checkpoint that follows it raises); what
\* retries inside the process do not mend exits 1.
PipelineFails(p) ==
    /\ end[p] = "running"
    /\ end' = [end EXCEPT ![p] = "failed"]
    /\ lock' = Released(p) /\ tries' = Untried(p)
    /\ UNCHANGED <<today, files, executor, generator, at, staged, facts, deleter>>

-----------------------------------------------------------------------------
(* JobExecutor.run *)

\* The context, with RUN_DATE, is made once per stream.
StartStream(s) ==
    /\ pc[s] = "idle"
    /\ pc' = [pc EXCEPT ![s] = "generate"]
    /\ runDate' = [runDate EXCEPT ![s] = today]
    /\ gen' = [gen EXCEPT ![s] = "started"]
    /\ UNCHANGED <<today, files, attempt, genDay, wrote, pipeline, store>>

\* run_trade_pipeline is skipped unless the generator exits 0.
GeneratorReturns(s) ==
    /\ pc[s] = "generate" /\ gen[s] \in {"ok", "failed"}
    /\ IF gen[s] = "ok"
       THEN /\ pc' = [pc EXCEPT ![s] = "pipeline"]
            /\ at' = [at EXCEPT ![<<s, 1>>] = "started"]
            /\ end' = [end EXCEPT ![<<s, 1>>] = "running"]
       ELSE pc' = [pc EXCEPT ![s] = "FAILED"] /\ UNCHANGED <<at, end>>
    /\ UNCHANGED <<today, files, runDate, attempt, generator, staged, tries, store>>

\* After max_runtime_sec the shell is killed, and with it the command, or not.
GeneratorTimeout(s) ==
    /\ pc[s] = "generate" /\ gen[s] \in {"started", "writing"}
    /\ pc' = [pc EXCEPT ![s] = "FAILED"]
    /\ gen' \in {gen, [gen EXCEPT ![s] = "failed"]}
    /\ UNCHANGED <<today, files, runDate, attempt, genDay, wrote, pipeline, store>>

\* Mutant: one attempt too many.
NextAttempt_OneMore(s) ==
    IF attempt[s] \in Attempts
    THEN /\ attempt' = [attempt EXCEPT ![s] = @ + 1] /\ UNCHANGED pc
         /\ at' = [at EXCEPT ![<<s, attempt[s] + 1>>] = "started"]
    ELSE pc' = [pc EXCEPT ![s] = "FAILED"] /\ UNCHANGED <<attempt, at>>

\* the next attempt of the pipeline, or the end of the stream
NextAttempt(s) ==
    IF attempt[s] + 1 \in Attempts
    THEN /\ attempt' = [attempt EXCEPT ![s] = @ + 1] /\ UNCHANGED pc
         /\ at' = [at EXCEPT ![<<s, attempt[s] + 1>>] = "started"]
    ELSE pc' = [pc EXCEPT ![s] = "FAILED"] /\ UNCHANGED <<attempt, at>>

Begun(s) == IF attempt[s] + 1 \in Attempts THEN {<<s, attempt[s] + 1>>} ELSE {}
Current(s) == <<s, attempt[s]>>

PipelineReturns(s) ==
    /\ pc[s] = "pipeline" /\ end[Current(s)] = "ok"
    /\ pc' = [pc EXCEPT ![s] = "SUCCESS"]
    /\ UNCHANGED <<today, files, runDate, attempt, generator, pipeline, store>>

PipelineReturnsError(s) ==
    /\ pc[s] = "pipeline" /\ end[Current(s)] = "failed"
    /\ NextAttempt(s)
    /\ end' = [p \in Processes |-> IF p \in Begun(s) THEN "running" ELSE end[p]]
    /\ UNCHANGED <<today, files, runDate, generator, staged, tries, store>>

\* The command may live on beside its retry, and after the stream.
PipelineTimeout(s) ==
    LET p == Current(s) IN
    /\ pc[s] = "pipeline" /\ end[p] = "running"
    /\ NextAttempt(s)
    /\ \E killed \in BOOLEAN :
          /\ end' = [q \in Processes |->
                       IF q \in Begun(s) THEN "running"
                       ELSE IF q = p /\ killed THEN "failed" ELSE end[q]]
          /\ lock' = IF killed THEN Released(p) ELSE lock
          /\ tries' = IF killed THEN Untried(p) ELSE tries
    /\ UNCHANGED <<today, files, runDate, generator, staged, facts, deleter>>

Execute(s) == GeneratorReturns(s) \/ GeneratorTimeout(s) \/ PipelineReturns(s)
                \/ PipelineReturnsError(s) \/ PipelineTimeout(s)
Generate(s) == OpenFeed(s) \/ WriteLine(s) \/ GeneratorEnds(s) \/ GeneratorFails(s)
Process(p)  == StageTrades(p) \/ NothingStaged(p) \/ DeleteTrades(p)
                 \/ InsertTrades(p) \/ LoadRaises(p) \/ ConnectionCollected(p)
                 \/ PipelineEnds(p) \/ PipelineFails(p)

Next ==
    \/ Midnight
    \/ \E s \in Streams : StartStream(s) \/ Execute(s) \/ Generate(s)
    \/ \E p \in Processes : Process(p)

Spec == Init /\ [][Next]_vars

-----------------------------------------------------------------------------
(* Properties *)

TypeOK ==
    /\ today \in Days /\ present \subseteq Days
    /\ feed \in [Days -> SUBSET Trades]
    /\ pc \in [Streams -> {"idle", "generate", "pipeline", "SUCCESS", "FAILED"}]
    /\ runDate \in [Streams -> Days] /\ attempt \in [Streams -> Attempts]
    /\ gen \in [Streams -> {"none", "started", "writing", "ok", "failed"}]
    /\ genDay \in [Streams -> Days] /\ wrote \in [Streams -> 0 .. Lines]
    /\ at \in [Processes -> {"none", "started", "staged", "deleted", "loaded"}]
    /\ end \in [Processes -> {"none", "running", "ok", "failed"}]
    /\ staged \in [Processes -> SUBSET Trades] /\ tries \in [Processes -> 1 .. MaxTries]
    /\ lock \in Processes \union {NoProcess}
    /\ facts \in [Trades -> Processes \union {NoProcess}]
    /\ deleter \in [Trades -> Processes \union {NoProcess}]

\* No stream but s has written, or emptied, the file that s reads.
Undisturbed(s) ==
    \A r \in Streams \ {s} : gen[r] \in {"none", "started"} \/ genDay[r] # runDate[s]

\* A trade that a DELETE has removed is back, unless the process q that removed it
\* has not come to the end of a load since: it has the file open, or is about to try
\* again, or died there; or another stream's generator got at the feed that q reads,
\* so that a try after the DELETE found less in it.  Retries in one process, or
\* beside the attempt that timed out, and other streams lose nothing else.
TradesGoneForCause ==
    \A t \in Trades : LET q == deleter[t] IN
        q # NoProcess /\ facts[t] = NoProcess =>
            \/ at[q] # "loaded" /\ (lock = q \/ at[q] = "started" \/ end[q] = "failed")
            \/ ~Undisturbed(q[1])

\* Nobody else has written, or emptied, the file that s reads; nor was it, by a
\* midnight between the two starts, another day's than its generator's.
OwnFeed(s) == genDay[s] = runDate[s] /\ Undisturbed(s)

\* A stream that ends with SUCCESS has loaded the feed that its generator wrote,
\* all of it, if midnight did not fall between its start and its generator's, and
\* no other stream generated that day's feed.
SuccessIsLoaded ==
    \A s \in Streams : pc[s] = "SUCCESS" /\ OwnFeed(s) =>
        at[Current(s)] = "loaded" /\ staged[Current(s)] = Trades

-----------------------------------------------------------------------------
(* What docs say, and the code does not do *)

\* job_definitions.json: "Run the PySpark ETL pipeline over the generated trade
\* feed."  Around midnight it is the file of the day before, if there is one.
GeneratedFeedIsRun ==
    \A s \in Streams : pc[s] = "SUCCESS" => genDay[s] = runDate[s]

=============================================================================
