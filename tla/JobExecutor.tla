----------------------------- MODULE JobExecutor -----------------------------
(***************************************************************************)
(* jobs/job_executor.py: one call of JobExecutor.run.                      *)
(*                                                                         *)
(* The root job, or the members of a root group, are resolved into an      *)
(* execution order by a depth-first visit of depends_on, here with an      *)
(* explicit stack; the jobs are then run in that order, each command with  *)
(* retries and a timeout, and each result goes to job_runs unless DuckDB   *)
(* refuses the connection.  main turns the results into an exit code.      *)
(*                                                                         *)
(* The definitions file and the root are chosen in Init and never change.  *)
(***************************************************************************)
EXTENDS Integers, Sequences, FiniteSets

CONSTANTS
    Names,         \* names a definitions file may define or mention
    Definitions    \* definitions files: functions from the defined names to specs

ASSUME NamesAssumption == IsFiniteSet(Names)

SpecType == [type : {"command", "group"}, depends_on : Seq(Names), members : Seq(Names),
             retry_attempts : Int, renders : BOOLEAN]

ASSUME DefinitionsAssumption ==
    \A defs \in Definitions :
        /\ DOMAIN defs \subseteq Names
        /\ \A n \in DOMAIN defs : defs[n] \in SpecType

VARIABLES
    jobs,          \* self.jobs
    root, dryRun,  \* the arguments of run
    pc,            \* "call" | "visit" | "run" | "attempt" | "backoff" | "record" | "done" | "raised"
    target,        \* position in _expand_group's list
    stack,         \* active visit() calls, outermost first
    cursor,        \* per active call, the position in its depends_on loop
    visited, order,
    pos,           \* position in the order
    attempt,       \* attempt of the command in hand
    status,        \* results[name].status, "NONE" before there is a result
    history,       \* job_runs: <<name, status>> in insertion order
    raised         \* what run raised: "none", or the failed check

definition == <<jobs, root, dryRun>>
visit      == <<target, stack, cursor, visited, order>>
results    == <<status, history>>
vars       == <<definition, pc, visit, pos, attempt, results, raised>>

Errors  == {"none", "unknown", "nomembers", "cycle", "undefined", "template"}
Status  == {"NONE", "PENDING", "SUCCESS", "SKIPPED", "TIMEOUT", "FAILED"}

Deps(n)   == jobs[n].depends_on
IsGroup(n) == jobs[n].type = "group"

\* _expand_group: only the root is expanded, one level deep.
Expanded == IF IsGroup(root) THEN Append(jobs[root].members, root) ELSE <<root>>

Top      == stack[Len(stack)]
visiting == {stack[i] : i \in DOMAIN stack}

\* The name the innermost loop is about to visit, if it has one left.
HasPending == IF stack = <<>> THEN target <= Len(Expanded)
                              ELSE cursor[Top] <= Len(Deps(Top))
Pending    == IF stack = <<>> THEN Expanded[target] ELSE Deps(Top)[cursor[Top]]

Init ==
    /\ jobs \in Definitions /\ root \in Names /\ dryRun \in BOOLEAN
    /\ pc = "call" /\ raised = "none"
    /\ target = 1 /\ stack = <<>> /\ cursor = [n \in Names |-> 1]
    /\ visited = {} /\ order = <<>>
    /\ pos = 1 /\ attempt = 0
    /\ status = [n \in Names |-> "NONE"] /\ history = <<>>

Raise(what) ==
    /\ raised' = what
    /\ pc' = "raised"

-----------------------------------------------------------------------------
(* _execution_order *)

\* run checks the root, _expand_group its members.
CallRefused ==
    /\ pc = "call"
    /\ \/ root \notin DOMAIN jobs /\ Raise("unknown")
       \/ root \in DOMAIN jobs /\ IsGroup(root) /\ jobs[root].members = <<>>
            /\ Raise("nomembers")
    /\ UNCHANGED <<definition, visit, pos, attempt, results>>

CallAccepted ==
    /\ pc = "call" /\ root \in DOMAIN jobs
    /\ IsGroup(root) => jobs[root].members # <<>>
    /\ pc' = "visit"
    /\ UNCHANGED <<definition, visit, pos, attempt, results, raised>>

\* the loop that called visit goes on to its next name
Advance(rest) ==
    IF rest = <<>>
    THEN target' = target + 1 /\ UNCHANGED cursor
    ELSE /\ cursor' = [cursor EXCEPT ![rest[Len(rest)]] = @ + 1]
         /\ UNCHANGED target

VisitKnown ==
    /\ pc = "visit" /\ HasPending /\ Pending \in visited
    /\ Advance(stack)
    /\ UNCHANGED <<definition, pc, stack, visited, order, pos, attempt, results, raised>>

VisitCycle ==
    /\ pc = "visit" /\ HasPending /\ Pending \notin visited /\ Pending \in visiting
    /\ Raise("cycle")
    /\ UNCHANGED <<definition, visit, pos, attempt, results>>

VisitUndefined ==
    /\ pc = "visit" /\ HasPending /\ Pending \notin visited \union visiting
    /\ Pending \notin DOMAIN jobs
    /\ Raise("undefined")
    /\ UNCHANGED <<definition, visit, pos, attempt, results>>

VisitEnter ==
    /\ pc = "visit" /\ HasPending /\ Pending \notin visited \union visiting
    /\ Pending \in DOMAIN jobs
    /\ stack' = Append(stack, Pending)
    /\ cursor' = [cursor EXCEPT ![Pending] = 1]
    /\ UNCHANGED <<definition, pc, target, visited, order, pos, attempt, results, raised>>

\* Mutant: a finished job goes to the front of the order.
VisitReturn_Reversed ==
    /\ pc = "visit" /\ stack # <<>> /\ ~HasPending
    /\ visited' = visited \union {Top}
    /\ order' = <<Top>> \o order
    /\ stack' = SubSeq(stack, 1, Len(stack) - 1)
    /\ Advance(stack')
    /\ UNCHANGED <<definition, pc, pos, attempt, results, raised>>

VisitReturn ==
    /\ pc = "visit" /\ stack # <<>> /\ ~HasPending
    /\ visited' = visited \union {Top}
    /\ order' = Append(order, Top)
    /\ stack' = SubSeq(stack, 1, Len(stack) - 1)
    /\ Advance(stack')
    /\ UNCHANGED <<definition, pc, pos, attempt, results, raised>>

OrderComplete ==
    /\ pc = "visit" /\ stack = <<>> /\ ~HasPending
    /\ pc' = "run"
    /\ UNCHANGED <<definition, visit, pos, attempt, results, raised>>

-----------------------------------------------------------------------------
(* The loop of run *)

Current == order[pos]

\* Mutant: only a FAILED upstream job blocks.
Blocked_FailedOnly == {Deps(Current)[i] : i \in
                          {j \in DOMAIN Deps(Current) :
                              status[Deps(Current)[j]] = "FAILED"}}

\* upstream jobs with a result other than SUCCESS
Blocked == {Deps(Current)[i] : i \in
               {j \in DOMAIN Deps(Current) :
                   status[Deps(Current)[j]] \notin {"NONE", "SUCCESS"}}}

Result(s) ==
    /\ status' = [status EXCEPT ![Current] = s]
    /\ pc' = "record"

\* Mutant: a blocked job is recorded as FAILED.
SkipJob_AsFailed ==
    /\ pc = "run" /\ pos <= Len(order) /\ Blocked # {}
    /\ Result("FAILED")
    /\ UNCHANGED <<definition, visit, pos, attempt, history, raised>>

SkipJob ==
    /\ pc = "run" /\ pos <= Len(order) /\ Blocked # {}
    /\ Result("SKIPPED")
    /\ UNCHANGED <<definition, visit, pos, attempt, history, raised>>

\* A group does nothing of its own.
PassGroup ==
    /\ pc = "run" /\ pos <= Len(order) /\ Blocked = {} /\ IsGroup(Current)
    /\ Result("SUCCESS")
    /\ UNCHANGED <<definition, visit, pos, attempt, history, raised>>

\* _run_command_job begins with its template, which may name a placeholder
\* that _runtime_context does not give.
BadTemplate ==
    /\ pc = "run" /\ pos <= Len(order) /\ Blocked = {} /\ ~IsGroup(Current)
    /\ ~jobs[Current].renders
    /\ Raise("template")
    /\ UNCHANGED <<definition, visit, pos, attempt, results>>

Attempts(n) == jobs[n].retry_attempts + 1

StartJob ==
    /\ pc = "run" /\ pos <= Len(order) /\ Blocked = {} /\ ~IsGroup(Current)
    /\ jobs[Current].renders /\ Attempts(Current) > 0
    /\ attempt' = 1
    /\ pc' = "attempt"
    /\ UNCHANGED <<definition, visit, pos, results, raised>>

\* With a negative retry_attempts the attempt loop is empty: the JobRun is
\* returned as it was made.
NoAttempts ==
    /\ pc = "run" /\ pos <= Len(order) /\ Blocked = {} /\ ~IsGroup(Current)
    /\ jobs[Current].renders /\ Attempts(Current) <= 0
    /\ Result("PENDING")
    /\ UNCHANGED <<definition, visit, pos, attempt, history, raised>>

\* the command exits with 0, or the run is a dry run
CommandSucceeds ==
    /\ pc = "attempt"
    /\ Result("SUCCESS")
    /\ UNCHANGED <<definition, visit, pos, attempt, history, raised>>

\* Mutant: one attempt too many.
CommandFails_OneMore ==
    /\ pc = "attempt" /\ ~dryRun
    /\ \E s \in {"FAILED", "TIMEOUT"} :
          IF attempt <= Attempts(Current)
          THEN pc' = "backoff" /\ UNCHANGED status
          ELSE Result(s)
    /\ UNCHANGED <<definition, visit, pos, attempt, history, raised>>

\* Mutant: every failed attempt is written to job_runs.
CommandFails_Logged ==
    /\ pc = "attempt" /\ ~dryRun
    /\ \E s \in {"FAILED", "TIMEOUT"} :
          /\ IF attempt < Attempts(Current)
             THEN pc' = "backoff" /\ UNCHANGED status
             ELSE Result(s)
          /\ history' = Append(history, <<Current, s>>)
    /\ UNCHANGED <<definition, visit, pos, attempt, raised>>

\* a non-zero exit, an exception, or the timeout; the last attempt's outcome stays
CommandFails ==
    /\ pc = "attempt" /\ ~dryRun
    /\ \E s \in {"FAILED", "TIMEOUT"} :
          IF attempt < Attempts(Current)
          THEN pc' = "backoff" /\ UNCHANGED status
          ELSE Result(s)
    /\ UNCHANGED <<definition, visit, pos, attempt, history, raised>>

\* Mutant: the attempt number is not advanced.
RetryCommand_SameAttempt ==
    /\ pc = "backoff"
    /\ pc' = "attempt"
    /\ UNCHANGED <<definition, visit, pos, attempt, results, raised>>

RetryCommand ==
    /\ pc = "backoff"
    /\ attempt' = attempt + 1
    /\ pc' = "attempt"
    /\ UNCHANGED <<definition, visit, pos, results, raised>>

\* _write_history swallows a refused connection.
WriteHistory ==
    /\ pc = "record"
    /\ \/ history' = Append(history, <<Current, status[Current]>>)
       \/ UNCHANGED history
    /\ pos' = pos + 1 /\ attempt' = 0
    /\ pc' = "run"
    /\ UNCHANGED <<definition, visit, status, raised>>

ReturnResults ==
    /\ pc = "run" /\ pos > Len(order)
    /\ pc' = "done"
    /\ UNCHANGED <<definition, visit, pos, attempt, results, raised>>

\* main's exit code, when run has returned
Ran        == {order[k] : k \in DOMAIN order}

\* Mutant: a job without any attempt is accepted too.
ExitIsZero_PendingToo == \A n \in Ran : status[n] \in {"SUCCESS", "SKIPPED", "PENDING"}

ExitIsZero == \A n \in Ran : status[n] \in {"SUCCESS", "SKIPPED"}

-----------------------------------------------------------------------------
VisitStep == CallRefused \/ CallAccepted \/ VisitKnown \/ VisitCycle \/ VisitUndefined
               \/ VisitEnter \/ VisitReturn \/ OrderComplete
JobStep   == SkipJob \/ PassGroup \/ BadTemplate \/ StartJob \/ NoAttempts
               \/ CommandSucceeds \/ CommandFails \/ RetryCommand \/ WriteHistory
               \/ ReturnResults

Next == VisitStep \/ JobStep

Spec == Init /\ [][Next]_vars

\* The executor is a live process and every command has a timeout.
FairSpec == Spec /\ WF_vars(Next)

-----------------------------------------------------------------------------
(* Properties *)

InLoop == {"run", "attempt", "backoff", "record", "done"}

DefinitionType ==
    /\ jobs \in Definitions
    /\ root \in Names
    /\ dryRun \in BOOLEAN

VisitType ==
    /\ target \in Nat \ {0}
    /\ stack \in Seq(Names)
    /\ cursor \in [Names -> Nat \ {0}]
    /\ visited \subseteq Names
    /\ order \in Seq(Names)

LoopType ==
    /\ pc \in {"call", "visit", "raised"} \union InLoop
    /\ pos \in Nat \ {0}
    /\ attempt \in Nat
    /\ status \in [Names -> Status]
    /\ history \in Seq(Names \X Status)
    /\ raised \in Errors

\* Every variable has its type; in particular an attempt never exceeds
\* retry_attempts + 1 (_run_command_job).
TypeOK ==
    /\ DefinitionType
    /\ VisitType
    /\ LoopType
    /\ pc \in {"attempt", "backoff"} => attempt \in 1 .. Attempts(Current)

Upstream(n) == {Deps(n)[i] : i \in DOMAIN Deps(n)}

\* S and every name that S needs, directly or not, along depends_on: the names
\* in every set that has S and the upstream jobs of its own jobs
Closure(S) ==
    LET mentioned == S \union UNION {Upstream(n) : n \in DOMAIN jobs}
        closed    == {T \in SUBSET mentioned :
                         S \subseteq T /\ \A n \in T \intersect DOMAIN jobs : Upstream(n) \subseteq T}
    IN  {n \in mentioned : \A T \in closed : n \in T}
Needed     == Closure({Expanded[i] : i \in DOMAIN Expanded})

\* Whatever the graph: when the jobs start to run, the order
\* holds exactly what the root needs, each job once and after its upstream jobs.
OrderIsRight ==
    pc \in InLoop =>
        /\ Ran = Needed
        /\ \A k, m \in DOMAIN order : order[k] = order[m] => k = m
        /\ \A k \in DOMAIN order : \A i \in DOMAIN Deps(order[k]) :
              \E m \in 1 .. k - 1 : order[m] = Deps(order[k])[i]

\* A stream is refused for a cycle only if the root needs a job that needs
\* itself, and for an undefined name only if the root needs one.
RefusalsJustified ==
    /\ raised = "cycle" => \E n \in Needed \intersect DOMAIN jobs :
          n \in Closure({Deps(n)[i] : i \in DOMAIN Deps(n)})
    /\ raised = "undefined" => Needed \ DOMAIN jobs # {}

\* How _execution_order ends, by an order or by raising, is right for its graph.
VisitIsRight == OrderIsRight /\ RefusalsJustified

\* A command only starts behind the success of all its upstream jobs (README:
\* "respecting upstream success gates").
StartedBehindSuccess ==
    pc \in {"attempt", "backoff"} =>
        \A i \in DOMAIN Deps(Current) : status[Deps(Current)[i]] = "SUCCESS"

\* main accepts SKIPPED for exit code 0, yet a stream in which a job did not
\* run to its success never exits with 0: a skip always has a failure upstream.
ExitCodeHonest ==
    pc = "done" /\ ExitIsZero => \A n \in Ran : status[n] = "SUCCESS"

\* job_runs tells the order and the outcome of the jobs that it lists, each
\* at most once, though any of its inserts may have been lost.
HistoryTruthful ==
    \A k \in DOMAIN history :
        /\ status[history[k][1]] = history[k][2]
        /\ \A m \in 1 .. k - 1 : \E i, j \in DOMAIN order :
              i < j /\ order[i] = history[m][1] /\ order[j] = history[k][1]

\* Every call of run returns or raises: the visit cannot go round, and a
\* command has finitely many attempts.
RunEnds == <>(pc \in {"done", "raised"})

\* The abstract stream: what JobStream says of jobs that are settled.
Stream == INSTANCE JobStream WITH
    upstream <- [n \in Names |-> IF n \in DOMAIN jobs
                                 THEN {Deps(n)[i] : i \in DOMAIN Deps(n)} ELSE {}]

\* The executor implements the abstract job stream.
ImplementsStream == Stream!Spec

=============================================================================
