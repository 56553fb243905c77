--------------------------- MODULE MCJobExecutor ---------------------------
(* Definitions files for JobExecutor: every small dependency graph, and the  *)
(* shape of job_definitions.json with retries and with odd specs.            *)
EXTENDS JobExecutor, TLC

Command(deps, retries) ==
    [type |-> "command", depends_on |-> deps, members |-> <<>>,
     retry_attempts |-> retries, renders |-> TRUE]

Group(deps, members) ==
    [type |-> "group", depends_on |-> deps, members |-> members,
     retry_attempts |-> 0, renders |-> TRUE]

\* dependency lists over three jobs and one undefined name
DepLists == {<<>>, <<"x">>} \union {<<n>> : n \in {"a", "b", "g"}}
              \union {<<n, m>> : n, m \in {"a", "b", "g"}}

\* lists for a second command: none, itself, each other job, and a diamond
FewLists == {<<>>, <<"x">>, <<"a">>, <<"b">>, <<"g">>, <<"a", "g">>, <<"g", "a">>}

\* graphs of two commands and a job that is a command or a group
GraphDefinitions ==
    {("a" :> Command(d1, 0)) @@ ("b" :> Command(d2, 0)) @@ ("g" :> s) :
        d1 \in DepLists, d2 \in FewLists,
        s \in {Command(d, 0) : d \in DepLists}
              \union {Group(d, ms) : d \in {<<>>, <<"a">>, <<"b">>, <<"b", "a">>},
                                     ms \in {<<>>, <<"a">>, <<"a", "b">>, <<"x">>}}}

\* a chain with retries under a group, like job_definitions.json; a diamond
\* with a command whose template fails, or whose retry_attempts is negative
StreamDefinitions ==
    {("generate" :> Command(<<>>, 0)) @@ ("pipeline" :> Command(<<"generate">>, 1))
        @@ ("daily" :> Group(<<"pipeline">>, <<"generate", "pipeline">>))}
    \union
    {("generate" :> Command(<<>>, 1)) @@ ("left" :> Command(<<"generate">>, 0))
        @@ ("right" :> [Command(<<"generate">>, n) EXCEPT !.renders = ok])
        @@ ("daily" :> Command(<<"left", "right">>, 2)) :
        n \in {-1, 0}, ok \in BOOLEAN}

AllDefinitions == GraphDefinitions \union StreamDefinitions

=============================================================================
