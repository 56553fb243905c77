------------------------------ MODULE JobStream ------------------------------
(***************************************************************************)
(* What a job stream promises, whatever order it chooses: every job of the *)
(* stream is settled at most once, after its upstream jobs; it runs only   *)
(* if all of them succeeded and is skipped otherwise.  JobExecutor is      *)
(* shown to implement this.                                                *)
(***************************************************************************)
CONSTANT Names      \* job names

VARIABLES
    upstream,       \* the upstream jobs of each name; fixed by the definitions
    status          \* how each name was settled, "NONE" before that

Settled == {"SUCCESS", "FAILED", "TIMEOUT", "PENDING", "SKIPPED"}

Init ==
    /\ upstream \in [Names -> SUBSET Names]
    /\ status = [n \in Names |-> "NONE"]

\* A job is settled when its upstream jobs are, and skipped when one of them
\* did not succeed.
Settle(n) ==
    /\ status[n] = "NONE"
    /\ \A d \in upstream[n] : status[d] # "NONE"
    /\ \E s \in Settled :
          /\ s = "SKIPPED" <=> \E d \in upstream[n] : status[d] # "SUCCESS"
          /\ status' = [status EXCEPT ![n] = s]
    /\ UNCHANGED upstream

Next == \E n \in Names : Settle(n)

Spec == Init /\ [][Next]_<<upstream, status>>

=============================================================================
