----------------------------- MODULE Submission -----------------------------
(***************************************************************************)
(* What submitting a GovWin opportunity to AWS Partner Central promises,   *)
(* with none of the machinery that keeps the promise.  ADR 0006 and        *)
(* docs/ace-integration.md ("Idempotency notes") state it in words: a      *)
(* GovWin opportunity becomes one AWS opportunity, its Solution is         *)
(* associated before AWS is asked to review it, and it enters the AWS      *)
(* reviewer queue once.  AWS has no DeleteOpportunity, so nothing here is  *)
(* ever undone.                                                            *)
(***************************************************************************)
CONSTANTS
    GovWinIds,      \* GovWin opportunities
    OpportunityIds, \* what AWS may name an opportunity
    TaskIds,        \* what AWS may name an engagement task
    NeedsSolution,  \* GovWin ids that are only ever submitted with a Solution
    None            \* not there yet

VARIABLES
    opportunity,    \* the AWS opportunity of a GovWin id, or None
    solution,       \* whether the Solution is associated with it
    engagement      \* the engagement task started from it, or None

vars == <<opportunity, solution, engagement>>

Init ==
    /\ opportunity = [g \in GovWinIds |-> None]
    /\ solution    = [g \in GovWinIds |-> FALSE]
    /\ engagement  = [g \in GovWinIds |-> None]

\* AWS creates the opportunity: the only step that names one.
Create(g) ==
    /\ opportunity[g] = None
    /\ \E o \in OpportunityIds : opportunity' = [opportunity EXCEPT ![g] = o]
    /\ UNCHANGED <<solution, engagement>>

\* The Solution is associated with an opportunity that exists.
Associate(g) ==
    /\ opportunity[g] # None
    /\ solution' = [solution EXCEPT ![g] = TRUE]
    /\ UNCHANGED <<opportunity, engagement>>

\* The opportunity enters the AWS reviewer queue, with its Solution.
Engage(g) ==
    /\ opportunity[g] # None
    /\ engagement[g] = None
    /\ g \in NeedsSolution => solution[g]
    /\ \E t \in TaskIds : engagement' = [engagement EXCEPT ![g] = t]
    /\ UNCHANGED <<opportunity, solution>>

Next == \E g \in GovWinIds : Create(g) \/ Associate(g) \/ Engage(g)

Spec == Init /\ [][Next]_vars
=============================================================================
