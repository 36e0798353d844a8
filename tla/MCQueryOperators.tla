-------------------------- MODULE MCQueryOperators --------------------------
(* The sort and the plan for TLC, in one run: they share no state, so it    *)
(* explores one or the other.                                               *)
EXTENDS ExternalMergeSort, VolcanoPlan

VARIABLE explored

QueryInit == Init /\ PlanInit /\ explored \in {"sort", "plan"}

QueryNext ==
    \/ explored = "sort" /\ Next /\ UNCHANGED <<plan_vars, explored>>
    \/ explored = "plan" /\ PlanNext /\ UNCHANGED <<vars, explored>>

QuerySpec ==
    QueryInit /\ [][QueryNext]_<<vars, plan_vars, explored>> /\ WF_plan_vars(Running)

=============================================================================
