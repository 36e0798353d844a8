------------------------------ MODULE IndexMap ------------------------------
(***************************************************************************)
(* What the B+ tree promises: a map from keys to RIDs.  An insertion that  *)
(* returns has given its key its RID, at one moment between its call and   *)
(* its return, and has changed no other key.  One that throws may lose     *)
(* keys, its own included, but gives no key but its own another RID.       *)
(***************************************************************************)
CONSTANTS Keys, Rids,
          None,      \* the answer for a key that is not there
          MayFail    \* whether the calls of the tree may throw

VARIABLES index,
          call   \* the key and RID of the running insertion; else NoCall, or
                 \*   Threw if the last one ended in an exception

NoCall == [key |-> 0, rid |-> None, threw |-> FALSE]

Threw == [key |-> 0, rid |-> None, threw |-> TRUE]

Running == call.rid # None

Init == index = [key \in Keys |-> None] /\ call = NoCall

Begin(key, rid) ==
    /\ ~Running
    /\ call' = [key |-> key, rid |-> rid, threw |-> FALSE]
    /\ UNCHANGED index

Return ==
    /\ Running
    /\ index' = [index EXCEPT ![call.key] = call.rid]
    /\ call' = NoCall

\* Keys may be lost, and only those of may_change may get another RID.
Damaged(may_change) ==
    /\ index' \in [Keys -> Rids \cup {None}]
    /\ \A key \in Keys :
          index'[key] \in {index[key], None} \cup may_change[key]

InsertFails ==
    /\ Running
    /\ Damaged([key \in Keys |-> IF key = call.key THEN {call.rid} ELSE {}])
    /\ call' = Threw

\* The tree is closed and opened again, maybe after an insertion failed.
Forget ==
    /\ ~Running
    /\ IF MayFail THEN Damaged([key \in Keys |-> {}]) ELSE UNCHANGED index
    /\ call' = NoCall

Next ==
    \/ \E key \in Keys, rid \in Rids : Begin(key, rid)
    \/ Return
    \/ InsertFails
    \/ Forget

Spec == Init /\ [][Next]_<<index, call>>

=============================================================================
