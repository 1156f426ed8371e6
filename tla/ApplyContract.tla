----------------------------- MODULE ApplyContract -----------------------------
(***************************************************************************)
(* What an authorization promises: it is spent before the documents change,*)
(* it is settled once, and it is settled as completed only when the        *)
(* documents hold the authorized statement.                                *)
(***************************************************************************)
CONSTANT Ids

VARIABLES
    authority,  \* id |-> "open", "spent", "completed" or "failed"
    applied     \* the documents hold the authorized statement

Init == authority = [i \in Ids |-> "open"] /\ applied = FALSE

Spend(i) ==
    /\ authority[i] = "open"
    /\ authority' = [authority EXCEPT ![i] = "spent"]
    /\ UNCHANGED applied

\* Only a spent authorization that is not settled yet changes the documents.
Write(i) ==
    /\ authority[i] = "spent"
    /\ applied' = TRUE
    /\ UNCHANGED authority

Complete(i) ==
    /\ authority[i] = "spent" /\ applied
    /\ authority' = [authority EXCEPT ![i] = "completed"]
    /\ UNCHANGED applied

Fail(i) ==
    /\ authority[i] = "spent"
    /\ authority' = [authority EXCEPT ![i] = "failed"]
    /\ UNCHANGED applied

Next == \E i \in Ids : Spend(i) \/ Write(i) \/ Complete(i) \/ Fail(i)

Spec == Init /\ [][Next]_<<authority, applied>>

===============================================================================
