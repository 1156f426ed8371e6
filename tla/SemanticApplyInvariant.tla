------------------------- MODULE SemanticApplyInvariant -------------------------
(***************************************************************************)
(* The inductive invariant behind the safety properties of SemanticApply,  *)
(* for any number of processes, authorizations, records, deaths and faults.*)
(***************************************************************************)
EXTENDS SemanticApply

\* Nothing tells of an authorization that was not drawn, or is about to be created.
Unheard(i) ==
    /\ machine[i] = "none" /\ history[i] = "none" /\ active.id # i
    /\ \A r \in Records : records[r].id # i

Renaming == {"auRename", "bgRename", "rcRename"}

\* The steps a process can reach with an authorization nothing tells of.
Early == {"idle", "auRead", "plan", "ready", "recover", "alRead", "report"}

\* Between the consumption of a record and the end of the mutation.
Consumed == {"begin", "bgLock", "bgMachine", "bgUnlock", "bgRead", "bgTemp", "bgRename",
             "rcRead", "rcLock", "rcDecide", "rcTemp", "rcRename", "rcUnlock"} \cup Mutating

\* Once the receipt says that the authorization is spent.
Spent == {"bgUnlock", "bgRead", "bgTemp", "bgRename", "rcTemp", "rcRename", "rcUnlock"}
             \cup Mutating \cup (Finishing \ {"fnRead"})

Settling == {"fnUnlock", "fnReread", "fnHistory", "fnRemove"}

-----------------------------------------------------------------------------
(* Files.                                                                  *)

\* active.json is as far as the receipt, or one rename behind it.
ActiveFollows ==
    /\ active.state = "torn" => machine[active.id] = "none"
    /\ active.state = "preparing" => machine[active.id] \in {"none", "torn", "authorized"}
    /\ active.state = "authorized" => machine[active.id] \in {"authorized", "applying"}
    /\ active.state = "applying" => machine[active.id] \in {"applying"} \cup Terminal

\* An authorization that was settled is active until its record is in the history.
SettledIsKept ==
    \A i \in Ids : machine[i] \in Terminal => active.id = i \/ history[i] \in Terminal

UndrawnIsUnheard == \A i \in Ids \ drawn : Unheard(i)

FilesInv == EvidenceAgrees /\ ActiveFollows /\ SettledIsKept /\ UndrawnIsUnheard /\ CompletedIsApplied

-----------------------------------------------------------------------------
(* What each process may rely on at its next step.                         *)

Creates(p) ==
    /\ pc[p] = "auWrite" => Unheard(aid[p])
    /\ pc[p] = "auReceipt" /\ machine[aid[p]] = "none"
           => active = [id |-> aid[p], state |-> "preparing"]
    /\ pc[p] \in {"auReread", "auTemp", "auRename"} => machine[aid[p]] \notin {"none", "torn"}
    /\ pc[p] = "auRename" => /\ active.id = aid[p] /\ active.state \in {"preparing", "authorized"}
                             /\ machine[aid[p]] = "authorized"

Consumes(p) ==
    /\ pc[p] \in {"guTemp", "guRename", "guVerify"} =>
           /\ rid[p] \in Records
           /\ records[rid[p]].id = aid[p] /\ records[rid[p]].state # "torn"
    /\ pc[p] \in Consumed => RecordsOf(aid[p], "consumed") # {}

Spends(p) ==
    /\ pc[p] \in {"bgLock", "bgMachine"} /\ active.id = aid[p]
           => active.state \in {"authorized", "applying"}
    /\ pc[p] \in Spent => machine[aid[p]] \in {"applying"} \cup Terminal
    /\ pc[p] \in {"bgRename", "rcRename"} =>
           /\ active.id = aid[p] /\ active.state \in {"authorized", "applying"}
           /\ machine[aid[p]] = "applying"

Settles(p) ==
    /\ pc[p] \in Finishing /\ target[p] = "completed" => doc.applied
    /\ pc[p] \in {"fnLock", "fnMachine"} /\ active.id = aid[p] => active.state = "applying"
    /\ pc[p] \in Settling => machine[aid[p]] = target[p]
    /\ pc[p] = "fnRemove" => history[aid[p]] = target[p]
    /\ pc[p] \in {"alHistory", "alRemove"} => machine[aid[p]] = "failed"
    /\ pc[p] = "alRemove" => history[aid[p]] = "failed"

\* A candidate file shows that its process is about to rename it.
Candidates(p) == p \in temps <=> pc[p] \in Renaming

Relies(p) == Creates(p) /\ Consumes(p) /\ Spends(p) /\ Settles(p) /\ Candidates(p)

StepsInv == \A p \in Procs : Relies(p)

-----------------------------------------------------------------------------
(* What no two processes do at once with one authorization.                *)

Together(p, q) ==
    aid[p] = aid[q] /\ p # q =>
        /\ pc[p] = "auWrite" => pc[q] \in Early
        /\ pc[p] = "auRename" => pc[q] \notin {"bgLock", "bgMachine"}
        /\ pc[p] \in {"bgRename", "rcRename"} => pc[q] \notin {"fnLock", "fnMachine"}

Apart == \A p, q \in Procs : Together(p, q)

IInv == TypeOK /\ FilesInv /\ MutationAuthorized /\ StepsInv /\ Apart
=================================================================================
