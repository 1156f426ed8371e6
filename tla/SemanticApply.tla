----------------------------- MODULE SemanticApply -----------------------------
(***************************************************************************)
(* Authorizing one semantic proposal and applying it once: runtime/        *)
(* authorization, runtime/semantic-apply and its reconciliation, the       *)
(* Guardian records they consume, and the report of the apply command.     *)
(*                                                                         *)
(* Several command-line processes, and an editor, share a Project Brain.   *)
(* One action is one access to a shared file, or a run of reads of which   *)
(* only the last can matter.  A read-compare-rename is two steps, compare  *)
(* and rename, as nothing in the code makes it one.                        *)
(***************************************************************************)
EXTENDS Naturals, FiniteSets

CONSTANTS
    Procs,       \* processes of the command line
    Ids, NoId,   \* authorization ids (randomUUID), each drawn once
    Records,     \* identities of Guardian Authority records
    NoRecord,
    MaxEdits,    \* bound on edits by hand of the managed documents
    MaxCrashes,  \* bound on process deaths
    MaxFaults    \* bound on file operations that throw

ASSUME IdsAssumption == NoId \notin Ids
ASSUME RecordsAssumption == NoRecord \notin Records
ASSUME BoundsAssumption == MaxEdits \in Nat /\ MaxCrashes \in Nat /\ MaxFaults \in Nat

VARIABLES
    doc,       \* the managed documents
    accepted,  \* the documents of the local integrity receipt
    active,    \* .authorizations/active.json
    history,   \* id |-> the state in .authorizations/history/<id>.json
    temps,     \* processes with a candidate file in .authorizations
    litter,    \* a candidate file of a dead process is in .authorizations
    machine,   \* id |-> the state of the machine-local receipt
    lock,      \* id |-> whether <id>.lock exists
    records,   \* Guardian records of the consumer semantic-mutation
    gtemps,    \* processes whose helper has a temporary file among them
    glitter,   \* a temporary file of a dead helper is among them
    drawn,     \* authorization ids in use
    pc,        \* p |-> its next step
    aid,       \* p |-> the authorization it works on
    rid,       \* p |-> the Guardian record it consumes
    target,    \* p |-> the terminal state it is moving its authorization to
    snap,      \* p |-> the documents it is about to accept
    outcome,   \* p |-> what its last apply reported
    edits, crashes, faults

audit == <<active, history, temps, litter>>
receipts == <<machine, lock>>
guardian == <<records, gtemps, glitter>>
counters == <<edits, crashes, faults>>
locals == <<aid, rid, target, snap, outcome>>
vars == <<doc, accepted, audit, receipts, guardian, drawn, pc, locals, counters>>

-----------------------------------------------------------------------------
(* Files.                                                                  *)

\* Whether the proposed statement is in the documents, and how many edits by
\* hand they hold.  The one proposal was made at Baseline; the plan fixes the
\* ids of the decisions it writes, so its result is Post, whoever writes it.
Docs == [applied : BOOLEAN, edits : Nat]
Baseline == [applied |-> FALSE, edits |-> 0]
Post == [applied |-> TRUE, edits |-> 0]

\* buildActionableProposal on the candidate of the proposal gives it again.
Current == doc = Baseline

Terminal == {"completed", "failed"}
NoActive == [id |-> NoId, state |-> "none"]
\* A file whose writer died or failed in writeFile cannot be parsed: "torn".
Actives == [id : Ids, state : {"torn", "preparing", "authorized", "applying"}] \cup {NoActive}
Free == [id |-> NoId, state |-> "none"]

\* inspectProjectAuthorizationRoot refuses any other entry of the directory.
RootClean == temps = {} /\ ~litter

\* readProjectActive, and the comparison with the binding of i.
AuditShows(i, state) == RootClean /\ active = [id |-> i, state |-> state]

\* inspectAuthorizationAudit returns, and does not throw.
AuditReadable ==
    /\ RootClean
    /\ active.state # "torn"
    /\ \A i \in Ids : history[i] # "torn"
    /\ active.id \in Ids => history[active.id] = "none"

\* assertAuthorizationReadyForApply
Ready(i) == Current /\ AuditShows(i, "authorized") /\ machine[i] = "authorized"

\* readConsumerRecords refuses a directory with any other or malformed entry.
RecordsReadable ==
    gtemps = {} /\ ~glitter /\ \A r \in Records : records[r].state # "torn"

RecordsOf(i, state) == {r \in Records : records[r] = [id |-> i, state |-> state]}

\* findMatchingByState: more than one match is refused as ambiguous.
TheRecord(r, i, state) == RecordsReadable /\ RecordsOf(i, state) = {r}

-----------------------------------------------------------------------------
(* Control.                                                                *)

\* Steps that hold the machine-local lock and release it when they throw.
Locked == {"bgMachine", "rcDecide", "rcTemp", "rcRename",
           "alDecide", "alHistory", "alRemove", "fnMachine"}

Mutating == {"mutCheck", "mutRename", "verify"}
Finishing == {"fnRead", "fnLock", "fnMachine", "fnReread", "fnHistory", "fnRemove"}

\* The step an exception leads to.  The removal of a lock swallows its own.
Handler == [
    auRead |-> "idle", auWrite |-> "idle", auReceipt |-> "idle", auReread |-> "idle",
    auTemp |-> "idle", auRename |-> "idle", auVerify |-> "idle",
    giFind |-> "idle", giIssue |-> "idle",
    plan |-> "report", ready |-> "recover", readyAgain |-> "report",
    guFind |-> "report", guTemp |-> "report", guRename |-> "report", guVerify |-> "report",
    begin |-> "recover", bgLock |-> "recover", bgMachine |-> "recover",
    bgUnlock |-> "bgRead", bgRead |-> "recover", bgTemp |-> "recover", bgRename |-> "recover",
    recover |-> "alRead", rcRead |-> "alRead", rcLock |-> "alRead", rcDecide |-> "alRead",
    rcTemp |-> "alRead", rcRename |-> "alRead", rcUnlock |-> "mutCheck",
    alRead |-> "report", alLock |-> "report", alDecide |-> "report",
    alHistory |-> "report", alRemove |-> "report", alUnlock |-> "report",
    mutCheck |-> "fnRead", mutRename |-> "fnRead", verify |-> "fnRead",
    fnRead |-> "alRead", fnLock |-> "alRead", fnMachine |-> "alRead",
    fnUnlock |-> "fnReread", fnReread |-> "alRead", fnHistory |-> "alRead",
    fnRemove |-> "alRead",
    acRead |-> "report", acCommit |-> "report", report |-> "idle"]

Steps == DOMAIN Handler

TypeOK ==
    /\ doc \in Docs /\ accepted \in Docs
    /\ active \in Actives
    /\ history \in [Ids -> Terminal \cup {"none", "torn"}]
    /\ temps \subseteq Procs /\ litter \in BOOLEAN
    /\ machine \in [Ids -> Terminal \cup {"none", "torn", "authorized", "applying"}]
    /\ lock \in [Ids -> BOOLEAN]
    /\ records \in [Records -> [id : Ids, state : {"torn", "active", "expired", "consumed"}]
                               \cup {Free}]
    /\ gtemps \subseteq Procs /\ glitter \in BOOLEAN
    /\ drawn \subseteq Ids
    /\ pc \in [Procs -> Steps \cup {"idle"}]
    /\ aid \in [Procs -> Ids \cup {NoId}]
    /\ \A p \in Procs : pc[p] \in Steps \ {"auRead"} => aid[p] \in drawn
    /\ rid \in [Procs -> Records \cup {NoRecord}]
    /\ target \in [Procs -> Terminal]
    /\ snap \in [Procs -> Docs]
    /\ outcome \in [Procs -> {"none", "completed", "not-applied", "unknown"}]
    /\ edits \in Nat /\ crashes \in Nat /\ faults \in Nat

Init ==
    /\ doc = Baseline /\ accepted = Baseline
    /\ active = NoActive /\ history = [i \in Ids |-> "none"]
    /\ temps = {} /\ litter = FALSE
    /\ machine = [i \in Ids |-> "none"] /\ lock = [i \in Ids |-> FALSE]
    /\ records = [r \in Records |-> Free] /\ gtemps = {} /\ glitter = FALSE
    /\ drawn = {}
    /\ pc = [p \in Procs |-> "idle"]
    /\ aid = [p \in Procs |-> NoId] /\ rid = [p \in Procs |-> NoRecord]
    /\ target = [p \in Procs |-> "completed"] /\ snap = [p \in Procs |-> Baseline]
    /\ outcome = [p \in Procs |-> "none"]
    /\ edits = 0 /\ crashes = 0 /\ faults = 0

Go(p, from, to) ==
    /\ pc[p] = from
    /\ pc' = [pc EXCEPT ![p] = to]
    /\ UNCHANGED <<counters>>

\* A bug: the failure of a completion is archived as the completion.
BugRaise(p) ==
    /\ lock' = IF pc[p] \in Locked THEN [lock EXCEPT ![aid[p]] = FALSE] ELSE lock
    /\ pc' = [pc EXCEPT ![p] = IF pc[p] \in Mutating \cup Finishing /\ target[p] = "completed"
                              THEN "fnRead" ELSE Handler[pc[p]]]
    /\ UNCHANGED <<aid, rid, target, snap, outcome, drawn>>

\* Where an exception takes p: a failed completion is turned into a failure.
Raise(p) ==
    /\ lock' = IF pc[p] \in Locked THEN [lock EXCEPT ![aid[p]] = FALSE] ELSE lock
    /\ IF pc[p] \in Mutating \cup Finishing /\ target[p] = "completed"
       THEN /\ pc' = [pc EXCEPT ![p] = "fnRead"]
            /\ target' = [target EXCEPT ![p] = "failed"]
       ELSE /\ pc' = [pc EXCEPT ![p] = Handler[pc[p]]]
            /\ UNCHANGED target
    /\ UNCHANGED <<aid, rid, snap, outcome, drawn>>

\* A step that only reads: it goes on, or throws.
Check(p, from, condition, to) ==
    /\ pc[p] = from
    /\ \/ condition /\ Go(p, from, to) /\ UNCHANGED <<lock, locals, drawn>>
       \/ ~condition /\ Raise(p)
    /\ UNCHANGED <<doc, accepted, audit, machine, guardian, counters>>

-----------------------------------------------------------------------------
(* Shared accesses.                                                        *)

\* withMachineLock: mkdir fails when the lock exists.
Lock(p, from, to) ==
    /\ pc[p] = from
    /\ \/ /\ ~lock[aid[p]]
          /\ Go(p, from, to)
          /\ lock' = [lock EXCEPT ![aid[p]] = TRUE]
          /\ UNCHANGED <<locals, drawn>>
       \/ lock[aid[p]] /\ Raise(p)
    /\ UNCHANGED <<doc, accepted, audit, machine, guardian, counters>>

Unlock(p, from, to) ==
    /\ Go(p, from, to)
    /\ lock' = [lock EXCEPT ![aid[p]] = FALSE]
    /\ UNCHANGED <<doc, accepted, audit, machine, guardian, locals, drawn>>

\* A bug: the receipt is written without looking at the state it is in.
BugTransition(p, from, pre, post, to) ==
    /\ Go(p, from, to)
    /\ machine' = [machine EXCEPT ![aid[p]] = post]
    /\ UNCHANGED <<lock, locals, drawn, doc, accepted, audit, guardian>>

\* transitionMachineReceipt, under the lock.
Transition(p, from, pre, post, to) ==
    /\ pc[p] = from
    /\ \/ /\ machine[aid[p]] = pre
          /\ Go(p, from, to)
          /\ machine' = [machine EXCEPT ![aid[p]] = post]
          /\ UNCHANGED <<lock, locals, drawn>>
       \/ machine[aid[p]] # pre /\ Raise(p) /\ UNCHANGED machine
    /\ UNCHANGED <<doc, accepted, audit, guardian, counters>>

\* replaceProjectActive: the candidate is written and active.json is compared
\* with what was read of it before; then the candidate replaces it.
Compare(p, from, state, to) ==
    /\ pc[p] = from
    /\ \/ /\ active = [id |-> aid[p], state |-> state]
          /\ Go(p, from, to)
          /\ temps' = temps \cup {p}
          /\ UNCHANGED <<lock, locals, drawn>>
       \/ active # [id |-> aid[p], state |-> state] /\ Raise(p) /\ UNCHANGED temps
    /\ UNCHANGED <<doc, accepted, active, history, litter, machine, guardian, counters>>

Replace(p, from, state, to) ==
    /\ Go(p, from, to)
    /\ active' = [id |-> aid[p], state |-> state]
    /\ temps' = temps \ {p}
    /\ UNCHANGED <<doc, accepted, history, litter, receipts, guardian, locals, drawn>>

\* A bug: the active record is archived with the state it has.
BugWriteHistory(p, from, state, to) ==
    /\ Go(p, from, to)
    /\ history' = [history EXCEPT ![aid[p]] = active.state]
    /\ UNCHANGED <<doc, accepted, active, temps, litter, receipts, guardian, locals, drawn>>

\* archiveProjectActive: the terminal record is created, then active.json goes.
WriteHistory(p, from, state, to) ==
    /\ pc[p] = from
    /\ LET unchanged == active = [id |-> aid[p], state |-> "applying"]
                        /\ history[aid[p]] = "none"
       IN  \/ /\ unchanged
              /\ Go(p, from, to)
              /\ history' = [history EXCEPT ![aid[p]] = state]
              /\ UNCHANGED <<lock, locals, drawn>>
           \/ ~unchanged /\ Raise(p) /\ UNCHANGED history
    /\ UNCHANGED <<doc, accepted, active, temps, litter, machine, guardian, counters>>

RemoveActive(p, from, to) ==
    /\ pc[p] = from
    /\ \/ /\ active = [id |-> aid[p], state |-> "applying"]
          /\ Go(p, from, to)
          /\ active' = NoActive
          /\ UNCHANGED <<lock, locals, drawn>>
       \/ active # [id |-> aid[p], state |-> "applying"] /\ Raise(p) /\ UNCHANGED active
    /\ UNCHANGED <<doc, accepted, history, temps, litter, machine, guardian, counters>>

-----------------------------------------------------------------------------
(* livariant authorize: authorizeActionableProposal, then the Guardian.    *)

BeginAuthorize(p) ==
    /\ Current
    /\ Go(p, "idle", "auRead")
    /\ UNCHANGED <<doc, accepted, audit, receipts, guardian, locals, drawn>>

\* A first authorization, one that exists already, or one to be resumed.
AuRead(p) ==
    /\ pc[p] = "auRead"
    /\ \/ /\ RootClean /\ active = NoActive
          /\ \E i \in Ids \ drawn : aid' = [aid EXCEPT ![p] = i] /\ drawn' = drawn \cup {i}
          /\ Go(p, "auRead", "auWrite")
          /\ UNCHANGED <<lock, rid, target, snap, outcome>>
       \/ /\ RootClean /\ active.state = "authorized" /\ machine[active.id] = "authorized"
          /\ aid' = [aid EXCEPT ![p] = active.id]
          /\ Go(p, "auRead", "giFind")
          /\ UNCHANGED <<lock, rid, target, snap, outcome, drawn>>
       \/ /\ RootClean /\ active.state = "preparing"
          /\ machine[active.id] \in {"none", "authorized"}
          /\ aid' = [aid EXCEPT ![p] = active.id]
          /\ Go(p, "auRead", IF machine[active.id] = "none" THEN "auReceipt" ELSE "auReread")
          /\ UNCHANGED <<lock, rid, target, snap, outcome, drawn>>
       \/ /\ \/ ~RootClean \/ active.state \in {"torn", "applying"}
             \/ active.state = "authorized" /\ machine[active.id] # "authorized"
             \/ active.state = "preparing" /\ machine[active.id] \notin {"none", "authorized"}
          /\ Raise(p)
    /\ UNCHANGED <<doc, accepted, audit, machine, guardian, counters>>

\* writeProjectPreparing: created exclusively.
AuWrite(p) ==
    /\ pc[p] = "auWrite"
    /\ \/ /\ RootClean /\ active = NoActive
          /\ Go(p, "auWrite", "auReceipt")
          /\ active' = [id |-> aid[p], state |-> "preparing"]
          /\ UNCHANGED <<lock, locals, drawn>>
       \/ ~(RootClean /\ active = NoActive) /\ Raise(p) /\ UNCHANGED active
    /\ UNCHANGED <<doc, accepted, history, temps, litter, machine, guardian, counters>>

Authorize(p) ==
    \/ AuRead(p) \/ AuWrite(p)
    \/ Transition(p, "auReceipt", "none", "authorized", "auReread")
    \/ Check(p, "auReread", AuditShows(aid[p], "preparing"), "auTemp")
    \/ Compare(p, "auTemp", "preparing", "auRename")
    \/ Replace(p, "auRename", "authorized", "auVerify")
    \/ Check(p, "auVerify", machine[aid[p]] = "authorized", "giFind")

\* issueGuardianAuthority: the check for a duplicate, the person at the
\* terminal, then the record.
Issue(p) ==
    \/ Check(p, "giFind",
             Current /\ RecordsReadable /\ RecordsOf(aid[p], "active") = {}, "giIssue")
    \/ /\ Go(p, "giIssue", "idle")
       /\ \E r \in Records :
             /\ records[r] = Free
             /\ records' = [records EXCEPT ![r] = [id |-> aid[p], state |-> "active"]]
       /\ UNCHANGED <<doc, accepted, audit, receipts, gtemps, glitter, locals, drawn>>

-----------------------------------------------------------------------------
(* livariant apply: applyActionableProposal.                               *)

BeginApply(p, i) ==
    /\ Go(p, "idle", "plan")
    /\ aid' = [aid EXCEPT ![p] = i]
    /\ target' = [target EXCEPT ![p] = "completed"]
    /\ outcome' = [outcome EXCEPT ![p] = "none"]
    /\ UNCHANGED <<doc, accepted, audit, receipts, guardian, rid, snap, drawn>>

\* consumeSemanticGuardianAuthority and the helper's consumeAuthority.
Consume(p) ==
    \/ /\ pc[p] = "guFind"
       /\ \/ /\ Current
             /\ \E r \in Records :
                   TheRecord(r, aid[p], "active") /\ rid' = [rid EXCEPT ![p] = r]
             /\ Go(p, "guFind", "guTemp")
             /\ UNCHANGED <<lock, aid, target, snap, outcome, drawn>>
          \/ /\ ~(Current /\ \E r \in Records : TheRecord(r, aid[p], "active"))
             /\ Raise(p)
       /\ UNCHANGED <<doc, accepted, audit, machine, guardian, counters>>
    \/ /\ pc[p] = "guTemp"
       /\ \/ /\ records[rid[p]].state = "active"
             /\ Go(p, "guTemp", "guRename")
             /\ gtemps' = gtemps \cup {p}
             /\ UNCHANGED <<lock, locals, drawn>>
          \/ records[rid[p]].state # "active" /\ Raise(p) /\ UNCHANGED gtemps
       /\ UNCHANGED <<doc, accepted, audit, machine, records, glitter, counters>>
    \/ /\ Go(p, "guRename", "guVerify")
       /\ records' = [records EXCEPT ![rid[p]].state = "consumed"]
       /\ gtemps' = gtemps \ {p}
       /\ UNCHANGED <<doc, accepted, audit, receipts, glitter, locals, drawn>>
    \/ Check(p, "guVerify",
             RecordsReadable /\ records[rid[p]].state = "consumed", "begin")

\* beginAuthorizationApplication: the machine-local receipt first.
Begin(p) ==
    \/ Check(p, "begin", Current /\ AuditShows(aid[p], "authorized"), "bgLock")
    \/ Lock(p, "bgLock", "bgMachine")
    \/ Transition(p, "bgMachine", "authorized", "applying", "bgUnlock")
    \/ Unlock(p, "bgUnlock", "bgRead")
    \/ Check(p, "bgRead", AuditShows(aid[p], "authorized"), "bgTemp")
    \/ Compare(p, "bgTemp", "authorized", "bgRename")
    \/ Replace(p, "bgRename", "applying", "mutCheck")

\* A bug: a receipt that is settled as failed is resumed like an applying one.
BugReconcile(p) ==
    LET i == aid[p] IN
    \/ Check(p, "recover",
             Current /\ \E r \in Records : TheRecord(r, i, "consumed"), "rcRead")
    \/ Check(p, "rcRead", AuditReadable /\ active.id = i, "rcLock")
    \/ Lock(p, "rcLock", "rcDecide")
    \/ Check(p, "rcDecide",
             AuditReadable /\ active.id = i /\ machine[i] \in {"applying", "failed"},
             IF active.state = "authorized" THEN "rcTemp" ELSE "rcUnlock")
    \/ Compare(p, "rcTemp", "authorized", "rcRename")
    \/ Replace(p, "rcRename", "applying", "rcUnlock")
    \/ Unlock(p, "rcUnlock", "mutCheck")

\* A bug: only the pair whose audit lags behind the receipt is resumed.
BugPairs(p) ==
    LET i == aid[p] IN
    \/ Check(p, "recover",
             Current /\ \E r \in Records : TheRecord(r, i, "consumed"), "rcRead")
    \/ Check(p, "rcRead", AuditReadable /\ active.id = i, "rcLock")
    \/ Lock(p, "rcLock", "rcDecide")
    \/ Check(p, "rcDecide",
             AuditReadable /\ AuditShows(i, "authorized") /\ machine[i] = "applying", "rcTemp")
    \/ Compare(p, "rcTemp", "authorized", "rcRename")
    \/ Replace(p, "rcRename", "applying", "rcUnlock")
    \/ Unlock(p, "rcUnlock", "mutCheck")

\* reconcilePreMutationAuthorization, once the Guardian proves consumption.
Reconcile(p) ==
    LET i == aid[p] IN
    \/ Check(p, "recover",
             Current /\ \E r \in Records : TheRecord(r, i, "consumed"), "rcRead")
    \/ Check(p, "rcRead", AuditReadable /\ active.id = i, "rcLock")
    \/ Lock(p, "rcLock", "rcDecide")
    \/ Check(p, "rcDecide",
             /\ AuditReadable /\ active.id = i
             /\ active.state \in {"authorized", "applying"} /\ machine[i] = "applying",
             IF active.state = "authorized" THEN "rcTemp" ELSE "rcUnlock")
    \/ Compare(p, "rcTemp", "authorized", "rcRename")
    \/ Replace(p, "rcRename", "applying", "rcUnlock")
    \/ Unlock(p, "rcUnlock", "mutCheck")

\* reconcileFailedAuthorizationApplication
AlignFailure(p) ==
    LET i == aid[p] IN
    \/ Check(p, "alRead", AuditReadable /\ active.id = i, "alLock")
    \/ Lock(p, "alLock", "alDecide")
    \/ Check(p, "alDecide",
             AuditReadable /\ active = [id |-> i, state |-> "applying"]
                 /\ machine[i] = "failed", "alHistory")
    \/ WriteHistory(p, "alHistory", "failed", "alRemove")
    \/ RemoveActive(p, "alRemove", "alUnlock")
    \/ Unlock(p, "alUnlock", "report")

\* executeAuthorizedMutation and the verification of the documents after it.
\* beforePromote and the comparison of replaceManagedTextDocument, its rename.
Mutate(p) ==
    \/ Check(p, "mutCheck", Current /\ accepted = doc, "mutRename")
    \/ /\ Go(p, "mutRename", "verify")
       /\ doc' = Post
       /\ UNCHANGED <<accepted, audit, receipts, guardian, locals, drawn>>
    \/ Check(p, "verify", doc = Post, "fnRead")

\* A bug: the audit is archived before the receipt is settled.
BugFinish(p) ==
    \/ Check(p, "fnRead", AuditShows(aid[p], "applying"), "fnHistory")
    \/ WriteHistory(p, "fnHistory", target[p], "fnLock")
    \/ Lock(p, "fnLock", "fnMachine")
    \/ Transition(p, "fnMachine", "applying", target[p], "fnUnlock")
    \/ Unlock(p, "fnUnlock", "fnRemove")
    \/ RemoveActive(p, "fnRemove", IF target[p] = "completed" THEN "acRead" ELSE "report")

\* finishAuthorization, for completion and for failure.
Finish(p) ==
    \/ Check(p, "fnRead", AuditShows(aid[p], "applying"), "fnLock")
    \/ Lock(p, "fnLock", "fnMachine")
    \/ Transition(p, "fnMachine", "applying", target[p], "fnUnlock")
    \/ Unlock(p, "fnUnlock", "fnReread")
    \/ Check(p, "fnReread", AuditShows(aid[p], "applying"), "fnHistory")
    \/ WriteHistory(p, "fnHistory", target[p], "fnRemove")
    \/ RemoveActive(p, "fnRemove", IF target[p] = "completed" THEN "acRead" ELSE "report")

\* recordAcceptedProjectBrainState, and the successful report.
Accept(p) ==
    \/ /\ Go(p, "acRead", "acCommit")
       /\ snap' = [snap EXCEPT ![p] = doc]
       /\ UNCHANGED <<doc, accepted, audit, receipts, guardian, aid, rid, target, outcome, drawn>>
    \/ /\ pc[p] = "acCommit"
       /\ \/ /\ doc = snap[p]
             /\ Go(p, "acCommit", "idle")
             /\ accepted' = snap[p]
             /\ outcome' = [outcome EXCEPT ![p] = "completed"]
             /\ UNCHANGED <<lock, aid, rid, target, snap, drawn>>
          \/ doc # snap[p] /\ Raise(p) /\ UNCHANGED accepted
       /\ UNCHANGED <<doc, audit, machine, guardian, counters>>

\* A bug: an authorization that is still active is reported as not applied.
BugReport(p) ==
    /\ Go(p, "report", "idle")
    /\ outcome' = [outcome EXCEPT ![p] =
          IF AuditReadable /\ history[aid[p]] # "failed" THEN "not-applied" ELSE "unknown"]
    /\ UNCHANGED <<doc, accepted, audit, receipts, guardian, aid, rid, target, snap, drawn>>

\* classifyApplyFailure of the apply command.
Report(p) ==
    /\ Go(p, "report", "idle")
    /\ outcome' = [outcome EXCEPT ![p] =
          IF AuditReadable /\ active.id # aid[p] /\ history[aid[p]] # "failed"
          THEN "not-applied" ELSE "unknown"]
    /\ UNCHANGED <<doc, accepted, audit, receipts, guardian, aid, rid, target, snap, drawn>>

\* A bug: a ready authorization is begun without consuming Guardian authority.
BugApply(p) ==
    \/ Check(p, "plan", Current /\ accepted = doc, "ready")
    \/ Check(p, "ready", Ready(aid[p]), "readyAgain")
    \/ Check(p, "readyAgain", Ready(aid[p]), "begin")
    \/ Begin(p) \/ Reconcile(p) \/ Mutate(p) \/ Finish(p)
    \/ Accept(p) \/ AlignFailure(p) \/ Report(p)

\* enterApplyingState calls the parts; a refused readiness check goes to the
\* reconciliation when it is the first one, and out when it is the second.
Apply(p) ==
    \/ Check(p, "plan", Current /\ accepted = doc, "ready")
    \/ Check(p, "ready", Ready(aid[p]), "readyAgain")
    \/ Check(p, "readyAgain", Ready(aid[p]), "guFind")
    \/ Consume(p) \/ Begin(p) \/ Reconcile(p) \/ Mutate(p) \/ Finish(p)
    \/ Accept(p) \/ AlignFailure(p) \/ Report(p)

-----------------------------------------------------------------------------
(* Failures, and the world outside.                                        *)

\* A writeFile that does not finish leaves a file no one can parse.
Tear(p) ==
    \/ UNCHANGED <<active, history, machine, records>>
    \/ /\ pc[p] = "auWrite" /\ active = NoActive
       /\ active' = [id |-> aid[p], state |-> "torn"]
       /\ UNCHANGED <<history, machine, records>>
    \/ /\ pc[p] = "auReceipt" /\ machine[aid[p]] = "none"
       /\ machine' = [machine EXCEPT ![aid[p]] = "torn"]
       /\ UNCHANGED <<active, history, records>>
    \/ /\ pc[p] \in {"fnHistory", "alHistory"} /\ history[aid[p]] = "none"
       /\ history' = [history EXCEPT ![aid[p]] = "torn"]
       /\ UNCHANGED <<active, machine, records>>
    \/ /\ pc[p] = "giIssue"
       /\ \E r \in Records :
             /\ records[r] = Free
             /\ records' = [records EXCEPT ![r] = [id |-> aid[p], state |-> "torn"]]
       /\ UNCHANGED <<active, history, machine>>

\* A file operation throws; candidate files are removed on the way out.
Throw(p) ==
    /\ pc[p] \in Steps \ {"report"}
    /\ faults < MaxFaults /\ faults' = faults + 1
    /\ Tear(p)
    /\ temps' = temps \ {p} /\ gtemps' = gtemps \ {p}
    /\ Raise(p)
    /\ UNCHANGED <<doc, accepted, litter, glitter, edits, crashes>>

\* A process dies: its candidate files and its lock stay.
Crash(p) ==
    /\ pc[p] # "idle" /\ pc' = [pc EXCEPT ![p] = "idle"]
    /\ crashes < MaxCrashes /\ crashes' = crashes + 1
    /\ Tear(p)
    /\ temps' = temps \ {p} /\ litter' = (litter \/ p \in temps)
    /\ gtemps' = gtemps \ {p} /\ glitter' = (glitter \/ p \in gtemps)
    /\ UNCHANGED <<doc, accepted, lock, locals, drawn, edits, faults>>

\* A one-shot record is valid for ten minutes.
Expire(r) ==
    /\ records[r].state = "active"
    /\ records' = [records EXCEPT ![r].state = "expired"]
    /\ UNCHANGED <<doc, accepted, audit, receipts, gtemps, glitter, drawn, pc, locals, counters>>

\* Somebody edits a managed document.
Edit ==
    /\ edits < MaxEdits /\ edits' = edits + 1
    /\ doc' = [doc EXCEPT !.edits = edits + 1]
    /\ UNCHANGED <<accepted, audit, receipts, guardian, drawn, pc, locals, crashes, faults>>

Process(p) == Authorize(p) \/ Issue(p) \/ Apply(p)

Next ==
    \/ \E p \in Procs :
          \/ BeginAuthorize(p) \/ \E i \in drawn : BeginApply(p, i)
          \/ Process(p) \/ Throw(p) \/ Crash(p)
    \/ \E r \in Records : Expire(r)
    \/ Edit

Spec == Init /\ [][Next]_vars

-----------------------------------------------------------------------------
(* Properties.                                                             *)

\* The statement enters the documents only under a consumed Guardian record,
\* and once it has, no local evidence lets that authorization be begun again.
MutationAuthorized ==
    doc.applied =>
        \E i \in Ids :
            /\ RecordsOf(i, "consumed") # {}
            /\ machine[i] \in {"applying"} \cup Terminal

\* Whatever is recorded as completed is in the documents.
CompletedIsApplied ==
    \A i \in Ids : machine[i] = "completed" \/ history[i] = "completed" => doc.applied

\* The three records of an authorization agree: the two pieces of terminal evidence
\* never differ, and one that could still be used, or whose outcome is open, is the
\* active one of the project, so that it cannot be forgotten.
EvidenceAgrees ==
    \A i \in Ids :
        /\ history[i] \in Terminal => machine[i] = history[i]
        /\ machine[i] \in {"authorized", "applying"} => active.id = i

\* No authorization returns to an earlier state, whoever crashes or races.
Rank == [none |-> 0, torn |-> 1, authorized |-> 1, applying |-> 2, completed |-> 3, failed |-> 3]
ForwardOnly ==
    [][\A i \in Ids : machine'[i] # machine[i] => Rank[machine'[i]] > Rank[machine[i]]]_vars

\* While the outcome of an authorization is open or failed, no apply of it
\* reports that nothing was applied.
UncertainNeverDenied ==
    [][\A p \in Procs :
          outcome'[p] = "not-applied" /\ outcome[p] # "not-applied"
              => machine[aid[p]] \notin {"applying", "failed"}]_vars

\* The apply command reports "not-applied" only of an authorization under
\* which nothing was written.
NotAppliedIsTrue ==
    [][\A p \in Procs :
          outcome'[p] = "not-applied" /\ outcome[p] # "not-applied"
              => machine[aid[p]] # "completed"]_vars

\* At most one process at a time is past the consumption of an authorization.
Consumers(i) == {p \in Procs : aid[p] = i /\ pc[p] \in Mutating}
OneConsumer == \A i \in Ids : Cardinality(Consumers(i)) <= 1

\* One process at a time: the machine-local evidence and the documents keep the
\* contract of a one-shot authorization.
Contract == INSTANCE ApplyContract WITH
    authority <- [i \in Ids |->
        IF machine[i] \in Terminal THEN machine[i]
        ELSE IF machine[i] = "applying" THEN "spent" ELSE "open"],
    applied <- doc.applied

KeepsContract == Contract!Spec

\* A process that runs keeps running unless it dies, and the person who
\* authorized a change repeats an apply that did not finish.
FairSpec ==
    /\ Spec
    /\ \A p \in Procs : WF_vars(Process(p))
    /\ \A p \in Procs, i \in Ids : SF_vars(i \in drawn /\ BeginApply(p, i))

\* An authorization consumed by a process that then stopped, at a point where
\* it held neither the lock nor a candidate file, and with the documents as
\* they were when it was given.
Resumable(i) ==
    /\ \A p \in Procs : pc[p] = "idle"
    /\ crashes = MaxCrashes /\ faults = MaxFaults
    /\ Current /\ accepted = doc
    /\ RootClean /\ ~lock[i]
    /\ active.id = i /\ active.state \in {"authorized", "applying"}
    /\ machine[i] = "applying"
    /\ \E r \in Records : TheRecord(r, i, "consumed")

\* Such an authorization is applied and completed by repeating the command,
\* unless somebody edits the documents meanwhile.
InterruptionResumes ==
    \A i \in Ids : Resumable(i) ~> (doc = Post /\ history[i] = "completed") \/ doc.edits > 0

===============================================================================
