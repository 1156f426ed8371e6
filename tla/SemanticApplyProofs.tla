--------------------------- MODULE SemanticApplyProofs ---------------------------
(***************************************************************************)
(* Theorems about SemanticApply, for every number of processes,            *)
(* authorizations, records, deaths and faults.                             *)
(***************************************************************************)
EXTENDS SemanticApplyInvariant, TLAPS

-----------------------------------------------------------------------------
(* Facts about the control.                                                *)

\* Every step has a handler, and a handler is a step or the end of the process.
LEMMA HandlerType == \A s \in Steps : Handler[s] \in Steps \cup {"idle"}
BY DEF Handler, Steps

LEMMA StepNames ==
    Steps = {"auRead", "auWrite", "auReceipt", "auReread", "auTemp", "auRename", "auVerify",
             "giFind", "giIssue", "plan", "ready", "readyAgain",
             "guFind", "guTemp", "guRename", "guVerify",
             "begin", "bgLock", "bgMachine", "bgUnlock", "bgRead", "bgTemp", "bgRename",
             "recover", "rcRead", "rcLock", "rcDecide", "rcTemp", "rcRename", "rcUnlock",
             "alRead", "alLock", "alDecide", "alHistory", "alRemove", "alUnlock",
             "mutCheck", "mutRename", "verify",
             "fnRead", "fnLock", "fnMachine", "fnUnlock", "fnReread", "fnHistory", "fnRemove",
             "acRead", "acCommit", "report"}
BY DEF Steps, Handler

\* Where an exception takes a process.
LEMMA HandlerTable ==
    /\ \A s \in Steps : Handler[s] \in {"idle", "report", "recover", "alRead", "fnRead",
                                        "bgRead", "mutCheck", "fnReread"}
    /\ \A s \in Steps : Handler[s] = "bgRead" => s = "bgUnlock"
    /\ \A s \in Steps : Handler[s] = "mutCheck" => s = "rcUnlock"
    /\ \A s \in Steps : Handler[s] = "fnReread" => s = "fnUnlock"
    /\ \A s \in Steps : Handler[s] = "fnRead" => s \in Mutating
    /\ Handler["auRead"] = "idle"
    /\ \A s \in Early \cap Steps : Handler[s] \in Early
BY DEF Handler, Steps, Mutating, Early

\* Where an exception puts p, and the state p is then moving its authorization to.
Lands(p) ==
    \/ pc'[p] = "fnRead" /\ target'[p] = "failed" /\ pc[p] \in Mutating \cup Finishing
    \/ /\ pc'[p] = Handler[pc[p]] /\ target'[p] = target[p]
       /\ ~(pc[p] \in Mutating \cup Finishing /\ target[p] = "completed")

\* What an exception of p does.
Raises(p) ==
    /\ pc' = [pc EXCEPT ![p] = pc'[p]] /\ target' = [target EXCEPT ![p] = target'[p]]
    /\ Lands(p)
    /\ UNCHANGED <<aid, rid, snap, outcome, drawn>>
    /\ lock' \in [Ids -> BOOLEAN]

LEMMA RaiseRaises ==
  ASSUME TypeOK, NEW p \in Procs, pc[p] \in Steps, Raise(p)
  PROVE  Raises(p) /\ pc'[p] \in Steps \cup {"idle"} /\ target'[p] \in Terminal
BY HandlerType DEF Raise, Raises, Lands, TypeOK, Locked, Mutating, Finishing, Terminal, Steps, Handler

-----------------------------------------------------------------------------
(* Frames.                                                                 *)

Files == <<doc, active, history, machine, records, drawn>>

\* q stays where it is.
Stays(q) ==
    /\ pc'[q] = pc[q] /\ aid'[q] = aid[q] /\ rid'[q] = rid[q] /\ target'[q] = target[q]
    /\ q \in temps' <=> q \in temps

\* A step of p that changes no file but candidates and locks.
LEMMA QuietStep ==
  ASSUME IInv, TypeOK', NEW p \in Procs, UNCHANGED Files,
         \A q \in Procs \ {p} : Stays(q),
         Relies(p)',
         \A q \in Procs \ {p} : Together(p, q)' /\ Together(q, p)'
  PROVE  IInv'
<1>1. FilesInv' /\ MutationAuthorized'
  BY DEF IInv, Files, FilesInv, EvidenceAgrees, ActiveFollows, SettledIsKept, UndrawnIsUnheard,
         Unheard, CompletedIsApplied, MutationAuthorized, RecordsOf
<1>2. ASSUME NEW q \in Procs \ {p} PROVE Relies(q)'
  <2>1. Relies(q) /\ Stays(q)
    BY DEF IInv, StepsInv
  <2>2. (Creates(q) /\ Consumes(q))'
    BY <2>1 DEF Relies, Stays, Files, Creates, Unheard, Consumes, RecordsOf
  <2>3. (Spends(q) /\ Settles(q) /\ Candidates(q))'
    BY <2>1 DEF Relies, Stays, Files, Spends, Settles, Candidates
  <2>. QED
    BY <2>2, <2>3 DEF Relies
<1>3. ASSUME NEW q \in Procs, NEW r \in Procs PROVE Together(q, r)'
  <2>1. Together(q, r)
    BY DEF IInv, Apart
  <2>2. CASE q # p /\ r # p
    BY <2>1, <2>2 DEF Together, Stays
  <2>3. CASE q = r
    BY <2>3 DEF Together
  <2>. QED
    BY <2>2, <2>3
<1>. QED
  BY <1>1, <1>2, <1>3 DEF IInv, StepsInv, Apart

\* An exception leaves p where nothing more is asked of it.
LEMMA RaiseQuiet ==
  ASSUME IInv, TypeOK', NEW p \in Procs, pc[p] \in Steps, Raises(p),
         UNCHANGED Files, temps' = temps \ {p}
  PROVE  IInv'
<1>1. /\ pc'[p] \in {"idle", "report", "recover", "alRead", "fnRead", "bgRead", "mutCheck", "fnReread"}
      /\ pc'[p] = "fnRead" => target'[p] = "failed"
      /\ pc'[p] = "bgRead" => pc[p] = "bgUnlock"
      /\ pc'[p] = "mutCheck" => pc[p] = "rcUnlock"
      /\ pc'[p] = "fnReread" => pc[p] = "fnUnlock" /\ target'[p] = target[p]
      /\ pc[p] \in Early => pc'[p] \in Early
  <2>1. Lands(p) /\ target[p] \in Terminal
    BY DEF Raises, IInv, TypeOK
  <2>. QED
    BY <2>1, HandlerTable DEF Lands, Early, Mutating, Finishing, Terminal
<1>2. Relies(p) /\ aid'[p] = aid[p] /\ p \notin temps'
  BY DEF IInv, StepsInv, Raises
<1>3. (Creates(p) /\ Candidates(p))'
  BY <1>1, <1>2 DEF Creates, Candidates, Renaming
<1>4. Spends(p)' /\ Consumes(p)'
  <2>1. pc[p] = "fnUnlock" => machine[aid[p]] \in Terminal
    BY <1>2 DEF Relies, Settles, Settling, IInv, TypeOK
  <2>2. Spends(p)'
    BY <1>1, <1>2, <2>1 DEF Relies, Spends, Spent, Mutating, Finishing, Files
  <2>3. Consumes(p)'
    BY <1>1, <1>2 DEF Relies, Consumes, Files, Consumed, Mutating, RecordsOf
  <2>. QED
    BY <2>2, <2>3
<1>5. Settles(p)'
  <2>1. pc[p] = "fnUnlock" /\ target[p] = "completed" => doc.applied
    <3>1. pc[p] = "fnUnlock" => aid[p] \in Ids
      BY DEF IInv, TypeOK
    <3>2. pc[p] = "fnUnlock" => machine[aid[p]] = target[p]
      BY <1>2 DEF Relies, Settles, Settling
    <3>. QED
      BY <3>1, <3>2 DEF IInv, FilesInv, CompletedIsApplied
  <2>. QED
    BY <1>1, <1>2, <2>1 DEF Relies, Settles, Files, Finishing, Settling
<1>6. ASSUME NEW q \in Procs \ {p} PROVE Stays(q)
  <2>1. pc \in [Procs -> Steps \cup {"idle"}] /\ target \in [Procs -> Terminal]
    BY DEF IInv, TypeOK
  <2>. QED
    BY <2>1 DEF Raises, Stays
<1>7. ASSUME NEW q \in Procs \ {p} PROVE Together(p, q)' /\ Together(q, p)'
  <2>1. Together(q, p) /\ Stays(q)
    BY <1>6 DEF IInv, Apart
  <2>. QED
    BY <1>1, <1>2, <2>1 DEF Together, Stays
<1>. QED
  BY <1>3, <1>4, <1>5, <1>6, <1>7, QuietStep DEF Relies

-----------------------------------------------------------------------------
(* Files that change.                                                      *)

\* The files stay right, and so does what the other processes rely on.
Kept(p) ==
    FilesInv' /\ MutationAuthorized' /\ \A q \in Procs \ {p} : Relies(q)'

\* The steps two processes do not take together with some other step.
Guarded == {"auWrite", "bgLock", "bgMachine", "fnLock", "fnMachine"} \cup Renaming

LEMMA FileStep ==
  ASSUME IInv, TypeOK', NEW p \in Procs, \A q \in Procs \ {p} : Stays(q), Kept(p), Relies(p)',
         aid'[p] = aid[p], pc[p] \notin Early, pc'[p] \notin Guarded
  PROVE  IInv'
<1>1. ASSUME NEW q \in Procs, NEW r \in Procs PROVE Together(q, r)'
  <2>1. Together(q, r)
    BY DEF IInv, Apart
  <2>2. CASE q # p /\ r # p
    BY <2>1, <2>2 DEF Together, Stays
  <2>3. CASE q = r
    BY <2>3 DEF Together
  <2>4. CASE q = p /\ r # p
    BY <2>4 DEF Together, Guarded, Renaming
  <2>5. CASE q # p /\ r = p
    <3>1. Stays(q)
      BY <2>5
    <3>. QED
      BY <2>1, <2>5, <3>1 DEF Together, Stays, Guarded, Renaming
  <2>. QED
    BY <2>2, <2>3, <2>4, <2>5
<1>. QED
  BY <1>1 DEF Kept, IInv, StepsInv, Apart

\* What is known of a process that works on an authorization.
LEMMA Worker ==
  ASSUME IInv, NEW q \in Procs, pc[q] \notin {"idle", "auRead"}
  PROVE  aid[q] \in drawn /\ aid[q] \in Ids /\ aid[q] # NoId
BY IdsAssumption DEF IInv, TypeOK

\* The project's record is created of an authorization nothing tells of.
LEMMA ActiveCreated ==
  ASSUME IInv, NEW p \in Procs, \A q \in Procs \ {p} : Stays(q), pc[p] = "auWrite",
         active = NoActive, NEW state \in {"torn", "preparing"},
         active' = [id |-> aid[p], state |-> state],
         UNCHANGED <<doc, history, machine, records, drawn>>
  PROVE  Kept(p)
<1>1. aid[p] \in drawn /\ aid[p] \in Ids /\ Unheard(aid[p]) /\ active.id \notin Ids
  BY Worker, IdsAssumption DEF IInv, StepsInv, Relies, Creates, NoActive
<1>2. FilesInv' /\ MutationAuthorized'
  BY <1>1 DEF IInv, FilesInv, EvidenceAgrees, ActiveFollows, SettledIsKept, UndrawnIsUnheard, Unheard,
         CompletedIsApplied, MutationAuthorized, RecordsOf, Terminal
<1>3. ASSUME NEW q \in Procs \ {p} PROVE Relies(q)'
  <2>1. Relies(q) /\ Stays(q) /\ Together(p, q)
    BY DEF IInv, StepsInv, Apart
  <2>2. pc[q] \notin Early => aid[q] # aid[p] /\ aid[q] \in Ids
    BY <2>1, Worker DEF Together, Early
  <2>3. Creates(q)'
    BY <1>1, <2>1, <2>2 DEF Relies, Creates, Stays, Unheard, Early
  <2>4. Spends(q)' /\ Settles(q)'
    BY <1>1, <2>1, <2>2 DEF Relies, Spends, Settles, Stays, Early
  <2>5. Consumes(q)' /\ Candidates(q)'
    BY <2>1 DEF Relies, Consumes, RecordsOf, Candidates, Stays
  <2>. QED
    BY <2>3, <2>4, <2>5 DEF Relies
<1>. QED
  BY <1>2, <1>3 DEF Kept

\* The receipt of an authorization is created.
LEMMA ReceiptCreated ==
  ASSUME IInv, NEW p \in Procs, \A q \in Procs \ {p} : Stays(q), pc[p] = "auReceipt",
         machine[aid[p]] = "none", NEW state \in {"torn", "authorized"},
         machine' = [machine EXCEPT ![aid[p]] = state],
         UNCHANGED <<doc, active, history, records, drawn>>
  PROVE  Kept(p)
<1>. DEFINE i == aid[p]
<1>1. i \in drawn /\ i \in Ids /\ active = [id |-> i, state |-> "preparing"]
  BY Worker DEF IInv, StepsInv, Relies, Creates
<1>2. machine \in [Ids -> Terminal \cup {"none", "torn", "authorized", "applying"}]
  BY DEF IInv, TypeOK
<1>3. FilesInv' /\ MutationAuthorized'
  BY SMTT(30), <1>1, <1>2 DEF IInv, FilesInv, EvidenceAgrees, ActiveFollows, SettledIsKept, UndrawnIsUnheard,
         Unheard, CompletedIsApplied, MutationAuthorized, RecordsOf, Terminal
<1>4. ASSUME NEW q \in Procs \ {p} PROVE Relies(q)'
  <2>1. Relies(q) /\ Stays(q) /\ Together(q, p)
    BY DEF IInv, StepsInv, Apart
  <2>2. pc[q] \notin {"idle", "auRead"} => aid[q] \in Ids
    BY Worker
  <2>3. Creates(q)'
    BY <1>1, <1>2, <2>1, <2>2 DEF Relies, Creates, Stays, Unheard, Together, Early
  <2>4. Spends(q)'
    BY <1>1, <1>2, <2>1, <2>2 DEF Relies, Spends, Stays, Spent, Mutating, Finishing, Terminal
  <2>5. Settles(q)'
    <3>1. target[q] \in Terminal
      BY DEF IInv, TypeOK
    <3>. QED
      BY <1>1, <1>2, <2>1, <2>2, <3>1 DEF Relies, Settles, Stays, Settling, Finishing, Terminal
  <2>6. Consumes(q)' /\ Candidates(q)'
    BY <2>1 DEF Relies, Consumes, RecordsOf, Candidates, Stays
  <2>. QED
    BY <2>3, <2>4, <2>5, <2>6 DEF Relies
<1>. QED
  BY <1>3, <1>4 DEF Kept

\* A candidate replaces the project's record.
LEMMA ActiveReplaced ==
  ASSUME IInv, NEW p \in Procs, \A q \in Procs \ {p} : Stays(q), pc[p] \in Renaming,
         NEW state, pc[p] = "auRename" => state = "authorized",
         pc[p] # "auRename" => state = "applying",
         active' = [id |-> aid[p], state |-> state],
         UNCHANGED <<doc, history, machine, records, drawn>>
  PROVE  Kept(p)
<1>. DEFINE i == aid[p]
<1>1. /\ i \in drawn /\ i \in Ids /\ active.id = i /\ active.state \in {"preparing", "authorized", "applying"}
      /\ machine[i] = state
  BY Worker DEF IInv, StepsInv, Relies, Creates, Spends, Renaming
<1>2. state \in {"authorized", "applying"} /\ active'.id = i /\ active'.state = state
  BY DEF Renaming
<1>3. FilesInv' /\ MutationAuthorized'
  BY <1>1, <1>2 DEF IInv, FilesInv, EvidenceAgrees, ActiveFollows, SettledIsKept, UndrawnIsUnheard,
         Unheard, CompletedIsApplied, MutationAuthorized, RecordsOf, Terminal
<1>4. ASSUME NEW q \in Procs \ {p} PROVE Relies(q)'
  <2>1. Relies(q) /\ Stays(q)
    BY DEF IInv, StepsInv
  <2>2. Creates(q)'
    BY <1>1, <1>2, <2>1 DEF Relies, Creates, Stays, Unheard, Renaming, Spends
  <2>3. Spends(q)'
    BY <1>1, <1>2, <2>1 DEF Relies, Spends, Stays
  <2>4. Settles(q)'
    BY <1>1, <1>2, <2>1 DEF Relies, Spends, Spent, Settles, Stays, Finishing, Terminal
  <2>5. Consumes(q)' /\ Candidates(q)'
    BY <2>1 DEF Relies, Consumes, RecordsOf, Candidates, Stays
  <2>. QED
    BY <2>2, <2>3, <2>4, <2>5 DEF Relies
<1>. QED
  BY <1>3, <1>4 DEF Kept

\* A Guardian record is created.
LEMMA RecordCreated ==
  ASSUME IInv, NEW p \in Procs, \A q \in Procs \ {p} : Stays(q), pc[p] = "giIssue",
         NEW r \in Records, records[r] = Free, NEW state \in {"torn", "active"},
         records' = [records EXCEPT ![r] = [id |-> aid[p], state |-> state]],
         UNCHANGED <<doc, active, history, machine, drawn>>
  PROVE  Kept(p)
<1>1. aid[p] \in drawn /\ aid[p] \in Ids
  BY Worker
<1>2. \A t \in Records : t # r => records'[t] = records[t]
  BY DEF IInv, TypeOK
<1>3. records'[r] = [id |-> aid[p], state |-> state] /\ records[r].id = NoId /\ records[r].state = "none"
  BY DEF IInv, TypeOK, Free
<1>4. \A i \in Ids \cup {NoId} : RecordsOf(i, "consumed")' = RecordsOf(i, "consumed")
  <2>. SUFFICES ASSUME NEW i, NEW t \in Records
                PROVE  records'[t] = [id |-> i, state |-> "consumed"]
                           <=> records[t] = [id |-> i, state |-> "consumed"]
    BY DEF RecordsOf
  <2>. QED
    BY <1>2, <1>3
<1>5. FilesInv' /\ MutationAuthorized'
  BY <1>1, <1>2, <1>3, <1>4 DEF IInv, FilesInv, EvidenceAgrees, ActiveFollows, SettledIsKept,
         UndrawnIsUnheard, Unheard, CompletedIsApplied, MutationAuthorized
<1>6. ASSUME NEW q \in Procs \ {p} PROVE Relies(q)'
  <2>1. Relies(q) /\ Stays(q) /\ Together(q, p)
    BY DEF IInv, StepsInv, Apart
  <2>2. pc[q] \notin {"idle", "auRead"} => aid[q] \in Ids /\ aid[q] # NoId
    BY Worker
  <2>3. Creates(q)'
    BY <1>2, <1>3, <2>1 DEF Relies, Creates, Stays, Unheard, Together, Early
  <2>4. Consumes(q)'
    BY <1>2, <1>3, <1>4, <2>1, <2>2 DEF Relies, Consumes, Stays, Consumed, Mutating
  <2>5. Spends(q)' /\ Settles(q)' /\ Candidates(q)'
    BY <2>1 DEF Relies, Spends, Settles, Candidates, Stays
  <2>. QED
    BY <2>3, <2>4, <2>5 DEF Relies
<1>. QED
  BY <1>5, <1>6 DEF Kept

\* Records keep their authorization, and a consumed one stays consumed.
RecordsMove ==
    \A r \in Records :
        /\ records'[r].id = records[r].id
        /\ records'[r].state = "torn" => records[r].state = "torn"
        /\ records[r].state = "consumed" => records'[r] = records[r]

LEMMA RecordMoved ==
  ASSUME IInv, RecordsMove, UNCHANGED <<doc, active, history, machine, drawn>>
  PROVE  /\ FilesInv' /\ MutationAuthorized'
         /\ \A q \in Procs : Stays(q) => Relies(q)'
<1>1. \A i : RecordsOf(i, "consumed") # {} => RecordsOf(i, "consumed")' # {}
  BY DEF RecordsMove, RecordsOf
<1>2. FilesInv' /\ MutationAuthorized'
  BY <1>1 DEF RecordsMove, IInv, FilesInv, EvidenceAgrees, ActiveFollows, SettledIsKept,
         UndrawnIsUnheard, Unheard, CompletedIsApplied, MutationAuthorized
<1>3. ASSUME NEW q \in Procs, Stays(q) PROVE Relies(q)'
  <2>1. Relies(q)
    BY DEF IInv, StepsInv
  <2>2. Creates(q)'
    BY <1>3, <2>1 DEF RecordsMove, Relies, Creates, Stays, Unheard
  <2>3. Consumes(q)'
    BY <1>1, <1>3, <2>1 DEF RecordsMove, Relies, Consumes, Stays
  <2>4. Spends(q)' /\ Settles(q)' /\ Candidates(q)'
    BY <1>3, <2>1 DEF Relies, Spends, Settles, Candidates, Stays
  <2>. QED
    BY <2>2, <2>3, <2>4 DEF Relies
<1>. QED
  BY <1>2, <1>3

\* The receipt of an authorized authorization says that it is spent.
LEMMA ReceiptSpent ==
  ASSUME IInv, NEW p \in Procs, \A q \in Procs \ {p} : Stays(q), pc[p] = "bgMachine",
         machine[aid[p]] = "authorized", machine' = [machine EXCEPT ![aid[p]] = "applying"],
         UNCHANGED <<doc, active, history, records, drawn>>
  PROVE  Kept(p)
<1>. DEFINE i == aid[p]
<1>1. i \in drawn /\ i \in Ids /\ active.id = i /\ active.state \in {"authorized", "applying"}
  BY Worker DEF IInv, StepsInv, Relies, Spends, FilesInv, EvidenceAgrees
<1>2. machine \in [Ids -> Terminal \cup {"none", "torn", "authorized", "applying"}]
  BY DEF IInv, TypeOK
<1>3. FilesInv' /\ MutationAuthorized'
  BY <1>1, <1>2 DEF IInv, FilesInv, EvidenceAgrees, ActiveFollows, SettledIsKept, UndrawnIsUnheard,
         Unheard, CompletedIsApplied, MutationAuthorized, RecordsOf, Terminal
<1>4. ASSUME NEW q \in Procs \ {p} PROVE Relies(q)'
  <2>1. Relies(q) /\ Stays(q) /\ Together(q, p)
    BY DEF IInv, StepsInv, Apart
  <2>2. pc[q] \notin {"idle", "auRead"} => aid[q] \in Ids
    BY Worker
  <2>3. Creates(q)'
    BY <1>1, <1>2, <2>1, <2>2 DEF Relies, Creates, Stays, Unheard, Together
  <2>4. Spends(q)'
    BY <1>1, <1>2, <2>1, <2>2 DEF Relies, Spends, Stays, Spent, Mutating, Finishing, Terminal
  <2>5. Settles(q)'
    <3>1. target[q] \in Terminal
      BY DEF IInv, TypeOK
    <3>. QED
      BY <1>1, <1>2, <2>1, <2>2, <3>1 DEF Relies, Settles, Stays, Settling, Finishing, Terminal
  <2>6. Consumes(q)' /\ Candidates(q)'
    BY <2>1 DEF Relies, Consumes, RecordsOf, Candidates, Stays
  <2>. QED
    BY <2>3, <2>4, <2>5, <2>6 DEF Relies
<1>. QED
  BY <1>3, <1>4 DEF Kept

\* The receipt of a spent authorization is settled.
LEMMA ReceiptSettled ==
  ASSUME IInv, NEW p \in Procs, \A q \in Procs \ {p} : Stays(q), pc[p] = "fnMachine",
         machine[aid[p]] = "applying", machine' = [machine EXCEPT ![aid[p]] = target[p]],
         UNCHANGED <<doc, active, history, records, drawn>>
  PROVE  Kept(p)
<1>. DEFINE i == aid[p]
<1>1. /\ i \in drawn /\ i \in Ids /\ active.id = i /\ active.state = "applying"
      /\ target[p] \in Terminal /\ (target[p] = "completed" => doc.applied)
  BY Worker DEF IInv, TypeOK, StepsInv, Relies, Settles, Finishing, FilesInv, EvidenceAgrees
<1>2. machine \in [Ids -> Terminal \cup {"none", "torn", "authorized", "applying"}]
  BY DEF IInv, TypeOK
<1>3. history[i] \notin Terminal
  BY <1>1 DEF IInv, FilesInv, EvidenceAgrees, Terminal
<1>4. FilesInv' /\ MutationAuthorized'
  <2>1. \A j \in Ids : machine'[j] = IF j = i THEN target[p] ELSE machine[j]
    BY <1>1, <1>2
  <2>2. (EvidenceAgrees /\ ActiveFollows)'
    BY <1>1, <1>3, <2>1 DEF IInv, FilesInv, EvidenceAgrees, ActiveFollows, Terminal
  <2>3. (SettledIsKept /\ UndrawnIsUnheard)'
    BY <1>1, <2>1 DEF IInv, FilesInv, SettledIsKept, UndrawnIsUnheard, Unheard
  <2>4. CompletedIsApplied' /\ MutationAuthorized'
    BY <1>1, <2>1 DEF IInv, FilesInv, CompletedIsApplied, MutationAuthorized, RecordsOf
  <2>. QED
    BY <2>2, <2>3, <2>4 DEF FilesInv
<1>5. ASSUME NEW q \in Procs \ {p} PROVE Relies(q)'
  <2>1. Relies(q) /\ Stays(q) /\ Together(q, p)
    BY DEF IInv, StepsInv, Apart
  <2>2. pc[q] \notin {"idle", "auRead"} => aid[q] \in Ids
    BY Worker
  <2>3. Creates(q)'
    BY <1>1, <1>2, <2>1, <2>2 DEF Relies, Creates, Stays, Unheard, Terminal
  <2>4. Spends(q)'
    BY <1>1, <1>2, <2>1, <2>2 DEF Relies, Spends, Stays, Spent, Mutating, Finishing, Terminal, Together
  <2>5. Settles(q)'
    <3>1. target[q] \in Terminal
      BY DEF IInv, TypeOK
    <3>. QED
      BY <1>1, <1>2, <2>1, <2>2, <3>1 DEF Relies, Settles, Stays, Settling, Finishing, Terminal
  <2>6. Consumes(q)' /\ Candidates(q)'
    BY <2>1 DEF Relies, Consumes, RecordsOf, Candidates, Stays
  <2>. QED
    BY <2>3, <2>4, <2>5, <2>6 DEF Relies
<1>. QED
  BY <1>4, <1>5 DEF Kept

\* The terminal record is created.
LEMMA HistoryCreated ==
  ASSUME IInv, NEW p \in Procs, \A q \in Procs \ {p} : Stays(q), pc[p] \in {"fnHistory", "alHistory"},
         history[aid[p]] = "none", NEW state \in Terminal \cup {"torn"},
         state \in Terminal => state = machine[aid[p]],
         history' = [history EXCEPT ![aid[p]] = state],
         UNCHANGED <<doc, active, machine, records, drawn>>
  PROVE  Kept(p)
<1>. DEFINE i == aid[p]
<1>1. i \in drawn /\ i \in Ids /\ machine[i] \in Terminal
  BY Worker DEF IInv, TypeOK, StepsInv, Relies, Settles, Settling, Terminal
<1>2. history \in [Ids -> Terminal \cup {"none", "torn"}]
  BY DEF IInv, TypeOK
<1>3. FilesInv' /\ MutationAuthorized'
  BY SMTT(30), <1>1, <1>2 DEF IInv, FilesInv, EvidenceAgrees, ActiveFollows, SettledIsKept, UndrawnIsUnheard,
         Unheard, CompletedIsApplied, MutationAuthorized, RecordsOf, Terminal
<1>4. ASSUME NEW q \in Procs \ {p} PROVE Relies(q)'
  <2>1. Relies(q) /\ Stays(q)
    BY DEF IInv, StepsInv
  <2>2. pc[q] \notin {"idle", "auRead"} => aid[q] \in Ids
    BY Worker
  <2>3. Creates(q)'
    BY <1>1, <1>2, <2>1, <2>2 DEF Relies, Creates, Stays, Unheard, Terminal
  <2>4. Settles(q)'
    <3>1. target[q] \in Terminal
      BY DEF IInv, TypeOK
    <3>. QED
      BY <1>2, <2>1, <2>2, <3>1 DEF Relies, Settles, Stays, Terminal
  <2>5. Spends(q)' /\ Consumes(q)' /\ Candidates(q)'
    BY <2>1 DEF Relies, Spends, Consumes, RecordsOf, Candidates, Stays
  <2>. QED
    BY <2>3, <2>4, <2>5 DEF Relies
<1>. QED
  BY <1>3, <1>4 DEF Kept

\* The project's record goes, once the terminal record is there.
LEMMA ActiveRemoved ==
  ASSUME IInv, NEW p \in Procs, \A q \in Procs \ {p} : Stays(q), pc[p] \in {"fnRemove", "alRemove"},
         active = [id |-> aid[p], state |-> "applying"], active' = NoActive,
         UNCHANGED <<doc, history, machine, records, drawn>>
  PROVE  Kept(p)
<1>. DEFINE i == aid[p]
<1>1. i \in Ids /\ machine[i] \in Terminal /\ history[i] = machine[i]
  BY Worker DEF IInv, TypeOK, StepsInv, Relies, Settles, Settling, Terminal
<1>2. active.id = i /\ active.state = "applying" /\ active'.id = NoId /\ active'.state = "none"
  BY DEF NoActive
<1>3. FilesInv' /\ MutationAuthorized'
  BY <1>1, <1>2, IdsAssumption DEF IInv, FilesInv, EvidenceAgrees, ActiveFollows, SettledIsKept,
         UndrawnIsUnheard, Unheard, CompletedIsApplied, MutationAuthorized, RecordsOf, Terminal
<1>4. ASSUME NEW q \in Procs \ {p} PROVE Relies(q)'
  <2>1. Relies(q) /\ Stays(q)
    BY DEF IInv, StepsInv
  <2>2. pc[q] \notin {"idle", "auRead"} => aid[q] \in Ids /\ aid[q] # NoId
    BY Worker
  <2>3. Creates(q)'
    BY <1>1, <1>2, <2>1, <2>2 DEF Relies, Creates, Stays, Unheard, Terminal
  <2>4. Spends(q)'
    BY <1>1, <1>2, <2>1, <2>2 DEF Relies, Spends, Stays, Terminal
  <2>5. Settles(q)'
    BY <1>2, <2>1, <2>2 DEF Relies, Settles, Stays
  <2>6. Consumes(q)' /\ Candidates(q)'
    BY <2>1 DEF Relies, Consumes, RecordsOf, Candidates, Stays
  <2>. QED
    BY <2>3, <2>4, <2>5, <2>6 DEF Relies
<1>. QED
  BY <1>3, <1>4 DEF Kept

\* The statement enters the documents, or they are edited by hand.
LEMMA DocumentsMoved ==
  ASSUME IInv, doc'.applied = doc.applied \/ (MutationAuthorized' /\ doc'.applied = TRUE),
         UNCHANGED <<active, history, machine, records, drawn>>
  PROVE  /\ FilesInv' /\ MutationAuthorized'
         /\ \A q \in Procs : Stays(q) => Relies(q)'
<1>1. FilesInv' /\ MutationAuthorized'
  BY DEF IInv, FilesInv, EvidenceAgrees, ActiveFollows, SettledIsKept, UndrawnIsUnheard,
         Unheard, CompletedIsApplied, MutationAuthorized, RecordsOf
<1>2. ASSUME NEW q \in Procs, Stays(q) PROVE Relies(q)'
  <2>1. Relies(q)
    BY DEF IInv, StepsInv
  <2>2. Creates(q)' /\ Consumes(q)'
    BY <1>2, <2>1 DEF Relies, Creates, Consumes, RecordsOf, Stays, Unheard
  <2>3. Spends(q)' /\ Settles(q)' /\ Candidates(q)'
    BY <1>2, <2>1 DEF Relies, Spends, Settles, Candidates, Stays
  <2>. QED
    BY <2>2, <2>3 DEF Relies
<1>. QED
  BY <1>1, <1>2

-----------------------------------------------------------------------------
(* The types.                                                              *)

\* The types of the files, and of the bounds.
FilesType ==
    /\ doc \in Docs /\ accepted \in Docs
    /\ active \in Actives
    /\ history \in [Ids -> Terminal \cup {"none", "torn"}]
    /\ temps \subseteq Procs /\ litter \in BOOLEAN
    /\ machine \in [Ids -> Terminal \cup {"none", "torn", "authorized", "applying"}]
    /\ records \in [Records -> [id : Ids, state : {"torn", "active", "expired", "consumed"}]
                               \cup {Free}]
    /\ gtemps \subseteq Procs /\ glitter \in BOOLEAN
    /\ edits \in Nat /\ crashes \in Nat /\ faults \in Nat

LEMMA TypeFiles == TypeOK => FilesType
BY DEF TypeOK, FilesType

\* An exception keeps the types of the control.
LEMMA RaiseType ==
  ASSUME TypeOK, NEW p \in Procs, pc[p] \in Steps, Raise(p), FilesType'
  PROVE  TypeOK'
<1>1. Raises(p) /\ pc'[p] \in Steps \cup {"idle"} /\ target'[p] \in Terminal
  BY RaiseRaises
<1>2. pc'[p] # "auRead" /\ (aid[p] \in drawn \/ pc'[p] = "idle")
  BY <1>1, HandlerTable DEF TypeOK, Raises, Lands, Mutating, Finishing
<1>3. pc' \in [Procs -> Steps \cup {"idle"}] /\ target' \in [Procs -> Terminal]
  BY <1>1 DEF TypeOK, Raises
<1>4. ASSUME NEW q \in Procs, pc'[q] \in Steps \ {"auRead"} PROVE aid'[q] \in drawn'
  <2>1. aid' = aid /\ drawn' = drawn /\ "idle" \notin Steps
    BY <1>1, StepNames DEF Raises
  <2>2. q # p => pc'[q] = pc[q]
    BY <1>1 DEF TypeOK, Raises
  <2>. QED
    BY <1>2, <1>4, <2>1, <2>2 DEF TypeOK
<1>. QED
  BY <1>1, <1>3, <1>4 DEF TypeOK, FilesType, Raises

\* So does a step that goes on.
LEMMA MoveType ==
  ASSUME TypeOK, NEW p \in Procs, NEW to \in Steps \cup {"idle"}, pc' = [pc EXCEPT ![p] = to],
         to \in {"idle", "auRead"} \/ pc[p] \notin {"idle", "auRead"},
         lock' \in [Ids -> BOOLEAN], UNCHANGED <<locals, drawn>>, FilesType'
  PROVE  TypeOK'
<1>1. pc' \in [Procs -> Steps \cup {"idle"}]
  BY DEF TypeOK
<1>2. ASSUME NEW q \in Procs, pc'[q] \in Steps \ {"auRead"} PROVE aid'[q] \in drawn'
  <2>1. aid' = aid /\ drawn' = drawn /\ "idle" \notin Steps
    BY StepNames DEF locals
  <2>2. pc'[q] = IF q = p THEN to ELSE pc[q]
    BY DEF TypeOK
  <2>. QED
    BY <1>2, <2>1, <2>2 DEF TypeOK
<1>. QED
  BY <1>1, <1>2 DEF TypeOK, FilesType, locals

-----------------------------------------------------------------------------
(* Steps that change no file but candidates and locks.                     *)

FilesStay == UNCHANGED <<doc, accepted, audit, machine, guardian, counters>>

LEMMA FilesStayType == TypeOK /\ FilesStay => FilesType'
BY DEF TypeOK, FilesStay, FilesType, audit, guardian, counters

\* p goes on.
Goes(p) ==
    /\ pc' = [pc EXCEPT ![p] = pc'[p]]
    /\ lock' \in [Ids -> BOOLEAN]
    /\ UNCHANGED <<locals, drawn>>

\* p throws.
LEMMA Refused ==
  ASSUME IInv, NEW p \in Procs, pc[p] \in Steps \ Renaming, Raise(p), FilesStay
  PROVE  IInv'
<1>1. TypeOK'
  BY RaiseType, FilesStayType DEF IInv
<1>2. Raises(p)
  BY RaiseRaises DEF IInv
<1>3. UNCHANGED Files /\ temps' = temps \ {p}
  BY <1>2 DEF FilesStay, Files, audit, guardian, Raises, IInv, StepsInv, Relies, Candidates
<1>. QED
  BY <1>1, <1>2, <1>3, RaiseQuiet

\* The conditions under which p may take the step it goes to.
Admitted(p) ==
    /\ pc'[p] \in Early \/ pc[p] \notin Early \/ ~Unheard(aid[p])
    /\ pc'[p] \in {"bgLock", "bgMachine"} => pc[p] = "bgLock" \/ temps = {}
    /\ pc'[p] \in {"fnLock", "fnMachine"} => pc[p] = "fnLock" \/ temps = {}

LEMMA Passed ==
  ASSUME IInv, NEW p \in Procs, pc[p] \in Steps \ (Renaming \cup {"auRead"}),
         pc'[p] \in Steps \ (Renaming \cup {"auRead", "auWrite"}),
         Goes(p), FilesStay, Relies(p)', Admitted(p)
  PROVE  IInv'
<1>1. TypeOK'
  BY MoveType, FilesStayType, StepNames DEF IInv, Goes
<1>2. UNCHANGED Files /\ UNCHANGED <<temps, aid, rid, target>>
  BY DEF FilesStay, Files, audit, guardian, Goes, locals
<1>3. ASSUME NEW q \in Procs \ {p} PROVE Stays(q)
  BY <1>2 DEF Goes, Stays, IInv, TypeOK
<1>4. ASSUME NEW q \in Procs \ {p} PROVE Together(p, q)' /\ Together(q, p)'
  <2>1. Together(q, p) /\ Stays(q) /\ Creates(q) /\ Candidates(q)
    BY <1>3 DEF IInv, Apart, StepsInv, Relies
  <2>2. Together(p, q)'
    BY DEF Together, Renaming
  <2>3. temps = {} => pc[q] \notin Renaming
    BY <2>1 DEF Candidates
  <2>. QED
    BY <1>2, <2>1, <2>2, <2>3 DEF Together, Stays, Admitted, Creates, Renaming
<1>. QED
  BY <1>1, <1>2, <1>3, <1>4, QuietStep

\* The steps that rely on no more than the step before them.
Follows == {<<"auReread", "auTemp">>, <<"auVerify", "giFind">>, <<"giFind", "giIssue">>,
            <<"plan", "ready">>, <<"ready", "readyAgain">>, <<"readyAgain", "guFind">>,
            <<"bgLock", "bgMachine">>, <<"bgUnlock", "bgRead">>, <<"bgRead", "bgTemp">>,
            <<"rcRead", "rcLock">>, <<"rcLock", "rcDecide">>, <<"rcUnlock", "mutCheck">>,
            <<"alRead", "alLock">>, <<"alLock", "alDecide">>, <<"alUnlock", "report">>,
            <<"mutCheck", "mutRename">>, <<"fnLock", "fnMachine">>,
            <<"fnUnlock", "fnReread">>, <<"fnReread", "fnHistory">>}

LEMMA Followed ==
  ASSUME IInv, NEW p \in Procs, <<pc[p], pc'[p]>> \in Follows, Goes(p), FilesStay,
         pc'[p] \in {"readyAgain", "alLock"} => active.id = aid[p]
  PROVE  IInv'
<1>1. /\ pc[p] \in Steps \ (Renaming \cup {"auRead"})
      /\ pc'[p] \in Steps \ (Renaming \cup {"auRead", "auWrite"})
  BY StepNames DEF Follows, Renaming
<1>2. Admitted(p)
  BY DEF Admitted, Follows, Early, Unheard
<1>3. UNCHANGED Files /\ UNCHANGED <<temps, aid, rid, target>> /\ Relies(p)
  BY DEF FilesStay, Files, audit, guardian, Goes, locals, IInv, StepsInv
<1>4. pc[p] = "fnUnlock" => machine[aid[p]] \in Terminal /\ (target[p] = "completed" => doc.applied)
  <2>1. pc[p] = "fnUnlock" => machine[aid[p]] = target[p] /\ target[p] \in Terminal /\ aid[p] \in Ids
    BY <1>3, Worker DEF Relies, Settles, Settling, IInv, TypeOK
  <2>. QED
    BY <2>1 DEF IInv, FilesInv, CompletedIsApplied
<1>5. Creates(p)' /\ Candidates(p)'
  BY <1>1, <1>3 DEF Follows, Relies, Creates, Candidates, Files, Renaming
<1>6. Consumes(p)' /\ Spends(p)'
  BY <1>1, <1>3, <1>4 DEF Follows, Relies, Consumes, Spends, Files, Consumed, Spent, RecordsOf,
         Mutating, Finishing
<1>7. Settles(p)'
  BY <1>1, <1>3, <1>4 DEF Follows, Relies, Settles, Files, Settling, Finishing
<1>. QED
  BY <1>1, <1>2, <1>5, <1>6, <1>7, Passed DEF Relies

\* A check, or a step on a lock, after which no more is relied on.
LEMMA CheckFollowed ==
  ASSUME IInv, NEW p \in Procs, NEW from \in Steps, NEW to, <<from, to>> \in Follows,
         pc[p] = from,
         \/ Raise(p)
         \/ /\ pc' = [pc EXCEPT ![p] = to] /\ lock' \in [Ids -> BOOLEAN] /\ UNCHANGED <<locals, drawn>>
            /\ to \in {"readyAgain", "alLock"} => active.id = aid[p],
         FilesStay
  PROVE  IInv'
<1>1. CASE Raise(p)
  BY <1>1, Refused DEF Follows, Renaming
<1>2. CASE /\ pc' = [pc EXCEPT ![p] = to] /\ lock' \in [Ids -> BOOLEAN] /\ UNCHANGED <<locals, drawn>>
           /\ to \in {"readyAgain", "alLock"} => active.id = aid[p]
  <2>1. pc'[p] = to /\ Goes(p)
    BY <1>2 DEF Goes, IInv, TypeOK
  <2>. QED
    BY <1>2, <2>1, Followed
<1>. QED
  BY <1>1, <1>2

\* withMachineLock
LEMMA LockFollowed ==
  ASSUME IInv, NEW p \in Procs, NEW from \in Steps, NEW to, <<from, to>> \in Follows,
         to \notin {"readyAgain", "alLock"}, Lock(p, from, to) \/ Unlock(p, from, to)
  PROVE  IInv'
<1>1. pc[p] = from /\ FilesStay
  BY DEF Lock, Unlock, Go, FilesStay
<1>2. CASE Raise(p)
  BY <1>1, <1>2, CheckFollowed
<1>3. ASSUME NEW held \in BOOLEAN, lock' = [lock EXCEPT ![aid[p]] = held], Go(p, from, to),
             UNCHANGED <<locals, drawn>>
      PROVE  IInv'
  <2>1. lock' \in [Ids -> BOOLEAN]
    BY <1>3 DEF IInv, TypeOK
  <2>2. pc' = [pc EXCEPT ![p] = to]
    BY <1>3 DEF Go
  <2>. QED
    BY <1>1, <1>3, <2>1, <2>2, CheckFollowed
<1>. QED
  BY <1>2, <1>3 DEF Lock, Unlock

\* The readiness of an authorization.
LEMMA ReadyStep ==
  ASSUME IInv, NEW p \in Procs,
         \/ Check(p, "plan", Current /\ accepted = doc, "ready")
         \/ Check(p, "ready", Ready(aid[p]), "readyAgain")
         \/ Check(p, "readyAgain", Ready(aid[p]), "guFind")
  PROVE  IInv'
<1>0. lock \in [Ids -> BOOLEAN]
  BY DEF IInv, TypeOK
<1>1. CASE Check(p, "plan", Current /\ accepted = doc, "ready")
  BY <1>0, <1>1, CheckFollowed, StepNames DEF Check, Go, Follows, FilesStay
<1>2. CASE Check(p, "ready", Ready(aid[p]), "readyAgain")
  BY <1>0, <1>2, CheckFollowed, StepNames DEF Check, Go, Follows, FilesStay, Ready, AuditShows
<1>3. CASE Check(p, "readyAgain", Ready(aid[p]), "guFind")
  BY <1>0, <1>3, CheckFollowed, StepNames DEF Check, Go, Follows, FilesStay
<1>. QED
  BY <1>1, <1>2, <1>3

-----------------------------------------------------------------------------
(* Authorization.                                                          *)

LEMMA Gone ==
  ASSUME TypeOK, NEW p \in Procs, NEW from, NEW to, Go(p, from, to)
  PROVE  pc[p] = from /\ pc' = [pc EXCEPT ![p] = to] /\ pc'[p] = to /\ UNCHANGED counters
BY DEF Go, TypeOK

LEMMA BeginAuthorizeStep ==
  ASSUME IInv, NEW p \in Procs, BeginAuthorize(p)
  PROVE  IInv'
<1>1. /\ pc[p] = "idle" /\ pc' = [pc EXCEPT ![p] = "auRead"] /\ pc'[p] = "auRead"
      /\ UNCHANGED Files /\ UNCHANGED <<temps, aid, rid, target>>
  BY DEF BeginAuthorize, Go, Files, audit, receipts, guardian, locals, IInv, TypeOK
<1>2. TypeOK'
  BY <1>1, MoveType, StepNames DEF BeginAuthorize, Go, audit, receipts, guardian, counters, IInv,
         TypeOK, FilesType
<1>3. Relies(p)'
  BY <1>1 DEF IInv, StepsInv, Relies, Candidates, Creates, Consumes, Consumed, Mutating, Spends, Spent,
         Finishing, Settles, Settling, Renaming
<1>4. ASSUME NEW q \in Procs \ {p} PROVE Stays(q) /\ Together(p, q)' /\ Together(q, p)'
  <2>1. Stays(q) /\ Together(q, p)
    BY <1>1 DEF Stays, IInv, TypeOK, Apart
  <2>. QED
    BY <1>1, <2>1 DEF Together, Stays, Early
<1>. QED
  BY <1>1, <1>2, <1>3, <1>4, QuietStep

\* A first authorization draws its id.
LEMMA DrawStep ==
  ASSUME IInv, NEW p \in Procs, pc[p] = "auRead", NEW i \in Ids \ drawn,
         aid' = [aid EXCEPT ![p] = i], drawn' = drawn \cup {i}, pc' = [pc EXCEPT ![p] = "auWrite"],
         UNCHANGED <<lock, rid, target, snap, outcome>>, FilesStay
  PROVE  IInv'
<1>1. /\ UNCHANGED <<doc, active, history, machine, records, temps>>
      /\ aid'[p] = i /\ pc'[p] = "auWrite"
  BY DEF FilesStay, audit, guardian, IInv, TypeOK
<1>2. TypeOK'
  <2>1. FilesType'
    BY FilesStayType DEF IInv
  <2>2. ASSUME NEW q \in Procs, pc'[q] \in Steps \ {"auRead"} PROVE aid'[q] \in drawn'
    BY <1>1, <2>2 DEF IInv, TypeOK
  <2>3. /\ pc' \in [Procs -> Steps \cup {"idle"}] /\ aid' \in [Procs -> Ids \cup {NoId}]
        /\ drawn' \subseteq Ids
    BY StepNames DEF IInv, TypeOK
  <2>. QED
    BY <2>1, <2>2, <2>3 DEF IInv, TypeOK, FilesType
<1>3. Unheard(i)
  BY DEF IInv, FilesInv, UndrawnIsUnheard
<1>4. FilesInv' /\ MutationAuthorized'
  BY <1>1 DEF IInv, FilesInv, EvidenceAgrees, ActiveFollows, SettledIsKept, UndrawnIsUnheard, Unheard,
         CompletedIsApplied, MutationAuthorized, RecordsOf
<1>5. ASSUME NEW q \in Procs \ {p} PROVE Stays(q)
  BY <1>1 DEF Stays, IInv, TypeOK
<1>6. ASSUME NEW q \in Procs \ {p} PROVE Relies(q)'
  <2>1. Relies(q) /\ Stays(q)
    BY <1>5 DEF IInv, StepsInv
  <2>2. (Creates(q) /\ Consumes(q))'
    BY <1>1, <2>1 DEF Relies, Stays, Creates, Unheard, Consumes, RecordsOf
  <2>3. (Spends(q) /\ Settles(q) /\ Candidates(q))'
    BY <1>1, <2>1 DEF Relies, Stays, Spends, Settles, Candidates
  <2>. QED
    BY <2>2, <2>3 DEF Relies
<1>7. Relies(p)'
  BY <1>1, <1>3 DEF IInv, StepsInv, Relies, Candidates, Creates, Unheard, Consumes, Consumed, Mutating,
         Spends, Spent, Finishing, Settles, Settling, Renaming
<1>8. ASSUME NEW q \in Procs, NEW r \in Procs PROVE Together(q, r)'
  <2>1. \A t \in Procs \ {p} : aid[t] = i => pc[t] \in {"idle", "auRead"}
    BY DEF IInv, TypeOK
  <2>2. CASE q # p /\ r # p
    BY <1>5, <2>2 DEF IInv, Apart, Together, Stays
  <2>3. CASE q = p \/ r = p
    BY <1>1, <1>5, <2>1, <2>3 DEF Together, Stays, Early
  <2>. QED
    BY <2>2, <2>3
<1>. QED
  BY <1>2, <1>4, <1>6, <1>7, <1>8 DEF IInv, StepsInv, Apart

\* An authorization that exists is taken up.
LEMMA TakeUpStep ==
  ASSUME IInv, NEW p \in Procs, pc[p] = "auRead", active.state \in {"preparing", "authorized"},
         aid' = [aid EXCEPT ![p] = active.id], pc' = [pc EXCEPT ![p] = pc'[p]],
         \/ pc'[p] = "giFind"
         \/ pc'[p] = "auReceipt" /\ active.state = "preparing"
         \/ pc'[p] = "auReread" /\ machine[active.id] = "authorized",
         UNCHANGED <<lock, rid, target, snap, outcome, drawn>>, FilesStay
  PROVE  IInv'
<1>1. /\ UNCHANGED Files /\ UNCHANGED temps /\ aid'[p] = active.id
      /\ active \in Actives /\ active.id \in Ids /\ active.id \in drawn
  BY DEF FilesStay, Files, audit, guardian, IInv, TypeOK, Actives, NoActive, FilesInv, UndrawnIsUnheard,
         Unheard
<1>2. TypeOK'
  <2>1. FilesType'
    BY FilesStayType DEF IInv
  <2>2. pc' \in [Procs -> Steps \cup {"idle"}] /\ aid' \in [Procs -> Ids \cup {NoId}]
    BY <1>1, StepNames DEF IInv, TypeOK
  <2>3. ASSUME NEW q \in Procs, pc'[q] \in Steps \ {"auRead"} PROVE aid'[q] \in drawn'
    BY <1>1, <2>3 DEF IInv, TypeOK
  <2>. QED
    BY <2>1, <2>2, <2>3 DEF IInv, TypeOK, FilesType
<1>3. Relies(p)'
  <2>1. Creates(p)'
    BY <1>1 DEF Creates, Files, Actives, NoActive
  <2>2. Candidates(p)' /\ Consumes(p)'
    BY <1>1 DEF IInv, StepsInv, Relies, Candidates, Consumes, Consumed, Mutating, Renaming
  <2>3. Spends(p)' /\ Settles(p)'
    BY <1>1 DEF Spends, Spent, Finishing, Settles, Settling, Mutating
  <2>. QED
    BY <2>1, <2>2, <2>3 DEF Relies
<1>4. ASSUME NEW q \in Procs \ {p} PROVE Stays(q) /\ Together(p, q)' /\ Together(q, p)'
  <2>1. Stays(q) /\ Creates(q)
    BY <1>1 DEF Stays, IInv, TypeOK, StepsInv, Relies
  <2>. QED
    BY <1>1, <2>1 DEF Together, Stays, Creates, Unheard
<1>. QED
  BY <1>1, <1>2, <1>3, <1>4, QuietStep

LEMMA AuReadStep ==
  ASSUME IInv, NEW p \in Procs, AuRead(p)
  PROVE  IInv'
<1>0. pc[p] = "auRead" /\ FilesStay
  BY DEF AuRead, FilesStay, Go
<1>1. CASE Raise(p)
  BY <1>0, <1>1, Refused, StepNames DEF Renaming
<1>2. ASSUME NEW i \in Ids \ drawn, aid' = [aid EXCEPT ![p] = i], drawn' = drawn \cup {i},
             Go(p, "auRead", "auWrite"), UNCHANGED <<lock, rid, target, snap, outcome>>
      PROVE  IInv'
  BY <1>0, <1>2, DrawStep DEF Go
<1>3. ASSUME active.state = "authorized", aid' = [aid EXCEPT ![p] = active.id],
             Go(p, "auRead", "giFind"), UNCHANGED <<lock, rid, target, snap, outcome, drawn>>
      PROVE  IInv'
  <2>1. pc' = [pc EXCEPT ![p] = pc'[p]] /\ pc'[p] = "giFind"
    BY <1>3 DEF Go, IInv, TypeOK
  <2>. QED
    BY <1>0, <1>3, <2>1, TakeUpStep
<1>4. ASSUME active.state = "preparing", machine[active.id] \in {"none", "authorized"},
             aid' = [aid EXCEPT ![p] = active.id],
             Go(p, "auRead", IF machine[active.id] = "none" THEN "auReceipt" ELSE "auReread"),
             UNCHANGED <<lock, rid, target, snap, outcome, drawn>>
      PROVE  IInv'
  <2>1. /\ pc' = [pc EXCEPT ![p] = pc'[p]]
        /\ pc'[p] = "auReceipt" \/ (pc'[p] = "auReread" /\ machine[active.id] = "authorized")
    BY <1>4 DEF Go, IInv, TypeOK
  <2>. QED
    BY <1>0, <1>4, <2>1, TakeUpStep
<1>. QED
  BY <1>1, <1>2, <1>3, <1>4 DEF AuRead

\* A step of p that goes on, with what it changes of the files.
LEMMA FileMoveStep ==
  ASSUME IInv, NEW p \in Procs, pc[p] \in Steps \ Early, NEW to \in Steps \cup {"idle"},
         to \notin Guarded \cup {"auRead"},
         pc' = [pc EXCEPT ![p] = to], lock' \in [Ids -> BOOLEAN], UNCHANGED <<locals, drawn>>,
         temps' \in {temps, temps \ {p}}, FilesType', Kept(p), Relies(p)'
  PROVE  IInv'
<1>1. TypeOK'
  BY MoveType DEF IInv, Early
<1>2. ASSUME NEW q \in Procs \ {p} PROVE Stays(q)
  BY DEF Stays, locals, IInv, TypeOK
<1>3. aid'[p] = aid[p] /\ pc'[p] = to
  BY DEF locals, IInv, TypeOK
<1>. QED
  BY <1>1, <1>2, <1>3, FileStep

LEMMA AuWriteStep ==
  ASSUME IInv, NEW p \in Procs, AuWrite(p)
  PROVE  IInv'
<1>0. /\ pc[p] = "auWrite"
      /\ UNCHANGED <<doc, accepted, history, temps, litter, machine, guardian, counters>>
  BY DEF AuWrite
<1>1. ASSUME Raise(p), UNCHANGED active
      PROVE  IInv'
  BY <1>0, <1>1, Refused, StepNames DEF FilesStay, Renaming, audit
<1>2. ASSUME Go(p, "auWrite", "auReceipt"), active = NoActive,
             active' = [id |-> aid[p], state |-> "preparing"], UNCHANGED <<lock, locals, drawn>>
      PROVE  IInv'
  <2>1. pc' = [pc EXCEPT ![p] = "auReceipt"] /\ pc'[p] = "auReceipt"
    BY <1>2, Gone DEF IInv
  <2>2. Kept(p)
    <3>1. ASSUME NEW q \in Procs \ {p} PROVE Stays(q)
      BY <1>0, <1>2, <2>1 DEF Stays, locals, IInv, TypeOK
    <3>. QED
      BY <1>0, <1>2, <3>1, ActiveCreated DEF guardian
  <2>3. FilesType'
    BY <1>0, <1>2, TypeFiles, Worker DEF IInv, FilesType, guardian, counters, Actives
  <2>4. Relies(p)'
    BY <1>0, <1>2, <2>1 DEF IInv, StepsInv, Relies, Creates, Candidates, Consumes, Consumed, Mutating,
           Spends, Spent, Finishing, Settles, Settling, Renaming, locals
  <2>5. lock' \in [Ids -> BOOLEAN]
    BY <1>2 DEF IInv, TypeOK
  <2>. QED
    BY <1>0, <1>2, <2>1, <2>2, <2>3, <2>4, <2>5, FileMoveStep, StepNames DEF Early, Guarded, Renaming
<1>. QED
  BY <1>0, <1>1, <1>2 DEF AuWrite

\* transitionMachineReceipt, of a receipt in the state it expects.
LEMMA TransitionStep ==
  ASSUME IInv, NEW p \in Procs, NEW from, NEW pre, NEW post, NEW to,
         \/ from = "auReceipt" /\ pre = "none" /\ post = "authorized" /\ to = "auReread"
         \/ from = "bgMachine" /\ pre = "authorized" /\ post = "applying" /\ to = "bgUnlock"
         \/ from = "fnMachine" /\ pre = "applying" /\ post = target[p] /\ to = "fnUnlock",
         Transition(p, from, pre, post, to)
  PROVE  IInv'
<1>0. pc[p] = from /\ UNCHANGED <<doc, accepted, audit, guardian, counters>>
  BY DEF Transition
<1>1. ASSUME Raise(p), UNCHANGED machine
      PROVE  IInv'
  BY <1>0, <1>1, Refused, StepNames DEF FilesStay, Renaming
<1>2. ASSUME machine[aid[p]] = pre, Go(p, from, to), machine' = [machine EXCEPT ![aid[p]] = post],
             UNCHANGED <<lock, locals, drawn>>
      PROVE  IInv'
  <2>1. pc' = [pc EXCEPT ![p] = to] /\ pc'[p] = to
    BY <1>2, Gone DEF IInv
  <2>2. UNCHANGED <<doc, active, history, temps, records, drawn, aid, rid, target>>
    BY <1>0, <1>2 DEF audit, guardian, locals
  <2>3. ASSUME NEW q \in Procs \ {p} PROVE Stays(q)
    BY <2>1, <2>2 DEF Stays, IInv, TypeOK
  <2>4. Kept(p)
    BY <1>0, <1>2, <2>2, <2>3, ReceiptCreated, ReceiptSpent, ReceiptSettled
  <2>5. FilesType'
    <3>1. post \in Terminal \cup {"authorized", "applying"}
      BY DEF IInv, TypeOK
    <3>. QED
      BY <1>0, <1>2, <3>1, TypeFiles DEF IInv, FilesType, audit, guardian, counters
  <2>6. Relies(p)'
    <3>1. aid[p] \in Ids /\ machine'[aid[p]] = post /\ target[p] \in Terminal
      BY <1>0, <1>2, Worker DEF IInv, TypeOK
    <3>2. Relies(p)
      BY DEF IInv, StepsInv
    <3>3. Creates(p)' /\ Candidates(p)'
      BY <2>1, <2>2, <3>1, <3>2, <1>0 DEF Relies, Creates, Candidates, Renaming
    <3>4. Consumes(p)' /\ Spends(p)'
      BY <2>1, <2>2, <3>1, <3>2, <1>0 DEF Relies, Consumes, RecordsOf, Spends, Consumed, Spent,
             Mutating, Finishing
    <3>5. Settles(p)'
      BY <2>1, <2>2, <3>1 DEF Settles, Finishing, Settling
    <3>. QED
      BY <3>3, <3>4, <3>5 DEF Relies
  <2>7. lock' \in [Ids -> BOOLEAN]
    BY <1>2 DEF IInv, TypeOK
  <2>8. from \in Steps \ Early /\ to \in Steps /\ to \notin Guarded \cup {"auRead"}
    BY StepNames DEF Early, Guarded, Renaming
  <2>. QED
    BY <1>0, <1>2, <2>1, <2>2, <2>4, <2>5, <2>6, <2>7, <2>8, FileMoveStep
<1>. QED
  BY <1>0, <1>1, <1>2 DEF Transition

\* replaceProjectActive, up to the comparison of active.json with what was read before.
LEMMA CompareStep ==
  ASSUME IInv, NEW p \in Procs, NEW from, NEW state, NEW to,
         \/ from = "auTemp" /\ state = "preparing" /\ to = "auRename"
         \/ from = "bgTemp" /\ state = "authorized" /\ to = "bgRename"
         \/ from = "rcTemp" /\ state = "authorized" /\ to = "rcRename",
         Compare(p, from, state, to)
  PROVE  IInv'
<1>0. pc[p] = from /\ UNCHANGED <<doc, accepted, active, history, litter, machine, guardian, counters>>
  BY DEF Compare
<1>1. ASSUME Raise(p), UNCHANGED temps
      PROVE  IInv'
  BY <1>0, <1>1, Refused, StepNames DEF FilesStay, Renaming, audit
<1>2. ASSUME active = [id |-> aid[p], state |-> state], Go(p, from, to), temps' = temps \cup {p},
             UNCHANGED <<lock, locals, drawn>>
      PROVE  IInv'
  <2>1. pc' = [pc EXCEPT ![p] = to] /\ pc'[p] = to
    BY <1>2, Gone DEF IInv
  <2>2. UNCHANGED Files /\ UNCHANGED <<aid, rid, target>> /\ p \in temps'
    BY <1>0, <1>2 DEF Files, guardian, locals
  <2>3. TypeOK'
    <3>1. FilesType'
      BY <1>0, <1>2, TypeFiles DEF IInv, FilesType, guardian, counters
    <3>2. to \in Steps /\ from \notin {"idle", "auRead"} /\ lock' \in [Ids -> BOOLEAN]
      BY <1>2, StepNames DEF IInv, TypeOK
    <3>. QED
      BY <1>0, <1>2, <2>1, <3>1, <3>2, MoveType DEF IInv
  <2>4. ASSUME NEW q \in Procs \ {p} PROVE Stays(q)
    BY <1>2, <2>1, <2>2 DEF Stays, IInv, TypeOK
  <2>5. /\ machine[aid[p]] = IF from = "auTemp" THEN "authorized" ELSE "applying"
        /\ active.id = aid[p] /\ active.state = state
    BY <1>0, <1>2 DEF IInv, FilesInv, ActiveFollows, StepsInv, Relies, Creates, Spends, Spent, Terminal
  <2>6. Relies(p)'
    <3>1. Relies(p)
      BY DEF IInv, StepsInv
    <3>2. Creates(p)' /\ Candidates(p)'
      BY <2>1, <2>2, <2>5, <3>1 DEF Creates, Candidates, Renaming, Files
    <3>3. Consumes(p)' /\ Spends(p)'
      BY <1>0, <2>1, <2>2, <2>5, <3>1 DEF Relies, Consumes, RecordsOf, Spends, Consumed, Spent,
             Mutating, Finishing, Files
    <3>4. Settles(p)'
      BY <2>1 DEF Settles, Finishing, Settling
    <3>. QED
      BY <3>2, <3>3, <3>4 DEF Relies
  <2>7. ASSUME NEW q \in Procs \ {p} PROVE Together(p, q)' /\ Together(q, p)'
    <3>1. Stays(q) /\ Relies(q) /\ Together(q, p)
      BY <2>4 DEF IInv, StepsInv, Apart
    <3>2. Together(q, p)'
      BY <1>0, <2>1, <2>2, <3>1 DEF Stays, Together, Early
    <3>3. Together(p, q)'
      BY <1>0, <2>1, <2>2, <2>5, <3>1 DEF Stays, Together, Relies, Spends, Settles
    <3>. QED
      BY <3>2, <3>3
  <2>. QED
    BY <2>2, <2>3, <2>4, <2>6, <2>7, QuietStep
<1>. QED
  BY <1>0, <1>1, <1>2 DEF Compare

\* replaceProjectActive: the candidate replaces the record.
LEMMA ReplaceStep ==
  ASSUME IInv, NEW p \in Procs, NEW from, NEW state, NEW to,
         \/ from = "auRename" /\ state = "authorized" /\ to = "auVerify"
         \/ from = "bgRename" /\ state = "applying" /\ to = "mutCheck"
         \/ from = "rcRename" /\ state = "applying" /\ to = "rcUnlock",
         Replace(p, from, state, to)
  PROVE  IInv'
<1>1. pc[p] = from /\ pc' = [pc EXCEPT ![p] = to] /\ pc'[p] = to /\ UNCHANGED counters
  BY Gone DEF IInv, Replace
<1>2. /\ active' = [id |-> aid[p], state |-> state] /\ temps' = temps \ {p}
      /\ UNCHANGED <<doc, accepted, history, litter, receipts, guardian, locals, drawn>>
      /\ UNCHANGED <<machine, lock, records, aid, rid, target>>
  BY DEF Replace, receipts, guardian, locals
<1>3. ASSUME NEW q \in Procs \ {p} PROVE Stays(q)
  BY <1>1, <1>2 DEF Stays, IInv, TypeOK
<1>4. Kept(p)
  BY <1>1, <1>2, <1>3, ActiveReplaced DEF Renaming
<1>5. FilesType'
  BY <1>1, <1>2, TypeFiles, Worker DEF IInv, FilesType, guardian, counters, Actives
<1>6. Relies(p)'
  <2>1. Relies(p)
    BY DEF IInv, StepsInv
  <2>2. Creates(p)' /\ Candidates(p)'
    BY <1>1, <1>2 DEF Creates, Candidates, Renaming
  <2>3. Consumes(p)' /\ Spends(p)'
    BY <1>1, <1>2, <2>1 DEF Relies, Consumes, RecordsOf, Spends, Consumed, Spent, Mutating, Finishing
  <2>4. Settles(p)'
    BY <1>1 DEF Settles, Finishing, Settling
  <2>. QED
    BY <2>2, <2>3, <2>4 DEF Relies
<1>7. /\ from \in Steps \ Early /\ to \in Steps /\ to \notin Guarded \cup {"auRead"}
      /\ lock' \in [Ids -> BOOLEAN]
  BY <1>2, StepNames DEF Early, Guarded, Renaming, IInv, TypeOK
<1>. QED
  BY <1>1, <1>2, <1>4, <1>5, <1>6, <1>7, FileMoveStep

LEMMA AuthorizeStep ==
  ASSUME IInv, NEW p \in Procs, Authorize(p)
  PROVE  IInv'
<1>0. lock \in [Ids -> BOOLEAN]
  BY DEF IInv, TypeOK
<1>1. CASE AuRead(p) \/ AuWrite(p)
  BY <1>1, AuReadStep, AuWriteStep
<1>2. CASE Transition(p, "auReceipt", "none", "authorized", "auReread")
  BY <1>2, TransitionStep
<1>3. CASE Check(p, "auReread", AuditShows(aid[p], "preparing"), "auTemp")
  BY <1>0, <1>3, CheckFollowed, StepNames DEF Check, Go, Follows, FilesStay
<1>4. CASE Compare(p, "auTemp", "preparing", "auRename")
  BY <1>4, CompareStep
<1>5. CASE Replace(p, "auRename", "authorized", "auVerify")
  BY <1>5, ReplaceStep
<1>6. CASE Check(p, "auVerify", machine[aid[p]] = "authorized", "giFind")
  BY <1>0, <1>6, CheckFollowed, StepNames DEF Check, Go, Follows, FilesStay
<1>. QED
  BY <1>1, <1>2, <1>3, <1>4, <1>5, <1>6 DEF Authorize

\* issueGuardianAuthority
LEMMA IssueStep ==
  ASSUME IInv, NEW p \in Procs, Issue(p)
  PROVE  IInv'
<1>0. lock \in [Ids -> BOOLEAN]
  BY DEF IInv, TypeOK
<1>1. CASE Check(p, "giFind",
                 Current /\ RecordsReadable /\ RecordsOf(aid[p], "active") = {}, "giIssue")
  BY <1>0, <1>1, CheckFollowed, StepNames DEF Check, Go, Follows, FilesStay
<1>2. ASSUME Go(p, "giIssue", "idle"), NEW r \in Records, records[r] = Free,
             records' = [records EXCEPT ![r] = [id |-> aid[p], state |-> "active"]],
             UNCHANGED <<doc, accepted, audit, receipts, gtemps, glitter, locals, drawn>>
      PROVE  IInv'
  <2>1. pc[p] = "giIssue" /\ pc' = [pc EXCEPT ![p] = "idle"] /\ pc'[p] = "idle" /\ UNCHANGED counters
    BY <1>2, Gone DEF IInv
  <2>2. UNCHANGED <<active, history, temps, litter, machine, lock, aid, rid, target>>
    BY <1>2 DEF audit, receipts, locals
  <2>3. ASSUME NEW q \in Procs \ {p} PROVE Stays(q)
    BY <2>1, <2>2 DEF Stays, IInv, TypeOK
  <2>4. Kept(p)
    BY <1>2, <2>1, <2>2, <2>3, RecordCreated
  <2>5. FilesType'
    BY <1>2, <2>1, <2>2, TypeFiles, Worker DEF IInv, FilesType, counters
  <2>6. Relies(p)'
    BY <2>1, <2>2 DEF IInv, StepsInv, Relies, Creates, Candidates, Renaming, Consumes, Consumed, Mutating,
           Spends, Spent, Finishing, Settles, Settling
  <2>. QED
    BY <1>0, <1>2, <2>1, <2>2, <2>4, <2>5, <2>6, FileMoveStep, StepNames DEF Early, Guarded, Renaming
<1>. QED
  BY <1>1, <1>2 DEF Issue

-----------------------------------------------------------------------------
(* Application.                                                            *)

LEMMA BeginApplyStep ==
  ASSUME IInv, NEW p \in Procs, NEW i \in drawn, BeginApply(p, i)
  PROVE  IInv'
<1>1. /\ pc[p] = "idle" /\ pc' = [pc EXCEPT ![p] = "plan"] /\ pc'[p] = "plan"
      /\ aid'[p] = i /\ UNCHANGED Files /\ UNCHANGED <<temps, rid>>
  BY DEF BeginApply, Go, Files, audit, receipts, guardian, IInv, TypeOK
<1>2. TypeOK'
  <2>1. FilesType'
    BY TypeFiles DEF BeginApply, Go, IInv, FilesType, audit, receipts, guardian, counters
  <2>2. /\ pc' \in [Procs -> Steps \cup {"idle"}] /\ aid' \in [Procs -> Ids \cup {NoId}]
        /\ target' \in [Procs -> Terminal]
        /\ outcome' \in [Procs -> {"none", "completed", "not-applied", "unknown"}]
    BY <1>1, StepNames DEF BeginApply, IInv, TypeOK, Terminal
  <2>3. ASSUME NEW q \in Procs, pc'[q] \in Steps \ {"auRead"} PROVE aid'[q] \in drawn'
    BY <1>1, <2>3 DEF BeginApply, Files, IInv, TypeOK
  <2>. QED
    BY <2>1, <2>2, <2>3 DEF BeginApply, receipts, IInv, TypeOK, FilesType
<1>3. Relies(p)'
  BY <1>1 DEF IInv, StepsInv, Relies, Candidates, Creates, Consumes, Consumed, Mutating, Spends, Spent,
         Finishing, Settles, Settling, Renaming
<1>4. ASSUME NEW q \in Procs \ {p} PROVE Stays(q) /\ Together(p, q)' /\ Together(q, p)'
  <2>1. Stays(q)
    BY <1>1 DEF BeginApply, Stays, IInv, TypeOK
  <2>. QED
    BY <1>1, <2>1 DEF Together, Stays, Early
<1>. QED
  BY <1>1, <1>2, <1>3, <1>4, QuietStep

\* A check after which p relies on what it saw.
LEMMA CheckGrounded ==
  ASSUME IInv, NEW p \in Procs, pc[p] \in Steps \ (Renaming \cup {"auRead"}),
         NEW to \in Steps \ (Renaming \cup {"auRead", "auWrite"}),
         pc' = [pc EXCEPT ![p] = to], UNCHANGED <<lock, locals, drawn>>,
         Relies(p)', Admitted(p), FilesStay
  PROVE  IInv'
<1>1. pc'[p] = to /\ Goes(p)
  BY DEF Goes, IInv, TypeOK
<1>. QED
  BY <1>1, Passed

\* consumeSemanticGuardianAuthority finds the record.
LEMMA FindStep ==
  ASSUME IInv, NEW p \in Procs, pc[p] = "guFind", NEW r \in Records, TheRecord(r, aid[p], "active"),
         rid' = [rid EXCEPT ![p] = r], Go(p, "guFind", "guTemp"),
         UNCHANGED <<lock, aid, target, snap, outcome, drawn>>, FilesStay
  PROVE  IInv'
<1>1. /\ pc' = [pc EXCEPT ![p] = "guTemp"] /\ pc'[p] = "guTemp" /\ rid'[p] = r
      /\ UNCHANGED Files /\ UNCHANGED <<temps, aid, target>>
  BY Gone DEF FilesStay, Files, audit, guardian, IInv, TypeOK
<1>2. TypeOK'
  <2>1. FilesType'
    BY FilesStayType DEF IInv
  <2>2. pc' \in [Procs -> Steps \cup {"idle"}] /\ rid' \in [Procs -> Records \cup {NoRecord}]
    BY <1>1, StepNames DEF IInv, TypeOK
  <2>3. ASSUME NEW q \in Procs, pc'[q] \in Steps \ {"auRead"} PROVE aid'[q] \in drawn'
    BY <1>1, <2>3, StepNames DEF IInv, TypeOK
  <2>. QED
    BY <1>1, <2>1, <2>2, <2>3 DEF IInv, TypeOK, FilesType
<1>3. Relies(p)'
  <2>1. records[r] = [id |-> aid[p], state |-> "active"]
    BY DEF TheRecord, RecordsOf
  <2>2. Creates(p)' /\ Candidates(p)' /\ Spends(p)' /\ Settles(p)'
    BY <1>1 DEF IInv, StepsInv, Relies, Creates, Candidates, Renaming, Spends, Spent, Mutating,
           Finishing, Settles, Settling
  <2>. QED
    BY <1>1, <2>1, <2>2 DEF Relies, Consumes, Consumed, Mutating, Files
<1>4. ASSUME NEW q \in Procs \ {p} PROVE Stays(q) /\ Together(p, q)' /\ Together(q, p)'
  <2>1. Stays(q) /\ Together(q, p)
    BY <1>1 DEF Stays, IInv, TypeOK, Apart
  <2>. QED
    BY <1>1, <2>1 DEF Together, Stays, Early
<1>. QED
  BY <1>1, <1>2, <1>3, <1>4, QuietStep

\* consumeAuthority of the helper writes its candidate.
LEMMA CandidateStep ==
  ASSUME IInv, NEW p \in Procs, Go(p, "guTemp", "guRename"), gtemps' = gtemps \cup {p},
         UNCHANGED <<lock, locals, drawn, doc, accepted, audit, machine, records, glitter>>
  PROVE  IInv'
<1>1. /\ pc[p] = "guTemp" /\ pc' = [pc EXCEPT ![p] = "guRename"] /\ pc'[p] = "guRename"
      /\ UNCHANGED Files /\ UNCHANGED <<temps, aid, rid, target, counters>>
  BY Gone DEF Files, audit, locals, IInv
<1>2. TypeOK'
  <2>1. FilesType'
    BY <1>1, TypeFiles DEF IInv, FilesType, audit, counters
  <2>2. lock' \in [Ids -> BOOLEAN]
    BY DEF IInv, TypeOK
  <2>. QED
    BY <1>1, <2>1, <2>2, MoveType, StepNames DEF IInv
<1>3. Relies(p)'
  BY <1>1 DEF IInv, StepsInv, Relies, Creates, Candidates, Renaming, Consumes, Consumed, Spends, Spent,
         Mutating, Finishing, Settles, Settling, Files
<1>4. ASSUME NEW q \in Procs \ {p} PROVE Stays(q) /\ Together(p, q)' /\ Together(q, p)'
  <2>1. Stays(q) /\ Together(q, p)
    BY <1>1 DEF Stays, IInv, TypeOK, Apart
  <2>. QED
    BY <1>1, <2>1 DEF Together, Stays, Early
<1>. QED
  BY <1>1, <1>2, <1>3, <1>4, QuietStep

\* The candidate replaces the record.
LEMMA ConsumedStep ==
  ASSUME IInv, NEW p \in Procs, Go(p, "guRename", "guVerify"), gtemps' = gtemps \ {p},
         records' = [records EXCEPT ![rid[p]].state = "consumed"],
         UNCHANGED <<doc, accepted, audit, receipts, glitter, locals, drawn>>
  PROVE  IInv'
<1>1. /\ pc[p] = "guRename" /\ pc' = [pc EXCEPT ![p] = "guVerify"] /\ pc'[p] = "guVerify"
      /\ UNCHANGED <<active, history, temps, litter, machine, lock, aid, rid, target, counters>>
  BY Gone DEF audit, receipts, locals, IInv
<1>2. /\ rid[p] \in Records /\ records[rid[p]].id = aid[p] /\ aid[p] \in Ids
      /\ records[rid[p]] \in [id : Ids, state : {"torn", "active", "expired", "consumed"}]
  BY <1>1, Worker DEF IInv, TypeOK, StepsInv, Relies, Consumes, Free
<1>3. /\ records'[rid[p]] = [id |-> aid[p], state |-> "consumed"]
      /\ \A r \in Records \ {rid[p]} : records'[r] = records[r]
  BY <1>2 DEF IInv, TypeOK
<1>4. RecordsMove
  BY <1>2, <1>3 DEF RecordsMove
<1>5. ASSUME NEW q \in Procs \ {p} PROVE Stays(q)
  BY <1>1 DEF Stays, IInv, TypeOK
<1>6. Kept(p)
  BY <1>1, <1>4, <1>5, RecordMoved DEF Kept
<1>7. FilesType'
  <2>1. records' \in [Records -> [id : Ids, state : {"torn", "active", "expired", "consumed"}] \cup {Free}]
    BY <1>2, <1>3 DEF IInv, TypeOK
  <2>. QED
    BY <1>1, <2>1, TypeFiles DEF IInv, FilesType, counters
<1>8. Relies(p)'
  <2>1. Consumes(p)'
    BY <1>1, <1>2, <1>3 DEF Consumes, Consumed, Mutating
  <2>. QED
    BY <1>1, <2>1 DEF IInv, StepsInv, Relies, Creates, Candidates, Renaming, Spends, Spent, Mutating,
           Finishing, Settles, Settling
<1>9. lock' \in [Ids -> BOOLEAN]
  BY <1>1 DEF IInv, TypeOK
<1>. QED
  BY <1>1, <1>6, <1>7, <1>8, <1>9, FileMoveStep, StepNames DEF Early, Guarded, Renaming

LEMMA ConsumeStep ==
  ASSUME IInv, NEW p \in Procs, Consume(p)
  PROVE  IInv'
<1>1. ASSUME pc[p] \in {"guFind", "guTemp"}, Raise(p), FilesStay
      PROVE  IInv'
  BY <1>1, Refused, StepNames DEF Renaming
<1>2. CASE Check(p, "guVerify",
                 RecordsReadable /\ records[rid[p]].state = "consumed", "begin")
  <2>1. pc[p] = "guVerify" /\ FilesStay
    BY <1>2 DEF Check, Go, FilesStay
  <2>2. ASSUME records[rid[p]].state = "consumed", Go(p, "guVerify", "begin"),
               UNCHANGED <<lock, locals, drawn>>
        PROVE  IInv'
    <3>1. /\ pc' = [pc EXCEPT ![p] = "begin"] /\ pc'[p] = "begin" /\ UNCHANGED Files
          /\ UNCHANGED <<temps, aid, rid, target>>
      BY <2>1, <2>2, Gone DEF FilesStay, Files, audit, guardian, locals, IInv
    <3>2. RecordsOf(aid[p], "consumed") # {}
      <4>1. /\ rid[p] \in Records /\ records[rid[p]].id = aid[p] /\ aid[p] # NoId
            /\ records[rid[p]] \in [id : Ids, state : {"torn", "active", "expired", "consumed"}]
        BY <2>1, Worker DEF IInv, TypeOK, StepsInv, Relies, Consumes, Free
      <4>2. records[rid[p]] = [id |-> aid[p], state |-> "consumed"]
        BY <2>2, <4>1
      <4>. QED
        BY <4>1, <4>2 DEF RecordsOf
    <3>3. Relies(p)'
      <4>1. Consumes(p)'
        BY <3>1, <3>2 DEF Consumes, RecordsOf, Files
      <4>. QED
        BY <3>1, <4>1, <2>1 DEF IInv, StepsInv, Relies, Creates, Candidates, Renaming, Spends, Spent,
               Mutating, Finishing, Settles, Settling
    <3>4. Admitted(p)
      BY <2>1, <3>1 DEF Admitted, Early
    <3>. QED
      BY <2>1, <2>2, <3>1, <3>3, <3>4, CheckGrounded, StepNames DEF Renaming
  <2>. QED
    BY <1>2, <2>1, <2>2, Refused, StepNames DEF Check, Renaming
<1>3. ASSUME pc[p] = "guFind", NEW r \in Records, TheRecord(r, aid[p], "active"),
             rid' = [rid EXCEPT ![p] = r], Go(p, "guFind", "guTemp"),
             UNCHANGED <<lock, aid, target, snap, outcome, drawn>>, FilesStay
      PROVE  IInv'
  BY <1>3, FindStep
<1>. QED
  BY <1>1, <1>2, <1>3, CandidateStep, ConsumedStep DEF Consume, FilesStay, Go, guardian

\* What a check that goes on leaves alone.
LEMMA CheckFrame ==
  ASSUME IInv, NEW p \in Procs, NEW from, NEW to, Go(p, from, to), UNCHANGED <<lock, locals, drawn>>,
         FilesStay
  PROVE  /\ pc[p] = from /\ pc' = [pc EXCEPT ![p] = to] /\ pc'[p] = to
         /\ UNCHANGED <<doc, active, history, machine, records, drawn, temps, aid, rid, target>>
         /\ Relies(p)
BY Gone DEF FilesStay, audit, guardian, locals, IInv, StepsInv

LEMMA BeginChecked ==
  ASSUME IInv, NEW p \in Procs, AuditShows(aid[p], "authorized"),
         Go(p, "begin", "bgLock"), UNCHANGED <<lock, locals, drawn>>, FilesStay
  PROVE  IInv'
<1>1. /\ pc[p] = "begin" /\ pc' = [pc EXCEPT ![p] = "bgLock"] /\ pc'[p] = "bgLock"
      /\ UNCHANGED <<doc, active, history, machine, records, drawn, temps, aid, rid, target>>
      /\ Relies(p)
  BY CheckFrame
<1>2. Relies(p)'
  <2>1. Creates(p)' /\ Candidates(p)' /\ Consumes(p)'
    BY <1>1 DEF Relies, Creates, Candidates, Renaming, Consumes, Consumed, RecordsOf
  <2>2. Spends(p)' /\ Settles(p)'
    BY <1>1 DEF Spends, Spent, Mutating, Finishing, Settles, Settling, AuditShows
  <2>. QED
    BY <2>1, <2>2 DEF Relies
<1>3. Admitted(p)
  BY <1>1 DEF Admitted, Early, AuditShows, RootClean
<1>. QED
  BY <1>1, <1>2, <1>3, CheckGrounded, StepNames DEF Renaming

\* beginAuthorizationApplication
LEMMA BeginStep ==
  ASSUME IInv, NEW p \in Procs, Begin(p)
  PROVE  IInv'
<1>0. lock \in [Ids -> BOOLEAN]
  BY DEF IInv, TypeOK
<1>1. CASE Check(p, "begin", Current /\ AuditShows(aid[p], "authorized"), "bgLock")
  <2>1. pc[p] = "begin" /\ FilesStay
    BY <1>1 DEF Check, Go, FilesStay
  <2>. QED
    BY <1>1, <2>1, BeginChecked, Refused, StepNames DEF Check, Renaming
<1>2. CASE Lock(p, "bgLock", "bgMachine")
  BY <1>2, LockFollowed, StepNames DEF Follows
<1>3. CASE Transition(p, "bgMachine", "authorized", "applying", "bgUnlock")
  BY <1>3, TransitionStep
<1>4. CASE Unlock(p, "bgUnlock", "bgRead")
  BY <1>4, LockFollowed, StepNames DEF Follows
<1>5. CASE Check(p, "bgRead", AuditShows(aid[p], "authorized"), "bgTemp")
  BY <1>0, <1>5, CheckFollowed, StepNames DEF Check, Go, Follows, FilesStay
<1>6. CASE Compare(p, "bgTemp", "authorized", "bgRename")
  BY <1>6, CompareStep
<1>7. CASE Replace(p, "bgRename", "applying", "mutCheck")
  BY <1>7, ReplaceStep
<1>. QED
  BY <1>1, <1>2, <1>3, <1>4, <1>5, <1>6, <1>7 DEF Begin

LEMMA ConsumptionProved ==
  ASSUME IInv, NEW p \in Procs, NEW r \in Records, TheRecord(r, aid[p], "consumed"),
         Go(p, "recover", "rcRead"), UNCHANGED <<lock, locals, drawn>>, FilesStay
  PROVE  IInv'
<1>1. /\ pc[p] = "recover" /\ pc' = [pc EXCEPT ![p] = "rcRead"] /\ pc'[p] = "rcRead"
      /\ UNCHANGED <<doc, active, history, machine, records, drawn, temps, aid, rid, target>>
      /\ Relies(p)
  BY CheckFrame
<1>2. r \in RecordsOf(aid[p], "consumed")
  BY DEF TheRecord
<1>3. Relies(p)'
  <2>1. Creates(p)' /\ Candidates(p)' /\ Consumes(p)'
    BY <1>1, <1>2 DEF Relies, Creates, Candidates, Renaming, Consumes, RecordsOf
  <2>2. Spends(p)' /\ Settles(p)'
    BY <1>1 DEF Spends, Spent, Mutating, Finishing, Settles, Settling
  <2>. QED
    BY <2>1, <2>2 DEF Relies
<1>4. Admitted(p)
  BY <1>1, <1>2 DEF Admitted, Unheard, RecordsOf
<1>. QED
  BY <1>1, <1>3, <1>4, CheckGrounded, StepNames DEF Renaming

LEMMA Decided ==
  ASSUME IInv, NEW p \in Procs, machine[aid[p]] = "applying", NEW to \in {"rcTemp", "rcUnlock"},
         Go(p, "rcDecide", to), UNCHANGED <<lock, locals, drawn>>, FilesStay
  PROVE  IInv'
<1>1. /\ pc[p] = "rcDecide" /\ pc' = [pc EXCEPT ![p] = to] /\ pc'[p] = to
      /\ UNCHANGED <<doc, active, history, machine, records, drawn, temps, aid, rid, target>>
      /\ Relies(p)
  BY CheckFrame
<1>2. Relies(p)'
  <2>1. Creates(p)' /\ Candidates(p)' /\ Consumes(p)'
    BY <1>1 DEF Relies, Creates, Candidates, Renaming, Consumes, Consumed, RecordsOf
  <2>2. Spends(p)' /\ Settles(p)'
    BY <1>1 DEF Spends, Spent, Mutating, Finishing, Settles, Settling
  <2>. QED
    BY <2>1, <2>2 DEF Relies
<1>3. Admitted(p)
  BY <1>1 DEF Admitted, Early
<1>. QED
  BY <1>1, <1>2, <1>3, CheckGrounded, StepNames DEF Renaming

\* reconcilePreMutationAuthorization
LEMMA ReconcileStep ==
  ASSUME IInv, NEW p \in Procs, Reconcile(p)
  PROVE  IInv'
<1>. DEFINE i == aid[p]
<1>0. lock \in [Ids -> BOOLEAN]
  BY DEF IInv, TypeOK
<1>1. CASE Check(p, "recover",
                 Current /\ \E r \in Records : TheRecord(r, i, "consumed"), "rcRead")
  <2>1. pc[p] = "recover" /\ FilesStay
    BY <1>1 DEF Check, Go, FilesStay
  <2>. QED
    BY <1>1, <2>1, ConsumptionProved, Refused, StepNames DEF Check, Renaming
<1>2. CASE Check(p, "rcRead", AuditReadable /\ active.id = i, "rcLock")
  BY <1>0, <1>2, CheckFollowed, StepNames DEF Check, Go, Follows, FilesStay
<1>3. CASE Lock(p, "rcLock", "rcDecide")
  BY <1>3, LockFollowed, StepNames DEF Follows
<1>4. CASE Check(p, "rcDecide",
                 /\ AuditReadable /\ active.id = i
                 /\ active.state \in {"authorized", "applying"} /\ machine[i] = "applying",
                 IF active.state = "authorized" THEN "rcTemp" ELSE "rcUnlock")
  <2>1. pc[p] = "rcDecide" /\ FilesStay
    BY <1>4 DEF Check, Go, FilesStay
  <2>2. CASE Raise(p)
    BY <2>1, <2>2, Refused, StepNames DEF Renaming
  <2>3. ASSUME machine[i] = "applying", UNCHANGED <<lock, locals, drawn>>,
               Go(p, "rcDecide", IF active.state = "authorized" THEN "rcTemp" ELSE "rcUnlock")
        PROVE  IInv'
    BY <2>1, <2>3, Decided
  <2>. QED
    BY <1>4, <2>2, <2>3 DEF Check
<1>5. CASE Compare(p, "rcTemp", "authorized", "rcRename")
  BY <1>5, CompareStep
<1>6. CASE Replace(p, "rcRename", "applying", "rcUnlock")
  BY <1>6, ReplaceStep
<1>7. CASE Unlock(p, "rcUnlock", "mutCheck")
  BY <1>7, LockFollowed, StepNames DEF Follows
<1>. QED
  BY <1>1, <1>2, <1>3, <1>4, <1>5, <1>6, <1>7 DEF Reconcile

\* archiveProjectActive: the terminal record.
LEMMA WriteHistoryStep ==
  ASSUME IInv, NEW p \in Procs, NEW from, NEW state, NEW to,
         \/ from = "fnHistory" /\ state = target[p] /\ to = "fnRemove"
         \/ from = "alHistory" /\ state = "failed" /\ to = "alRemove",
         WriteHistory(p, from, state, to)
  PROVE  IInv'
<1>0. pc[p] = from /\ UNCHANGED <<doc, accepted, active, temps, litter, machine, guardian, counters>>
  BY DEF WriteHistory
<1>1. ASSUME Raise(p), UNCHANGED history
      PROVE  IInv'
  BY <1>0, <1>1, Refused, StepNames DEF FilesStay, Renaming, audit
<1>2. ASSUME history[aid[p]] = "none", Go(p, from, to), history' = [history EXCEPT ![aid[p]] = state],
             UNCHANGED <<lock, locals, drawn>>
      PROVE  IInv'
  <2>1. pc' = [pc EXCEPT ![p] = to] /\ pc'[p] = to
    BY <1>2, Gone DEF IInv
  <2>2. UNCHANGED <<doc, active, machine, records, drawn, temps, aid, rid, target>>
    BY <1>0, <1>2 DEF guardian, locals
  <2>3. ASSUME NEW q \in Procs \ {p} PROVE Stays(q)
    BY <2>1, <2>2 DEF Stays, IInv, TypeOK
  <2>4. Relies(p) /\ state \in Terminal /\ state = machine[aid[p]] /\ aid[p] \in Ids
    BY <1>0, Worker DEF IInv, TypeOK, StepsInv, Relies, Settles, Settling, Terminal
  <2>5. Kept(p)
    BY <1>0, <1>2, <2>2, <2>3, <2>4, HistoryCreated
  <2>6. FilesType'
    BY <1>0, <1>2, <2>4, TypeFiles DEF IInv, FilesType, guardian, counters
  <2>7. Relies(p)'
    <3>1. history'[aid[p]] = state
      BY <1>2, <2>4 DEF IInv, TypeOK
    <3>2. Settles(p)'
      BY <1>0, <2>1, <2>2, <2>4, <3>1 DEF Relies, Settles, Settling, Finishing
    <3>3. Creates(p)' /\ Candidates(p)' /\ Consumes(p)' /\ Spends(p)'
      BY <1>0, <2>1, <2>2, <2>4 DEF Relies, Creates, Candidates, Renaming, Consumes, Consumed,
             Spends, Spent, Mutating, Finishing
    <3>. QED
      BY <3>2, <3>3 DEF Relies
  <2>8. /\ from \in Steps \ Early /\ to \in Steps /\ to \notin Guarded \cup {"auRead"}
        /\ lock' \in [Ids -> BOOLEAN]
    BY <1>2, StepNames DEF Early, Guarded, Renaming, IInv, TypeOK
  <2>. QED
    BY <1>0, <1>2, <2>1, <2>2, <2>5, <2>6, <2>7, <2>8, FileMoveStep
<1>. QED
  BY <1>0, <1>1, <1>2 DEF WriteHistory

\* archiveProjectActive: active.json goes.
LEMMA RemoveActiveStep ==
  ASSUME IInv, NEW p \in Procs, NEW from, NEW to,
         \/ from = "fnRemove" /\ to \in {"acRead", "report"}
         \/ from = "alRemove" /\ to = "alUnlock",
         RemoveActive(p, from, to)
  PROVE  IInv'
<1>0. pc[p] = from /\ UNCHANGED <<doc, accepted, history, temps, litter, machine, guardian, counters>>
  BY DEF RemoveActive
<1>1. ASSUME Raise(p), UNCHANGED active
      PROVE  IInv'
  BY <1>0, <1>1, Refused, StepNames DEF FilesStay, Renaming, audit
<1>2. ASSUME active = [id |-> aid[p], state |-> "applying"], Go(p, from, to), active' = NoActive,
             UNCHANGED <<lock, locals, drawn>>
      PROVE  IInv'
  <2>1. pc' = [pc EXCEPT ![p] = to] /\ pc'[p] = to
    BY <1>2, Gone DEF IInv
  <2>2. UNCHANGED <<doc, history, machine, records, drawn, temps, aid, rid, target>>
    BY <1>0, <1>2 DEF guardian, locals
  <2>3. ASSUME NEW q \in Procs \ {p} PROVE Stays(q)
    BY <2>1, <2>2 DEF Stays, IInv, TypeOK
  <2>4. Kept(p)
    BY <1>0, <1>2, <2>2, <2>3, ActiveRemoved
  <2>5. FilesType'
    BY <1>0, <1>2, TypeFiles DEF IInv, FilesType, guardian, counters, Actives
  <2>6. Relies(p)'
    BY <1>0, <2>1, <2>2 DEF IInv, StepsInv, Relies, Creates, Candidates, Renaming, Consumes, Consumed,
           Spends, Spent, Mutating, Finishing, Settles, Settling
  <2>7. /\ from \in Steps \ Early /\ to \in Steps /\ to \notin Guarded \cup {"auRead"}
        /\ lock' \in [Ids -> BOOLEAN]
    BY <1>2, StepNames DEF Early, Guarded, Renaming, IInv, TypeOK
  <2>. QED
    BY <1>0, <1>2, <2>1, <2>2, <2>4, <2>5, <2>6, <2>7, FileMoveStep
<1>. QED
  BY <1>0, <1>1, <1>2 DEF RemoveActive

LEMMA FailureSeen ==
  ASSUME IInv, NEW p \in Procs, machine[aid[p]] = "failed",
         Go(p, "alDecide", "alHistory"), UNCHANGED <<lock, locals, drawn>>, FilesStay
  PROVE  IInv'
<1>1. /\ pc[p] = "alDecide" /\ pc' = [pc EXCEPT ![p] = "alHistory"] /\ pc'[p] = "alHistory"
      /\ UNCHANGED <<doc, active, history, machine, records, drawn, temps, aid, rid, target>>
      /\ Relies(p)
  BY CheckFrame
<1>2. Relies(p)'
  <2>1. Creates(p)' /\ Candidates(p)' /\ Consumes(p)'
    BY <1>1 DEF Relies, Creates, Candidates, Renaming, Consumes, Consumed, Mutating
  <2>2. Spends(p)' /\ Settles(p)'
    BY <1>1 DEF Spends, Spent, Mutating, Finishing, Settles, Settling
  <2>. QED
    BY <2>1, <2>2 DEF Relies
<1>3. Admitted(p)
  BY <1>1 DEF Admitted, Early
<1>. QED
  BY <1>1, <1>2, <1>3, CheckGrounded, StepNames DEF Renaming

\* reconcileFailedAuthorizationApplication
LEMMA AlignFailureStep ==
  ASSUME IInv, NEW p \in Procs, AlignFailure(p)
  PROVE  IInv'
<1>. DEFINE i == aid[p]
<1>0. lock \in [Ids -> BOOLEAN]
  BY DEF IInv, TypeOK
<1>1. CASE Check(p, "alRead", AuditReadable /\ active.id = i, "alLock")
  BY <1>0, <1>1, CheckFollowed, StepNames DEF Check, Go, Follows, FilesStay
<1>2. CASE Lock(p, "alLock", "alDecide")
  BY <1>2, LockFollowed, StepNames DEF Follows
<1>3. CASE Check(p, "alDecide",
                 AuditReadable /\ active = [id |-> i, state |-> "applying"]
                     /\ machine[i] = "failed", "alHistory")
  <2>1. pc[p] = "alDecide" /\ FilesStay
    BY <1>3 DEF Check, Go, FilesStay
  <2>. QED
    BY <1>3, <2>1, FailureSeen, Refused, StepNames DEF Check, Renaming
<1>4. CASE WriteHistory(p, "alHistory", "failed", "alRemove")
  BY <1>4, WriteHistoryStep
<1>5. CASE RemoveActive(p, "alRemove", "alUnlock")
  BY <1>5, RemoveActiveStep
<1>6. CASE Unlock(p, "alUnlock", "report")
  BY <1>6, LockFollowed, StepNames DEF Follows
<1>. QED
  BY <1>1, <1>2, <1>3, <1>4, <1>5, <1>6 DEF AlignFailure

\* replaceManagedTextDocument: the statement enters the documents.
LEMMA PromoteStep ==
  ASSUME IInv, NEW p \in Procs, Go(p, "mutRename", "verify"), doc' = Post,
         UNCHANGED <<accepted, audit, receipts, guardian, locals, drawn>>
  PROVE  IInv'
<1>1. /\ pc[p] = "mutRename" /\ pc' = [pc EXCEPT ![p] = "verify"] /\ pc'[p] = "verify"
      /\ UNCHANGED <<active, history, temps, litter, machine, lock, records, aid, rid, target, counters>>
  BY Gone DEF audit, receipts, guardian, locals, IInv
<1>2. doc'.applied = TRUE /\ doc' \in Docs
  BY DEF Post, Docs
<1>3. MutationAuthorized'
  <2>1. /\ aid[p] \in Ids /\ RecordsOf(aid[p], "consumed") # {}
        /\ machine[aid[p]] \in {"applying"} \cup Terminal
    BY <1>1, Worker DEF IInv, StepsInv, Relies, Consumes, Consumed, Spends, Spent, Mutating
  <2>. QED
    BY <1>1, <2>1 DEF MutationAuthorized, RecordsOf
<1>4. ASSUME NEW q \in Procs \ {p} PROVE Stays(q)
  BY <1>1 DEF Stays, IInv, TypeOK
<1>5. Kept(p)
  BY <1>1, <1>2, <1>3, <1>4, DocumentsMoved DEF Kept
<1>6. FilesType'
  BY <1>1, <1>2, TypeFiles DEF IInv, FilesType, guardian, counters
<1>7. Relies(p)'
  BY <1>1 DEF IInv, StepsInv, Relies, Creates, Candidates, Renaming, Consumes, Consumed, RecordsOf,
         Spends, Spent, Mutating, Finishing, Settles, Settling
<1>8. lock' \in [Ids -> BOOLEAN]
  BY <1>1 DEF IInv, TypeOK
<1>. QED
  BY <1>1, <1>5, <1>6, <1>7, <1>8, FileMoveStep, StepNames DEF Early, Guarded, Renaming

LEMMA Verified ==
  ASSUME IInv, NEW p \in Procs, doc = Post,
         Go(p, "verify", "fnRead"), UNCHANGED <<lock, locals, drawn>>, FilesStay
  PROVE  IInv'
<1>1. /\ pc[p] = "verify" /\ pc' = [pc EXCEPT ![p] = "fnRead"] /\ pc'[p] = "fnRead"
      /\ UNCHANGED <<doc, active, history, machine, records, drawn, temps, aid, rid, target>>
      /\ Relies(p)
  BY CheckFrame
<1>2. Relies(p)'
  <2>1. Creates(p)' /\ Candidates(p)' /\ Consumes(p)'
    BY <1>1 DEF Relies, Creates, Candidates, Renaming, Consumes, Consumed, Mutating
  <2>2. Spends(p)' /\ Settles(p)'
    BY <1>1 DEF Spends, Spent, Mutating, Finishing, Settles, Settling, Post
  <2>. QED
    BY <2>1, <2>2 DEF Relies
<1>3. Admitted(p)
  BY <1>1 DEF Admitted, Early
<1>. QED
  BY <1>1, <1>2, <1>3, CheckGrounded, StepNames DEF Renaming

\* executeAuthorizedMutation
LEMMA MutateStep ==
  ASSUME IInv, NEW p \in Procs, Mutate(p)
  PROVE  IInv'
<1>0. lock \in [Ids -> BOOLEAN]
  BY DEF IInv, TypeOK
<1>1. CASE Check(p, "mutCheck", Current /\ accepted = doc, "mutRename")
  BY <1>0, <1>1, CheckFollowed, StepNames DEF Check, Go, Follows, FilesStay
<1>2. CASE Check(p, "verify", doc = Post, "fnRead")
  <2>1. pc[p] = "verify" /\ FilesStay
    BY <1>2 DEF Check, Go, FilesStay
  <2>. QED
    BY <1>2, <2>1, Verified, Refused, StepNames DEF Check, Renaming
<1>. QED
  BY <1>1, <1>2, PromoteStep DEF Mutate

LEMMA FinishChecked ==
  ASSUME IInv, NEW p \in Procs, AuditShows(aid[p], "applying"),
         Go(p, "fnRead", "fnLock"), UNCHANGED <<lock, locals, drawn>>, FilesStay
  PROVE  IInv'
<1>1. /\ pc[p] = "fnRead" /\ pc' = [pc EXCEPT ![p] = "fnLock"] /\ pc'[p] = "fnLock"
      /\ UNCHANGED <<doc, active, history, machine, records, drawn, temps, aid, rid, target>>
      /\ Relies(p)
  BY CheckFrame
<1>2. active.id = aid[p] /\ active.state = "applying" /\ temps = {}
      /\ machine[aid[p]] \in {"applying"} \cup Terminal
  BY DEF AuditShows, RootClean, IInv, FilesInv, ActiveFollows
<1>3. Relies(p)'
  <2>1. Creates(p)' /\ Candidates(p)' /\ Consumes(p)'
    BY <1>1 DEF Relies, Creates, Candidates, Renaming, Consumes, Consumed, Mutating
  <2>2. Spends(p)' /\ Settles(p)'
    BY <1>1, <1>2 DEF Relies, Spends, Spent, Mutating, Finishing, Settles, Settling
  <2>. QED
    BY <2>1, <2>2 DEF Relies
<1>4. Admitted(p)
  BY <1>1, <1>2 DEF Admitted, Early
<1>. QED
  BY <1>1, <1>3, <1>4, CheckGrounded, StepNames DEF Renaming

\* finishAuthorization
LEMMA FinishStep ==
  ASSUME IInv, NEW p \in Procs, Finish(p)
  PROVE  IInv'
<1>0. lock \in [Ids -> BOOLEAN]
  BY DEF IInv, TypeOK
<1>1. CASE Check(p, "fnRead", AuditShows(aid[p], "applying"), "fnLock")
  <2>1. pc[p] = "fnRead" /\ FilesStay
    BY <1>1 DEF Check, Go, FilesStay
  <2>. QED
    BY <1>1, <2>1, FinishChecked, Refused, StepNames DEF Check, Renaming
<1>2. CASE Lock(p, "fnLock", "fnMachine")
  BY <1>2, LockFollowed, StepNames DEF Follows
<1>3. CASE Transition(p, "fnMachine", "applying", target[p], "fnUnlock")
  BY <1>3, TransitionStep
<1>4. CASE Unlock(p, "fnUnlock", "fnReread")
  BY <1>4, LockFollowed, StepNames DEF Follows
<1>5. CASE Check(p, "fnReread", AuditShows(aid[p], "applying"), "fnHistory")
  BY <1>0, <1>5, CheckFollowed, StepNames DEF Check, Go, Follows, FilesStay
<1>6. CASE WriteHistory(p, "fnHistory", target[p], "fnRemove")
  BY <1>6, WriteHistoryStep
<1>7. CASE RemoveActive(p, "fnRemove", IF target[p] = "completed" THEN "acRead" ELSE "report")
  <2>1. (IF target[p] = "completed" THEN "acRead" ELSE "report") \in {"acRead", "report"}
    OBVIOUS
  <2>. QED
    BY <1>7, <2>1, RemoveActiveStep
<1>. QED
  BY <1>1, <1>2, <1>3, <1>4, <1>5, <1>6, <1>7 DEF Finish

\* A step to the end of an apply, or of its report, which touches no file of an authorization.
LEMMA EndStep ==
  ASSUME IInv, NEW p \in Procs, pc[p] \in {"acRead", "acCommit", "report"},
         pc' = [pc EXCEPT ![p] = pc'[p]], pc'[p] \in {"acCommit", "idle"},
         pc[p] = "report" => pc'[p] = "idle",
         accepted' \in Docs, snap' \in [Procs -> Docs],
         outcome' \in [Procs -> {"none", "completed", "not-applied", "unknown"}],
         UNCHANGED <<doc, audit, receipts, guardian, aid, rid, target, drawn, counters>>
  PROVE  IInv'
<1>1. UNCHANGED Files /\ UNCHANGED <<temps, aid, rid, target>>
  BY DEF Files, audit, receipts, guardian
<1>2. TypeOK'
  <2>1. FilesType'
    BY TypeFiles DEF IInv, FilesType, audit, receipts, guardian, counters
  <2>2. pc' \in [Procs -> Steps \cup {"idle"}]
    BY StepNames DEF IInv, TypeOK
  <2>3. ASSUME NEW q \in Procs, pc'[q] \in Steps \ {"auRead"} PROVE aid'[q] \in drawn'
    BY <1>1, <2>3, StepNames DEF IInv, TypeOK, Files
  <2>. QED
    BY <1>1, <2>1, <2>2, <2>3 DEF IInv, TypeOK, FilesType, receipts, Files
<1>3. Relies(p)'
  BY <1>1 DEF IInv, StepsInv, Relies, Creates, Candidates, Renaming, Consumes, Consumed, Mutating,
         Spends, Spent, Finishing, Settles, Settling
<1>4. ASSUME NEW q \in Procs \ {p} PROVE Stays(q) /\ Together(p, q)' /\ Together(q, p)'
  <2>1. Stays(q) /\ Together(q, p)
    BY <1>1 DEF Stays, IInv, TypeOK, Apart
  <2>. QED
    BY <1>1, <2>1 DEF Together, Stays, Early
<1>. QED
  BY <1>1, <1>2, <1>3, <1>4, QuietStep

\* recordAcceptedProjectBrainState, and the reports.
LEMMA AcceptStep ==
  ASSUME IInv, NEW p \in Procs, Accept(p) \/ Report(p)
  PROVE  IInv'
<1>0. /\ doc \in Docs /\ accepted \in Docs /\ snap \in [Procs -> Docs] /\ lock \in [Ids -> BOOLEAN]
      /\ outcome \in [Procs -> {"none", "completed", "not-applied", "unknown"}]
  BY DEF IInv, TypeOK
<1>1. ASSUME Go(p, "acRead", "acCommit"), snap' = [snap EXCEPT ![p] = doc],
             UNCHANGED <<doc, accepted, audit, receipts, guardian, aid, rid, target, outcome, drawn>>
      PROVE  IInv'
  <2>1. pc[p] = "acRead" /\ pc' = [pc EXCEPT ![p] = pc'[p]] /\ pc'[p] = "acCommit" /\ UNCHANGED counters
    BY <1>1, Gone DEF IInv
  <2>. QED
    BY <1>0, <1>1, <2>1, EndStep
<1>2. ASSUME pc[p] = "acCommit", Raise(p), UNCHANGED accepted,
             UNCHANGED <<doc, audit, machine, guardian, counters>>
      PROVE  IInv'
  BY <1>2, Refused, StepNames DEF FilesStay, Renaming
<1>3. ASSUME Go(p, "acCommit", "idle"), accepted' = snap[p],
             outcome' = [outcome EXCEPT ![p] = "completed"],
             UNCHANGED <<lock, aid, rid, target, snap, drawn>>,
             UNCHANGED <<doc, audit, machine, guardian, counters>>
      PROVE  IInv'
  <2>1. pc[p] = "acCommit" /\ pc' = [pc EXCEPT ![p] = pc'[p]] /\ pc'[p] = "idle" /\ UNCHANGED counters
    BY <1>3, Gone DEF IInv
  <2>. QED
    BY <1>0, <1>3, <2>1, EndStep DEF receipts
<1>4. CASE Report(p)
  <2>1. pc[p] = "report" /\ pc' = [pc EXCEPT ![p] = pc'[p]] /\ pc'[p] = "idle" /\ UNCHANGED counters
    BY <1>4, Gone DEF IInv, Report
  <2>2. outcome' \in [Procs -> {"none", "completed", "not-applied", "unknown"}]
    BY <1>0, <1>4 DEF Report
  <2>. QED
    BY <1>0, <1>4, <2>1, <2>2, EndStep DEF Report
<1>. QED
  BY <1>1, <1>2, <1>3, <1>4 DEF Accept

LEMMA ApplyStep ==
  ASSUME IInv, NEW p \in Procs, Apply(p)
  PROVE  IInv'
BY ReadyStep, ConsumeStep, BeginStep, ReconcileStep, MutateStep, FinishStep, AcceptStep,
   AlignFailureStep DEF Apply

-----------------------------------------------------------------------------
(* Failures, and the world outside.                                        *)

TornSteps == {"auWrite", "auReceipt", "fnHistory", "alHistory", "giIssue"}

\* A writeFile that does not finish.
LEMMA Torn ==
  ASSUME IInv, NEW p \in Procs, Tear(p), UNCHANGED <<doc, drawn>>
  PROVE  \/ UNCHANGED <<active, history, machine, records>>
         \/ /\ pc[p] \in TornSteps
            /\ (\A q \in Procs \ {p} : Stays(q)) => Kept(p)
            /\ aid[p] \in Ids
<1>1. ASSUME pc[p] = "auWrite", active = NoActive, active' = [id |-> aid[p], state |-> "torn"],
             UNCHANGED <<history, machine, records>>
      PROVE  (\A q \in Procs \ {p} : Stays(q)) => Kept(p)
  BY <1>1, ActiveCreated
<1>2. ASSUME pc[p] = "auReceipt", machine[aid[p]] = "none",
             machine' = [machine EXCEPT ![aid[p]] = "torn"], UNCHANGED <<active, history, records>>
      PROVE  (\A q \in Procs \ {p} : Stays(q)) => Kept(p)
  BY <1>2, ReceiptCreated
<1>3. ASSUME pc[p] \in {"fnHistory", "alHistory"}, history[aid[p]] = "none",
             history' = [history EXCEPT ![aid[p]] = "torn"], UNCHANGED <<active, machine, records>>
      PROVE  (\A q \in Procs \ {p} : Stays(q)) => Kept(p)
  BY <1>3, HistoryCreated DEF Terminal
<1>4. ASSUME pc[p] = "giIssue", NEW r \in Records, records[r] = Free,
             records' = [records EXCEPT ![r] = [id |-> aid[p], state |-> "torn"]],
             UNCHANGED <<active, history, machine>>
      PROVE  (\A q \in Procs \ {p} : Stays(q)) => Kept(p)
  BY <1>4, RecordCreated
<1>5. pc[p] \in TornSteps => aid[p] \in Ids
  BY Worker DEF TornSteps
<1>. QED
  BY <1>1, <1>2, <1>3, <1>4, <1>5 DEF Tear, TornSteps

LEMMA TornType ==
  ASSUME IInv, NEW p \in Procs, Tear(p), aid[p] \in Ids \/ UNCHANGED <<active, history, machine, records>>
  PROVE  /\ active' \in Actives
         /\ history' \in [Ids -> Terminal \cup {"none", "torn"}]
         /\ machine' \in [Ids -> Terminal \cup {"none", "torn", "authorized", "applying"}]
         /\ records' \in [Records -> [id : Ids, state : {"torn", "active", "expired", "consumed"}]
                                     \cup {Free}]
<1>1. TypeOK
  BY DEF IInv
<1>2. CASE UNCHANGED <<active, history, machine, records>>
  BY <1>1, <1>2 DEF TypeOK
<1>3. CASE aid[p] \in Ids
  BY <1>1, <1>3 DEF TypeOK, Tear, Actives
<1>. QED
  BY <1>2, <1>3

\* p is left where nothing is asked of it but that it failed.
Rests(p) ==
    /\ pc'[p] \in {"idle", "report", "alRead"} \/ (pc'[p] = "fnRead" /\ target'[p] = "failed")
    /\ p \notin temps'

LEMMA RestRelies ==
  ASSUME NEW p, Rests(p)
  PROVE  Relies(p)'
BY DEF Rests, Relies, Creates, Candidates, Renaming, Consumes, Consumed, Mutating, Spends, Spent,
       Finishing, Settles, Settling

LEMMA ThrowStep ==
  ASSUME IInv, NEW p \in Procs, Throw(p)
  PROVE  IInv'
<1>1. pc[p] \in Steps /\ Raise(p) /\ Tear(p) /\ temps' = temps \ {p} /\ gtemps' = gtemps \ {p}
      /\ UNCHANGED <<doc, accepted, litter, glitter, edits, crashes>> /\ faults' = faults + 1
  BY DEF Throw
<1>2. Raises(p)
  BY <1>1, RaiseRaises DEF IInv
<1>3. UNCHANGED <<doc, drawn>>
  BY <1>1, <1>2 DEF Raises
<1>4. \/ UNCHANGED <<active, history, machine, records>>
      \/ /\ pc[p] \in TornSteps
         /\ (\A q \in Procs \ {p} : Stays(q)) => Kept(p)
         /\ aid[p] \in Ids
  BY <1>1, <1>3, Torn
<1>5. TypeOK'
  <2>1. FilesType'
    BY <1>1, <1>4, TornType, TypeFiles DEF IInv, FilesType
  <2>. QED
    BY <1>1, <2>1, RaiseType DEF IInv
<1>6. CASE UNCHANGED <<active, history, machine, records>>
  BY <1>1, <1>2, <1>3, <1>5, <1>6, RaiseQuiet DEF Files
<1>7. CASE pc[p] \in TornSteps /\ ((\A q \in Procs \ {p} : Stays(q)) => Kept(p))
  <2>1. ASSUME NEW q \in Procs \ {p} PROVE Stays(q)
    BY <1>1, <1>2 DEF Raises, Stays, IInv, TypeOK
  <2>2. Rests(p) /\ aid'[p] = aid[p] /\ pc[p] \notin Early /\ pc'[p] \notin Guarded
    <3>1. pc'[p] \in {"idle", "report", "alRead"} \/ (pc'[p] = "fnRead" /\ target'[p] = "failed")
      <4>1. \A t \in TornSteps : Handler[t] \in {"idle", "report", "alRead"}
        BY DEF TornSteps, Handler
      <4>. QED
        BY <1>2, <1>7, <4>1 DEF Raises, Lands
    <3>. QED
      BY <1>1, <1>2, <1>7, <3>1 DEF Rests, Raises, TornSteps, Early, Guarded, Renaming
  <2>. QED
    BY <1>5, <1>7, <2>1, <2>2, RestRelies, FileStep
<1>. QED
  BY <1>4, <1>6, <1>7

LEMMA CrashStep ==
  ASSUME IInv, NEW p \in Procs, Crash(p)
  PROVE  IInv'
<1>1. /\ pc[p] # "idle" /\ pc' = [pc EXCEPT ![p] = "idle"] /\ pc'[p] = "idle" /\ Tear(p)
      /\ temps' = temps \ {p} /\ gtemps' = gtemps \ {p}
      /\ UNCHANGED <<doc, accepted, lock, locals, drawn, edits, faults>> /\ crashes' = crashes + 1
      /\ litter' \in BOOLEAN /\ glitter' \in BOOLEAN /\ UNCHANGED <<aid, rid, target>>
  BY DEF Crash, locals, IInv, TypeOK
<1>2. \/ UNCHANGED <<active, history, machine, records>>
      \/ /\ pc[p] \in TornSteps
         /\ (\A q \in Procs \ {p} : Stays(q)) => Kept(p)
         /\ aid[p] \in Ids
  BY <1>1, Torn
<1>3. TypeOK'
  <2>1. FilesType'
    BY <1>1, <1>2, TornType, TypeFiles DEF IInv, FilesType
  <2>2. lock' \in [Ids -> BOOLEAN]
    BY <1>1 DEF IInv, TypeOK
  <2>. QED
    BY <1>1, <2>1, <2>2, MoveType DEF IInv
<1>4. ASSUME NEW q \in Procs \ {p} PROVE Stays(q)
  BY <1>1 DEF Stays, IInv, TypeOK
<1>5. Relies(p)'
  BY <1>1, RestRelies DEF Rests
<1>6. CASE UNCHANGED <<active, history, machine, records>>
  <2>1. ASSUME NEW q \in Procs \ {p} PROVE Together(p, q)' /\ Together(q, p)'
    BY <1>1 DEF Together, Early
  <2>. QED
    BY <1>1, <1>3, <1>4, <1>5, <1>6, <2>1, QuietStep DEF Files
<1>7. CASE pc[p] \in TornSteps /\ ((\A q \in Procs \ {p} : Stays(q)) => Kept(p))
  BY <1>1, <1>3, <1>4, <1>5, <1>7, FileStep DEF TornSteps, Early, Guarded, Renaming
<1>. QED
  BY <1>2, <1>6, <1>7

\* The processes stay where they are.
LEMMA WorldStep ==
  ASSUME IInv, TypeOK', FilesInv', MutationAuthorized', UNCHANGED <<pc, aid, rid, target, temps>>,
         \A q \in Procs : Stays(q) => Relies(q)'
  PROVE  IInv'
<1>1. \A q \in Procs : Relies(q)'
  BY DEF Stays
<1>2. Apart'
  BY DEF IInv, Apart, Together
<1>. QED
  BY <1>1, <1>2 DEF IInv, StepsInv

LEMMA ExpireStep ==
  ASSUME IInv, NEW r \in Records, Expire(r)
  PROVE  IInv'
<1>1. /\ records[r] \in [id : Ids, state : {"torn", "active", "expired", "consumed"}]
      /\ records[r].state = "active" /\ records' = [records EXCEPT ![r].state = "expired"]
      /\ UNCHANGED <<doc, accepted, active, history, temps, litter, machine, lock, gtemps, glitter, drawn,
                     pc, aid, rid, target, snap, outcome, counters>>
  BY DEF Expire, audit, receipts, locals, IInv, TypeOK, Free
<1>2. /\ records'[r].id = records[r].id /\ records'[r].state = "expired"
      /\ \A t \in Records \ {r} : records'[t] = records[t]
  BY <1>1 DEF IInv, TypeOK
<1>3. RecordsMove
  BY <1>1, <1>2 DEF RecordsMove
<1>4. TypeOK'
  BY <1>1 DEF IInv, TypeOK, counters
<1>. QED
  BY <1>1, <1>3, <1>4, RecordMoved, WorldStep

LEMMA EditStep ==
  ASSUME IInv, Edit
  PROVE  IInv'
<1>1. /\ doc' = [doc EXCEPT !.edits = edits + 1] /\ edits' = edits + 1
      /\ UNCHANGED <<accepted, active, history, temps, litter, machine, lock, records, gtemps, glitter,
                     drawn, pc, aid, rid, target, snap, outcome, crashes, faults>>
  BY DEF Edit, audit, receipts, guardian, locals
<1>2. doc' \in Docs /\ doc'.applied = doc.applied
  BY <1>1 DEF IInv, TypeOK, Docs
<1>3. TypeOK'
  BY <1>1, <1>2 DEF IInv, TypeOK
<1>. QED
  BY <1>1, <1>2, <1>3, DocumentsMoved, WorldStep

-----------------------------------------------------------------------------
(* Theorems.                                                               *)

LEMMA InitIInv == Init => IInv
<1>. SUFFICES ASSUME Init PROVE IInv
  OBVIOUS
<1>1. TypeOK
  BY StepNames DEF Init, TypeOK, Docs, Baseline, Actives, NoActive, Terminal, Free
<1>2. FilesInv /\ MutationAuthorized
  BY IdsAssumption DEF Init, FilesInv, EvidenceAgrees, ActiveFollows, SettledIsKept, UndrawnIsUnheard,
     Unheard, CompletedIsApplied, MutationAuthorized, NoActive, Free, Terminal, Baseline
<1>3. StepsInv
  BY DEF Init, StepsInv, Relies, Creates, Candidates, Renaming, Consumes, Consumed, Mutating, Spends,
     Spent, Finishing, Settles, Settling
<1>4. Apart
  BY DEF Init, Apart, Together
<1>. QED
  BY <1>1, <1>2, <1>3, <1>4 DEF IInv

LEMMA NextIInv == IInv /\ [Next]_vars => IInv'
<1>. SUFFICES ASSUME IInv, [Next]_vars PROVE IInv'
  OBVIOUS
<1>1. ASSUME NEW p \in Procs,
             BeginAuthorize(p) \/ (\E i \in drawn : BeginApply(p, i)) \/ Process(p) \/ Throw(p) \/ Crash(p)
      PROVE  IInv'
  <2>1. CASE Process(p)
    BY <2>1, AuthorizeStep, IssueStep, ApplyStep DEF Process
  <2>. QED
    BY <1>1, <2>1, BeginAuthorizeStep, BeginApplyStep, ThrowStep, CrashStep
<1>2. CASE \E r \in Records : Expire(r)
  BY <1>2, ExpireStep
<1>3. CASE Edit
  BY <1>3, EditStep
<1>4. CASE UNCHANGED vars
  <2>1. UNCHANGED <<doc, accepted, active, history, temps, litter, machine, lock, records, gtemps, glitter,
                    drawn, pc, aid, rid, target, snap, outcome, edits, crashes, faults>>
    BY <1>4 DEF vars, audit, receipts, guardian, locals, counters
  <2>2. TypeOK'
    BY <2>1 DEF IInv, TypeOK
  <2>. QED
    BY <2>1, <2>2, DocumentsMoved, WorldStep
<1>. QED
  BY <1>1, <1>2, <1>3, <1>4 DEF Next

\* The inductive invariant holds, whatever the processes do and wherever they die.
THEOREM InvariantHolds == Spec => []IInv
BY InitIInv, NextIInv, PTL DEF Spec

\* What follows from the inductive invariant at once.
LEMMA InvImplies == IInv => TypeOK /\ MutationAuthorized /\ CompletedIsApplied /\ EvidenceAgrees
BY DEF IInv, FilesInv

\* The state of the files and of the processes is what it was declared to be.
THEOREM TypeCorrect == Spec => []TypeOK
BY InvariantHolds, InvImplies, PTL

\* The proposed statement is in the documents only under an authorization whose Guardian
\* record was consumed and whose receipt says so, however many processes apply at once.
THEOREM AuthorizedMutation == Spec => []MutationAuthorized
BY InvariantHolds, InvImplies, PTL

\* No record says that an application was completed unless the documents hold the statement.
THEOREM CompletedApplied == Spec => []CompletedIsApplied
BY InvariantHolds, InvImplies, PTL

\* The receipt, the history and active.json of an authorization never contradict each other.
THEOREM EvidenceAgreement == Spec => []EvidenceAgrees
BY InvariantHolds, InvImplies, PTL

-----------------------------------------------------------------------------
(* What a step changes.                                                    *)

\* A receipt moves by the process that creates, spends or settles it.
CreatesReceipt(p) ==
    /\ pc[p] = "auReceipt" /\ machine[aid[p]] = "none"
    /\ \E s \in {"torn", "authorized"} : machine' = [machine EXCEPT ![aid[p]] = s]
SpendsReceipt(p) ==
    /\ pc[p] = "bgMachine" /\ machine[aid[p]] = "authorized"
    /\ machine' = [machine EXCEPT ![aid[p]] = "applying"]
SettlesReceipt(p) ==
    /\ pc[p] = "fnMachine" /\ machine[aid[p]] = "applying"
    /\ machine' = [machine EXCEPT ![aid[p]] = target[p]]

ReceiptMoves(p) == UNCHANGED machine \/ CreatesReceipt(p) \/ SpendsReceipt(p) \/ SettlesReceipt(p)

\* The statement enters the documents by a promotion.
StatementMoves(p) ==
    \/ doc'.applied = doc.applied
    \/ pc[p] = "mutRename" /\ doc' = Post /\ UNCHANGED machine

\* "not-applied" is reported of a readable audit in which the authorization is over, and not failed.
ReportMoves(p) ==
    \/ UNCHANGED outcome
    \/ \E o \in {"none", "completed", "unknown"} : outcome' = [outcome EXCEPT ![p] = o]
    \/ /\ pc[p] = "report" /\ AuditReadable /\ active.id # aid[p] /\ history[aid[p]] # "failed"
       /\ outcome' = [outcome EXCEPT ![p] = "not-applied"]

Moves(p) == ReceiptMoves(p) /\ StatementMoves(p) /\ ReportMoves(p)

LEMMA QuietMoves ==
  ASSUME NEW p, UNCHANGED <<doc, machine, outcome>>
  PROVE  Moves(p)
BY DEF Moves, ReceiptMoves, StatementMoves, ReportMoves

LEMMA AuthorizeMoves ==
  ASSUME NEW p, Authorize(p) \/ Issue(p) \/ BeginAuthorize(p)
  PROVE  Moves(p)
<1>1. CASE Transition(p, "auReceipt", "none", "authorized", "auReread")
  BY <1>1 DEF Transition, Raise, locals, Moves, ReceiptMoves, StatementMoves, ReportMoves, CreatesReceipt
<1>2. CASE AuRead(p) \/ AuWrite(p)
  BY <1>2, QuietMoves DEF AuRead, AuWrite, Raise, locals
<1>. QED
  BY <1>1, <1>2, QuietMoves DEF Authorize, Issue, BeginAuthorize, Check, Compare, Replace, Raise, Go,
     locals, receipts

LEMMA PartMoves ==
  ASSUME NEW p, \/ Consume(p) \/ Begin(p) \/ Reconcile(p) \/ AlignFailure(p) \/ Mutate(p) \/ Finish(p)
  PROVE  Moves(p)
<1>1. CASE Consume(p)
  BY <1>1, QuietMoves DEF Consume, Check, Raise, locals, receipts
<1>2. CASE Begin(p)
  <2>1. CASE Transition(p, "bgMachine", "authorized", "applying", "bgUnlock")
    BY <2>1 DEF Transition, Raise, locals, Moves, ReceiptMoves, StatementMoves, ReportMoves, SpendsReceipt
  <2>. QED
    BY <1>2, <2>1, QuietMoves DEF Begin, Check, Lock, Unlock, Compare, Replace, Raise, locals, receipts
<1>3. CASE Reconcile(p)
  BY <1>3, QuietMoves DEF Reconcile, Check, Lock, Unlock, Compare, Replace, Raise, locals, receipts
<1>4. CASE AlignFailure(p)
  BY <1>4, QuietMoves DEF AlignFailure, Check, Lock, Unlock, WriteHistory, RemoveActive, Raise, locals
<1>5. CASE Mutate(p)
  <2>1. CASE Go(p, "mutRename", "verify") /\ doc' = Post /\ UNCHANGED <<receipts, locals>>
    BY <2>1 DEF Go, receipts, locals, Moves, ReceiptMoves, StatementMoves, ReportMoves
  <2>. QED
    BY <1>5, <2>1, QuietMoves DEF Mutate, Check, Raise, locals
<1>6. CASE Finish(p)
  <2>1. CASE Transition(p, "fnMachine", "applying", target[p], "fnUnlock")
    BY <2>1 DEF Transition, Raise, locals, Moves, ReceiptMoves, StatementMoves, ReportMoves, SettlesReceipt
  <2>. QED
    BY <1>6, <2>1, QuietMoves DEF Finish, Check, Lock, Unlock, WriteHistory, RemoveActive, Raise, locals
<1>. QED
  BY <1>1, <1>2, <1>3, <1>4, <1>5, <1>6

LEMMA ApplyMoves ==
  ASSUME NEW p, Apply(p)
  PROVE  Moves(p)
<1>1. CASE Accept(p)
  BY <1>1 DEF Accept, Go, Raise, receipts, Moves, ReceiptMoves, StatementMoves, ReportMoves
<1>2. CASE Report(p)
  BY <1>2 DEF Report, Go, receipts, Moves, ReceiptMoves, StatementMoves, ReportMoves
<1>. QED
  BY <1>1, <1>2, PartMoves, QuietMoves DEF Apply, Check, Raise, locals

LEMMA FailureMoves ==
  ASSUME NEW p, Throw(p) \/ Crash(p)
  PROVE  Moves(p)
BY DEF Throw, Crash, Tear, Raise, locals, Moves, ReceiptMoves, StatementMoves, ReportMoves, CreatesReceipt

LEMMA NextMoves ==
  ASSUME [Next]_vars
  PROVE  \/ \E p \in Procs : Moves(p)
         \/ UNCHANGED <<machine, outcome>> /\ doc'.applied = doc.applied
<1>1. ASSUME NEW p \in Procs, NEW i \in drawn, BeginApply(p, i)
      PROVE  Moves(p)
  BY <1>1 DEF BeginApply, receipts, Moves, ReceiptMoves, StatementMoves, ReportMoves
<1>2. ASSUME NEW r \in Records, Expire(r)
      PROVE  UNCHANGED <<machine, outcome, doc>>
  BY <1>2 DEF Expire, receipts, locals
<1>3. CASE Edit
  BY <1>3 DEF Edit, receipts, locals
<1>4. CASE UNCHANGED vars
  BY <1>4 DEF vars, receipts, locals
<1>. QED
  BY <1>1, <1>2, <1>3, <1>4, AuthorizeMoves, ApplyMoves, FailureMoves DEF Next, Process

\* No step takes an authorization back to an earlier state, in whatever order processes that
\* authorize, apply, fail and die take theirs.
THEOREM ForwardOnlyHolds == Spec => ForwardOnly
<1>1. ASSUME IInv, [Next]_vars, NEW i \in Ids, machine'[i] # machine[i]
      PROVE  Rank[machine'[i]] > Rank[machine[i]]
  <2>1. PICK p \in Procs : ReceiptMoves(p)
    BY <1>1, NextMoves DEF Moves
  <2>2. machine \in [Ids -> Terminal \cup {"none", "torn", "authorized", "applying"}]
    BY <1>1 DEF IInv, TypeOK
  <2>3. CASE CreatesReceipt(p)
    BY <1>1, <2>2, <2>3 DEF CreatesReceipt, Rank
  <2>4. CASE SpendsReceipt(p)
    BY <1>1, <2>2, <2>4 DEF SpendsReceipt, Rank
  <2>5. CASE SettlesReceipt(p)
    <3>1. target[p] \in {"completed", "failed"}
      BY <1>1 DEF IInv, TypeOK, Terminal
    <3>. QED
      BY <1>1, <2>2, <2>5, <3>1 DEF SettlesReceipt, Rank
  <2>. QED
    BY <1>1, <2>1, <2>3, <2>4, <2>5 DEF ReceiptMoves
<1>2. IInv /\ [Next]_vars =>
          [\A i \in Ids : machine'[i] # machine[i] => Rank[machine'[i]] > Rank[machine[i]]]_vars
  BY <1>1
<1>. QED
  BY <1>2, InvariantHolds, PTL DEF Spec, ForwardOnly

\* An apply of an authorization whose outcome is open, or which failed, never reports that
\* nothing was applied.
THEOREM UncertainNeverDeniedHolds == Spec => UncertainNeverDenied
<1>1. ASSUME IInv, [Next]_vars, NEW p \in Procs, outcome'[p] = "not-applied", outcome[p] # "not-applied"
      PROVE  machine[aid[p]] \notin {"applying", "failed"}
  <2>1. PICK q \in Procs : ReportMoves(q)
    BY <1>1, NextMoves DEF Moves
  <2>2. /\ pc[p] = "report" /\ AuditReadable /\ active.id # aid[p] /\ history[aid[p]] # "failed"
    BY <1>1, <2>1 DEF ReportMoves, IInv, TypeOK
  <2>3. aid[p] \in Ids
    BY <1>1, <2>2, Worker
  <2>4. machine[aid[p]] # "applying"
    BY <1>1, <2>2, <2>3 DEF IInv, FilesInv, EvidenceAgrees
  <2>5. machine[aid[p]] # "failed"
    BY <1>1, <2>2, <2>3 DEF IInv, FilesInv, EvidenceAgrees, SettledIsKept, Terminal
  <2>. QED
    BY <2>4, <2>5
<1>2. IInv /\ [Next]_vars =>
          [\A p \in Procs : outcome'[p] = "not-applied" /\ outcome[p] # "not-applied"
              => machine[aid[p]] \notin {"applying", "failed"}]_vars
  BY <1>1
<1>. QED
  BY <1>2, InvariantHolds, PTL DEF Spec, UncertainNeverDenied

-----------------------------------------------------------------------------
(* One process at a time: the refinement of ApplyContract.                 *)

\* The steps at which a process that is alone knows that its authorization is spent and open.
Committed == {"bgUnlock", "bgRead", "bgTemp", "bgRename", "rcTemp", "rcRename", "rcUnlock",
              "mutCheck", "mutRename"}

SoloInv == \A p \in Procs : pc[p] \in Committed => machine[aid[p]] = "applying"

SoloMoves(p) ==
    \/ pc'[p] \notin Committed
    \/ pc[p] \in Committed /\ UNCHANGED <<machine, aid>>
    \/ machine'[aid'[p]] = "applying"

LEMMA RaiseSolo ==
  ASSUME IInv, NEW p \in Procs, pc[p] \in Steps, Raise(p), UNCHANGED machine \/ pc[p] \in TornSteps
  PROVE  SoloMoves(p)
<1>1. Raises(p)
  BY RaiseRaises DEF IInv
<1>2. /\ pc'[p] \in Committed => pc[p] \in Committed
      /\ pc[p] \in TornSteps => pc'[p] \notin Committed
  BY <1>1, HandlerTable DEF Raises, Lands, Committed, TornSteps
<1>. QED
  BY <1>1, <1>2 DEF SoloMoves, Raises

LEMMA CheckSolo ==
  ASSUME IInv, NEW p \in Procs, NEW from \in Steps, NEW to, pc[p] = from,
         Raise(p) \/ (Go(p, from, to) /\ UNCHANGED <<locals, drawn>>), UNCHANGED machine,
         to \in Committed => from \in Committed
  PROVE  SoloMoves(p)
<1>1. CASE Raise(p)
  BY <1>1, RaiseSolo
<1>2. CASE Go(p, from, to) /\ UNCHANGED <<locals, drawn>>
  BY <1>2, Gone DEF IInv, SoloMoves, locals
<1>. QED
  BY <1>1, <1>2

LEMMA AuthorizeSolo ==
  ASSUME IInv, NEW p \in Procs, Authorize(p) \/ Issue(p) \/ BeginAuthorize(p) \/ \E i \in drawn : BeginApply(p, i)
  PROVE  SoloMoves(p)
<1>1. CASE AuRead(p)
  <2>1. pc'[p] \in {"idle", "auWrite", "giFind", "auReceipt", "auReread"}
    <3>1. CASE Raise(p)
      BY <1>1, <3>1, RaiseRaises, HandlerTable, StepNames DEF AuRead, Raises, Lands, Mutating, Finishing, IInv
    <3>2. CASE ~Raise(p)
      BY <1>1, <3>2 DEF AuRead, Go, IInv, TypeOK
    <3>. QED
      BY <3>1, <3>2
  <2>. QED
    BY <2>1 DEF SoloMoves, Committed
<1>2. CASE AuWrite(p)
  BY <1>2, CheckSolo, StepNames DEF AuWrite, Committed
<1>3. CASE Transition(p, "auReceipt", "none", "authorized", "auReread")
  <2>1. CASE Raise(p)
    BY <1>3, <2>1, RaiseSolo, StepNames DEF Transition, TornSteps
  <2>2. CASE Go(p, "auReceipt", "auReread")
    BY <2>2, Gone DEF IInv, SoloMoves, Committed
  <2>. QED
    BY <1>3, <2>1, <2>2 DEF Transition
<1>4. CASE Check(p, "auReread", AuditShows(aid[p], "preparing"), "auTemp")
  BY <1>4, CheckSolo, StepNames DEF Check, Committed
<1>5. CASE Compare(p, "auTemp", "preparing", "auRename") \/ Replace(p, "auRename", "authorized", "auVerify")
  BY <1>5, CheckSolo, StepNames DEF Compare, Replace, Go, receipts, Committed
<1>6. CASE Check(p, "auVerify", machine[aid[p]] = "authorized", "giFind")
  BY <1>6, CheckSolo, StepNames DEF Check, Committed
<1>7. CASE Issue(p)
  BY <1>7, CheckSolo, StepNames DEF Issue, Check, Go, receipts, Committed
<1>8. CASE BeginAuthorize(p) \/ \E i \in drawn : BeginApply(p, i)
  BY <1>8, Gone DEF BeginAuthorize, BeginApply, SoloMoves, Committed, IInv
<1>. QED
  BY <1>1, <1>2, <1>3, <1>4, <1>5, <1>6, <1>7, <1>8 DEF Authorize

LEMMA ReadySolo ==
  ASSUME IInv, NEW p \in Procs,
         \/ Check(p, "plan", Current /\ accepted = doc, "ready")
         \/ Check(p, "ready", Ready(aid[p]), "readyAgain")
         \/ Check(p, "readyAgain", Ready(aid[p]), "guFind")
  PROVE  SoloMoves(p)
BY CheckSolo, StepNames DEF Check, Committed

LEMMA ConsumeSolo ==
  ASSUME IInv, NEW p \in Procs, Consume(p)
  PROVE  SoloMoves(p)
<1>1. CASE Raise(p) /\ pc[p] \in Steps /\ UNCHANGED machine
  BY <1>1, RaiseSolo
<1>2. CASE Go(p, "guFind", "guTemp") \/ Go(p, "guTemp", "guRename") \/ Go(p, "guRename", "guVerify")
  BY <1>2, Gone DEF SoloMoves, Committed, IInv
<1>3. CASE Check(p, "guVerify", RecordsReadable /\ records[rid[p]].state = "consumed", "begin")
  BY <1>3, CheckSolo, StepNames DEF Check, Committed
<1>. QED
  BY <1>1, <1>2, <1>3, StepNames DEF Consume

LEMMA BeginSolo ==
  ASSUME IInv, NEW p \in Procs, Begin(p)
  PROVE  SoloMoves(p)
<1>1. CASE Transition(p, "bgMachine", "authorized", "applying", "bgUnlock")
  <2>1. CASE Raise(p) /\ UNCHANGED machine
    BY <1>1, <2>1, RaiseSolo, StepNames DEF Transition
  <2>2. CASE machine' = [machine EXCEPT ![aid[p]] = "applying"] /\ UNCHANGED locals
    <3>1. aid[p] \in Ids
      BY <1>1, Worker DEF Transition
    <3>. QED
      BY <2>2, <3>1 DEF SoloMoves, locals, IInv, TypeOK
  <2>. QED
    BY <1>1, <2>1, <2>2 DEF Transition
<1>2. CASE Check(p, "begin", Current /\ AuditShows(aid[p], "authorized"), "bgLock")
  BY <1>2, CheckSolo, StepNames DEF Check, Committed
<1>3. CASE Lock(p, "bgLock", "bgMachine")
  BY <1>3, CheckSolo, StepNames DEF Lock, Committed
<1>4. CASE Unlock(p, "bgUnlock", "bgRead")
  BY <1>4, CheckSolo, StepNames DEF Unlock, Go, Committed
<1>5. CASE Check(p, "bgRead", AuditShows(aid[p], "authorized"), "bgTemp")
  BY <1>5, CheckSolo, StepNames DEF Check, Committed
<1>6. CASE Compare(p, "bgTemp", "authorized", "bgRename")
  BY <1>6, CheckSolo, StepNames DEF Compare, Committed
<1>7. CASE Replace(p, "bgRename", "applying", "mutCheck")
  BY <1>7, CheckSolo, StepNames DEF Replace, Go, receipts, Committed
<1>. QED
  BY <1>1, <1>2, <1>3, <1>4, <1>5, <1>6, <1>7 DEF Begin

LEMMA ReconcileSolo ==
  ASSUME IInv, NEW p \in Procs, Reconcile(p)
  PROVE  SoloMoves(p)
<1>. DEFINE i == aid[p]
<1>1. CASE Check(p, "recover",
                 Current /\ \E r \in Records : TheRecord(r, i, "consumed"), "rcRead")
  BY <1>1, CheckSolo, StepNames DEF Check, Committed
<1>2. CASE Check(p, "rcRead", AuditReadable /\ active.id = i, "rcLock")
  BY <1>2, CheckSolo, StepNames DEF Check, Committed
<1>3. CASE Lock(p, "rcLock", "rcDecide")
  BY <1>3, CheckSolo, StepNames DEF Lock, Committed
<1>4. CASE Check(p, "rcDecide",
                 /\ AuditReadable /\ active.id = i
                 /\ active.state \in {"authorized", "applying"} /\ machine[i] = "applying",
                 IF active.state = "authorized" THEN "rcTemp" ELSE "rcUnlock")
  <2>1. CASE Raise(p)
    BY <1>4, <2>1, RaiseSolo, StepNames DEF Check
  <2>2. CASE machine[i] = "applying" /\ UNCHANGED <<locals, drawn>>
    BY <1>4, <2>2 DEF Check, SoloMoves, locals
  <2>. QED
    BY <1>4, <2>1, <2>2 DEF Check
<1>5. CASE Compare(p, "rcTemp", "authorized", "rcRename")
  BY <1>5, CheckSolo, StepNames DEF Compare, Committed
<1>6. CASE Replace(p, "rcRename", "applying", "rcUnlock")
  BY <1>6, CheckSolo, StepNames DEF Replace, Go, receipts, Committed
<1>7. CASE Unlock(p, "rcUnlock", "mutCheck")
  BY <1>7, CheckSolo, StepNames DEF Unlock, Go, Committed
<1>. QED
  BY <1>1, <1>2, <1>3, <1>4, <1>5, <1>6, <1>7 DEF Reconcile

\* From the promotion on nothing relies on the authorization being open.
LEMMA SettleSolo ==
  ASSUME IInv, NEW p \in Procs, AlignFailure(p) \/ Mutate(p) \/ Finish(p) \/ Accept(p) \/ Report(p)
  PROVE  SoloMoves(p)
<1>1. CASE AlignFailure(p)
  BY SMTT(30), <1>1, CheckSolo, StepNames DEF AlignFailure, Check, Lock, Unlock, WriteHistory, RemoveActive, Go, Committed
<1>2. CASE Mutate(p)
  BY <1>2, CheckSolo, StepNames DEF Mutate, Check, Go, receipts, Committed
<1>3. CASE Finish(p)
  <2>1. CASE Transition(p, "fnMachine", "applying", target[p], "fnUnlock")
    <3>1. CASE Raise(p) /\ UNCHANGED machine
      BY <2>1, <3>1, RaiseSolo, StepNames DEF Transition
    <3>2. CASE Go(p, "fnMachine", "fnUnlock")
      BY <3>2, Gone DEF IInv, SoloMoves, Committed
    <3>. QED
      BY <2>1, <3>1, <3>2 DEF Transition
  <2>. QED
    BY SMTT(30), <1>3, <2>1, CheckSolo, StepNames DEF Finish, Check, Lock, Unlock, WriteHistory, RemoveActive, Go, Committed
<1>4. CASE Accept(p) \/ Report(p)
  <2>1. CASE Raise(p)
    BY <1>4, <2>1, RaiseSolo, StepNames DEF Accept, Report, Go, receipts
  <2>2. CASE pc'[p] \in {"acCommit", "idle"}
    BY <2>2 DEF SoloMoves, Committed
  <2>. QED
    BY <1>4, <2>1, <2>2, Gone DEF Accept, Report, IInv
<1>. QED
  BY <1>1, <1>2, <1>3, <1>4

LEMMA SoloStep ==
  ASSUME IInv, NEW p \in Procs, Procs = {p}, SoloInv, [Next]_vars
  PROVE  SoloInv'
<1>1. CASE SoloMoves(p)
  BY <1>1 DEF SoloInv, SoloMoves
<1>2. CASE UNCHANGED <<pc, machine, aid>>
  BY <1>2 DEF SoloInv
<1>3. CASE Apply(p)
  BY <1>1, <1>3, ReadySolo, ConsumeSolo, BeginSolo, ReconcileSolo, SettleSolo DEF Apply
<1>4. CASE Throw(p)
  <2>1. UNCHANGED machine \/ pc[p] \in TornSteps
    BY <1>4 DEF Throw, Tear, TornSteps
  <2>. QED
    BY <1>1, <1>4, <2>1, RaiseSolo DEF Throw
<1>5. CASE Crash(p)
  BY <1>1, <1>5 DEF Crash, SoloMoves, Committed, IInv, TypeOK
<1>6. ASSUME NEW r \in Records, Expire(r)
      PROVE  UNCHANGED <<pc, machine, aid>>
  BY <1>6 DEF Expire, receipts, locals
<1>7. CASE Edit \/ UNCHANGED vars
  BY <1>2, <1>7 DEF Edit, vars, receipts, locals
<1>. QED
  BY <1>1, <1>2, <1>3, <1>4, <1>5, <1>6, <1>7, AuthorizeSolo DEF Next, Process

\* The contract's view of the receipts.
View ==
    [i \in Ids |-> IF machine[i] \in Terminal THEN machine[i]
                   ELSE IF machine[i] = "applying" THEN "spent" ELSE "open"]

\* A receipt that moves moves as the contract says.
LEMMA ReceiptRefines ==
  ASSUME IInv, NEW p \in Procs, doc'.applied = doc.applied,
         CreatesReceipt(p) \/ SpendsReceipt(p) \/ SettlesReceipt(p)
  PROVE  Contract!Next \/ UNCHANGED <<View, doc.applied>>
<1>1. machine \in [Ids -> Terminal \cup {"none", "torn", "authorized", "applying"}]
  BY DEF IInv, TypeOK
<1>2. aid[p] \in Ids
  BY Worker DEF CreatesReceipt, SpendsReceipt, SettlesReceipt
<1>3. CASE CreatesReceipt(p)
  <2>1. View' = View
    BY <1>1, <1>3 DEF CreatesReceipt, View, Terminal
  <2>. QED
    BY <2>1
<1>4. CASE SpendsReceipt(p)
  <2>1. View[aid[p]] = "open" /\ View' = [View EXCEPT ![aid[p]] = "spent"]
    BY <1>1, <1>2, <1>4 DEF SpendsReceipt, View, Terminal
  <2>. QED
    BY <1>2, <2>1 DEF Contract!Next, Contract!Spend, View
<1>5. CASE SettlesReceipt(p)
  <2>1. target[p] \in {"completed", "failed"} /\ (target[p] = "completed" => doc.applied)
    BY <1>5 DEF SettlesReceipt, IInv, TypeOK, Terminal, StepsInv, Relies, Settles, Finishing
  <2>2. View[aid[p]] = "spent" /\ View' = [View EXCEPT ![aid[p]] = target[p]]
    BY <1>1, <1>2, <1>5, <2>1 DEF SettlesReceipt, View, Terminal
  <2>. QED
    BY <1>2, <2>1, <2>2 DEF Contract!Next, Contract!Complete, Contract!Fail, View
<1>. QED
  BY <1>3, <1>4, <1>5

\* The statement enters the documents as the contract says, by the one process.
LEMMA StatementRefines ==
  ASSUME IInv, NEW p \in Procs, SoloInv, pc[p] = "mutRename", doc' = Post, UNCHANGED machine
  PROVE  Contract!Next
<1>1. aid[p] \in Ids /\ machine[aid[p]] = "applying"
  BY Worker DEF SoloInv, Committed
<1>2. View[aid[p]] = "spent" /\ View' = View /\ doc'.applied = TRUE
  BY <1>1 DEF View, Terminal, Post
<1>. QED
  BY <1>1, <1>2 DEF Contract!Next, Contract!Write, View

LEMMA StepRefines ==
  ASSUME IInv, SoloInv, [Next]_vars
  PROVE  Contract!Next \/ UNCHANGED <<View, doc.applied>>
<1>1. CASE UNCHANGED machine /\ doc'.applied = doc.applied
  BY <1>1 DEF View
<1>2. ASSUME NEW p \in Procs, Moves(p)
      PROVE  Contract!Next \/ UNCHANGED <<View, doc.applied>>
  <2>1. pc[p] = "mutRename" => ~(CreatesReceipt(p) \/ SpendsReceipt(p) \/ SettlesReceipt(p))
    BY DEF CreatesReceipt, SpendsReceipt, SettlesReceipt
  <2>. QED
    BY <1>1, <1>2, <2>1, ReceiptRefines, StatementRefines DEF Moves, ReceiptMoves, StatementMoves
<1>. QED
  BY <1>1, <1>2, NextMoves

\* Processes that run one after the other keep the contract of a one-shot authorization:
\* spent before the documents change, settled once, and completed only when they hold the
\* statement, wherever a process stops and whatever a later one finds.
THEOREM ContractKept == ASSUME NEW p, Procs = {p} PROVE Spec => KeepsContract
<1>1. Init => Contract!Init /\ SoloInv
  BY DEF Init, Contract!Init, Baseline, Terminal, SoloInv, Committed
<1>2. IInv /\ SoloInv /\ [Next]_vars => SoloInv'
  BY SoloStep
<1>3. IInv /\ SoloInv /\ [Next]_vars => [Contract!Next]_<<View, doc.applied>>
  BY StepRefines
<1>. QED
  BY <1>1, <1>2, <1>3, InvariantHolds, PTL DEF Spec, KeepsContract, Contract!Spec, View
=================================================================================
