----------------------------- MODULE GuardianProofs -----------------------------
(***************************************************************************)
(* Theorems about GuardianRoot and GuardianAuthority, for every number of  *)
(* builds, privileged terminals, operations, calls, records, materials,    *)
(* ticks of the clock and troubles.                                        *)
(***************************************************************************)
EXTENDS GuardianInvariant, TLAPS

-----------------------------------------------------------------------------
(* The root: facts about the control.                                      *)

LEMMA TaskNames ==
    TaskSteps = BootstrapSteps \cup RecoverSteps \cup UpgradeSteps \cup UndoSteps
BY DEF TaskSteps, Handler, BootstrapSteps, RecoverSteps, UpgradeSteps, UndoSteps

\* Only an upgrade that has made its backups is undone, and its undoing is not.
LEMMA HandlerTable ==
    /\ \A s \in BootstrapSteps \cup RecoverSteps : Handler[s] = "idle"
    /\ \A s \in {"ugBackupHelper", "ugBackupDescriptor", "rbDrop"} : Handler[s] = "idle"
    /\ \A s \in UpgradeSteps \ {"ugBackupHelper", "ugBackupDescriptor"} : Handler[s] = "rbHelper"
    /\ \A s \in {"rbHelper", "rbCopyHelper"} : Handler[s] = "rbDescriptor"
    /\ \A s \in {"rbDescriptor", "rbCopyDescriptor"} : Handler[s] = "rbDrop"
BY DEF Handler, BootstrapSteps, RecoverSteps, UpgradeSteps

\* What an operation of a that goes on may change, where it gets, and what then holds of a.
TaskMoves(a) ==
    /\ task[a] # "idle" /\ task' = [task EXCEPT ![a] = task'[a]]
    /\ \A b \in Admins \ {a} : backup'[b] = backup[b]
    /\ UNCHANGED <<source, build, crossed, tasks>>
    /\ late => late'
    /\ deaths' \in Nat /\ deaths <= deaths' /\ faults' \in Nat /\ faults <= faults' /\ UNCHANGED backs

MoveKeeps(a) ==
    /\ MadeFirst'
    /\ ~crossed /\ task'[a] \in {"rcValidate", "rcOpen"} => root'.dir /\ root'.records
    /\ ~crossed /\ task'[a] = "rcOpen" => Coherent'
    /\ Undoable' =>
         /\ ready' /\ task'[a] \in RecoverSteps \cup {"idle"} => Coherent'
         /\ task'[a] \in BootstrapSteps => ~ready' /\ root'.descriptor = "absent"
         /\ UpgradeKeepsPair(a)'

LEMMA TaskMove ==
  ASSUME RootInv, RootTypeOK', NEW a \in Admins, TaskMoves(a), MoveKeeps(a)
  PROVE  RootInv'
<1>. \A b \in Admins \ {a} : task'[b] = task[b]
  BY DEF TaskMoves, RootInv, RootTypeOK
<1>1. OneAtATime'
  BY DEF OneAtATime, TaskMoves, RootInv, RootTypeOK
<1>2. ASSUME ~crossed, NEW b \in Admins \ {a} PROVE task[b] = "idle" /\ task'[b] = "idle"
  BY <1>2 DEF OneAtATime, TaskMoves, RootInv
<1>3. RecoveryChecked'
  BY <1>2 DEF RecoveryChecked, TaskMoves, MoveKeeps
<1>4. PairKept'
  BY <1>2
  DEF PairKept, TaskMoves, MoveKeeps, Undoable, UpgradeKeepsPair, BootstrapSteps, UpgradeSteps, UndoSteps
<1>. QED
  BY <1>1, <1>3, <1>4 DEF RootInv, MoveKeeps

-----------------------------------------------------------------------------
(* The root: its operations.                                               *)


\* A recovery finds the pair whole when it was ever ready.
LEMMA RecoveryFindsPair ==
  ASSUME RootInv, NEW a \in Admins, task[a] \in RecoverSteps, Undoable, ready
  PROVE  Coherent
BY DEF RootInv, OneAtATime, PairKept, Undoable, RecoverSteps

LEMMA HandlerType == Handler \in [TaskSteps -> TaskSteps \cup {"idle"}]
BY DEF TaskSteps, Handler

LEMMA RootWrites ==
  ASSUME RootTypeOK, NEW a \in Admins
  PROVE  /\ root \in Roots /\ [root EXCEPT !.dir = TRUE] \in Roots
         /\ [root EXCEPT !.descriptor = build[a], !.acl = "ok"] \in Roots
         /\ [root EXCEPT !.descriptor = backup[a].descriptor, !.acl = "ok"] \in Roots
BY DEF RootTypeOK, Roots, File


\* Until its last step a bootstrap has no descriptor, so the root is not ready.
LEMMA BootstrapStep ==
  ASSUME RootInv, NEW a \in Admins, Bootstrap(a)
  PROVE  RootInv'
<1>0. root \in Roots /\ [root EXCEPT !.dir = TRUE] \in Roots
  BY RootWrites DEF RootInv
<1>. USE DEF Access, Backup, Step, Fail, RootInv, RootTypeOK, limits, BootstrapSteps, RecoverSteps, UpgradeSteps, UndoSteps
<1>1. CASE BeginTask(a, ~root.dir, "bsConfirm")
  <2>1. RootTypeOK'
    BY <1>1, TaskNames, ReleaseAssumption DEF BeginTask, NoBackup, File
  <2>. QED
    BY <2>1, <1>1, ReleaseAssumption
    DEF BeginTask, MadeFirst, OneAtATime, RecoveryChecked, PairKept, Undoable, UpgradeKeepsPair, Roots,
        Ready, ReadyToAdmin, Coherent, BackedUp, Layout
<1>2. CASE Access(a, "bsConfirm", ~root.dir, "bsMkdir", root)
  <2>1. MadeFirst'
    BY <1>2, HandlerTable, ReleaseAssumption DEF MadeFirst, Roots, File, Ready, ReadyToAdmin, Coherent, Layout
  <2>2. MoveKeeps(a)
    BY <1>2, <2>1, HandlerTable, ReleaseAssumption
    DEF Roots, File, Ready, ReadyToAdmin, Coherent, Layout, MoveKeeps, MadeFirst, RecoveryChecked,
        PairKept, Undoable, UpgradeKeepsPair
  <2>3. TaskMoves(a)
    BY <1>2 DEF TaskMoves
  <2>4. RootTypeOK'
    BY <1>2, HandlerType, TaskNames, ReleaseAssumption DEF Roots, File, NoBackup, Ready, Coherent
  <2>. QED
    BY <2>2, <2>3, <2>4, TaskMove
<1>3. CASE Access(a, "bsMkdir", ~root.dir, "bsRecords", [root EXCEPT !.dir = TRUE])
  <2>1. \/ root' = root
        \/ /\ root'.dir = TRUE /\ root'.records = root.records /\ root'.acl = root.acl
           /\ root'.helper = root.helper /\ root'.descriptor = root.descriptor
    BY <1>3 DEF Roots
  <2>2. root' \in Roots
    BY <1>0, <1>3, Zenon
  <2>3. MadeFirst'
    BY <1>3, <2>1, <2>2, HandlerTable, ReleaseAssumption
    DEF MadeFirst, Roots, File, Ready, ReadyToAdmin, Coherent, Layout
  <2>4. MoveKeeps(a)
    BY <1>3, <2>3, <2>1, <2>2, HandlerTable, ReleaseAssumption
    DEF Roots, File, Ready, ReadyToAdmin, Coherent, Layout, MoveKeeps, MadeFirst, RecoveryChecked,
        PairKept, Undoable, UpgradeKeepsPair
  <2>5. TaskMoves(a)
    BY <1>3 DEF TaskMoves
  <2>6. RootTypeOK'
    BY <1>3, <2>1, <2>2, HandlerType, TaskNames, ReleaseAssumption DEF Roots, File, NoBackup, Ready, Coherent
  <2>. QED
    BY <2>4, <2>5, <2>6, TaskMove
<1>4. CASE Access(a, "bsRecords", TRUE, "bsHelper", [root EXCEPT !.records = TRUE])
  <2>1. MadeFirst'
    BY <1>4, HandlerTable, ReleaseAssumption DEF MadeFirst, Roots, File, Ready, ReadyToAdmin, Coherent, Layout
  <2>2. MoveKeeps(a)
    BY <1>4, <2>1, HandlerTable, ReleaseAssumption
    DEF Roots, File, Ready, ReadyToAdmin, Coherent, Layout, MoveKeeps, MadeFirst, RecoveryChecked,
        PairKept, Undoable, UpgradeKeepsPair
  <2>3. TaskMoves(a)
    BY <1>4 DEF TaskMoves
  <2>4. RootTypeOK'
    BY <1>4, HandlerType, TaskNames, ReleaseAssumption DEF Roots, File, NoBackup, Ready, Coherent
  <2>. QED
    BY <2>2, <2>3, <2>4, TaskMove
<1>5. CASE Access(a, "bsHelper", TRUE, "bsVerify", [root EXCEPT !.helper = source])
  <2>1. MadeFirst'
    BY <1>5, HandlerTable, ReleaseAssumption DEF MadeFirst, Roots, File, Ready, ReadyToAdmin, Coherent, Layout
  <2>2. MoveKeeps(a)
    BY <1>5, <2>1, HandlerTable, ReleaseAssumption
    DEF Roots, File, Ready, ReadyToAdmin, Coherent, Layout, MoveKeeps, MadeFirst, RecoveryChecked,
        PairKept, Undoable, UpgradeKeepsPair
  <2>3. TaskMoves(a)
    BY <1>5 DEF TaskMoves
  <2>4. RootTypeOK'
    BY <1>5, HandlerType, TaskNames, ReleaseAssumption DEF Roots, File, NoBackup, Ready, Coherent
  <2>. QED
    BY <2>2, <2>3, <2>4, TaskMove
<1>6. CASE Access(a, "bsVerify", root.helper = build[a], "bsDescriptor", root)
  <2>1. MadeFirst'
    BY <1>6, HandlerTable, ReleaseAssumption DEF MadeFirst, Roots, File, Ready, ReadyToAdmin, Coherent, Layout
  <2>2. MoveKeeps(a)
    BY <1>6, <2>1, HandlerTable, ReleaseAssumption
    DEF Roots, File, Ready, ReadyToAdmin, Coherent, Layout, MoveKeeps, MadeFirst, RecoveryChecked,
        PairKept, Undoable, UpgradeKeepsPair
  <2>3. TaskMoves(a)
    BY <1>6 DEF TaskMoves
  <2>4. RootTypeOK'
    BY <1>6, HandlerType, TaskNames, ReleaseAssumption DEF Roots, File, NoBackup, Ready, Coherent
  <2>. QED
    BY <2>2, <2>3, <2>4, TaskMove
<1>7. CASE Access(a, "bsDescriptor", TRUE, "idle", [root EXCEPT !.descriptor = build[a]])
  <2>1. MadeFirst'
    BY <1>7, HandlerTable, ReleaseAssumption DEF MadeFirst, Roots, File, Ready, ReadyToAdmin, Coherent, Layout
  <2>2. MoveKeeps(a)
    BY <1>7, <2>1, HandlerTable, ReleaseAssumption
    DEF Roots, File, Ready, ReadyToAdmin, Coherent, Layout, MoveKeeps, MadeFirst, RecoveryChecked,
        PairKept, Undoable, UpgradeKeepsPair
  <2>3. TaskMoves(a)
    BY <1>7 DEF TaskMoves
  <2>4. RootTypeOK'
    BY <1>7, HandlerType, TaskNames, ReleaseAssumption DEF Roots, File, NoBackup, Ready, Coherent
  <2>. QED
    BY <2>2, <2>3, <2>4, TaskMove
<1>. QED
  BY <1>1, <1>2, <1>3, <1>4, <1>5, <1>6, <1>7 DEF Bootstrap

\* A recovery touches the access lists only, and opens them to a pair it has compared.
LEMMA RecoverStep ==
  ASSUME RootInv, NEW a \in Admins, Recover(a, dirs = {})
  PROVE  RootInv'
<1>. USE DEF Access, Backup, Step, Fail, RootInv, RootTypeOK, limits, BootstrapSteps, RecoverSteps, UpgradeSteps, UndoSteps
<1>1. CASE BeginTask(a, Layout /\ (dirs = {}), "rcConfirm")
  <2>1. RootTypeOK'
    BY <1>1, TaskNames, ReleaseAssumption DEF BeginTask, NoBackup, File
  <2>. QED
    BY <2>1, <1>1, ReleaseAssumption
    DEF BeginTask, MadeFirst, OneAtATime, RecoveryChecked, PairKept, Undoable, UpgradeKeepsPair, Roots,
        Ready, ReadyToAdmin, Coherent, BackedUp, Layout
<1>2. CASE Access(a, "rcConfirm", TRUE, "rcRevalidate", root)
  <2>1. MadeFirst'
    BY <1>2, HandlerTable, ReleaseAssumption DEF MadeFirst, Roots, File, Ready, ReadyToAdmin, Coherent, Layout
  <2>2. MoveKeeps(a)
    BY <1>2, <2>1, HandlerTable, RecoveryFindsPair, ReleaseAssumption
    DEF Roots, File, Ready, ReadyToAdmin, Coherent, Layout, MoveKeeps, MadeFirst, RecoveryChecked,
        PairKept, Undoable, UpgradeKeepsPair, MaterialExact
  <2>3. TaskMoves(a)
    BY <1>2 DEF TaskMoves
  <2>4. RootTypeOK'
    BY <1>2, HandlerType, TaskNames, ReleaseAssumption DEF Roots, File, NoBackup, Ready, Coherent
  <2>. QED
    BY <2>2, <2>3, <2>4, TaskMove
<1>3. CASE Access(a, "rcRevalidate", Layout /\ (dirs = {}) /\ source = build[a], "rcNarrow", root)
  <2>1. MadeFirst'
    BY <1>3, HandlerTable, ReleaseAssumption DEF MadeFirst, Roots, File, Ready, ReadyToAdmin, Coherent, Layout
  <2>2. MoveKeeps(a)
    BY <1>3, <2>1, HandlerTable, RecoveryFindsPair, ReleaseAssumption
    DEF Roots, File, Ready, ReadyToAdmin, Coherent, Layout, MoveKeeps, MadeFirst, RecoveryChecked,
        PairKept, Undoable, UpgradeKeepsPair, MaterialExact
  <2>3. TaskMoves(a)
    BY <1>3 DEF TaskMoves
  <2>4. RootTypeOK'
    BY <1>3, HandlerType, TaskNames, ReleaseAssumption DEF Roots, File, NoBackup, Ready, Coherent
  <2>. QED
    BY <2>2, <2>3, <2>4, TaskMove
<1>4. CASE Access(a, "rcNarrow", Layout, "rcValidate", [root EXCEPT !.acl = "narrow"])
  <2>1. MadeFirst'
    BY <1>4, HandlerTable, ReleaseAssumption DEF MadeFirst, Roots, File, Ready, ReadyToAdmin, Coherent, Layout
  <2>2. MoveKeeps(a)
    BY <1>4, <2>1, HandlerTable, RecoveryFindsPair, ReleaseAssumption
    DEF Roots, File, Ready, ReadyToAdmin, Coherent, Layout, MoveKeeps, MadeFirst, RecoveryChecked,
        PairKept, Undoable, UpgradeKeepsPair, MaterialExact
  <2>3. TaskMoves(a)
    BY <1>4 DEF TaskMoves
  <2>4. RootTypeOK'
    BY <1>4, HandlerType, TaskNames, ReleaseAssumption DEF Roots, File, NoBackup, Ready, Coherent
  <2>. QED
    BY <2>2, <2>3, <2>4, TaskMove
<1>5. CASE Access(a, "rcValidate", MaterialExact(a, dirs = {}), "rcOpen", root)
  <2>1. MadeFirst'
    BY <1>5, HandlerTable, ReleaseAssumption DEF MadeFirst, Roots, File, Ready, ReadyToAdmin, Coherent, Layout
  <2>2. MoveKeeps(a)
    BY <1>5, <2>1, HandlerTable, RecoveryFindsPair, ReleaseAssumption
    DEF Roots, File, Ready, ReadyToAdmin, Coherent, Layout, MoveKeeps, MadeFirst, RecoveryChecked,
        PairKept, Undoable, UpgradeKeepsPair, MaterialExact
  <2>3. TaskMoves(a)
    BY <1>5 DEF TaskMoves
  <2>4. RootTypeOK'
    BY <1>5, HandlerType, TaskNames, ReleaseAssumption DEF Roots, File, NoBackup, Ready, Coherent
  <2>. QED
    BY <2>2, <2>3, <2>4, TaskMove
<1>6. CASE Access(a, "rcOpen", Layout, "idle", [root EXCEPT !.acl = "ok"])
  <2>1. MadeFirst'
    BY <1>6, HandlerTable, ReleaseAssumption DEF MadeFirst, Roots, File, Ready, ReadyToAdmin, Coherent, Layout
  <2>2. MoveKeeps(a)
    BY <1>6, <2>1, HandlerTable, RecoveryFindsPair, ReleaseAssumption
    DEF Roots, File, Ready, ReadyToAdmin, Coherent, Layout, MoveKeeps, MadeFirst, RecoveryChecked,
        PairKept, Undoable, UpgradeKeepsPair, MaterialExact
  <2>3. TaskMoves(a)
    BY <1>6 DEF TaskMoves
  <2>4. RootTypeOK'
    BY <1>6, HandlerType, TaskNames, ReleaseAssumption DEF Roots, File, NoBackup, Ready, Coherent
  <2>. QED
    BY <2>2, <2>3, <2>4, TaskMove
<1>. QED
  BY <1>1, <1>2, <1>3, <1>4, <1>5, <1>6 DEF Recover

\* An upgrade keeps a copy of what it takes away until the new pair is verified.
LEMMA UpgradeStep ==
  ASSUME RootInv, NEW a \in Admins, Upgrade(a)
  PROVE  RootInv'
<1>0. root \in Roots /\ [root EXCEPT !.descriptor = build[a], !.acl = "ok"] \in Roots
  BY RootWrites DEF RootInv
<1>. USE DEF Access, Backup, Step, Fail, RootInv, RootTypeOK, limits, BootstrapSteps, RecoverSteps, UpgradeSteps, UndoSteps
<1>1. CASE BeginTask(a, ReadyToAdmin /\ root.helper # source, "ugBackupHelper")
  <2>1. RootTypeOK'
    BY <1>1, TaskNames, ReleaseAssumption DEF BeginTask, NoBackup, File
  <2>. QED
    BY <2>1, <1>1, ReleaseAssumption
    DEF BeginTask, MadeFirst, OneAtATime, RecoveryChecked, PairKept, Undoable, UpgradeKeepsPair, Roots,
        Ready, ReadyToAdmin, Coherent, BackedUp, Layout
<1>2. CASE Backup(a, "ugBackupHelper", root.helper # "absent", "ugBackupDescriptor",
                   [backup[a] EXCEPT !.helper = root.helper])
  <2>1. MadeFirst'
    BY <1>2, HandlerTable, ReleaseAssumption DEF MadeFirst, Roots, File, Ready, ReadyToAdmin, Coherent, Layout
  <2>2. MoveKeeps(a)
    BY <1>2, <2>1, HandlerTable, ReleaseAssumption
    DEF Roots, File, Ready, ReadyToAdmin, Coherent, Layout, MoveKeeps, MadeFirst, RecoveryChecked,
        PairKept, Undoable, UpgradeKeepsPair, BackedUp
  <2>3. TaskMoves(a)
    BY <1>2 DEF TaskMoves
  <2>4. RootTypeOK'
    BY <1>2, HandlerType, TaskNames, ReleaseAssumption DEF Roots, File, NoBackup, Ready, Coherent
  <2>. QED
    BY <2>2, <2>3, <2>4, TaskMove
<1>3. CASE Backup(a, "ugBackupDescriptor", root.descriptor # "absent", "ugTemps",
                   [backup[a] EXCEPT !.descriptor = root.descriptor])
  <2>1. MadeFirst'
    BY <1>3, HandlerTable, ReleaseAssumption DEF MadeFirst, Roots, File, Ready, ReadyToAdmin, Coherent, Layout
  <2>2. MoveKeeps(a)
    BY <1>3, <2>1, HandlerTable, ReleaseAssumption
    DEF Roots, File, Ready, ReadyToAdmin, Coherent, Layout, MoveKeeps, MadeFirst, RecoveryChecked,
        PairKept, Undoable, UpgradeKeepsPair, BackedUp
  <2>3. TaskMoves(a)
    BY <1>3 DEF TaskMoves
  <2>4. RootTypeOK'
    BY <1>3, HandlerType, TaskNames, ReleaseAssumption DEF Roots, File, NoBackup, Ready, Coherent
  <2>. QED
    BY <2>2, <2>3, <2>4, TaskMove
<1>4. CASE Access(a, "ugTemps", TRUE, "ugRemoveHelper", root)
  <2>1. MadeFirst'
    BY <1>4, HandlerTable, ReleaseAssumption DEF MadeFirst, Roots, File, Ready, ReadyToAdmin, Coherent, Layout
  <2>2. MoveKeeps(a)
    BY <1>4, <2>1, HandlerTable, ReleaseAssumption
    DEF Roots, File, Ready, ReadyToAdmin, Coherent, Layout, MoveKeeps, MadeFirst, RecoveryChecked,
        PairKept, Undoable, UpgradeKeepsPair, BackedUp
  <2>3. TaskMoves(a)
    BY <1>4 DEF TaskMoves
  <2>4. RootTypeOK'
    BY <1>4, HandlerType, TaskNames, ReleaseAssumption DEF Roots, File, NoBackup, Ready, Coherent
  <2>. QED
    BY <2>2, <2>3, <2>4, TaskMove
<1>5. CASE Access(a, "ugRemoveHelper", root.helper # "absent", "ugPlaceHelper",
                   [root EXCEPT !.helper = "absent"])
  <2>1. MadeFirst'
    BY <1>5, HandlerTable, ReleaseAssumption DEF MadeFirst, Roots, File, Ready, ReadyToAdmin, Coherent, Layout
  <2>2. MoveKeeps(a)
    BY <1>5, <2>1, HandlerTable, ReleaseAssumption
    DEF Roots, File, Ready, ReadyToAdmin, Coherent, Layout, MoveKeeps, MadeFirst, RecoveryChecked,
        PairKept, Undoable, UpgradeKeepsPair, BackedUp
  <2>3. TaskMoves(a)
    BY <1>5 DEF TaskMoves
  <2>4. RootTypeOK'
    BY <1>5, HandlerType, TaskNames, ReleaseAssumption DEF Roots, File, NoBackup, Ready, Coherent
  <2>. QED
    BY <2>2, <2>3, <2>4, TaskMove
<1>6. CASE Access(a, "ugPlaceHelper", TRUE, "ugRemoveDescriptor", [root EXCEPT !.helper = build[a]])
  <2>1. MadeFirst'
    BY <1>6, HandlerTable, ReleaseAssumption DEF MadeFirst, Roots, File, Ready, ReadyToAdmin, Coherent, Layout
  <2>2. MoveKeeps(a)
    BY <1>6, <2>1, HandlerTable, ReleaseAssumption
    DEF Roots, File, Ready, ReadyToAdmin, Coherent, Layout, MoveKeeps, MadeFirst, RecoveryChecked,
        PairKept, Undoable, UpgradeKeepsPair, BackedUp
  <2>3. TaskMoves(a)
    BY <1>6 DEF TaskMoves
  <2>4. RootTypeOK'
    BY <1>6, HandlerType, TaskNames, ReleaseAssumption DEF Roots, File, NoBackup, Ready, Coherent
  <2>. QED
    BY <2>2, <2>3, <2>4, TaskMove
<1>7. CASE Access(a, "ugRemoveDescriptor", root.descriptor # "absent", "ugPlaceDescriptor",
                   [root EXCEPT !.descriptor = "absent"])
  <2>1. MadeFirst'
    BY <1>7, HandlerTable, ReleaseAssumption DEF MadeFirst, Roots, File, Ready, ReadyToAdmin, Coherent, Layout
  <2>2. MoveKeeps(a)
    BY <1>7, <2>1, HandlerTable, ReleaseAssumption
    DEF Roots, File, Ready, ReadyToAdmin, Coherent, Layout, MoveKeeps, MadeFirst, RecoveryChecked,
        PairKept, Undoable, UpgradeKeepsPair, BackedUp
  <2>3. TaskMoves(a)
    BY <1>7 DEF TaskMoves
  <2>4. RootTypeOK'
    BY <1>7, HandlerType, TaskNames, ReleaseAssumption DEF Roots, File, NoBackup, Ready, Coherent
  <2>. QED
    BY <2>2, <2>3, <2>4, TaskMove
<1>8. CASE Access(a, "ugPlaceDescriptor", TRUE, "ugVerify",
                   [root EXCEPT !.descriptor = build[a], !.acl = "ok"])
  <2>1. \/ root' = root
        \/ /\ root'.dir = root.dir /\ root'.records = root.records /\ root'.acl = "ok"
           /\ root'.helper = root.helper /\ root'.descriptor = build[a]
    BY <1>8 DEF Roots
  <2>2. root' \in Roots
    BY <1>0, <1>8, Zenon
  <2>3. MadeFirst'
    BY <1>8, <2>1, <2>2, HandlerTable, ReleaseAssumption
    DEF MadeFirst, Roots, File, Ready, ReadyToAdmin, Coherent, Layout
  <2>4. Undoable => root.helper = build[a] /\ BackedUp(a)
    BY <1>8 DEF PairKept, UpgradeKeepsPair
  <2>5. root.dir /\ root.records
    BY <1>8 DEF MadeFirst
  <2>6. Undoable' => Undoable /\ faults' = faults /\ build'[a] = build[a] /\ backup'[a] = backup[a]
    BY <1>8 DEF Undoable
  <2>7. Undoable => task'[a] = "ugVerify" /\ Coherent' /\ root'.acl = "ok"
    BY <1>8, <2>4, <2>5, ReleaseAssumption DEF BackedUp, Coherent, Roots
  <2>8. task'[a] \notin RecoverSteps
    BY <1>8, HandlerTable
  <2>9. MoveKeeps(a)
    BY <2>3, <2>4, <2>6, <2>7, <2>8 DEF MoveKeeps, UpgradeKeepsPair, BackedUp
  <2>10. TaskMoves(a)
    BY <1>8 DEF TaskMoves
  <2>11. RootTypeOK'
    BY <1>8, <2>1, <2>2, HandlerType, TaskNames, ReleaseAssumption DEF Roots, File, NoBackup, Ready, Coherent
  <2>. QED
    BY <2>9, <2>10, <2>11, TaskMove
<1>9. CASE Access(a, "ugVerify", ReadyToAdmin, "ugDropHelper", root)
  <2>1. MadeFirst'
    BY <1>9, HandlerTable, ReleaseAssumption DEF MadeFirst, Roots, File, Ready, ReadyToAdmin, Coherent, Layout
  <2>2. MoveKeeps(a)
    BY <1>9, <2>1, HandlerTable, ReleaseAssumption
    DEF Roots, File, Ready, ReadyToAdmin, Coherent, Layout, MoveKeeps, MadeFirst, RecoveryChecked,
        PairKept, Undoable, UpgradeKeepsPair, BackedUp
  <2>3. TaskMoves(a)
    BY <1>9 DEF TaskMoves
  <2>4. RootTypeOK'
    BY <1>9, HandlerType, TaskNames, ReleaseAssumption DEF Roots, File, NoBackup, Ready, Coherent
  <2>. QED
    BY <2>2, <2>3, <2>4, TaskMove
<1>10. CASE Backup(a, "ugDropHelper", TRUE, "ugDropDescriptor",
                   [backup[a] EXCEPT !.helper = "absent"])
  <2>1. MadeFirst'
    BY <1>10, HandlerTable, ReleaseAssumption DEF MadeFirst, Roots, File, Ready, ReadyToAdmin, Coherent, Layout
  <2>2. MoveKeeps(a)
    BY <1>10, <2>1, HandlerTable, ReleaseAssumption
    DEF Roots, File, Ready, ReadyToAdmin, Coherent, Layout, MoveKeeps, MadeFirst, RecoveryChecked,
        PairKept, Undoable, UpgradeKeepsPair, BackedUp
  <2>3. TaskMoves(a)
    BY <1>10 DEF TaskMoves
  <2>4. RootTypeOK'
    BY <1>10, HandlerType, TaskNames, ReleaseAssumption DEF Roots, File, NoBackup, Ready, Coherent
  <2>. QED
    BY <2>2, <2>3, <2>4, TaskMove
<1>11. CASE Backup(a, "ugDropDescriptor", TRUE, "rbDrop", [backup[a] EXCEPT !.descriptor = "absent"])
  <2>1. MadeFirst'
    BY <1>11, HandlerTable, ReleaseAssumption DEF MadeFirst, Roots, File, Ready, ReadyToAdmin, Coherent, Layout
  <2>2. MoveKeeps(a)
    BY <1>11, <2>1, HandlerTable, ReleaseAssumption
    DEF Roots, File, Ready, ReadyToAdmin, Coherent, Layout, MoveKeeps, MadeFirst, RecoveryChecked,
        PairKept, Undoable, UpgradeKeepsPair, BackedUp
  <2>3. TaskMoves(a)
    BY <1>11 DEF TaskMoves
  <2>4. RootTypeOK'
    BY <1>11, HandlerType, TaskNames, ReleaseAssumption DEF Roots, File, NoBackup, Ready, Coherent
  <2>. QED
    BY <2>2, <2>3, <2>4, TaskMove
<1>. QED
  BY <1>1, <1>2, <1>3, <1>4, <1>5, <1>6, <1>7, <1>8, <1>9, <1>10, <1>11 DEF Upgrade

\* The undoing puts back the helper, then the descriptor, from whole backups.
LEMMA UndoStep ==
  ASSUME RootInv, NEW a \in Admins, Undo(a)
  PROVE  RootInv'
<1>0. root \in Roots /\ [root EXCEPT !.descriptor = backup[a].descriptor, !.acl = "ok"] \in Roots
  BY RootWrites DEF RootInv
<1>. USE DEF Access, Backup, Step, Fail, RootInv, RootTypeOK, limits, BootstrapSteps, RecoverSteps, UpgradeSteps, UndoSteps
<1>1. CASE Access(a, "rbHelper", TRUE, "rbCopyHelper", [root EXCEPT !.helper = "absent"])
  <2>1. MadeFirst'
    BY <1>1, HandlerTable, ReleaseAssumption DEF MadeFirst, Roots, File, Ready, ReadyToAdmin, Coherent, Layout
  <2>2. MoveKeeps(a)
    BY <1>1, <2>1, HandlerTable, ReleaseAssumption
    DEF Roots, File, Ready, ReadyToAdmin, Coherent, Layout, MoveKeeps, MadeFirst, RecoveryChecked,
        PairKept, Undoable, UpgradeKeepsPair, BackedUp
  <2>3. TaskMoves(a)
    BY <1>1 DEF TaskMoves
  <2>4. RootTypeOK'
    BY <1>1, HandlerType, TaskNames, ReleaseAssumption DEF Roots, File, NoBackup, Ready, Coherent
  <2>. QED
    BY <2>2, <2>3, <2>4, TaskMove
<1>2. CASE Access(a, "rbCopyHelper", backup[a].helper # "absent", "rbDescriptor",
                   [root EXCEPT !.helper = backup[a].helper])
  <2>1. MadeFirst'
    BY <1>2, HandlerTable, ReleaseAssumption DEF MadeFirst, Roots, File, Ready, ReadyToAdmin, Coherent, Layout
  <2>2. MoveKeeps(a)
    BY <1>2, <2>1, HandlerTable, ReleaseAssumption
    DEF Roots, File, Ready, ReadyToAdmin, Coherent, Layout, MoveKeeps, MadeFirst, RecoveryChecked,
        PairKept, Undoable, UpgradeKeepsPair, BackedUp
  <2>3. TaskMoves(a)
    BY <1>2 DEF TaskMoves
  <2>4. RootTypeOK'
    BY <1>2, HandlerType, TaskNames, ReleaseAssumption DEF Roots, File, NoBackup, Ready, Coherent
  <2>. QED
    BY <2>2, <2>3, <2>4, TaskMove
<1>3. CASE Access(a, "rbDescriptor", TRUE, "rbCopyDescriptor", [root EXCEPT !.descriptor = "absent"])
  <2>1. MadeFirst'
    BY <1>3, HandlerTable, ReleaseAssumption DEF MadeFirst, Roots, File, Ready, ReadyToAdmin, Coherent, Layout
  <2>2. MoveKeeps(a)
    BY <1>3, <2>1, HandlerTable, ReleaseAssumption
    DEF Roots, File, Ready, ReadyToAdmin, Coherent, Layout, MoveKeeps, MadeFirst, RecoveryChecked,
        PairKept, Undoable, UpgradeKeepsPair, BackedUp
  <2>3. TaskMoves(a)
    BY <1>3 DEF TaskMoves
  <2>4. RootTypeOK'
    BY <1>3, HandlerType, TaskNames, ReleaseAssumption DEF Roots, File, NoBackup, Ready, Coherent
  <2>. QED
    BY <2>2, <2>3, <2>4, TaskMove
<1>4. CASE Access(a, "rbCopyDescriptor", backup[a].descriptor # "absent", "rbDrop",
                   [root EXCEPT !.descriptor = backup[a].descriptor, !.acl = "ok"])
  <2>1. \/ root' = root
        \/ /\ root'.dir = root.dir /\ root'.records = root.records /\ root'.acl = "ok"
           /\ root'.helper = root.helper /\ root'.descriptor = backup[a].descriptor
    BY <1>4 DEF Roots
  <2>2. root' \in Roots
    BY <1>0, <1>4, Zenon
  <2>3. MadeFirst'
    BY <1>4, <2>1, <2>2, HandlerTable, ReleaseAssumption
    DEF MadeFirst, Roots, File, Ready, ReadyToAdmin, Coherent, Layout
  <2>4. Undoable => faults = 1 /\ root.helper = backup[a].helper /\ BackedUp(a)
    BY <1>4 DEF PairKept, UpgradeKeepsPair
  <2>5. root.dir /\ root.records
    BY <1>4 DEF MadeFirst
  <2>6. Undoable' => Undoable /\ faults' = faults /\ build'[a] = build[a] /\ backup'[a] = backup[a]
    BY <1>4 DEF Undoable
  <2>7. Undoable => task'[a] = "rbDrop" /\ Coherent' /\ root'.acl = "ok"
    BY ZenonT(60), <1>4, <2>4, <2>5, ReleaseAssumption DEF BackedUp, Coherent, Roots
  <2>8. task'[a] \notin RecoverSteps
    BY <1>4, HandlerTable
  <2>9. MoveKeeps(a)
    BY <2>3, <2>4, <2>6, <2>7, <2>8 DEF MoveKeeps, UpgradeKeepsPair, BackedUp
  <2>10. TaskMoves(a)
    BY <1>4 DEF TaskMoves
  <2>11. RootTypeOK'
    BY <1>4, <2>1, <2>2, HandlerType, TaskNames, ReleaseAssumption DEF Roots, File, NoBackup, Ready, Coherent
  <2>. QED
    BY <2>9, <2>10, <2>11, TaskMove
<1>5. CASE Backup(a, "rbDrop", TRUE, "idle", NoBackup)
  <2>1. MadeFirst'
    BY <1>5, HandlerTable, ReleaseAssumption DEF MadeFirst, Roots, File, Ready, ReadyToAdmin, Coherent, Layout
  <2>2. MoveKeeps(a)
    BY <1>5, <2>1, HandlerTable, ReleaseAssumption
    DEF Roots, File, Ready, ReadyToAdmin, Coherent, Layout, MoveKeeps, MadeFirst, RecoveryChecked,
        PairKept, Undoable, UpgradeKeepsPair, BackedUp
  <2>3. TaskMoves(a)
    BY <1>5 DEF TaskMoves
  <2>4. RootTypeOK'
    BY <1>5, HandlerType, TaskNames, ReleaseAssumption DEF Roots, File, NoBackup, Ready, Coherent
  <2>. QED
    BY <2>2, <2>3, <2>4, TaskMove
<1>. QED
  BY <1>1, <1>2, <1>3, <1>4, <1>5 DEF Undo

-----------------------------------------------------------------------------
(* The root: its environment.                                              *)

LEMMA StageAStep ==
  ASSUME RootInv, StageA
  PROVE  RootInv'
BY DEF StageA, RootInv, RootTypeOK, MadeFirst, OneAtATime, RecoveryChecked, PairKept, Undoable,
       UpgradeKeepsPair, BackedUp, Coherent, limits

LEMMA DeclineStep ==
  ASSUME RootInv, NEW a \in Admins, Decline(a)
  PROVE  RootInv'
<1>1. RootTypeOK' /\ MadeFirst' /\ task[a] \in {"bsConfirm", "rcConfirm"} /\ task'[a] = "idle"
  BY HandlerTable DEF Decline, Fail, RootInv, RootTypeOK, MadeFirst, limits, BootstrapSteps, RecoverSteps,
     UpgradeSteps, UndoSteps
<1>2. TaskMoves(a)
  BY <1>1 DEF Decline, Fail, TaskMoves, RootInv, RootTypeOK, limits
<1>3. MoveKeeps(a)
  <2>1. Undoable /\ ready => Coherent
    BY <1>1, RecoveryFindsPair DEF RootInv, PairKept, BootstrapSteps, RecoverSteps
  <2>. QED
    BY <1>1, <2>1
    DEF Decline, MoveKeeps, Undoable, UpgradeKeepsPair, BootstrapSteps, RecoverSteps, UpgradeSteps,
       UndoSteps, Coherent, limits
<1>. QED
  BY <1>1, <1>2, <1>3, TaskMove

LEMMA TaskFaultStep ==
  ASSUME RootInv, NEW a \in Admins, TaskFault(a)
  PROVE  RootInv'
<1>1. RootTypeOK' /\ task[a] \in TaskSteps /\ task'[a] = Handler[task[a]]
  BY HandlerType DEF TaskFault, Fail, RootInv, RootTypeOK
<1>2. MadeFirst'
  BY <1>1, HandlerTable, TaskNames
  DEF TaskFault, Fail, RootInv, RootTypeOK, MadeFirst, BootstrapSteps, RecoverSteps,
     UpgradeSteps, UndoSteps
<1>3. TaskMoves(a)
  BY <1>1, TaskNames DEF TaskFault, Fail, TaskMoves, RootInv, RootTypeOK, BootstrapSteps, RecoverSteps,
     UpgradeSteps, UndoSteps
<1>4. Undoable' => /\ Undoable /\ faults = 0 /\ faults' = 1
                   /\ task[a] \notin {"ugDropHelper", "ugDropDescriptor"}
  <2>1. Undoable' => faults = 0 /\ faults' = 1 /\ deaths = 0 /\ ~crossed
    BY DEF Undoable, TaskFault, RootInv, RootTypeOK
  <2>2. ~late' => ~late /\ task[a] \notin {"ugDropHelper", "ugDropDescriptor"}
    BY Zenon DEF TaskFault
  <2>. QED
    BY <2>1, <2>2 DEF Undoable
<1>5. Coherent' <=> Coherent
  BY DEF TaskFault, Coherent
<1>6. MoveKeeps(a)
  <2>1. CASE task[a] \in BootstrapSteps \cup RecoverSteps
    <3>1. Undoable /\ ready => Coherent
      BY <2>1, RecoveryFindsPair DEF RootInv, PairKept
    <3>. QED
      BY <1>1, <1>2, <1>4, <1>5, <2>1, <3>1, HandlerTable
      DEF TaskFault, MoveKeeps, UpgradeKeepsPair, BootstrapSteps, RecoverSteps, UpgradeSteps, UndoSteps
  <2>2. CASE task[a] \in UpgradeSteps \cup UndoSteps
    BY <1>1, <1>2, <1>4, <1>5, <2>2, HandlerTable
    DEF TaskFault, MoveKeeps, UpgradeKeepsPair, BackedUp, BootstrapSteps, RecoverSteps, UpgradeSteps, UndoSteps,
        RootInv, PairKept
  <2>. QED
    BY <1>1, <2>1, <2>2, TaskNames
<1>. QED
  BY <1>1, <1>3, <1>6, TaskMove

LEMMA TaskDiesStep ==
  ASSUME RootInv, NEW a \in Admins, TaskDies(a)
  PROVE  RootInv'
<1>1. RootTypeOK' /\ ~Undoable'
  BY DEF TaskDies, RootInv, RootTypeOK, Undoable
<1>2. task' = [task EXCEPT ![a] = "idle"] /\ task \in [Admins -> TaskSteps \cup {"idle"}]
  BY DEF TaskDies, RootInv, RootTypeOK
<1>3. MadeFirst' /\ OneAtATime' /\ RecoveryChecked'
  BY <1>2 DEF TaskDies, RootInv, MadeFirst, OneAtATime, RecoveryChecked, Coherent, UpgradeSteps, UndoSteps
<1>4. PairKept'
  BY <1>1 DEF PairKept
<1>. QED
  BY <1>1, <1>3, <1>4 DEF RootInv

\* Nothing of the root changes; there may be more trouble.
LEMMA RootStays ==
  ASSUME RootInv, UNCHANGED rootVars, deaths' \in Nat, deaths' >= deaths, faults' \in Nat, faults' >= faults,
         backs' \in Nat
  PROVE  RootInv'
<1>1. RootTypeOK' /\ MadeFirst' /\ OneAtATime' /\ RecoveryChecked'
  BY DEF RootInv, RootTypeOK, MadeFirst, OneAtATime, RecoveryChecked, rootVars, Coherent
<1>2. PairKept'
  BY DEF RootInv, RootTypeOK, PairKept, Undoable, UpgradeKeepsPair, BackedUp, rootVars, Coherent
<1>. QED
  BY <1>1, <1>2 DEF RootInv

LEMMA AdministerRoot ==
  ASSUME RootInv, RootNext(dirs = {})
  PROVE  RootInv'
BY StageAStep, BootstrapStep, RecoverStep, UpgradeStep, UndoStep, DeclineStep, TaskFaultStep, TaskDiesStep
DEF RootNext, TaskStep

LEMMA InitRoot == RootInit => RootInv
<1>. SUFFICES ASSUME RootInit PROVE RootInv
  OBVIOUS
<1>1. root \in Roots /\ (~root.dir => root.descriptor = "absent")
  <2>1. root = NoRoot \/ \E b \in Builds, acl \in {"broken", "ok"} : root = Provisioned(b, acl)
    BY DEF RootInit
  <2>2. ASSUME NEW b \in Builds, NEW acl \in {"broken", "ok"}
        PROVE  Provisioned(b, acl) \in Roots /\ Provisioned(b, acl).dir
    BY DEF Provisioned, Roots, File
  <2>3. NoRoot \in Roots /\ NoRoot.descriptor = "absent"
    BY DEF NoRoot, Roots, File
  <2>. QED
    BY <2>1, <2>2, <2>3
<1>2. ready \in BOOLEAN /\ (ready => root.dir)
  BY Zenon DEF RootInit, Ready, Coherent
<1>3. RootTypeOK
  BY <1>1, <1>2, ReleaseAssumption DEF RootInit, RootTypeOK, File, NoBackup
<1>4. MadeFirst
  BY <1>1, <1>2 DEF RootInit, MadeFirst, UpgradeSteps, UndoSteps
<1>5. OneAtATime /\ RecoveryChecked /\ PairKept
  BY DEF RootInit, OneAtATime, RecoveryChecked, PairKept, UpgradeKeepsPair, Ready, Coherent, BootstrapSteps,
     UpgradeSteps, UndoSteps
<1>. QED
  BY <1>3, <1>4, <1>5 DEF RootInv

-----------------------------------------------------------------------------
(* A step of one call.                                                     *)

Over == [NewCall EXCEPT !.step = "over"]

LEMMA OverType ==
    /\ NewCall \in CallRecords /\ Over \in CallRecords
    /\ Over.step = "over" /\ Over.helper = "none" /\ Over.op = "issue" /\ Over.at = 0
    /\ CallInv(Over) /\ Works(Over)
BY DEF Over, NewCall, CallRecords, Ops, ClientSteps, Ended, HelperSteps, Holding, States, NoRecord,
       CallInv, Works, Selected

Others(n) == \A k \in Calls \ {n} : call'[k] = call[k]

LEMMA Updated ==
  ASSUME TypeOK, NEW n \in Calls, NEW new \in CallRecords, Update(n, new)
  PROVE  /\ call' \in [Calls -> CallRecords] /\ Others(n)
         /\ call'[n] = Over \/ (call'[n] = new /\ (new.step \in Ended => new.helper \in HelperSteps))
BY OverType DEF Update, TypeOK, Others, Over

\* The call new does no more than the call c did.
NoMore(c, new) ==
    /\ new.helper = "write" => c.helper = "write" /\ new.draft = c.draft
    /\ new.helper \in Holding => c.helper \in Holding /\ new.record = c.record /\ new.at = c.at
    /\ \A r \in Records : Done(new, r) => Done(c, r)
    /\ new.at \in {0, c.at}

\* An issuance that found no record of m and may yet write one.
Issues(c, m) == c.material = m /\ c.op # "consume" /\ (c.step = "run" \/ c.helper \in HelperSteps)

LEMMA PendingIs == \A m : Pending(m) = {n \in Calls : Issues(call[n], m)}
BY DEF Pending, Issues, Running

LEMMA OverIsLess ==
  ASSUME NEW c \in CallRecords
  PROVE  NoMore(c, Over) /\ \A m \in Materials : ~Issues(Over, m)
BY OverType, NoneAssumption DEF NoMore, Holding, HelperSteps, Done, Issues

Files == <<records, dirs, litter, drawn, confirmed, raced>>

\* The environment of a step by a call.
WorldStays ==
    /\ UNCHANGED <<rootVars, clock, backs>>
    /\ deaths' \in Nat /\ deaths' >= deaths /\ faults' \in Nat /\ faults' >= faults

LEMMA CallsKept ==
  ASSUME IInv, NEW n \in Calls, UNCHANGED Files, call' \in [Calls -> CallRecords], Others(n),
         CallInv(call'[n]), Works(call'[n]), NoMore(call[n], call'[n])
  PROVE  CallsInv'
<1>1. \A k \in Calls : CallInv(call'[k]) /\ Works(call'[k])
  BY DEF IInv, CallsInv, Others
<1>2. \A k \in Calls : (CallInv(call[k]) /\ Works(call[k]))'
  BY <1>1 DEF Files, CallInv, Works, Selected
<1>3. OwnDraft'
  BY DEF IInv, CallsInv, OwnDraft, Others, NoMore
<1>4. Undrawn'
  BY DEF IInv, CallsInv, Undrawn, Files
<1>. QED
  BY <1>2, <1>3, <1>4 DEF CallsInv

LEMMA UsesKept ==
  ASSUME IInv, NEW n \in Calls, UNCHANGED <<records, confirmed, raced, spent>>,
         Others(n), NoMore(call[n], call'[n])
  PROVE  UsesInv'
<1>1. ConfirmedGrants'
  BY DEF IInv, UsesInv, ConfirmedGrants
<1>2. \A k \in Calls, r \in Records :
         (Holds(call[k], r)' => Holds(call[k], r)) /\ (Done(call[k], r)' => Done(call[k], r))
  BY DEF Others, NoMore, Holds, Done
<1>3. DoneIsConsumed'
  BY <1>2 DEF IInv, UsesInv, DoneIsConsumed
<1>4. OneUser'
  BY <1>2 DEF IInv, UsesInv, OneUser
<1>. QED
  BY <1>1, <1>3, <1>4 DEF UsesInv

LEMMA TimesKept ==
  ASSUME IInv, NEW n \in Calls, UNCHANGED <<records, clock, backs>>,
         Others(n), NoMore(call[n], call'[n])
  PROVE  ClockForward'
<1>1. ASSUME backs = 0, NEW k \in Calls PROVE TimeInv(call'[k])
  BY <1>1 DEF IInv, CausesInv, ClockForward, TimeInv, Others, NoMore, TypeOK
<1>. QED
  BY <1>1 DEF IInv, CausesInv, ClockForward, TimeInv

LEMMA WholeKept ==
  ASSUME IInv, UNCHANGED <<records, litter, backs>>, deaths' \in Nat, deaths' >= deaths,
         faults' \in Nat, faults' >= faults
  PROVE  RecordsWhole'
BY DEF IInv, CausesInv, RecordsWhole, WellFormed, RootInv, RootTypeOK

LEMMA IssuanceKept ==
  ASSUME IInv, NEW n \in Calls, UNCHANGED <<records, clock, backs>>, overlapped \subseteq overlapped',
         Others(n), \A m \in Materials \ overlapped' : Issues(call'[n], m) => Issues(call[n], m)
  PROVE  OneIssuance'
<1>1. ASSUME NEW m \in Materials \ overlapped'
      PROVE  Pending(m)' \subseteq Pending(m) /\ ActiveOf(m)' = ActiveOf(m)
  BY PendingIs DEF Pending, Issues, Running, Others, ActiveOf, Expired
<1>. QED
  BY <1>1 DEF IInv, CausesInv, OneIssuance

LEMMA TypesKept ==
  ASSUME IInv, RootInv', UNCHANGED <<Files, clock>>, call' \in [Calls -> CallRecords],
         spent' \in [Records -> Nat], overlapped' \subseteq Materials
  PROVE  TypeOK'
BY DEF IInv, TypeOK, Files, RootInv

\* A step of a call that changes no file and no record, and adds nothing to what the call does.
LEMMA QuietStep ==
  ASSUME IInv, NEW n \in Calls, NEW new \in CallRecords, Update(n, new),
         UNCHANGED Files, UNCHANGED <<spent, overlapped>>, WorldStays,
         \/ new.step \in Ended /\ new.helper \notin HelperSteps
         \/ /\ CallInv(new) /\ Works(new) /\ NoMore(call[n], new)
            /\ \A m \in Materials : Issues(new, m) => Issues(call[n], m)
  PROVE  IInv'
<1>1. call' \in [Calls -> CallRecords] /\ Others(n) /\ call[n] \in CallRecords
  BY Updated DEF IInv, TypeOK
<1>2. /\ CallInv(call'[n]) /\ Works(call'[n]) /\ NoMore(call[n], call'[n])
      /\ \A m \in Materials : Issues(call'[n], m) => Issues(call[n], m)
  BY <1>1, Updated, OverType, OverIsLess DEF IInv
<1>3. RootInv'
  BY RootStays DEF IInv, WorldStays, RootInv, RootTypeOK
<1>4. TypeOK'
  BY <1>1, <1>3, TypesKept DEF IInv, TypeOK, WorldStays
<1>5. CallsInv' /\ UsesInv' /\ CausesInv'
  BY <1>1, <1>2, CallsKept, UsesKept, TimesKept, WholeKept, IssuanceKept DEF CausesInv, Files, WorldStays
<1>. QED
  BY <1>3, <1>4, <1>5 DEF IInv

-----------------------------------------------------------------------------
(* Steps of a client.                                                      *)

\* What is known of the n-th call, and that its files stay.
LEMMA CallFacts ==
  ASSUME IInv, NEW n \in Calls
  PROVE  call[n] \in CallRecords /\ CallInv(call[n]) /\ Works(call[n])
BY DEF IInv, TypeOK, CallsInv

LEMMA KeepFilesStays ==
  ASSUME IInv, KeepFiles
  PROVE  UNCHANGED Files /\ WorldStays
BY DEF IInv, RootInv, RootTypeOK, KeepFiles, Files, WorldStays, limits

LEMMA ThrowStep ==
  ASSUME IInv, NEW n \in Calls, Throw(n), call[n].step \in {"find", "run", "wait", "verify"}
  PROVE  IInv'
<1>. DEFINE new == [call[n] EXCEPT !.step = "refused", !.request = FALSE]
<1>1. call[n] \in CallRecords /\ CallInv(call[n]) /\ Works(call[n])
  BY CallFacts
<1>2. /\ new \in CallRecords /\ new.step = "refused"
      /\ new.op = call[n].op /\ new.material = call[n].material /\ new.record = call[n].record
      /\ new.helper = call[n].helper /\ new.draft = call[n].draft /\ new.at = call[n].at
  BY <1>1 DEF CallRecords, Ended
<1>3. new.helper \in HelperSteps =>
        /\ CallInv(new) /\ Works(new) /\ NoMore(call[n], new)
        /\ \A m \in Materials : Issues(new, m) => Issues(call[n], m)
  BY <1>1, <1>2 DEF CallInv, Works, Selected, NoMore, Issues, Done, Ended
<1>4. new.step \in Ended
  BY <1>2 DEF Ended
<1>5. Update(n, new) /\ KeepFiles /\ UNCHANGED <<spent, overlapped>>
  BY DEF Throw
<1>. QED
  BY <1>2, <1>3, <1>4, <1>5, KeepFilesStays, QuietStep

LEMMA BeginStep ==
  ASSUME IInv, NEW n \in Calls, Begin(n)
  PROVE  IInv'
<1>1. call[n] \in CallRecords /\ CallInv(call[n]) /\ call[n].step = "new"
  BY CallFacts DEF Begin
<1>2. PICK op \in Ops, m \in Materials :
         /\ op = "consume" => m \notin Persistent
         /\ Update(n, [call[n] EXCEPT !.op = op, !.material = m, !.step = "find"])
  BY DEF Begin
<1>. DEFINE new == [call[n] EXCEPT !.op = op, !.material = m, !.step = "find"]
<1>3. call[n].helper = "none" /\ call[n].at = 0
  BY <1>1 DEF CallInv, NewCall
<1>4. /\ new \in CallRecords /\ new.step = "find" /\ new.op = op /\ new.material = m
      /\ new.helper = "none" /\ new.at = 0
  BY <1>1, <1>3 DEF CallRecords, ClientSteps
<1>5. CallInv(new) /\ Works(new) /\ NoMore(call[n], new) /\ \A k \in Materials : ~Issues(new, k)
  BY <1>2, <1>4 DEF CallInv, Works, Selected, NoMore, Issues, Done, Ended, Holding, HelperSteps
<1>6. KeepFiles /\ UNCHANGED <<spent, overlapped>>
  BY DEF Begin
<1>. QED
  BY <1>2, <1>4, <1>5, <1>6, KeepFilesStays, QuietStep

\* An issuance that finds no active record may write one, unless another one may.
LEMMA FindNoneStep ==
  ASSUME IInv, NEW n \in Calls, FindNone(n)
  PROVE  IInv'
<1>. DEFINE new == [call[n] EXCEPT !.step = "run"]
            mat == call[n].material
<1>1. /\ call[n] \in CallRecords /\ CallInv(call[n]) /\ Works(call[n])
      /\ call[n].step = "find" /\ call[n].op # "consume"
  BY CallFacts DEF FindNone
<1>2. call[n].helper = "none" /\ mat \in Materials
  BY <1>1 DEF CallInv
<1>3. /\ new \in CallRecords /\ new.step = "run" /\ new.op = call[n].op /\ new.material = mat
      /\ new.helper = "none" /\ new.at = call[n].at
  BY <1>1, <1>2 DEF CallRecords, ClientSteps
<1>4. CallInv(new) /\ Works(new) /\ NoMore(call[n], new)
  BY <1>1, <1>2, <1>3 DEF CallInv, Works, Selected, NoMore, Done, Ended, Holding, HelperSteps
<1>5. call' \in [Calls -> CallRecords] /\ Others(n) /\ call'[n] = new
  <2>1. Update(n, new)
    BY DEF FindNone
  <2>. QED
    BY <2>1, <1>3, Updated, OverType DEF IInv, Update, Ended, TypeOK
<1>6. UNCHANGED Files /\ WorldStays /\ UNCHANGED spent
  BY KeepFilesStays DEF FindNone
<1>7. overlapped' = IF Pending(mat) = {} THEN overlapped ELSE overlapped \cup {mat}
  BY DEF FindNone
<1>8. RootInv'
  BY <1>6, RootStays DEF IInv, WorldStays, RootInv, RootTypeOK
<1>9. TypeOK'
  BY <1>2, <1>5, <1>6, <1>7, <1>8, TypesKept DEF IInv, TypeOK, WorldStays
<1>10. CallsInv' /\ UsesInv' /\ ClockForward' /\ RecordsWhole'
  BY <1>4, <1>5, <1>6, CallsKept, UsesKept, TimesKept, WholeKept DEF Files, WorldStays
<1>11. OneIssuance'
  <2>1. SUFFICES ASSUME backs = 0, NEW m \in Materials \ overlapped'
                 PROVE  /\ \A r, s \in ActiveOf(m) : r = s
                        /\ Pending(m)' # {} => ActiveOf(m) = {}
                        /\ \A k, l \in Pending(m)' : k = l
    BY <1>6 DEF OneIssuance, Files, WorldStays, ActiveOf, Expired
  <2>2. /\ \A r, s \in ActiveOf(m) : r = s
        /\ Pending(m) # {} => ActiveOf(m) = {}
        /\ \A k, l \in Pending(m) : k = l
    BY <1>7, <2>1 DEF IInv, CausesInv, OneIssuance
  <2>3. CASE m = mat
    <3>1. Pending(m) = {} /\ ActiveOf(m) = {}
      BY <1>7, <2>3, <2>1 DEF FindNone, NoMatch
    <3>2. Pending(m)' \subseteq {n}
      BY <3>1, <1>5, PendingIs DEF Pending, Others, Running
    <3>. QED
      BY <2>2, <3>1, <3>2
  <2>4. CASE m # mat
    <3>1. Pending(m)' \subseteq Pending(m)
      BY <2>4, <1>3, <1>5 DEF Pending, Others, Running
    <3>. QED
      BY <2>2, <3>1
  <2>. QED
    BY <2>3, <2>4
<1>. QED
  BY <1>8, <1>9, <1>10, <1>11 DEF IInv, CausesInv

LEMMA FindOneStep ==
  ASSUME IInv, NEW n \in Calls, FindOne(n)
  PROVE  IInv'
<1>1. call[n] \in CallRecords /\ CallInv(call[n]) /\ call[n].step = "find" /\ call[n].op # "issue"
  BY CallFacts DEF FindOne
<1>2. PICK r \in Records :
         /\ Matching(r, call[n].material)
         /\ ClientTo(n, IF call[n].op = "consume" THEN "run" ELSE "granted", r)
  BY DEF FindOne
<1>. DEFINE step == IF call[n].op = "consume" THEN "run" ELSE "granted"
            new == [call[n] EXCEPT !.step = step, !.record = r]
<1>3. call[n].helper = "none" /\ r \in ActiveOf(call[n].material)
  BY <1>1, <1>2 DEF CallInv, Matching
<1>4. /\ new \in CallRecords /\ new.step = step /\ new.op = call[n].op /\ new.material = call[n].material
      /\ new.helper = "none" /\ new.record = r /\ new.at = call[n].at
  BY <1>1, <1>3 DEF CallRecords, ClientSteps, Ended
<1>5. call[n].op = "consume" =>
         CallInv(new) /\ Works(new) /\ NoMore(call[n], new) /\ \A m \in Materials : ~Issues(new, m)
  BY <1>1, <1>3, <1>4 DEF CallInv, Works, Selected, NoMore, Issues, Done, Ended, Holding, HelperSteps, ActiveOf
<1>6. call[n].op # "consume" => new.step \in Ended /\ new.helper \notin HelperSteps
  BY <1>4 DEF Ended, HelperSteps, Holding
<1>7. Update(n, new) /\ KeepFiles /\ UNCHANGED <<spent, overlapped>>
  BY <1>2 DEF ClientTo
<1>. QED
  BY <1>4, <1>5, <1>6, <1>7, KeepFilesStays, QuietStep

LEMMA RunStep ==
  ASSUME IInv, NEW n \in Calls, Run(n)
  PROVE  IInv'
<1>1. call[n] \in CallRecords /\ CallInv(call[n]) /\ Works(call[n]) /\ call[n].step = "run"
  BY CallFacts DEF Run
<1>2. CASE Throw(n)
  BY <1>1, <1>2, ThrowStep
<1>. DEFINE new == [call[n] EXCEPT !.step = "wait", !.helper = "start", !.request = call[n].op # "consume"]
<1>3. CASE Update(n, new) /\ KeepFiles /\ UNCHANGED <<spent, overlapped>>
  <2>1. /\ new \in CallRecords /\ new.step = "wait" /\ new.op = call[n].op /\ new.material = call[n].material
        /\ new.helper = "start" /\ new.record = call[n].record /\ new.at = call[n].at
    BY ZenonT(60), <1>1 DEF CallRecords, ClientSteps, HelperSteps
  <2>2. /\ CallInv(new) /\ Works(new) /\ NoMore(call[n], new)
        /\ \A m \in Materials : Issues(new, m) => Issues(call[n], m)
    BY <1>1, <2>1 DEF CallInv, Works, Selected, NoMore, Issues, Done, Ended, Holding, HelperSteps
  <2>. QED
    BY <1>3, <2>1, <2>2, KeepFilesStays, QuietStep
<1>. QED
  BY <1>2, <1>3 DEF Run

LEMMA CollectStep ==
  ASSUME IInv, NEW n \in Calls, Collect(n)
  PROVE  IInv'
<1>1. call[n] \in CallRecords /\ CallInv(call[n]) /\ Works(call[n]) /\ call[n].step = "wait"
  BY CallFacts DEF Collect
<1>2. CASE Throw(n)
  BY <1>1, <1>2, ThrowStep
<1>. DEFINE new == [call[n] EXCEPT !.step = "verify", !.record = call[n].record]
<1>3. CASE call[n].helper = "ok" /\ Update(n, new) /\ KeepFiles /\ UNCHANGED <<spent, overlapped>>
  <2>1. /\ new \in CallRecords /\ new.step = "verify" /\ new.op = call[n].op /\ new.material = call[n].material
        /\ new.helper = "ok" /\ new.record = call[n].record /\ new.at = call[n].at
    BY <1>1, <1>3 DEF CallRecords, ClientSteps
  <2>2. /\ CallInv(new) /\ Works(new) /\ NoMore(call[n], new)
        /\ \A m \in Materials : Issues(new, m) => Issues(call[n], m)
    BY <1>1, <1>3, <2>1 DEF CallInv, Works, Selected, NoMore, Issues, Done, Ended, Holding, HelperSteps
  <2>. QED
    BY <1>3, <2>1, <2>2, KeepFilesStays, QuietStep
<1>. QED
  BY <1>2, <1>3 DEF Collect, ClientTo

LEMMA VerifyIssuedStep ==
  ASSUME IInv, NEW n \in Calls, VerifyIssued(n)
  PROVE  IInv'
<1>1. call[n] \in CallRecords /\ CallInv(call[n]) /\ call[n].step = "verify"
  BY CallFacts DEF VerifyIssued
<1>2. CASE Throw(n)
  BY <1>1, <1>2, ThrowStep
<1>3. ASSUME NEW r \in Records,
             Update(n, [call[n] EXCEPT !.step = "granted", !.record = r, !.request = FALSE]),
             KeepFiles, UNCHANGED <<spent, overlapped>>
      PROVE  IInv'
  <2>. DEFINE new == [call[n] EXCEPT !.step = "granted", !.record = r, !.request = FALSE]
  <2>1. new \in CallRecords /\ new.step \in Ended /\ new.helper \notin HelperSteps
    BY <1>1 DEF CallRecords, CallInv, Ended, HelperSteps, Holding
  <2>. QED
    BY <1>3, <2>1, KeepFilesStays, QuietStep
<1>. QED
  BY <1>2, <1>3 DEF VerifyIssued

\* A call that is told that it consumed its record is over.
LEMMA VerifyConsumedStep ==
  ASSUME IInv, NEW n \in Calls, VerifyConsumed(n)
  PROVE  IInv'
<1>1. /\ call[n] \in CallRecords /\ CallInv(call[n]) /\ Works(call[n])
      /\ call[n].step = "verify" /\ call[n].op = "consume"
  BY CallFacts DEF VerifyConsumed
<1>2. CASE Throw(n)
  BY <1>1, <1>2, ThrowStep
<1>. DEFINE r == call[n].record
            new == [call[n] EXCEPT !.step = "consumed"]
<1>3. CASE /\ records[r].state = "consumed" /\ Update(n, new)
           /\ spent' = [spent EXCEPT ![r] = @ + 1] /\ KeepFiles /\ UNCHANGED overlapped
  <2>1. r \in Records /\ Done(call[n], r)
    BY <1>1 DEF CallInv, Works, Selected, Done
  <2>2. /\ new \in CallRecords /\ new.step \in Ended /\ new.helper \notin HelperSteps
    BY <1>1 DEF CallRecords, CallInv, Ended, HelperSteps, Holding
  <2>3. call' \in [Calls -> CallRecords] /\ Others(n) /\ call'[n] = Over
    BY <1>3, <2>2, Updated DEF IInv, TypeOK, Update, Over
  <2>4. UNCHANGED Files /\ WorldStays
    BY <1>3, KeepFilesStays
  <2>5. RootInv'
    BY <2>4, RootStays DEF IInv, WorldStays, RootInv, RootTypeOK
  <2>6. TypeOK'
    <3>1. spent' \in [Records -> Nat]
      BY <1>3, <2>1 DEF IInv, TypeOK
    <3>. QED
      BY <1>3, <2>3, <2>4, <2>5, <3>1, TypesKept DEF IInv, TypeOK, WorldStays
  <2>7. CallsInv' /\ ClockForward' /\ RecordsWhole' /\ OneIssuance'
    BY <1>1, <1>3, <2>3, <2>4, OverType, OverIsLess, CallsKept, TimesKept, WholeKept, IssuanceKept
    DEF Files, WorldStays
  <2>8. ConfirmedGrants' /\ DoneIsConsumed'
    BY <1>3, <2>3, <2>4, OverType
    DEF IInv, UsesInv, ConfirmedGrants, DoneIsConsumed, Done, Others, Files, TypeOK
  <2>9. OneUser'
    <3>1. SUFFICES ASSUME NEW s \in Records \ raced PROVE
             /\ spent'[s] <= 1
             /\ \A k \in Calls : Holds(call'[k], s) => records[s].state = "active"
             /\ \A k \in Calls : Done(call'[k], s) => spent'[s] = 0
             /\ \A k, l \in Calls : Holds(call'[k], s) /\ Holds(call'[l], s) => k = l
             /\ \A k, l \in Calls : Done(call'[k], s) /\ Done(call'[l], s) => k = l
      BY <2>4 DEF OneUser, Files, Holds, Done
    <3>2. \A k \in Calls : /\ Holds(call'[k], s) => Holds(call[k], s) /\ k # n
                           /\ Done(call'[k], s) => Done(call[k], s) /\ k # n
      BY <2>3, OverType DEF Others, Holds, Done, Holding
    <3>3. /\ spent[s] <= 1
          /\ \A k \in Calls : Holds(call[k], s) => records[s].state = "active"
          /\ \A k \in Calls : Done(call[k], s) => spent[s] = 0
          /\ \A k, l \in Calls : Holds(call[k], s) /\ Holds(call[l], s) => k = l
          /\ \A k, l \in Calls : Done(call[k], s) /\ Done(call[l], s) => k = l
      BY DEF IInv, UsesInv, OneUser
    <3>4. spent'[s] = IF s = r THEN spent[s] + 1 ELSE spent[s]
      BY <1>3, <2>1 DEF IInv, TypeOK
    <3>. QED
      BY <2>1, <3>2, <3>3, <3>4
  <2>. QED
    BY <2>5, <2>6, <2>7, <2>8, <2>9 DEF IInv, UsesInv, CausesInv
<1>. QED
  BY <1>1, <1>2, <1>3 DEF VerifyConsumed

LEMMA ClientStep ==
  ASSUME IInv, NEW n \in Calls, Client(n)
  PROVE  IInv'
<1>1. CASE FindThrows(n)
  BY <1>1, ThrowStep DEF FindThrows
<1>2. CASE Timeout(n)
  BY <1>2, ThrowStep DEF Timeout
<1>. QED
  BY <1>1, <1>2, FindNoneStep, FindOneStep, RunStep, CollectStep, VerifyIssuedStep, VerifyConsumedStep
  DEF Client

-----------------------------------------------------------------------------
(* Steps of a helper.                                                      *)

LEMMA KeepIdsStays ==
  ASSUME IInv, KeepIds
  PROVE  UNCHANGED <<drawn, spent, overlapped>> /\ WorldStays
BY DEF IInv, RootInv, RootTypeOK, KeepIds, KeepClient, WorldStays, limits

\* The helper of a call that goes on is at a step of its operation.
LEMMA HelperMoves ==
  ASSUME IInv, NEW n \in Calls, NEW step \in HelperSteps \cup {"ok", "failed"}, call[n].helper \in HelperSteps
  PROVE  LET new == [call[n] EXCEPT !.helper = step]
         IN  /\ new \in CallRecords /\ new.helper = step /\ new.step = call[n].step
             /\ new.op = call[n].op /\ new.material = call[n].material /\ new.record = call[n].record
             /\ new.draft = call[n].draft /\ new.at = call[n].at /\ new.material \in Materials
             /\ new.step \in {"wait", "refused", "granted", "consumed"}
<1>1. call[n] \in CallRecords /\ CallInv(call[n])
  BY CallFacts
<1>2. call[n].step \notin {"new", "over"}
  <2>1. [NewCall EXCEPT !.step = call[n].step].helper = "none"
    BY DEF NewCall
  <2>. QED
    BY <1>1, <2>1 DEF CallInv, HelperSteps, Holding
<1>3. call[n].step \in {"wait", "refused", "granted", "consumed"} /\ call[n].material \in Materials
  BY <1>1, <1>2 DEF CallInv, CallRecords, HelperSteps, Holding, ClientSteps, Ended
<1>. QED
  BY <1>1, <1>3 DEF CallRecords, HelperSteps

\* A helper that fails, or goes on without a file.
LEMMA HelperQuiet ==
  ASSUME IInv, NEW n \in Calls, NEW step, HelperTo(n, step),
         UNCHANGED Files, UNCHANGED <<spent, overlapped>>, WorldStays,
         \/ call[n].helper \in HelperSteps /\ step = "failed"
         \/ call[n].helper = "start" /\ step = (IF call[n].op = "consume" THEN "read" ELSE "ask")
         \/ call[n].helper = "compare" /\ step = "rename"
  PROVE  IInv'
<1>. DEFINE new == [call[n] EXCEPT !.helper = step]
<1>1. CallInv(call[n]) /\ Works(call[n]) /\ call[n] \in CallRecords
  BY CallFacts
<1>2. call[n].helper \in HelperSteps /\ step \in HelperSteps \cup {"ok", "failed"}
  BY DEF HelperSteps, Holding
<1>3. /\ new \in CallRecords /\ new.helper = step /\ new.step = call[n].step
      /\ new.op = call[n].op /\ new.material = call[n].material /\ new.record = call[n].record
      /\ new.draft = call[n].draft /\ new.at = call[n].at /\ new.material \in Materials
      /\ new.step \in {"wait", "refused", "granted", "consumed"}
  BY <1>2, HelperMoves
<1>4. NoMore(call[n], new) /\ \A m \in Materials : Issues(new, m) => Issues(call[n], m)
  BY <1>1, <1>2, <1>3 DEF NoMore, Issues, Done, HelperSteps, Holding
<1>5. (new.step \in Ended => new.helper \in HelperSteps) => CallInv(new) /\ Works(new)
  BY <1>1, <1>2, <1>3 DEF CallInv, Works, Selected, HelperSteps, Holding, Ended
<1>6. Update(n, new)
  BY DEF HelperTo
<1>. QED
  BY <1>3, <1>4, <1>5, <1>6, QuietStep

LEMMA StartStep ==
  ASSUME IInv, NEW n \in Calls, Start(n)
  PROVE  IInv'
BY KeepIdsStays, HelperQuiet DEF Start, Files, HelperSteps

LEMMA DenyStep ==
  ASSUME IInv, NEW n \in Calls, Deny(n)
  PROVE  IInv'
BY KeepIdsStays, HelperQuiet DEF Deny, Files, HelperSteps

LEMMA CompareStep ==
  ASSUME IInv, NEW n \in Calls, Compare(n)
  PROVE  IInv'
BY KeepIdsStays, HelperQuiet DEF Compare, Files, HelperSteps, Holding

\* A person confirms: the helper has an id of its own for the record.
LEMMA ConfirmStep ==
  ASSUME IInv, NEW n \in Calls, Confirm(n)
  PROVE  IInv'
<1>. DEFINE new == [call[n] EXCEPT !.helper = "write", !.draft = drawn', !.at = clock]
            mat == call[n].material
<1>1. /\ CallInv(call[n]) /\ Works(call[n]) /\ call[n] \in CallRecords
      /\ call[n].helper = "ask" /\ call[n].op # "consume" /\ mat \in Materials
      /\ call[n].step \in {"wait", "refused", "granted", "consumed"}
  <2>1. CallInv(call[n]) /\ Works(call[n]) /\ call[n] \in CallRecords /\ call[n].helper = "ask"
    BY CallFacts DEF Confirm
  <2>2. "ask" \in HelperSteps
    BY DEF HelperSteps
  <2>. QED
    BY <2>1, <2>2, HelperMoves DEF CallInv
<1>2. drawn' \in Records /\ drawn' = drawn + 1 /\ drawn \in Nat /\ clock \in Nat
  BY NoneAssumption, ClockAssumption DEF Confirm, Draw, IInv, TypeOK, Records
<1>3. /\ new \in CallRecords /\ new.helper = "write" /\ new.draft = drawn' /\ new.at = clock
      /\ new.step = call[n].step /\ new.op = call[n].op /\ new.material = mat /\ new.record = call[n].record
  BY <1>1, <1>2 DEF CallRecords, HelperSteps
<1>4. Update(n, new) /\ confirmed' = [confirmed EXCEPT ![drawn'] = @ \cup {mat}]
  BY DEF Confirm, Draw
<1>5. call' \in [Calls -> CallRecords] /\ Others(n) /\ call'[n] = new
  <2>1. "write" \in HelperSteps
    BY DEF HelperSteps
  <2>. QED
    BY <1>3, <1>4, <2>1, Updated DEF IInv, Update, TypeOK
<1>6. WorldStays /\ UNCHANGED <<records, dirs, litter, raced, spent, overlapped>>
  BY DEF Confirm, KeepClient, IInv, RootInv, RootTypeOK, WorldStays, limits
<1>7. confirmed \in [Records -> SUBSET Materials] /\ confirmed[drawn'] = {} /\ records[drawn'].state = "none"
  BY <1>2 DEF IInv, TypeOK, CallsInv, Undrawn
<1>8. /\ confirmed' \in [Records -> SUBSET Materials] /\ confirmed'[drawn'] = {mat}
      /\ \A r \in Records \ {drawn'} : confirmed'[r] = confirmed[r]
  BY <1>1, <1>2, <1>4, <1>7
<1>9. RootInv'
  BY <1>6, RootStays DEF IInv, WorldStays, RootInv, RootTypeOK
<1>10. TypeOK'
  BY <1>2, <1>5, <1>6, <1>8, <1>9 DEF IInv, TypeOK, RootInv, WorldStays, Records
<1>11. CallsInv'
  <2>1. \A k \in Calls \ {n} : (CallInv(call[k]) /\ Works(call[k]))'
    <3>. SUFFICES ASSUME NEW k \in Calls \ {n} PROVE CallInv(call[k]) /\ Works(call[k])'
      <4>1. \A k \in Calls \ {n} : call'[k] = call[k]
        BY <1>5 DEF Others
      <4>. QED
        BY <4>1 DEF CallInv
    <3>1. CallInv(call[k]) /\ Works(call[k]) /\ call'[k] = call[k]
      BY <1>5, CallFacts DEF Others
    <3>2. call[k].helper = "write" =>
             /\ call[k].draft \in Records \ {drawn'} /\ call[k].draft <= drawn'
      BY <1>2, <3>1 DEF Works, Records
    <3>. QED
      BY <1>6, <1>8, <3>1, <3>2 DEF Works, Selected
  <2>2. CallInv(new)
    BY <1>1, <1>3 DEF CallInv, HelperSteps, Holding
  <2>3. Works(call[n])'
    BY <1>1, <1>2, <1>3, <1>5, <1>6, <1>7, <1>8 DEF Works, Selected, Holding
  <2>4. OwnDraft'
    <3>1. \A k \in Calls \ {n} : call[k].helper = "write" => call[k].draft # drawn'
      BY <1>2, CallFacts DEF Works, Records
    <3>. QED
      <4>1. \A k \in Calls : call'[k].helper = "write" =>
              \/ k = n /\ call'[k].draft = drawn'
              \/ k # n /\ call[k].helper = "write" /\ call'[k].draft = call[k].draft /\ call[k].draft # drawn'
        BY <1>3, <1>5, <3>1 DEF Others
      <4>. QED
        BY <4>1 DEF OwnDraft, IInv, CallsInv
  <2>5. Undrawn'
    BY <1>2, <1>6, <1>8 DEF Undrawn, IInv, CallsInv, Records
  <2>. QED
    <3>1. CallInv(call[n])'
      BY <1>5, <2>2 DEF CallInv
    <3>. QED
      BY <2>1, <2>3, <2>4, <2>5, <3>1 DEF CallsInv
<1>12. UsesInv'
  <2>1. \A k \in Calls, r \in Records :
          (Holds(call[k], r)' => Holds(call[k], r)) /\ (Done(call[k], r)' => Done(call[k], r))
    BY <1>3, <1>5 DEF Others, Holds, Done, Holding
  <2>2. ConfirmedGrants'
    BY <1>6, <1>7, <1>8 DEF IInv, UsesInv, ConfirmedGrants
  <2>3. DoneIsConsumed' /\ OneUser'
    BY <1>6, <2>1 DEF IInv, UsesInv, DoneIsConsumed, OneUser
  <2>. QED
    BY <2>2, <2>3 DEF UsesInv
<1>13. ClockForward'
  <2>. SUFFICES ASSUME backs = 0
                PROVE  (\A r \in Records : records[r].at <= clock) /\ \A k \in Calls : TimeInv(call'[k])
    BY <1>6 DEF ClockForward, TimeInv, WorldStays
  <2>1. (\A r \in Records : records[r].at <= clock) /\ \A k \in Calls : TimeInv(call[k])
    BY DEF IInv, CausesInv, ClockForward
  <2>2. TimeInv(new)
    BY <1>2, <1>3 DEF TimeInv, Holding
  <2>. QED
    BY <1>5, <2>1, <2>2 DEF Others
<1>14. RecordsWhole' /\ OneIssuance'
  BY <1>1, <1>3, <1>5, <1>6, WholeKept, IssuanceKept DEF WorldStays, Issues, HelperSteps
<1>. QED
  BY <1>9, <1>10, <1>11, <1>12, <1>13, <1>14 DEF IInv, CausesInv

\* What the change of one record, r, that n works on leaves of the other calls.
LEMMA OthersKeepRecords ==
  ASSUME IInv, NEW n \in Calls, NEW r \in Records, Others(n), UNCHANGED <<drawn, confirmed>>,
         \A s \in Records \ {r} : records'[s] = records[s],
         \/ call[n].helper = "write" /\ call[n].draft = r
         \/ /\ records[r].state \in {"active", "consumed"} /\ records'[r].state \in {"active", "consumed"}
            /\ records'[r].material = records[r].material
  PROVE  \A k \in Calls \ {n} : (CallInv(call[k]) /\ Works(call[k]))'
<1>. SUFFICES ASSUME NEW k \in Calls \ {n} PROVE CallInv(call[k]) /\ Works(call[k])'
  BY DEF Others, CallInv
<1>1. CallInv(call[k]) /\ Works(call[k]) /\ Works(call[n]) /\ call'[k] = call[k]
  BY CallFacts DEF Others
<1>2. CASE call[n].helper = "write" /\ call[n].draft = r
  <2>1. records[r].state = "none" /\ (call[k].helper = "write" => call[k].draft # r)
    BY <1>1, <1>2 DEF Works, IInv, CallsInv, OwnDraft
  <2>. QED
    BY <1>1, <2>1 DEF Works, Selected
<1>3. CASE /\ records[r].state \in {"active", "consumed"} /\ records'[r].state \in {"active", "consumed"}
           /\ records'[r].material = records[r].material
  BY <1>1, <1>3 DEF Works, Selected
<1>. QED
  BY <1>2, <1>3

\* A helper that fails in a step, whatever it leaves.
LEMMA HelperGone ==
  ASSUME IInv, NEW n \in Calls, NEW step \in {"ok", "failed"}, HelperTo(n, step),
         call[n].helper \in HelperSteps
  PROVE  /\ call' \in [Calls -> CallRecords] /\ Others(n)
         /\ call'[n].helper \notin HelperSteps /\ call'[n].at \in {0, call[n].at}
         /\ call'[n].op = "consume" => call'[n].record = call[n].record /\ call[n].op = "consume"
         /\ call'[n].helper = "ok" => step = "ok"
         /\ CallInv(call'[n])
         /\ call'[n] # Over => /\ call'[n].op = call[n].op /\ call'[n].record = call[n].record
                               /\ call'[n].material = call[n].material /\ call'[n].step = call[n].step
         /\ \A m \in Materials : ~Issues(call'[n], m)
<1>. DEFINE new == [call[n] EXCEPT !.helper = step]
<1>1. /\ new \in CallRecords /\ new.helper = step /\ new.step = call[n].step
      /\ new.op = call[n].op /\ new.material = call[n].material /\ new.record = call[n].record
      /\ new.draft = call[n].draft /\ new.at = call[n].at /\ new.material \in Materials
      /\ new.step \in {"wait", "refused", "granted", "consumed"}
  BY HelperMoves
<1>2. Update(n, new)
  BY DEF HelperTo
<1>3. /\ call' \in [Calls -> CallRecords] /\ Others(n)
      /\ call'[n] = Over \/ (call'[n] = new /\ (new.step \in Ended => new.helper \in HelperSteps))
  BY <1>1, <1>2, Updated DEF IInv
<1>4. step \notin HelperSteps
  BY DEF HelperSteps, Holding
<1>5. CallInv(call[n])
  BY CallFacts
<1>6. call'[n] = new => new.step = "wait" /\ CallInv(new)
  BY <1>1, <1>3, <1>4, <1>5, OverType DEF CallInv, HelperSteps, Holding, Ended
<1>. QED
  BY <1>1, <1>3, <1>4, <1>6, OverType, OverIsLess, NoneAssumption DEF Issues, Ended, HelperSteps, Holding

\* An issuance writes its record, which nobody has seen.
LEMMA WriteStep ==
  ASSUME IInv, NEW n \in Calls, Write(n)
  PROVE  IInv'
<1>. DEFINE r == call[n].draft
            mat == call[n].material
            rec == [NoFile EXCEPT !.state = "active", !.material = mat, !.at = call[n].at]
<1>1. /\ CallInv(call[n]) /\ Works(call[n]) /\ call[n] \in CallRecords
      /\ call[n].helper = "write" /\ call[n].op # "consume" /\ call[n].helper \in HelperSteps
  BY CallFacts DEF Write, CallInv, HelperSteps
<1>2. mat \in Materials /\ call[n].at \in Nat
  BY <1>1, HelperMoves DEF CallRecords
<1>3. r \in Records /\ records[r].state = "none" /\ confirmed[r] = {mat} /\ r <= drawn
  BY <1>1 DEF Works
<1>4. rec.state = "active" /\ rec.material = mat /\ rec.at = call[n].at /\ rec.used = 0
  BY DEF NoFile
<1>5. /\ rec \in [state : States, material : Materials \cup {NoMaterial}, at : Nat, used : Nat]
  BY <1>2 DEF NoFile, States
<1>6. records' = [records EXCEPT ![r] = rec] /\ dirs' = dirs \cup {Consumer(mat)} /\ HelperTo(n, "ok")
  BY DEF Write
<1>7. WorldStays /\ UNCHANGED <<litter, confirmed, raced, drawn, spent, overlapped>>
  BY KeepIdsStays DEF Write
<1>8. records'[r] = rec /\ \A s \in Records \ {r} : records'[s] = records[s]
  BY <1>3, <1>6 DEF IInv, TypeOK
<1>9. /\ call' \in [Calls -> CallRecords] /\ Others(n)
      /\ call'[n].helper \notin HelperSteps /\ call'[n].at \in {0, call[n].at}
      /\ call'[n].op = "consume" => call'[n].record = call[n].record /\ call[n].op = "consume"
      /\ CallInv(call'[n])
      /\ \A m \in Materials : ~Issues(call'[n], m)
  BY <1>1, <1>6, HelperGone
<1>10. RootInv'
  BY <1>7, RootStays DEF IInv, WorldStays, RootInv, RootTypeOK
<1>11. TypeOK'
  <2>1. records' \in [Records -> [state : States, material : Materials \cup {NoMaterial}, at : Nat, used : Nat]]
    BY <1>5, <1>6 DEF IInv, TypeOK
  <2>2. \A s \in Records :
          /\ records'[s].state = "none" <=> records'[s].material = NoMaterial
          /\ records'[s].state # "consumed" => records'[s].used = 0
          /\ records'[s].state # "none" => Consumer(records'[s].material) \in dirs'
    BY <1>2, <1>4, <1>6, <1>8, NoneAssumption DEF IInv, TypeOK
  <2>3. litter' \subseteq dirs' /\ dirs' \subseteq Consumers
    BY <1>2, <1>6, <1>7 DEF IInv, TypeOK, Consumers
  <2>. QED
    BY <1>7, <1>9, <1>10, <2>1, <2>2, <2>3 DEF IInv, TypeOK, RootInv, WorldStays
<1>12. CallsInv'
  <2>1. \A k \in Calls \ {n} : (CallInv(call[k]) /\ Works(call[k]))'
    BY <1>1, <1>3, <1>7, <1>8, <1>9, OthersKeepRecords
  <2>2. (CallInv(call[n]) /\ Works(call[n]))'
    BY <1>1, <1>9 DEF CallInv, Works, Selected, HelperSteps
  <2>3. OwnDraft' /\ Undrawn'
    BY <1>3, <1>7, <1>8, <1>9 DEF OwnDraft, Undrawn, Others, IInv, CallsInv, HelperSteps, Records, TypeOK
  <2>. QED
    BY <2>1, <2>2, <2>3 DEF CallsInv
<1>13. UsesInv'
  <2>1. \A k \in Calls, s \in Records :
          /\ Holds(call[k], s)' => Holds(call[k], s) /\ s # r
          /\ Done(call[k], s)' => Done(call[k], s) /\ s # r
    <3>. SUFFICES ASSUME NEW k \in Calls, NEW s \in Records
                  PROVE  /\ Holds(call'[k], s) => Holds(call[k], s) /\ s # r
                         /\ Done(call'[k], s) => Done(call[k], s) /\ s # r
      BY DEF Holds, Done
    <3>1. CASE k = n
      BY <1>1, <1>9, <3>1 DEF Holds, Done, HelperSteps
    <3>2. CASE k # n
      <4>1. call'[k] = call[k] /\ CallInv(call[k]) /\ Works(call[k])
        BY <1>9, <3>2, CallFacts DEF Others
      <4>2. Holds(call[k], s) => s # r
        BY <1>3, <4>1 DEF Holds, CallInv, Works, Selected, HelperSteps, Holding
      <4>3. Done(call[k], s) => s # r
        BY <1>3 DEF IInv, UsesInv, DoneIsConsumed
      <4>. QED
        BY <4>1, <4>2, <4>3
    <3>. QED
      BY <3>1, <3>2
  <2>2. ConfirmedGrants'
    <3>1. records'[r].state = "active" /\ records'[r].material = mat /\ ~(spent[r] > 0)
      BY <1>3, <1>4, <1>8 DEF IInv, UsesInv, ConfirmedGrants
    <3>. QED
      BY <1>3, <1>7, <1>8, <3>1 DEF IInv, UsesInv, ConfirmedGrants
  <2>3. DoneIsConsumed' /\ OneUser'
    BY <1>7, <1>8, <2>1 DEF IInv, UsesInv, DoneIsConsumed, OneUser
  <2>. QED
    BY <2>2, <2>3 DEF UsesInv
<1>14. ClockForward'
  <2>. SUFFICES ASSUME backs = 0
                PROVE  (\A s \in Records : records'[s].at <= clock) /\ \A k \in Calls : TimeInv(call[k])'
    BY <1>7 DEF ClockForward, WorldStays
  <2>1. (\A s \in Records : records[s].at <= clock) /\ \A k \in Calls : TimeInv(call[k])
    BY DEF IInv, CausesInv, ClockForward
  <2>2. \A s \in Records : records'[s].at <= clock
    BY <1>1, <1>4, <1>8, <2>1 DEF TimeInv
  <2>3. ASSUME NEW k \in Calls PROVE TimeInv(call[k])'
    <3>1. CASE k = n
      BY <1>7, <1>9, <2>1, <3>1 DEF TimeInv, HelperSteps, WorldStays, IInv, TypeOK
    <3>2. CASE k # n
      <4>1. call'[k] = call[k] /\ CallInv(call[k]) /\ Works(call[k]) /\ TimeInv(call[k])
        BY <1>9, <2>1, <3>2, CallFacts DEF Others
      <4>2. call[k].helper \in Holding => call[k].record \in Records \ {r}
        BY <1>3, <4>1 DEF CallInv, Works, Selected, HelperSteps, Holding
      <4>. QED
        BY <1>7, <1>8, <4>1, <4>2 DEF TimeInv, WorldStays
    <3>. QED
      BY <3>1, <3>2
  <2>. QED
    BY <2>2, <2>3
<1>15. RecordsWhole'
  <2>1. records'[r].state = "active"
    BY <1>4, <1>8
  <2>2. \A s \in Records : WellFormed(s)' <=> (IF s = r THEN TRUE ELSE WellFormed(s))
    BY <1>8, <2>1 DEF WellFormed
  <2>3. deaths' = 0 /\ faults' = 0 /\ backs' = 0 => deaths = 0 /\ faults = 0 /\ backs = 0
    BY <1>7 DEF WorldStays, IInv, RootInv, RootTypeOK
  <2>. QED
    BY <1>7, <1>8, <2>2, <2>3 DEF IInv, CausesInv, RecordsWhole
<1>16. OneIssuance'
  <2>. SUFFICES ASSUME backs = 0, NEW m \in Materials \ overlapped
                PROVE  /\ \A s, t \in ActiveOf(m)' : s = t
                       /\ Pending(m)' # {} => ActiveOf(m)' = {}
                       /\ \A k, l \in Pending(m)' : k = l
    BY <1>7 DEF OneIssuance, WorldStays
  <2>1. /\ \A s, t \in ActiveOf(m) : s = t
        /\ Pending(m) # {} => ActiveOf(m) = {}
        /\ \A k, l \in Pending(m) : k = l
    BY DEF IInv, CausesInv, OneIssuance
  <2>2. Pending(m)' \subseteq Pending(m) \ {n}
    <3>1. \A k \in Calls : Issues(call'[k], m) => Issues(call[k], m) /\ k # n
      BY <1>9 DEF Others
    <3>. QED
      BY <3>1 DEF Pending, Issues, Running
  <2>3. ActiveOf(m)' \subseteq ActiveOf(m) \cup (IF m = mat THEN {r} ELSE {})
    BY <1>4, <1>7, <1>8 DEF ActiveOf, Expired, WorldStays
  <2>4. m = mat => n \in Pending(m)
    BY <1>1 DEF Pending, Running
  <2>. QED
    BY <2>1, <2>2, <2>3, <2>4
<1>. QED
  BY <1>10, <1>11, <1>12, <1>13, <1>14, <1>15, <1>16 DEF IInv, CausesInv

\* A consumption reads its record as active; it is the only one, or the record is raced.
LEMMA ReadRecordStep ==
  ASSUME IInv, NEW n \in Calls, ReadRecord(n)
  PROVE  IInv'
<1>. DEFINE r == call[n].record
            new == [call[n] EXCEPT !.helper = "compare", !.draft = r, !.at = clock, !.read = records[r].state]
<1>1. /\ CallInv(call[n]) /\ Works(call[n]) /\ call[n] \in CallRecords
      /\ call[n].helper = "read" /\ call[n].op = "consume" /\ call[n].helper \in HelperSteps
  BY CallFacts DEF ReadRecord, CallInv, HelperSteps
<1>2. CASE HelperTo(n, "failed") /\ UNCHANGED raced /\ KeepIds /\ UNCHANGED <<records, dirs, litter, confirmed>>
  BY <1>1, <1>2, KeepIdsStays, HelperQuiet DEF Files
<1>3. CASE /\ Consumable(r, call[n].material) /\ Update(n, new)
           /\ raced' = IF \E k \in Calls : call[k].draft = r /\ call[k].helper \in Holding
                       THEN raced \cup {r} ELSE raced
           /\ KeepIds /\ UNCHANGED <<records, dirs, litter, confirmed>>
  <2>1. /\ r \in Records /\ records[r].material = call[n].material /\ records[r].state = "active"
        /\ records[r].at \in Nat /\ clock \in Nat /\ records[r].state \in States
    BY <1>1, <1>3, ClockAssumption DEF Works, Selected, Consumable, IInv, TypeOK
  <2>2. /\ new \in CallRecords /\ new.helper = "compare" /\ new.draft = r /\ new.at = clock /\ new.record = r
        /\ new.step = call[n].step /\ new.op = "consume" /\ new.material = call[n].material
    BY <1>1, <2>1 DEF CallRecords, HelperSteps, Holding
  <2>3. call' \in [Calls -> CallRecords] /\ Others(n) /\ call'[n] = new
    BY <1>3, <2>2, Updated DEF IInv, Update, TypeOK, HelperSteps, Holding
  <2>4. WorldStays /\ UNCHANGED <<records, dirs, litter, drawn, confirmed, spent, overlapped>>
    BY <1>3, KeepIdsStays
  <2>5. RootInv'
    BY <2>4, RootStays DEF IInv, WorldStays, RootInv, RootTypeOK
  <2>6. TypeOK'
    BY <1>3, <2>1, <2>3, <2>4, <2>5 DEF IInv, TypeOK, RootInv, WorldStays
  <2>7. CallsInv'
    <3>1. \A k \in Calls \ {n} : (CallInv(call[k]) /\ Works(call[k]))'
      <4>1. \A k \in Calls \ {n} : call'[k] = call[k]
        BY <2>3 DEF Others
      <4>. QED
        BY <2>4, <4>1, CallFacts DEF CallInv, Works, Selected
    <3>2. CallInv(new) /\ Works(new)
      <4>1. call[n].step \in {"wait", "refused", "granted", "consumed"} /\ call[n].material \in Materials
        BY <1>1, HelperMoves
      <4>. QED
        BY <1>1, <2>1, <2>2, <4>1 DEF CallInv, Works, Selected, HelperSteps, Holding, Ended
    <3>3. (CallInv(call[n]) /\ Works(call[n]))'
      BY <2>3, <2>4, <3>2 DEF CallInv, Works, Selected
    <3>4. OwnDraft' /\ Undrawn'
      <4>1. \A k \in Calls : call'[k].helper = "write" => k # n /\ call'[k] = call[k]
        BY <2>2, <2>3 DEF Others
      <4>. QED
        BY <2>4, <4>1 DEF OwnDraft, Undrawn, IInv, CallsInv
    <3>. QED
      BY <3>1, <3>3, <3>4 DEF CallsInv
  <2>8. UsesInv'
    <3>1. \A k \in Calls, s \in Records : Done(call'[k], s) => Done(call[k], s)
      BY <2>2, <2>3 DEF Others, Done
    <3>2. \A k \in Calls, s \in Records : Holds(call'[k], s) => Holds(call[k], s) \/ (k = n /\ s = r)
      BY <2>2, <2>3 DEF Others, Holds
    <3>3. r \notin raced' => \A k \in Calls : ~Holds(call[k], r)
      <4>1. \A k \in Calls : Holds(call[k], r) => call[k].draft = r
        BY CallFacts DEF Holds, Works
      <4>. QED
        BY <1>3, <4>1 DEF Holds
    <3>4. ConfirmedGrants' /\ DoneIsConsumed'
      BY <2>4, <3>1 DEF IInv, UsesInv, ConfirmedGrants, DoneIsConsumed, Done
    <3>5. OneUser'
      <4>. SUFFICES ASSUME NEW s \in Records \ raced' PROVE
             /\ spent[s] <= 1
             /\ \A k \in Calls : Holds(call'[k], s) => records[s].state = "active"
             /\ \A k \in Calls : Done(call'[k], s) => spent[s] = 0
             /\ \A k, l \in Calls : Holds(call'[k], s) /\ Holds(call'[l], s) => k = l
             /\ \A k, l \in Calls : Done(call'[k], s) /\ Done(call'[l], s) => k = l
        BY <2>4 DEF OneUser, Holds, Done
      <4>1. /\ spent[s] <= 1
            /\ \A k \in Calls : Holds(call[k], s) => records[s].state = "active"
            /\ \A k \in Calls : Done(call[k], s) => spent[s] = 0
            /\ \A k, l \in Calls : Holds(call[k], s) /\ Holds(call[l], s) => k = l
            /\ \A k, l \in Calls : Done(call[k], s) /\ Done(call[l], s) => k = l
        BY <1>3 DEF IInv, UsesInv, OneUser
      <4>. QED
        BY <2>1, <3>1, <3>2, <3>3, <4>1
    <3>. QED
      BY <3>4, <3>5 DEF UsesInv
  <2>9. ClockForward'
    <3>. SUFFICES ASSUME backs = 0
                  PROVE  (\A s \in Records : records[s].at <= clock) /\ \A k \in Calls : TimeInv(call'[k])
      BY <2>4 DEF ClockForward, TimeInv, WorldStays
    <3>1. (\A s \in Records : records[s].at <= clock) /\ \A k \in Calls : TimeInv(call[k])
      BY DEF IInv, CausesInv, ClockForward
    <3>2. TimeInv(new)
      BY <1>1, <1>3, <2>1, <2>2, <3>1, ClockAssumption DEF TimeInv, Consumable, Expired, CallInv
    <3>. QED
      BY <2>3, <3>1, <3>2 DEF Others
  <2>10. RecordsWhole' /\ OneIssuance'
    BY <2>2, <2>3, <2>4, WholeKept, IssuanceKept DEF WorldStays, Issues
  <2>. QED
    BY <2>5, <2>6, <2>7, <2>8, <2>9, <2>10 DEF IInv, CausesInv
<1>. QED
  BY <1>1, <1>2, <1>3 DEF ReadRecord

\* A consumption replaces the record it has read by its consumed form.
LEMMA RenameStep ==
  ASSUME IInv, NEW n \in Calls, Rename(n)
  PROVE  IInv'
<1>. DEFINE r == call[n].record
<1>1. /\ CallInv(call[n]) /\ Works(call[n]) /\ call[n] \in CallRecords
      /\ call[n].helper = "rename" /\ call[n].op = "consume" /\ call[n].helper \in HelperSteps
      /\ Holds(call[n], r)
  BY CallFacts DEF Rename, CallInv, HelperSteps, Holding, Holds
<1>2. /\ r \in Records /\ call[n].draft = r /\ records[r].material = call[n].material
      /\ records[r].state \in {"active", "consumed"} /\ call[n].at \in Nat
  BY <1>1 DEF Works, Selected, Holding, CallRecords
<1>3. /\ HelperTo(n, "ok")
      /\ records' = [records EXCEPT ![r].state = "consumed", ![r].used = call[n].at]
  BY <1>2 DEF Rename
<1>4. WorldStays /\ UNCHANGED <<dirs, litter, confirmed, raced, drawn, spent, overlapped>>
  BY KeepIdsStays DEF Rename
<1>5. records \in [Records -> [state : States, material : Materials \cup {NoMaterial}, at : Nat, used : Nat]]
  BY DEF IInv, TypeOK
<1>6. /\ records'[r].state = "consumed" /\ records'[r].used = call[n].at
      /\ records'[r].material = records[r].material /\ records'[r].at = records[r].at
      /\ \A s \in Records \ {r} : records'[s] = records[s]
  BY <1>2, <1>3, <1>5
<1>7. /\ call' \in [Calls -> CallRecords] /\ Others(n)
      /\ call'[n].helper \notin HelperSteps /\ call'[n].at \in {0, call[n].at}
      /\ call'[n].op = "consume" => call'[n].record = r
      /\ CallInv(call'[n])
      /\ call'[n] # Over => /\ call'[n].op = call[n].op /\ call'[n].record = r
                            /\ call'[n].material = call[n].material
      /\ \A m \in Materials : ~Issues(call'[n], m)
  BY <1>1, <1>3, HelperGone
<1>8. RootInv'
  BY <1>4, RootStays DEF IInv, WorldStays, RootInv, RootTypeOK
<1>9. TypeOK'
  <2>1. records' \in [Records -> [state : States, material : Materials \cup {NoMaterial}, at : Nat, used : Nat]]
    BY <1>2, <1>3, <1>5 DEF States
  <2>2. \A s \in Records :
          /\ records'[s].state = "none" <=> records'[s].material = NoMaterial
          /\ records'[s].state # "consumed" => records'[s].used = 0
          /\ records'[s].state # "none" => Consumer(records'[s].material) \in dirs'
    BY <1>2, <1>4, <1>6 DEF IInv, TypeOK
  <2>. QED
    BY <1>4, <1>7, <1>8, <2>1, <2>2 DEF IInv, TypeOK, RootInv, WorldStays
<1>10. CallsInv'
  <2>1. \A k \in Calls \ {n} : (CallInv(call[k]) /\ Works(call[k]))'
    BY <1>2, <1>4, <1>6, <1>7, OthersKeepRecords
  <2>2. (CallInv(call[n]) /\ Works(call[n]))'
    <3>1. CallInv(call[n])'
      BY <1>7 DEF CallInv
    <3>2. Works(call[n])'
      BY <1>2, <1>6, <1>7, OverType DEF Works, Selected, HelperSteps, Holding
    <3>. QED
      BY <3>1, <3>2
  <2>3. OwnDraft' /\ Undrawn'
    BY <1>2, <1>4, <1>6, <1>7 DEF OwnDraft, Undrawn, Others, IInv, CallsInv, HelperSteps
  <2>. QED
    BY <2>1, <2>2, <2>3 DEF CallsInv
<1>11. UsesInv'
  <2>1. \A k \in Calls, s \in Records :
          /\ Holds(call'[k], s) => Holds(call[k], s) /\ k # n
          /\ Done(call'[k], s) => Done(call[k], s) \/ (k = n /\ s = r)
    BY <1>7 DEF Others, Holds, Done, HelperSteps
  <2>2. ConfirmedGrants'
    BY <1>2, <1>4, <1>6 DEF IInv, UsesInv, ConfirmedGrants
  <2>3. DoneIsConsumed'
    BY <1>6, <2>1 DEF IInv, UsesInv, DoneIsConsumed, Done
  <2>4. OneUser'
    <3>. SUFFICES ASSUME NEW s \in Records \ raced PROVE
             /\ spent[s] <= 1
             /\ \A k \in Calls : Holds(call'[k], s) => records'[s].state = "active"
             /\ \A k \in Calls : Done(call'[k], s) => spent[s] = 0
             /\ \A k, l \in Calls : Holds(call'[k], s) /\ Holds(call'[l], s) => k = l
             /\ \A k, l \in Calls : Done(call'[k], s) /\ Done(call'[l], s) => k = l
      BY <1>4 DEF OneUser, Holds, Done
    <3>1. /\ spent[s] <= 1 /\ spent[s] \in Nat
          /\ \A k \in Calls : Holds(call[k], s) => records[s].state = "active"
          /\ \A k \in Calls : Done(call[k], s) => spent[s] = 0
          /\ \A k, l \in Calls : Holds(call[k], s) /\ Holds(call[l], s) => k = l
          /\ \A k, l \in Calls : Done(call[k], s) /\ Done(call[l], s) => k = l
      BY DEF IInv, UsesInv, OneUser, TypeOK
    <3>2. CASE s = r
      <4>1. records[s].state = "active" /\ spent[s] = 0 /\ \A k \in Calls : ~Done(call[k], s)
        BY <1>1, <3>1, <3>2 DEF IInv, UsesInv, ConfirmedGrants, DoneIsConsumed
      <4>. QED
        BY <1>1, <2>1, <3>1, <3>2, <4>1
    <3>3. CASE s # r
      BY <1>6, <2>1, <3>1, <3>3
    <3>. QED
      BY <3>2, <3>3
  <2>. QED
    BY <2>2, <2>3, <2>4 DEF UsesInv
<1>12. ClockForward' /\ RecordsWhole'
  <2>1. backs = 0 => /\ (\A s \in Records : records[s].at <= clock) /\ \A k \in Calls : TimeInv(call[k])
                     /\ records[r].at <= call[n].at /\ call[n].at < records[r].at + Ttl
    BY <1>1, <1>2 DEF IInv, CausesInv, ClockForward, TimeInv, Holding
  <2>2. ClockForward'
    <3>. SUFFICES ASSUME backs = 0
                  PROVE  (\A s \in Records : records'[s].at <= clock) /\ \A k \in Calls : TimeInv(call[k])'
      BY <1>4 DEF ClockForward, WorldStays
    <3>1. \A s \in Records : records'[s].at = records[s].at
      BY <1>6
    <3>2. ASSUME NEW k \in Calls \ {n} PROVE TimeInv(call[k])'
      <4>1. call'[k] = call[k] /\ TimeInv(call[k]) /\ (call[k].helper \in Holding => call[k].record \in Records)
        BY <1>7, <2>1, CallFacts DEF Others, CallInv, Works, Selected, HelperSteps, Holding
      <4>. QED
        BY <1>4, <3>1, <4>1 DEF TimeInv, WorldStays
    <3>3. TimeInv(call[n])'
      BY <1>4, <1>7, <2>1 DEF TimeInv, WorldStays, HelperSteps, IInv, TypeOK
    <3>. QED
      BY <2>1, <3>1, <3>2, <3>3
  <2>3. RecordsWhole'
    <3>1. ASSUME backs = 0, NEW s \in Records, s = r PROVE WellFormed(s)'
      BY <1>6, <2>1, <3>1 DEF WellFormed
    <3>2. \A s \in Records \ {r} : WellFormed(s)' <=> WellFormed(s)
      BY <1>6 DEF WellFormed
    <3>3. deaths' = 0 /\ faults' = 0 /\ backs' = 0 => deaths = 0 /\ faults = 0 /\ backs = 0
      BY <1>4 DEF WorldStays, IInv, RootInv, RootTypeOK
    <3>. QED
      BY <1>4, <1>6, <3>1, <3>2, <3>3 DEF IInv, CausesInv, RecordsWhole
  <2>. QED
    BY <2>2, <2>3
<1>13. OneIssuance'
  <2>. SUFFICES ASSUME backs = 0, NEW m \in Materials \ overlapped
                PROVE  /\ \A s, t \in ActiveOf(m)' : s = t
                       /\ Pending(m)' # {} => ActiveOf(m)' = {}
                       /\ \A k, l \in Pending(m)' : k = l
    BY <1>4 DEF OneIssuance, WorldStays
  <2>1. Pending(m)' \subseteq Pending(m)
    <3>1. \A k \in Calls : Issues(call'[k], m) => Issues(call[k], m)
      BY <1>7 DEF Others
    <3>. QED
      BY <3>1 DEF Pending, Issues, Running
  <2>2. ActiveOf(m)' \subseteq ActiveOf(m)
    BY <1>4, <1>6 DEF ActiveOf, Expired, WorldStays
  <2>. QED
    BY <2>1, <2>2 DEF IInv, CausesInv, OneIssuance
<1>. QED
  BY <1>8, <1>9, <1>10, <1>11, <1>12, <1>13 DEF IInv, CausesInv

LEMMA HelperStep ==
  ASSUME IInv, NEW n \in Calls, Helper(n)
  PROVE  IInv'
BY StartStep, WriteStep, ReadRecordStep, CompareStep, RenameStep DEF Helper

-----------------------------------------------------------------------------
(* The environment.                                                        *)

\* A helper that throws or dies, and what it leaves.
LEMMA LeaveStep ==
  ASSUME IInv, NEW n \in Calls, HelperTo(n, "failed"), KeepWorld, UNCHANGED backs,
         call[n].helper \in HelperSteps,
         deaths' \in Nat, deaths' >= deaths, faults' \in Nat, faults' >= faults, deaths' > 0 \/ faults' > 0,
         \/ call[n].helper = "write" /\ (LeaveRecord(n) \/ LeaveDirectory(n))
         \/ call[n].helper \in {"read"} \cup Holding /\ LeaveTemp(n)
         \/ LeaveNothing
  PROVE  IInv'
<1>. DEFINE r == call[n].draft
            mat == call[n].material
            torn == [NoFile EXCEPT !.state = "torn", !.material = mat]
<1>1. CallInv(call[n]) /\ Works(call[n]) /\ call[n] \in CallRecords /\ mat \in Materials
  BY CallFacts, HelperMoves
<1>2. WorldStays /\ UNCHANGED <<confirmed, raced, drawn, spent, overlapped>>
  BY DEF KeepWorld, WorldStays
<1>3. /\ call' \in [Calls -> CallRecords] /\ Others(n)
      /\ call'[n].helper \notin HelperSteps /\ call'[n].helper # "ok" /\ call'[n].at \in {0, call[n].at}
      /\ call'[n].op = "consume" => call'[n].record = call[n].record /\ call[n].op = "consume"
      /\ CallInv(call'[n])
      /\ call'[n] # Over => /\ call'[n].op = call[n].op /\ call'[n].record = call[n].record
                            /\ call'[n].material = call[n].material /\ call'[n].step = call[n].step
      /\ \A m \in Materials : ~Issues(call'[n], m)
  BY HelperGone
<1>4. \/ UNCHANGED records
      \/ /\ call[n].helper = "write" /\ records' = [records EXCEPT ![r] = torn]
         /\ r \in Records /\ records[r].state = "none" /\ confirmed[r] = {mat} /\ r <= drawn
  BY <1>1 DEF LeaveRecord, LeaveDirectory, LeaveTemp, LeaveNothing, Works
<1>5. /\ torn.state = "torn" /\ torn.material = mat /\ torn.at = 0 /\ torn.used = 0
      /\ torn \in [state : States, material : Materials \cup {NoMaterial}, at : Nat, used : Nat]
  BY <1>1 DEF NoFile, States
<1>6. records' \in [Records -> [state : States, material : Materials \cup {NoMaterial}, at : Nat, used : Nat]]
  BY <1>4, <1>5 DEF IInv, TypeOK
<1>7. ASSUME NEW s \in Records
      PROVE  \/ records'[s] = records[s]
             \/ /\ records[s].state = "none" /\ confirmed[s] = {mat} /\ s <= drawn
                /\ records'[s].state = "torn" /\ records'[s].material = mat
                /\ records'[s].at = 0 /\ records'[s].used = 0
                /\ call[n].helper = "write" /\ call[n].draft = s /\ LeaveRecord(n)
  BY <1>4, <1>5 DEF IInv, TypeOK, LeaveRecord, LeaveDirectory, LeaveTemp, LeaveNothing
<1>8. RootInv'
  BY <1>2, RootStays DEF IInv, WorldStays, RootInv, RootTypeOK
<1>9. TypeOK'
  <2>1. /\ dirs' \in {dirs, dirs \cup {Consumer(mat)}}
        /\ LeaveRecord(n) => dirs' = dirs \cup {Consumer(mat)}
        /\ Consumer(mat) \in Consumers
    BY <1>1 DEF LeaveRecord, LeaveDirectory, LeaveTemp, LeaveNothing, Consumers
  <2>2. \A s \in Records :
          /\ records'[s].state = "none" <=> records'[s].material = NoMaterial
          /\ records'[s].state # "consumed" => records'[s].used = 0
          /\ records'[s].state # "none" => Consumer(records'[s].material) \in dirs'
    BY <1>1, <1>7, <2>1, NoneAssumption DEF IInv, TypeOK
  <2>3. call[n].helper \in {"read"} \cup Holding => Consumer(mat) \in dirs
    <3>. SUFFICES ASSUME call[n].helper \in {"read"} \cup Holding PROVE Consumer(mat) \in dirs
      OBVIOUS
    <3>1. call[n].op = "consume" /\ Selected(call[n])
      BY <1>1 DEF CallInv, Selected, HelperSteps
    <3>2. call[n].record \in Records /\ records[call[n].record].material = mat
          /\ records[call[n].record].state # "none"
      BY <1>1, <3>1 DEF Works
    <3>. QED
      BY <3>2 DEF IInv, TypeOK
  <2>4. litter' \subseteq dirs' /\ dirs' \subseteq Consumers
    BY <2>1, <2>3 DEF IInv, TypeOK, LeaveRecord, LeaveDirectory, LeaveTemp, LeaveNothing
  <2>. QED
    BY <1>2, <1>3, <1>6, <1>8, <2>2, <2>4 DEF IInv, TypeOK, RootInv, WorldStays
<1>10. CallsInv'
  <2>1. \A k \in Calls \ {n} : (CallInv(call[k]) /\ Works(call[k]))'
    <3>1. CASE UNCHANGED records
      <4>1. \A k \in Calls \ {n} : call'[k] = call[k]
        BY <1>3 DEF Others
      <4>. QED
        BY <1>2, <3>1, <4>1, CallFacts DEF CallInv, Works, Selected
    <3>2. CASE call[n].helper = "write" /\ r \in Records /\ records' = [records EXCEPT ![r] = torn]
      <4>1. \A s \in Records \ {r} : records'[s] = records[s]
        BY <3>2 DEF IInv, TypeOK
      <4>. QED
        BY <1>2, <1>3, <3>2, <4>1, OthersKeepRecords
    <3>. QED
      BY <1>4, <3>1, <3>2
  <2>2. (CallInv(call[n]) /\ Works(call[n]))'
    <3>1. CallInv(call[n])'
      BY <1>3 DEF CallInv
    <3>2. Selected(call'[n]) => /\ Selected(call[n]) /\ call'[n].record = call[n].record
                                /\ call'[n].material = call[n].material
      BY <1>1, <1>3, OverType DEF Selected
    <3>3. Works(call[n])'
      BY <1>1, <1>3, <1>7, <3>2 DEF Works, Selected, HelperSteps, Holding
    <3>. QED
      BY <3>1, <3>3
  <2>3. OwnDraft' /\ Undrawn'
    <3>1. \A k \in Calls : call'[k].helper = "write" => call'[k] = call[k]
      BY <1>3 DEF Others, HelperSteps
    <3>. QED
      BY <1>2, <1>7, <3>1 DEF OwnDraft, Undrawn, IInv, CallsInv, Records, TypeOK
  <2>. QED
    BY <2>1, <2>2, <2>3 DEF CallsInv
<1>11. UsesInv'
  <2>1. \A k \in Calls, s \in Records :
          (Holds(call'[k], s) => Holds(call[k], s)) /\ (Done(call'[k], s) => Done(call[k], s))
    BY <1>3 DEF Others, Holds, Done, HelperSteps
  <2>2. ConfirmedGrants'
    BY <1>2, <1>7 DEF IInv, UsesInv, ConfirmedGrants
  <2>3. \A s \in Records : records[s].state # "none" => records'[s] = records[s]
    BY <1>7
  <2>4. DoneIsConsumed' /\ OneUser'
    BY <1>2, <2>1, <2>3 DEF IInv, UsesInv, DoneIsConsumed, OneUser, Holds, Done
  <2>. QED
    BY <2>2, <2>4 DEF UsesInv
<1>12. ClockForward'
  <2>. SUFFICES ASSUME backs = 0
                PROVE  (\A s \in Records : records'[s].at <= clock) /\ \A k \in Calls : TimeInv(call[k])'
    BY <1>2 DEF ClockForward, WorldStays
  <2>1. (\A s \in Records : records[s].at <= clock) /\ \A k \in Calls : TimeInv(call[k])
    BY DEF IInv, CausesInv, ClockForward
  <2>2. \A s \in Records : records'[s].at <= clock
    BY <1>7, <2>1, ClockAssumption DEF IInv, TypeOK
  <2>3. ASSUME NEW k \in Calls \ {n} PROVE TimeInv(call[k])'
    <3>1. call'[k] = call[k] /\ TimeInv(call[k]) /\ CallInv(call[k]) /\ Works(call[k])
      BY <1>3, <2>1, CallFacts DEF Others
    <3>2. call[k].helper \in Holding =>
             call[k].record \in Records /\ records[call[k].record].state # "none"
      BY <3>1 DEF CallInv, Works, Selected, HelperSteps, Holding
    <3>. QED
      BY <1>2, <1>7, <3>1, <3>2 DEF TimeInv, WorldStays
  <2>4. TimeInv(call[n])'
    BY <1>2, <1>3, <2>1 DEF TimeInv, WorldStays, HelperSteps, IInv, TypeOK
  <2>. QED
    BY <2>2, <2>3, <2>4
<1>13. RecordsWhole'
  BY DEF RecordsWhole
<1>14. OneIssuance'
  <2>. SUFFICES ASSUME backs = 0, NEW m \in Materials \ overlapped
                PROVE  /\ \A s, t \in ActiveOf(m)' : s = t
                       /\ Pending(m)' # {} => ActiveOf(m)' = {}
                       /\ \A k, l \in Pending(m)' : k = l
    BY <1>2 DEF OneIssuance, WorldStays
  <2>1. Pending(m)' \subseteq Pending(m)
    <3>1. \A k \in Calls : Issues(call'[k], m) => Issues(call[k], m)
      BY <1>3 DEF Others
    <3>. QED
      BY <3>1 DEF Pending, Issues, Running
  <2>2. ActiveOf(m)' \subseteq ActiveOf(m)
    BY <1>2, <1>7 DEF ActiveOf, Expired, WorldStays
  <2>. QED
    BY <2>1, <2>2 DEF IInv, CausesInv, OneIssuance
<1>. QED
  BY <1>8, <1>9, <1>10, <1>11, <1>12, <1>13, <1>14 DEF IInv, CausesInv

LEMMA HelperFaultStep ==
  ASSUME IInv, NEW n \in Calls, HelperFault(n)
  PROVE  IInv'
<1>1. /\ deaths' \in Nat /\ deaths' >= deaths /\ faults' \in Nat /\ faults' >= faults /\ faults' > 0
      /\ UNCHANGED backs /\ KeepWorld /\ HelperTo(n, "failed")
  BY DEF HelperFault, IInv, RootInv, RootTypeOK
<1>2. call[n].helper \in HelperSteps /\ call[n].helper \in {"write", "read"} \cup Holding
  BY DEF HelperFault, HelperSteps
<1>3. \/ call[n].helper = "write" /\ (LeaveRecord(n) \/ LeaveDirectory(n))
      \/ call[n].helper = "read" /\ LeaveTemp(n)
      \/ LeaveNothing
  BY DEF HelperFault
<1>. QED
  BY <1>1, <1>2, <1>3, LeaveStep

LEMMA HelperDiesStep ==
  ASSUME IInv, NEW n \in Calls, HelperDies(n)
  PROVE  IInv'
<1>1. /\ deaths' \in Nat /\ deaths' >= deaths /\ faults' \in Nat /\ faults' >= faults /\ deaths' > 0
      /\ UNCHANGED backs /\ KeepWorld /\ HelperTo(n, "failed") /\ call[n].helper \in HelperSteps
  BY DEF HelperDies, IInv, RootInv, RootTypeOK, Running
<1>3. \/ call[n].helper = "write" /\ (LeaveRecord(n) \/ LeaveDirectory(n))
      \/ call[n].helper \in Holding /\ LeaveTemp(n)
      \/ LeaveNothing
  BY DEF HelperDies, Holding
<1>. QED
  BY <1>1, <1>3, LeaveStep

LEMMA ClientDiesStep ==
  ASSUME IInv, NEW n \in Calls, ClientDies(n)
  PROVE  IInv'
<1>. DEFINE new == [call[n] EXCEPT !.step = "refused"]
<1>1. CallInv(call[n]) /\ Works(call[n]) /\ call[n] \in CallRecords /\ call[n].step \in ClientSteps
  BY CallFacts DEF ClientDies
<1>2. /\ new \in CallRecords /\ new.step = "refused"
      /\ new.op = call[n].op /\ new.material = call[n].material /\ new.record = call[n].record
      /\ new.helper = call[n].helper /\ new.draft = call[n].draft /\ new.at = call[n].at
  BY <1>1 DEF CallRecords, Ended
<1>3. new.helper \in HelperSteps =>
        /\ CallInv(new) /\ Works(new) /\ NoMore(call[n], new)
        /\ \A m \in Materials : Issues(new, m) => Issues(call[n], m)
  BY <1>1, <1>2 DEF CallInv, Works, Selected, NoMore, Issues, Done, Ended, ClientSteps
<1>4. new.step \in Ended
  BY <1>2 DEF Ended
<1>5. Update(n, new) /\ UNCHANGED Files /\ UNCHANGED <<spent, overlapped>> /\ WorldStays
  BY DEF ClientDies, KeepWorld, LeaveNothing, Files, WorldStays, IInv, RootInv, RootTypeOK
<1>. QED
  BY <1>2, <1>3, <1>4, <1>5, QuietStep

LEMMA ClockStep ==
  ASSUME IInv, Tick \/ SetBack
  PROVE  IInv'
<1>1. /\ UNCHANGED <<rootVars, records, dirs, litter, drawn, call, confirmed, spent, raced, overlapped, deaths, faults>>
      /\ clock \in Nat /\ clock' \in 0..MaxClock /\ backs' \in Nat
      /\ \/ clock' = clock + 1 /\ backs' = backs
         \/ backs' > 0
  BY ClockAssumption DEF Tick, SetBack, KeepAll, IInv, TypeOK, RootInv, RootTypeOK
<1>2. RootInv'
  BY <1>1, RootStays DEF IInv, RootInv, RootTypeOK
<1>3. TypeOK'
  BY <1>1, <1>2 DEF IInv, TypeOK, RootInv
<1>4. CallsInv' /\ UsesInv'
  BY <1>1
  DEF IInv, CallsInv, CallInv, Works, Selected, OwnDraft, Undrawn, UsesInv, ConfirmedGrants,
      DoneIsConsumed, OneUser,
              Holds, Done
<1>5. CASE backs' > 0
  BY <1>1, <1>2, <1>3, <1>4, <1>5 DEF IInv, CausesInv, ClockForward, RecordsWhole, OneIssuance
<1>6. CASE clock' = clock + 1 /\ backs' = backs
  <2>1. ClockForward'
    <3>. SUFFICES ASSUME backs = 0
                  PROVE  (\A s \in Records : records[s].at <= clock') /\ \A k \in Calls : TimeInv(call[k])'
      BY <1>1, <1>6 DEF ClockForward
    <3>1. (\A s \in Records : records[s].at <= clock) /\ \A k \in Calls : TimeInv(call[k])
      BY DEF IInv, CausesInv, ClockForward
    <3>2. (\A s \in Records : records[s].at \in Nat) /\ \A k \in Calls : call[k].at \in Nat
      BY DEF IInv, TypeOK, CallRecords
    <3>. QED
      BY <1>1, <1>6, <3>1, <3>2 DEF TimeInv
  <2>2. RecordsWhole'
    BY <1>1, <1>6 DEF IInv, CausesInv, RecordsWhole, WellFormed
  <2>3. OneIssuance'
    <3>. SUFFICES ASSUME backs = 0, NEW m \in Materials \ overlapped
                  PROVE  /\ \A s, t \in ActiveOf(m)' : s = t
                         /\ Pending(m)' # {} => ActiveOf(m)' = {}
                         /\ \A k, l \in Pending(m)' : k = l
      BY <1>1, <1>6 DEF OneIssuance
    <3>1. Pending(m)' = Pending(m)
      BY <1>1 DEF Pending, Running
    <3>2. ActiveOf(m)' \subseteq ActiveOf(m)
      BY <1>1, <1>6, ClockAssumption DEF ActiveOf, Expired, IInv, TypeOK
    <3>. QED
      BY <3>1, <3>2 DEF IInv, CausesInv, OneIssuance
  <2>. QED
    BY <1>2, <1>3, <1>4, <2>1, <2>2, <2>3 DEF IInv, CausesInv
<1>. QED
  BY <1>1, <1>5, <1>6

LEMMA AdministerStep ==
  ASSUME IInv, Administer
  PROVE  IInv'
<1>1. RootInv' /\ UNCHANGED authorityVars
  BY AdministerRoot DEF Administer, IInv
<1>2. deaths' >= deaths /\ faults' >= faults /\ backs' = backs /\ deaths' \in Nat /\ faults' \in Nat
  <2>1. CASE StageA
    BY <2>1 DEF StageA, limits, IInv, RootInv, RootTypeOK
  <2>2. ASSUME NEW a \in Admins, TaskStep(a, dirs = {})
        PROVE  UNCHANGED limits
    BY <2>2 DEF TaskStep, Bootstrap, Recover, Upgrade, Undo, Decline, BeginTask, Access, Backup
  <2>3. ASSUME NEW a \in Admins, TaskFault(a) \/ TaskDies(a)
        PROVE  deaths' >= deaths /\ faults' >= faults /\ backs' = backs /\ deaths' \in Nat /\ faults' \in Nat
    BY <2>3 DEF TaskFault, TaskDies, IInv, RootInv, RootTypeOK
  <2>. QED
    BY <2>1, <2>2, <2>3 DEF Administer, RootNext, limits, IInv, RootInv, RootTypeOK
<1>3. TypeOK' /\ CallsInv' /\ UsesInv'
  BY <1>1
  DEF authorityVars, RootInv, IInv, TypeOK, CallsInv, CallInv, Works, Selected, OwnDraft, Undrawn, UsesInv,
              ConfirmedGrants, DoneIsConsumed, OneUser, Holds, Done
<1>4. CausesInv'
  BY <1>1, <1>2
  DEF authorityVars, IInv, CausesInv, ClockForward, TimeInv, RecordsWhole, WellFormed, OneIssuance,
      ActiveOf, Expired,
              Pending, Running, RootInv, RootTypeOK
<1>. QED
  BY <1>1, <1>3, <1>4 DEF IInv

-----------------------------------------------------------------------------
(* The theorems.                                                           *)

LEMMA InitIInv == Init => IInv
<1>. SUFFICES ASSUME Init PROVE IInv
  OBVIOUS
<1>1. RootInv
  BY InitRoot DEF Init
<1>2. PICK m \in Materials \cup {NoMaterial} :
        /\ m # NoMaterial => Ready /\ MaxRecords > 0
        /\ drawn = IF m = NoMaterial THEN 0 ELSE 1
        /\ records = [r \in Records |->
                        IF r <= drawn THEN [NoFile EXCEPT !.state = "active", !.material = m] ELSE NoFile]
        /\ dirs = IF m = NoMaterial THEN {} ELSE {Consumer(m)}
        /\ confirmed = [r \in Records |-> IF r <= drawn THEN {m} ELSE {}]
  BY DEF Init
<1>. DEFINE rec == [NoFile EXCEPT !.state = "active", !.material = m]
<1>3. /\ rec.state = "active" /\ rec.material = m /\ rec.at = 0 /\ rec.used = 0
      /\ rec \in [state : States, material : Materials \cup {NoMaterial}, at : Nat, used : Nat]
      /\ NoFile.state = "none" /\ NoFile.material = NoMaterial /\ NoFile.at = 0 /\ NoFile.used = 0
      /\ NoFile \in [state : States, material : Materials \cup {NoMaterial}, at : Nat, used : Nat]
  BY DEF NoFile, States
<1>4. /\ drawn \in 0..MaxRecords /\ drawn \in {0, 1}
      /\ \A r \in Records : r <= drawn => m # NoMaterial /\ r = 1
  BY <1>2, NoneAssumption DEF Records
<1>5. /\ litter = {} /\ clock = 0 /\ call = [n \in Calls |-> NewCall]
      /\ spent = [r \in Records |-> 0] /\ raced = {} /\ overlapped = {}
  BY DEF Init
<1>6. \A r \in Records :
         /\ r \in Nat /\ records[r].at = 0 /\ records[r].used = 0
         /\ \/ /\ r <= drawn /\ r = 1 /\ m \in Materials /\ confirmed[r] = {m}
               /\ records[r].state = "active" /\ records[r].material = m
            \/ /\ r > drawn /\ confirmed[r] = {}
               /\ records[r].state = "none" /\ records[r].material = NoMaterial
  <2>. SUFFICES ASSUME NEW r \in Records
                PROVE  /\ r \in Nat /\ records[r].at = 0 /\ records[r].used = 0
                       /\ \/ /\ r <= drawn /\ r = 1 /\ m \in Materials /\ confirmed[r] = {m}
                             /\ records[r].state = "active" /\ records[r].material = m
                          \/ /\ r > drawn /\ confirmed[r] = {}
                             /\ records[r].state = "none" /\ records[r].material = NoMaterial
    OBVIOUS
  <2>1. r \in Nat
    BY NoneAssumption DEF Records
  <2>2. records[r] = IF r <= drawn THEN rec ELSE NoFile
    BY <1>2
  <2>3. confirmed[r] = IF r <= drawn THEN {m} ELSE {}
    BY <1>2
  <2>. HIDE DEF rec
  <2>. QED
    BY <1>3, <1>4, <2>1, <2>2, <2>3
<1>7. /\ NewCall \in CallRecords /\ CallInv(NewCall) /\ Works(NewCall)
      /\ NewCall.helper = "none" /\ NewCall.op = "issue" /\ NewCall.at = 0
      /\ \A n \in Calls : call[n] = NewCall
  BY <1>5, OverType DEF NewCall, CallInv, Works, Selected, Ended, HelperSteps, Holding
<1>8. TypeOK
  <2>1. records \in [Records -> [state : States, material : Materials \cup {NoMaterial}, at : Nat, used : Nat]]
    BY <1>2, <1>3
  <2>2. \A r \in Records :
          /\ records[r].state = "none" <=> records[r].material = NoMaterial
          /\ records[r].state # "consumed" => records[r].used = 0
          /\ records[r].state # "none" => Consumer(records[r].material) \in dirs
    BY <1>2, <1>6, NoneAssumption
  <2>3. dirs \subseteq Consumers
    BY <1>2 DEF Consumers
  <2>4. confirmed \in [Records -> SUBSET Materials]
    BY <1>2, <1>4
  <2>. QED
    BY <1>1, <1>4, <1>5, <1>7, <2>1, <2>2, <2>3, <2>4, ClockAssumption DEF TypeOK, RootInv
<1>9. CallsInv
  <2>1. \A n \in Calls : CallInv(call[n]) /\ Works(call[n])
    BY <1>7, Zenon
  <2>2. OwnDraft
    BY <1>7 DEF OwnDraft
  <2>3. Undrawn
    BY <1>4, <1>6 DEF Undrawn
  <2>. QED
    BY <2>1, <2>2, <2>3 DEF CallsInv
<1>10. UsesInv
  <2>1. \A r \in Records : spent[r] = 0
    BY <1>5
  <2>. QED
    BY <1>6, <1>7, <2>1 DEF UsesInv, ConfirmedGrants, DoneIsConsumed, OneUser, Holds, Done, Holding
<1>11. CausesInv
  <2>1. ClockForward /\ RecordsWhole
    BY <1>5, <1>6, <1>7 DEF ClockForward, TimeInv, RecordsWhole, WellFormed, Holding
  <2>2. OneIssuance
    BY <1>3, <1>5, <1>6 DEF OneIssuance, ActiveOf, Pending, Running, NewCall, HelperSteps, Holding
  <2>. QED
    BY <2>1, <2>2 DEF CausesInv
<1>. QED
  BY <1>1, <1>8, <1>9, <1>10, <1>11 DEF IInv

LEMMA NextIInv == IInv /\ [Next]_vars => IInv'
<1>. SUFFICES ASSUME IInv, [Next]_vars PROVE IInv'
  OBVIOUS
<1>1. ASSUME NEW n \in Calls,
             \/ Begin(n) \/ Client(n) \/ Helper(n) \/ Confirm(n) \/ Deny(n)
             \/ HelperFault(n) \/ HelperDies(n) \/ ClientDies(n)
      PROVE  IInv'
  BY <1>1, BeginStep, ClientStep, HelperStep, ConfirmStep, DenyStep, HelperFaultStep, HelperDiesStep,
     ClientDiesStep
<1>2. CASE UNCHANGED vars
  <2>1. UNCHANGED <<rootVars, limits, authorityVars>>
    BY <1>2 DEF vars
  <2>2. RootInv'
    BY <2>1, RootStays DEF limits, IInv, RootInv, RootTypeOK
  <2>3. TypeOK' /\ CallsInv' /\ UsesInv'
    BY <2>1, <2>2
    DEF authorityVars, RootInv, IInv, TypeOK, CallsInv, CallInv, Works, Selected, OwnDraft, Undrawn,
                      UsesInv, ConfirmedGrants, DoneIsConsumed, OneUser, Holds, Done
  <2>4. CausesInv'
    BY <2>1
    DEF authorityVars, limits, IInv, CausesInv, ClockForward, TimeInv, RecordsWhole, WellFormed,
        OneIssuance,
                ActiveOf, Expired, Pending, Running
  <2>. QED
    BY <2>2, <2>3, <2>4 DEF IInv
<1>. QED
  BY <1>1, <1>2, ClockStep, AdministerStep DEF Next

THEOREM InvariantHolds == Spec => []IInv
BY InitIInv, NextIInv, PTL DEF Spec

\* The root, the records and the calls are what they were declared to be.
THEOREM TypeCorrect == Spec => []TypeOK
<1>1. IInv => TypeOK
  BY DEF IInv
<1>. QED
  BY <1>1, InvariantHolds, PTL

\* A consumption stands for one confirmation by a person, of exactly its material, and
\* for one only, unless two helpers had read the record at the same time.
THEOREM EarnedAuthority == Spec => []AuthorityIsEarned
<1>1. IInv => AuthorityIsEarned
  <2>. SUFFICES ASSUME IInv PROVE AuthorityIsEarned
    OBVIOUS
  <2>1. OneUsePerRecord
    BY DEF IInv, UsesInv, OneUser, OneUsePerRecord, TypeOK
  <2>. QED
    BY <2>1 DEF IInv, UsesInv, AuthorityIsEarned
<1>. QED
  BY <1>1, InvariantHolds, PTL

\* Guardian refuses for good only after an overlap of two issuances, a death, a fault or
\* a clock that was set back.
THEOREM RefusalsHaveCause == Spec => []StuckHasCause
<1>1. IInv => StuckHasCause
  <2>. SUFFICES ASSUME IInv PROVE StuckHasCause
    OBVIOUS
  <2>1. backs \in Nat /\ deaths \in Nat /\ faults \in Nat
    BY DEF IInv, RootInv, RootTypeOK
  <2>2. AmbiguityNeedsOverlap
    BY <2>1 DEF IInv, CausesInv, OneIssuance, AmbiguityNeedsOverlap
  <2>3. BlockedHasCause
    <3>. SUFFICES ASSUME NEW c \in Consumers, deaths = 0, faults = 0, backs = 0,
                         \A n \in Calls : Running(n) => Consumer(call[n].material) # c
                  PROVE  Readable(c)
      BY <2>1 DEF BlockedHasCause
    <3>1. \A n \in Calls : call[n].helper \in Holding => Running(n)
      BY DEF Running, HelperSteps
    <3>. QED
      BY <3>1 DEF Readable, IInv, CausesInv, RecordsWhole
  <2>. QED
    BY <2>2, <2>3 DEF StuckHasCause
<1>. QED
  BY <1>1, InvariantHolds, PTL

\* After one failed file operation an upgrade leaves the pair it found, unless two
\* privileged terminals overlapped or the removal of a backup failed.
THEOREM UpgradeRestores == Spec => []FailedUpgradeRestores
<1>1. IInv => FailedUpgradeRestores
  BY DEF IInv, RootInv, PairKept, Undoable, FailedUpgradeRestores, RecoverSteps
<1>. QED
  BY <1>1, InvariantHolds, PTL

\* A recovery opens the two files to ordinary users only when they are a pair.
THEOREM RecoveryOpens == Spec => RecoveryOpensPair
<1>1. ASSUME IInv, [Next]_vars, NEW a \in Admins, task[a] = "rcOpen", root'.acl # root.acl, ~crossed
      PROVE  Coherent'
  <2>1. Coherent /\ root \in Roots
    BY <1>1 DEF IInv, RootInv, RecoveryChecked, RootTypeOK
  <2>2. \A b \in Admins : b # a => task[b] = "idle"
    BY <1>1 DEF IInv, RootInv, OneAtATime
  <2>3. UNCHANGED root \/ RootNext(dirs = {})
    BY ZenonT(60), <1>1
    DEF Next, vars, rootVars, Begin, Client, Helper, Confirm, Deny, HelperFault, HelperDies, ClientDies,
        Tick, SetBack,
       Administer, FindNone, FindOne, FindThrows, Run, Collect, Timeout, VerifyIssued, VerifyConsumed, ClientTo, Throw,
       KeepFiles, Start, Write, ReadRecord, Compare, Rename, KeepIds, KeepClient, KeepWorld, KeepAll
  <2>4. UNCHANGED root \/ \E b \in Admins : TaskStep(b, dirs = {})
    BY <2>3 DEF RootNext, StageA, TaskFault, TaskDies
  <2>5. UNCHANGED root \/ root' = [root EXCEPT !.acl = "ok"]
    BY <1>1, <2>2, <2>4 DEF TaskStep, Bootstrap, Recover, Upgrade, Undo, Decline, BeginTask, Access, Backup
  <2>. QED
    BY <1>1, <2>1, <2>5 DEF Coherent, Roots
<1>2. IInv /\ [Next]_vars =>
        [\A a \in Admins : task[a] = "rcOpen" /\ root'.acl # root.acl /\ ~crossed => Coherent']_rootVars
  BY <1>1
<1>. QED
  BY <1>2, InvariantHolds, PTL DEF Spec, RecoveryOpensPair
=============================================================================
