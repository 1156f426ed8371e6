------------------------------ MODULE GuardianRoot ------------------------------
(***************************************************************************)
(* The protected root of the Guardian: guardian/bootstrap, trust-root and  *)
(* readiness.  Privileged terminals provision it, repair the historical    *)
(* access lists of its two files, and replace the helper; an ordinary      *)
(* terminal only inspects it.  One action is one access to a file.         *)
(*                                                                         *)
(* A file that is missing, or that its writer did not finish, is "absent": *)
(* every inspection refuses both.                                          *)
(***************************************************************************)
EXTENDS Naturals

CONSTANTS
    Builds,       \* helper builds that protected releases carry
    Release,      \* the one Stage A provisioned first
    Admins,       \* privileged terminals
    MaxTasks,     \* bound on privileged operations, those of Stage A included
    MaxTrouble    \* bound on deaths, faults and settings back of the clock

ASSUME ReleaseAssumption == Release \in Builds /\ "absent" \notin Builds

VARIABLES
    source,  \* the helper of the protected release, which Stage A provisions
    root,    \* the Guardian root
    backup,  \* a |-> the two backups of its upgrade
    task,    \* a |-> its next step
    build,   \* a |-> the helper it has reviewed
    ready,   \* whether the root has ever been ready (for the properties)
    crossed, \* whether two privileged operations ever overlapped (likewise)
    late,    \* whether a fault ever hit the removal of a backup (likewise)
    tasks,
    deaths,  \* processes that died
    faults,  \* file operations that threw
    backs    \* how often the wall clock was set to an earlier time

rootVars == <<source, root, backup, task, build, ready, crossed, late, tasks>>
limits == <<deaths, faults, backs>>

File == Builds \cup {"absent"}

\* Access lists of the two leaf files: "broken" is the historical defect, which
\* not even an administrator can read, "narrow" excludes ordinary users.
Roots == [dir : BOOLEAN, records : BOOLEAN, helper : File, descriptor : File,
          acl : {"ok", "narrow", "broken"}]

Provisioned(b, acl) ==
    [dir |-> TRUE, records |-> TRUE, helper |-> b, descriptor |-> b, acl |-> acl]
NoRoot == [dir |-> FALSE, records |-> FALSE, helper |-> "absent",
           descriptor |-> "absent", acl |-> "ok"]
NoBackup == [helper |-> "absent", descriptor |-> "absent"]

\* inspectGuardianRootAt: the descriptor carries the digest of the helper.
Coherent ==
    /\ root.dir /\ root.records
    /\ root.helper \in Builds /\ root.descriptor = root.helper

\* What an ordinary terminal and a privileged one are told of it.
Ready == Coherent /\ root.acl = "ok"
ReadyToAdmin == Coherent /\ root.acl # "broken"

\* Whether something more may go wrong.
Trouble == deaths + faults + backs < MaxTrouble

\* Where an exception leads.  Only an upgrade undoes what it did; a failure of
\* the undoing is swallowed, and its backups go whatever happened.
Handler == [
    bsConfirm |-> "idle", bsMkdir |-> "idle", bsRecords |-> "idle", bsHelper |-> "idle",
    bsVerify |-> "idle", bsDescriptor |-> "idle",
    rcConfirm |-> "idle", rcRevalidate |-> "idle", rcNarrow |-> "idle",
    rcValidate |-> "idle", rcOpen |-> "idle",
    ugBackupHelper |-> "idle", ugBackupDescriptor |-> "idle",
    ugTemps |-> "rbHelper", ugRemoveHelper |-> "rbHelper", ugPlaceHelper |-> "rbHelper",
    ugRemoveDescriptor |-> "rbHelper", ugPlaceDescriptor |-> "rbHelper",
    ugVerify |-> "rbHelper", ugDropHelper |-> "rbHelper", ugDropDescriptor |-> "rbHelper",
    rbHelper |-> "rbDescriptor", rbCopyHelper |-> "rbDescriptor",
    rbDescriptor |-> "rbDrop", rbCopyDescriptor |-> "rbDrop", rbDrop |-> "idle"]

TaskSteps == DOMAIN Handler

RootTypeOK ==
    /\ source \in Builds
    /\ root \in Roots
    /\ backup \in [Admins -> [helper : File, descriptor : File]]
    /\ task \in [Admins -> TaskSteps \cup {"idle"}]
    /\ build \in [Admins -> Builds]
    /\ ready \in BOOLEAN /\ crossed \in BOOLEAN /\ late \in BOOLEAN
    /\ tasks \in Nat /\ deaths \in Nat /\ faults \in Nat /\ backs \in Nat

\* The machine is new, or was provisioned by a release with the defect, or by
\* another one without it.  (What this one provisions is reached from there.)
RootInit ==
    /\ source = Release
    /\ root \in {NoRoot} \cup {Provisioned(b, "broken") : b \in Builds}
                         \cup {Provisioned(b, "ok") : b \in Builds \ {Release}}
    /\ backup = [a \in Admins |-> NoBackup]
    /\ task = [a \in Admins |-> "idle"]
    /\ build = [a \in Admins |-> source]
    /\ ready = Ready /\ crossed = FALSE /\ late = FALSE
    /\ tasks = 0 /\ deaths = 0 /\ faults = 0 /\ backs = 0

Step(a, from, to) == task[a] = from /\ task' = [task EXCEPT ![a] = to]

Fail(a) == task' = [task EXCEPT ![a] = Handler[task[a]]]

\* One access to the root: it takes effect when a condition holds, and throws
\* otherwise.
Access(a, from, condition, to, new) ==
    /\ task[a] = from
    /\ \/ condition /\ Step(a, from, to) /\ root' = new
       \/ ~condition /\ Fail(a) /\ UNCHANGED root
    /\ ready' = (ready \/ Ready')
    /\ UNCHANGED <<source, backup, build, crossed, late, tasks, limits>>

\* One access to a backup, whose name nobody else knows.
Backup(a, from, condition, to, new) ==
    /\ task[a] = from
    /\ \/ condition /\ Step(a, from, to) /\ backup' = [backup EXCEPT ![a] = new]
       \/ ~condition /\ Fail(a) /\ UNCHANGED backup
    /\ UNCHANGED <<source, root, build, ready, crossed, late, tasks, limits>>

\* A privileged terminal begins an operation with the helper of its release.
BeginTask(a, condition, to) ==
    /\ tasks < MaxTasks
    /\ condition
    /\ Step(a, "idle", to)
    /\ tasks' = tasks + 1
    /\ build' = [build EXCEPT ![a] = source]
    /\ backup' = [backup EXCEPT ![a] = NoBackup]
    /\ crossed' = (crossed \/ \E other \in Admins : task[other] # "idle")
    /\ UNCHANGED <<source, root, ready, late, limits>>

-----------------------------------------------------------------------------
(* bootstrapProductionGuardian: nothing it made is removed when it throws. *)
(* Its hardening keeps the access ordinary users inherit from the parent.  *)

Bootstrap(a) ==
    \/ BeginTask(a, ~root.dir, "bsConfirm")
    \/ Access(a, "bsConfirm", ~root.dir, "bsMkdir", root)
    \/ Access(a, "bsMkdir", ~root.dir, "bsRecords", [root EXCEPT !.dir = TRUE])
    \/ Access(a, "bsRecords", TRUE, "bsHelper", [root EXCEPT !.records = TRUE])
    \/ Access(a, "bsHelper", TRUE, "bsVerify", [root EXCEPT !.helper = source])
    \/ Access(a, "bsVerify", root.helper = build[a], "bsDescriptor", root)
    \/ Access(a, "bsDescriptor", TRUE, "idle", [root EXCEPT !.descriptor = build[a]])

-----------------------------------------------------------------------------
(* recoverProductionGuardianPreAuthority, on Windows only.  "empty" says   *)
(* that no consumer has a directory among the records.                     *)

Layout == root.dir /\ root.records /\ "absent" \notin {root.helper, root.descriptor}

\* A bug: the descriptor is not compared with the helper.
BugMaterialExact(a, empty) == empty /\ source = build[a] /\ root.helper = build[a]

\* validateRecoverableWindowsGuardianMaterial
MaterialExact(a, empty) ==
    empty /\ source = build[a] /\ root.helper = build[a] /\ root.descriptor = root.helper

Recover(a, empty) ==
    \/ BeginTask(a, Layout /\ empty, "rcConfirm")
    \/ Access(a, "rcConfirm", TRUE, "rcRevalidate", root)
    \/ Access(a, "rcRevalidate", Layout /\ empty /\ source = build[a], "rcNarrow", root)
    \/ Access(a, "rcNarrow", Layout, "rcValidate", [root EXCEPT !.acl = "narrow"])
    \/ Access(a, "rcValidate", MaterialExact(a, empty), "rcOpen", root)
    \/ Access(a, "rcOpen", Layout, "idle", [root EXCEPT !.acl = "ok"])

-----------------------------------------------------------------------------
(* upgradeProductionGuardianHelper, on Windows only.                       *)

\* The helper of the release is the installed one: nothing is done.
Upgrade(a) ==
    \/ BeginTask(a, ReadyToAdmin /\ root.helper # source, "ugBackupHelper")
    \/ Backup(a, "ugBackupHelper", root.helper # "absent", "ugBackupDescriptor",
              [backup[a] EXCEPT !.helper = root.helper])
    \/ Backup(a, "ugBackupDescriptor", root.descriptor # "absent", "ugTemps",
              [backup[a] EXCEPT !.descriptor = root.descriptor])
    \/ Access(a, "ugTemps", TRUE, "ugRemoveHelper", root)
    \/ Access(a, "ugRemoveHelper", root.helper # "absent", "ugPlaceHelper",
              [root EXCEPT !.helper = "absent"])
    \/ Access(a, "ugPlaceHelper", TRUE, "ugRemoveDescriptor", [root EXCEPT !.helper = build[a]])
    \/ Access(a, "ugRemoveDescriptor", root.descriptor # "absent", "ugPlaceDescriptor",
              [root EXCEPT !.descriptor = "absent"])
    \/ Access(a, "ugPlaceDescriptor", TRUE, "ugVerify",
              [root EXCEPT !.descriptor = build[a], !.acl = "ok"])
    \/ Access(a, "ugVerify", ReadyToAdmin, "ugDropHelper", root)
    \/ Backup(a, "ugDropHelper", TRUE, "ugDropDescriptor", [backup[a] EXCEPT !.helper = "absent"])
    \/ Backup(a, "ugDropDescriptor", TRUE, "rbDrop", [backup[a] EXCEPT !.descriptor = "absent"])

\* A bug: the descriptor is left as it is.
BugUndo(a) ==
    \/ Access(a, "rbHelper", TRUE, "rbCopyHelper", [root EXCEPT !.helper = "absent"])
    \/ Access(a, "rbCopyHelper", backup[a].helper # "absent", "rbDrop",
              [root EXCEPT !.helper = backup[a].helper])
    \/ Backup(a, "rbDrop", TRUE, "idle", NoBackup)

\* The catch block, then the finally block.
Undo(a) ==
    \/ Access(a, "rbHelper", TRUE, "rbCopyHelper", [root EXCEPT !.helper = "absent"])
    \/ Access(a, "rbCopyHelper", backup[a].helper # "absent", "rbDescriptor",
              [root EXCEPT !.helper = backup[a].helper])
    \/ Access(a, "rbDescriptor", TRUE, "rbCopyDescriptor", [root EXCEPT !.descriptor = "absent"])
    \/ Access(a, "rbCopyDescriptor", backup[a].descriptor # "absent", "rbDrop",
              [root EXCEPT !.descriptor = backup[a].descriptor, !.acl = "ok"])
    \/ Backup(a, "rbDrop", TRUE, "idle", NoBackup)

-----------------------------------------------------------------------------
(* The environment.                                                        *)

\* Stage A replaces the protected release.
StageA ==
    /\ tasks < MaxTasks /\ tasks' = tasks + 1
    /\ \E b \in Builds \ {source} : source' = b
    /\ UNCHANGED <<root, backup, task, build, ready, crossed, late, limits>>

\* The phrase is not typed.
Decline(a) ==
    /\ task[a] \in {"bsConfirm", "rcConfirm"}
    /\ Fail(a)
    /\ UNCHANGED <<source, root, backup, build, ready, crossed, late, tasks, limits>>

\* A file operation of a throws; a copy that throws leaves no whole file.
TaskFault(a) ==
    /\ task[a] \in TaskSteps /\ Trouble
    /\ Fail(a)
    /\ faults' = faults + 1
    /\ late' = (late \/ task[a] \in {"ugDropHelper", "ugDropDescriptor"})
    /\ UNCHANGED <<source, root, backup, build, ready, crossed, tasks, deaths, backs>>

TaskDies(a) ==
    /\ task[a] \in TaskSteps /\ Trouble
    /\ task' = [task EXCEPT ![a] = "idle"]
    /\ deaths' = deaths + 1
    /\ UNCHANGED <<source, root, backup, build, ready, crossed, late, tasks, faults, backs>>

TaskStep(a, empty) == Bootstrap(a) \/ Recover(a, empty) \/ Upgrade(a) \/ Undo(a) \/ Decline(a)

RootNext(empty) ==
    \/ StageA
    \/ \E a \in Admins : TaskStep(a, empty) \/ TaskFault(a) \/ TaskDies(a)

-----------------------------------------------------------------------------
(* Properties.                                                             *)

\* An upgrade that throws puts the previous helper and descriptor back: after
\* one failed file operation, of no two privileged terminals at a time, the
\* pair is whole again.  It is not when the operation that failed was the
\* removal of a backup: the catch block then removes the verified helper and
\* finds no backup of it (guardian/bootstrap.ts, lines 460 to 477).
FailedUpgradeRestores ==
    (ready /\ deaths = 0 /\ faults <= 1 /\ ~crossed /\ ~late
       /\ \A a \in Admins : task[a] = "idle") => Coherent

\* A recovery lets ordinary users read the two files only when they are a pair:
\* the helper the descriptor names.  Two terminals at once may break this.
RecoveryOpensPair ==
    [][\A a \in Admins :
         task[a] = "rcOpen" /\ root'.acl # root.acl /\ ~crossed => Coherent']_rootVars

=============================================================================
