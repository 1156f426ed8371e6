------------------------------ MODULE Migration ------------------------------
(***************************************************************************)
(* Schema migration of a Project Brain and recovery of an interrupted one: *)
(* applyMigrationUpdate and restoreCheckpointSafely (lifecycle/migration)  *)
(* and inspectRecovery, planRecovery, applyRecovery (lifecycle/recovery).  *)
(*                                                                         *)
(* One action is one durable effect of the code on the disk: a rename, a   *)
(* recursive copy or removal, a journal write.  A step may also throw (the *)
(* exception edge is Handler), or the process may die in it; a recursive   *)
(* copy or removal that throws or dies leaves a torn tree behind.  At most *)
(* one lifecycle process runs at a time; project work that edits the       *)
(* canonical documents runs between lifecycle operations.                  *)
(***************************************************************************)
EXTENDS Naturals

CONSTANTS
    Ops,              \* operation identities (randomUUID), each used once
    NoOp,             \* the operation of a tree that holds no journal
    FailingCleanups,  \* the late cleanups (see LateCleanups) that may throw
    MaxEdits,         \* bound on document edits
    MaxCrashes,       \* bound on process deaths
    MaxFaults,        \* bound on steps that throw
    MaxTampers        \* bound on outside damage to checkpoints

VARIABLES
    brain,        \* the tree at .project-brain
    checkpoint,   \* op |-> the tree at .project-brain.checkpoint-<op>
    candidate,    \* id |-> the tree at .project-brain.<...>-candidate-<id>
    displaced,    \* id |-> the tree at .project-brain.<...>-displaced-<id>
    pointer,      \* the version active.json of the managed Runtime names
    pc,           \* the next step of the running process, or "idle"
    op,           \* its migration: the one applied or the one recovered
    id,           \* the identity in its candidate and displaced paths
    digest,       \* checkpointDigests of that migration
    previous,     \* previousRuntime, read before activation
    switched,     \* pointerChanged
    used,         \* the identities already drawn
    edits,        \* documents: the number of edits the project accepted
    committed,    \* some migration's journal reached "complete"
    crashes, faults, tampers

trees == <<brain, checkpoint, candidate, displaced>>
locals == <<op, id, digest, previous, switched>>
counters == <<crashes, faults, tampers>>
vars == <<trees, pointer, pc, locals, used, edits, committed, counters>>

-----------------------------------------------------------------------------
(* Trees: what the lifecycle can tell about a Project Brain directory.     *)

\* Names that begin with Bug are variants with a plausible defect: no action
\* uses them, they show that the properties can fail.
BugTerminal == {"complete", "failed", "validating"}
Terminal == {"complete", "failed"}
JournalStates ==
    Terminal \cup {"checkpointed", "applying", "validating", "recovery-required"}
NoJournal == [op |-> NoOp, state |-> "none", digest |-> 0]
Journals == [op : Ops, state : JournalStates, digest : Nat]

\* "source": schema 1, pinned to the source version; "migrated": schema 2,
\* still pinned to the source version; "target": schema 2 and the target pin;
\* "damaged": a required file is missing.
Metas == {"absent", "damaged", "source", "migrated", "target"}
Trees == [meta : Metas, docs : Nat, journal : Journals \cup {NoJournal}]
Absent == [meta |-> "absent", docs |-> 0, journal |-> NoJournal]

Exists(t) == t.meta # "absent"
Valid(t) == t.meta \in {"source", "migrated", "target"}
BugInterrupted(t) ==
    t.journal # NoJournal /\ t.journal.state \notin Terminal \cup {"recovery-required"}
Interrupted(t) == t.journal # NoJournal /\ t.journal.state \notin Terminal

\* The metadata and digest comparison of a checkpoint or of a copy of it.
Matches(t, d) == t.meta = "source" /\ t.docs = d

\* What a recursive copy or removal of t can leave when it does not finish:
\* required files missing or not, the journal directory missing or not.
Torn(t) ==
    {[meta |-> m.meta, docs |-> m.docs, journal |-> j] :
        m \in {t, [Absent EXCEPT !.meta = "damaged"]},
        j \in {t.journal, NoJournal}}

BugStranded == \E o \in Ops : Exists(candidate[o])
Stranded == \E o \in Ops :
    Exists(checkpoint[o]) \/ Exists(candidate[o]) \/ Exists(displaced[o])

\* LifecycleState, as getStatus reports it.
Status ==
    IF ~Exists(brain) /\ ~Stranded THEN "uninitialized"
    ELSE IF ~Valid(brain) \/ Interrupted(brain) THEN "recovery-required"
    ELSE "initialized"

\* A failed recovery is reported and not offered again.
BugRecoveryState ==
    IF brain.journal = NoJournal
    THEN IF ~Exists(brain) /\ Stranded THEN "recovery-required" ELSE "none"
    ELSE IF ~Interrupted(brain) THEN "none"
    ELSE IF /\ brain.journal.state # "recovery-required"
            /\ Matches(checkpoint[brain.journal.op], brain.journal.digest)
         THEN "interrupted-migration" ELSE "recovery-required"

\* RecoveryInspection.state
RecoveryState ==
    IF brain.journal = NoJournal
    THEN IF ~Exists(brain) /\ Stranded THEN "recovery-required" ELSE "none"
    ELSE IF ~Interrupted(brain) THEN "none"
    ELSE IF Matches(checkpoint[brain.journal.op], brain.journal.digest)
         THEN "interrupted-migration" ELSE "recovery-required"

-----------------------------------------------------------------------------
(* Control: the steps, and the step an exception leads to.                 *)

LateCleanups == {"dropCheckpoint", "rbDropDisplaced", "rbDropCheckpoint"}

Handler == [
    copyCheckpoint          |-> "idle",
    journalCheckpointed     |-> "idle",
    journalApplying         |-> "restorePointer",
    migrateMetadata         |-> "restorePointer",
    journalValidating       |-> "restorePointer",
    validate                |-> "restorePointer",
    activate                |-> "restorePointer",
    commitPin               |-> "restorePointer",
    journalComplete         |-> "restorePointer",
    dropCheckpoint          |-> "restorePointer",
    restorePointer          |-> "journalRecoveryRequired",
    rbCopy                  |-> "rbAbandonCandidate",
    rbDisplace              |-> "rbAbandonCandidate",
    rbPromote               |-> "rbUndoRemove",
    rbVerify                |-> "rbUndoRemove",
    rbDropDisplaced         |-> "rbUndoRemove",
    rbUndoRemove            |-> "rbAbandonCandidate",
    rbUndoRename            |-> "rbAbandonCandidate",
    rbDropCandidate         |-> "journalRecoveryRequired",
    rbAbandonCandidate      |-> "journalRecoveryRequired",
    journalFailed           |-> "journalRecoveryRequired",
    rbDropCheckpoint        |-> "journalRecoveryRequired",
    journalRecoveryRequired |-> "idle",
    rcCheck                 |-> "idle",
    rcCopy                  |-> "rcDropCandidate",
    rcDisplace              |-> "rcDropCandidate",
    rcPromote               |-> "rcUndoRemove",
    rcCommit                |-> "rcUndoRemove",
    rcUndoRemove            |-> "rcDropCandidate",
    rcUndoRename            |-> "rcDropCandidate",
    rcUndoJournal           |-> "rcDropCandidate",
    rcDropDisplaced         |-> "rcDropCandidate",
    rcDropCheckpoint        |-> "rcDropCandidate",
    rcDropCandidate         |-> "idle"]

Steps == DOMAIN Handler

ASSUME OpsAssumption == NoOp \notin Ops
ASSUME BoundsAssumption ==
    MaxEdits \in Nat /\ MaxCrashes \in Nat /\ MaxFaults \in Nat /\ MaxTampers \in Nat
ASSUME CleanupsAssumption == FailingCleanups \subseteq LateCleanups

TypeOK ==
    /\ brain \in Trees
    /\ checkpoint \in [Ops -> Trees]
    /\ candidate \in [Ops -> Trees]
    /\ displaced \in [Ops -> Trees]
    /\ pointer \in {"none", "source", "target"}
    /\ pc \in Steps \cup {"idle"}
    /\ op \in Ops \cup {NoOp} /\ id \in Ops \cup {NoOp}
    /\ pc # "idle" => op \in Ops /\ id \in Ops
    /\ digest \in Nat
    /\ previous \in {"none", "source", "target"}
    /\ switched \in BOOLEAN
    /\ used \subseteq Ops
    /\ edits \in Nat
    /\ committed \in BOOLEAN
    /\ crashes \in Nat /\ faults \in Nat /\ tampers \in Nat

Init ==
    /\ brain = [meta |-> "source", docs |-> 0, journal |-> NoJournal]
    /\ checkpoint = [o \in Ops |-> Absent]
    /\ candidate = [o \in Ops |-> Absent]
    /\ displaced = [o \in Ops |-> Absent]
    /\ pointer \in {"none", "source"}
    /\ pc = "idle" /\ op = NoOp /\ id = NoOp /\ digest = 0
    /\ previous = "none" /\ switched = FALSE /\ used = {}
    /\ edits = 0 /\ committed = FALSE
    /\ crashes = 0 /\ faults = 0 /\ tampers = 0

\* The process moves from one step to the next.
Go(from, to) ==
    /\ pc = from
    /\ pc' = to
    /\ UNCHANGED <<used, edits, counters>>

\* writeMigrationJournal: an atomic replacement inside the brain directory,
\* which must exist.
WriteJournal(state) ==
    /\ Exists(brain)
    /\ brain' = [brain EXCEPT !.journal =
                    [op |-> op, state |-> state, digest |-> digest]]
    /\ UNCHANGED <<checkpoint, candidate, displaced>>

-----------------------------------------------------------------------------
(* applyMigrationUpdate: from the plan to the removal of the checkpoint.   *)

BeginMigration(o) ==
    /\ o \notin used
    /\ ~Interrupted(brain)
    /\ brain.meta = "source"
    /\ pc = "idle" /\ pc' = "copyCheckpoint"
    /\ op' = o /\ id' = o /\ used' = used \cup {o}
    /\ previous' = pointer /\ switched' = FALSE
    /\ UNCHANGED <<trees, pointer, digest, edits, committed, counters>>

CopyCheckpoint ==
    /\ Go("copyCheckpoint", "journalCheckpointed")
    /\ checkpoint' = [checkpoint EXCEPT ![op] = brain]
    /\ digest' = brain.docs
    /\ UNCHANGED <<brain, candidate, displaced, pointer, op, id, previous, switched, committed>>

JournalCheckpointed ==
    /\ Go("journalCheckpointed", "journalApplying")
    /\ WriteJournal("checkpointed")
    /\ UNCHANGED <<pointer, locals, committed>>

JournalApplying ==
    /\ Go("journalApplying", "migrateMetadata")
    /\ WriteJournal("applying")
    /\ UNCHANGED <<pointer, locals, committed>>

MigrateMetadata ==
    /\ Go("migrateMetadata", "journalValidating")
    /\ brain' = [brain EXCEPT !.meta = "migrated"]
    /\ UNCHANGED <<checkpoint, candidate, displaced, pointer, locals, committed>>

JournalValidating ==
    /\ Go("journalValidating", "validate")
    /\ WriteJournal("validating")
    /\ UNCHANGED <<pointer, locals, committed>>

Validate ==
    /\ Go("validate", "activate")
    /\ brain.meta = "migrated"
    /\ UNCHANGED <<trees, pointer, locals, committed>>

\* The target runtime is installed and not activated.
BugActivate ==
    /\ Go("activate", "commitPin")
    /\ UNCHANGED <<trees, pointer, locals, committed>>

Activate ==
    /\ Go("activate", "commitPin")
    /\ pointer' = "target" /\ switched' = TRUE
    /\ UNCHANGED <<trees, op, id, digest, previous, committed>>

\* The checkpoint goes as soon as the pin is written.
BugCommitPin ==
    /\ Go("commitPin", "journalComplete")
    /\ brain' = [brain EXCEPT !.meta = "target"]
    /\ checkpoint' = [checkpoint EXCEPT ![op] = Absent]
    /\ UNCHANGED <<candidate, displaced, pointer, locals, committed>>

CommitPin ==
    /\ Go("commitPin", "journalComplete")
    /\ brain' = [brain EXCEPT !.meta = "target"]
    /\ UNCHANGED <<checkpoint, candidate, displaced, pointer, locals, committed>>

JournalComplete ==
    /\ Go("journalComplete", "dropCheckpoint")
    /\ brain.meta = "target"
    /\ WriteJournal("complete")
    /\ committed' = TRUE
    /\ UNCHANGED <<pointer, locals>>

DropCheckpoint ==
    /\ Go("dropCheckpoint", "idle")
    /\ checkpoint' = [checkpoint EXCEPT ![op] = Absent]
    /\ UNCHANGED <<brain, candidate, displaced, pointer, locals, committed>>

-----------------------------------------------------------------------------
(* The catch block of applyMigrationUpdate, with restoreCheckpointSafely.  *)

RestorePointer ==
    /\ Go("restorePointer", "rbCopy")
    /\ pointer' = IF switched THEN previous ELSE pointer
    /\ switched' = FALSE
    /\ UNCHANGED <<trees, op, id, digest, previous, committed>>

\* The checkpoint is moved into the candidate, not copied.
BugRbCopy ==
    /\ Go("rbCopy", IF Matches(checkpoint[op], digest)
                    THEN "rbDisplace" ELSE "rbAbandonCandidate")
    /\ candidate' = [candidate EXCEPT ![id] = checkpoint[op]]
    /\ checkpoint' = [checkpoint EXCEPT ![op] = Absent]
    /\ UNCHANGED <<brain, displaced, pointer, locals, committed>>

RbCopy ==
    /\ Go("rbCopy", IF Matches(checkpoint[op], digest)
                    THEN "rbDisplace" ELSE "rbAbandonCandidate")
    /\ candidate' = [candidate EXCEPT ![id] = checkpoint[op]]
    /\ UNCHANGED <<brain, checkpoint, displaced, pointer, locals, committed>>

RbDisplace ==
    /\ Go("rbDisplace", "rbPromote")
    /\ displaced' = [displaced EXCEPT ![id] = brain]
    /\ brain' = Absent
    /\ UNCHANGED <<checkpoint, candidate, pointer, locals, committed>>

RbPromote ==
    /\ Go("rbPromote", "rbVerify")
    /\ brain' = candidate[id]
    /\ candidate' = [candidate EXCEPT ![id] = Absent]
    /\ UNCHANGED <<checkpoint, displaced, pointer, locals, committed>>

RbVerify ==
    /\ Go("rbVerify", "rbDropDisplaced")
    /\ brain.meta = "source"
    /\ UNCHANGED <<trees, pointer, locals, committed>>

RbDropDisplaced ==
    /\ Go("rbDropDisplaced", "rbDropCandidate")
    /\ displaced' = [displaced EXCEPT ![id] = Absent]
    /\ UNCHANGED <<brain, checkpoint, candidate, pointer, locals, committed>>

RbUndoRemove ==
    /\ Go("rbUndoRemove", "rbUndoRename")
    /\ brain' = Absent
    /\ UNCHANGED <<checkpoint, candidate, displaced, pointer, locals, committed>>

RbUndoRename ==
    /\ Go("rbUndoRename", "rbAbandonCandidate")
    /\ brain' = displaced[id]
    /\ displaced' = [displaced EXCEPT ![id] = Absent]
    /\ UNCHANGED <<checkpoint, candidate, pointer, locals, committed>>

\* The finally block: on the way out of a restored tree, or of an exception.
RbRemoveCandidate ==
    /\ \/ Go("rbDropCandidate", "journalFailed")
       \/ Go("rbAbandonCandidate", "journalRecoveryRequired")
    /\ candidate' = [candidate EXCEPT ![id] = Absent]
    /\ UNCHANGED <<brain, checkpoint, displaced, pointer, locals, committed>>

BugJournalFailed ==
    /\ Go("journalFailed", "rbDropCheckpoint")
    /\ WriteJournal("rolled-back")
    /\ UNCHANGED <<pointer, locals, committed>>

JournalFailed ==
    /\ Go("journalFailed", "rbDropCheckpoint")
    /\ WriteJournal("failed")
    /\ UNCHANGED <<pointer, locals, committed>>

RbDropCheckpoint ==
    /\ Go("rbDropCheckpoint", "idle")
    /\ checkpoint' = [checkpoint EXCEPT ![op] = Absent]
    /\ UNCHANGED <<brain, candidate, displaced, pointer, locals, committed>>

\* A missing brain directory makes this write fail; the code swallows that.
JournalRecoveryRequired ==
    /\ Go("journalRecoveryRequired", "idle")
    /\ \/ WriteJournal("recovery-required")
       \/ ~Exists(brain) /\ UNCHANGED trees
    /\ UNCHANGED <<pointer, locals, committed>>

-----------------------------------------------------------------------------
(* applyRecovery, on the plan that planRecovery made of the same inspection. *)

BeginRecovery(r) ==
    /\ r \notin used
    /\ RecoveryState = "interrupted-migration"
    /\ pc = "idle" /\ pc' = "rcCheck"
    /\ op' = brain.journal.op /\ digest' = brain.journal.digest
    /\ id' = r /\ used' = used \cup {r}
    /\ UNCHANGED <<trees, pointer, previous, switched, edits, committed, counters>>

\* The checkpoint is validated again: it may have changed since the plan.
RcCheck ==
    \/ /\ Go("rcCheck", "rcCopy")
       /\ Matches(checkpoint[op], digest)
       /\ UNCHANGED <<trees, pointer, locals, committed>>
    \/ /\ Go("rcCheck", "idle")
       /\ ~Matches(checkpoint[op], digest)
       /\ WriteJournal("recovery-required")
       /\ UNCHANGED <<pointer, locals, committed>>

RcCopy ==
    /\ Go("rcCopy", IF Matches(checkpoint[op], digest)
                    THEN "rcDisplace" ELSE "rcDropCandidate")
    /\ candidate' = [candidate EXCEPT ![id] = checkpoint[op]]
    /\ UNCHANGED <<brain, checkpoint, displaced, pointer, locals, committed>>

RcDisplace ==
    /\ Go("rcDisplace", "rcPromote")
    /\ displaced' = [displaced EXCEPT ![id] = brain]
    /\ brain' = Absent
    /\ UNCHANGED <<checkpoint, candidate, pointer, locals, committed>>

RcPromote ==
    /\ Go("rcPromote", "rcCommit")
    /\ brain' = candidate[id]
    /\ candidate' = [candidate EXCEPT ![id] = Absent]
    /\ UNCHANGED <<checkpoint, displaced, pointer, locals, committed>>

\* The checkpoint is removed before the displaced tree.
BugRcCommit ==
    /\ Go("rcCommit", "rcDropCheckpoint")
    /\ brain.meta = "source"
    /\ WriteJournal("failed")
    /\ UNCHANGED <<pointer, locals, committed>>

\* The restored tree is verified and its journal closed: recovery is committed.
RcCommit ==
    /\ Go("rcCommit", "rcDropDisplaced")
    /\ brain.meta = "source"
    /\ WriteJournal("failed")
    /\ UNCHANGED <<pointer, locals, committed>>

RcUndoRemove ==
    /\ Go("rcUndoRemove", "rcUndoRename")
    /\ brain' = Absent
    /\ UNCHANGED <<checkpoint, candidate, displaced, pointer, locals, committed>>

RcUndoRename ==
    /\ Go("rcUndoRename", "rcUndoJournal")
    /\ brain' = displaced[id]
    /\ displaced' = [displaced EXCEPT ![id] = Absent]
    /\ UNCHANGED <<checkpoint, candidate, pointer, locals, committed>>

RcUndoJournal ==
    /\ Go("rcUndoJournal", "rcDropCandidate")
    /\ WriteJournal("recovery-required")
    /\ UNCHANGED <<pointer, locals, committed>>

RcDropDisplaced ==
    /\ Go("rcDropDisplaced", "rcDropCheckpoint")
    /\ displaced' = [displaced EXCEPT ![id] = Absent]
    /\ UNCHANGED <<brain, checkpoint, candidate, pointer, locals, committed>>

RcDropCheckpoint ==
    /\ Go("rcDropCheckpoint", "rcDropCandidate")
    /\ checkpoint' = [checkpoint EXCEPT ![op] = Absent]
    /\ UNCHANGED <<brain, candidate, displaced, pointer, locals, committed>>

RcDropCandidate ==
    /\ Go("rcDropCandidate", "idle")
    /\ candidate' = [candidate EXCEPT ![id] = Absent]
    /\ UNCHANGED <<brain, checkpoint, displaced, pointer, locals, committed>>

-----------------------------------------------------------------------------
(* Exceptions, process deaths, and the world around a lifecycle process.   *)

\* What the step in flight leaves on the disk when it does not finish:
\* nothing, or a part of a recursive copy or removal.
InFlight ==
    \/ UNCHANGED trees
    \/ /\ pc \in {"copyCheckpoint"} \cup {"dropCheckpoint", "rbDropCheckpoint", "rcDropCheckpoint"}
       /\ \E t \in Torn(IF pc = "copyCheckpoint" THEN brain ELSE checkpoint[op]) :
              checkpoint' = [checkpoint EXCEPT ![op] = t]
       /\ UNCHANGED <<brain, candidate, displaced>>
    \/ /\ pc \in {"rbCopy", "rcCopy", "rbDropCandidate", "rbAbandonCandidate", "rcDropCandidate"}
       /\ LET whole == IF pc \in {"rbCopy", "rcCopy"} THEN checkpoint[op] ELSE candidate[id]
          IN  /\ Exists(whole)
              /\ \E t \in Torn(whole) : candidate' = [candidate EXCEPT ![id] = t]
       /\ UNCHANGED <<brain, checkpoint, displaced>>
    \/ /\ pc \in {"rbDropDisplaced", "rcDropDisplaced"}
       /\ \E t \in Torn(displaced[id]) : displaced' = [displaced EXCEPT ![id] = t]
       /\ UNCHANGED <<brain, checkpoint, candidate>>
    \/ /\ pc \in {"rbUndoRemove", "rcUndoRemove"}
       /\ Exists(brain)
       /\ brain' \in Torn(brain)
       /\ UNCHANGED <<checkpoint, candidate, displaced>>

Throw ==
    /\ pc \in Steps
    /\ pc \in LateCleanups => pc \in FailingCleanups
    /\ faults < MaxFaults /\ faults' = faults + 1
    /\ InFlight
    /\ pc' = Handler[pc]
    /\ UNCHANGED <<pointer, locals, used, edits, committed, crashes, tampers>>

Crash ==
    /\ pc # "idle" /\ pc' = "idle"
    /\ crashes < MaxCrashes /\ crashes' = crashes + 1
    /\ InFlight
    /\ UNCHANGED <<pointer, locals, used, edits, committed, faults, tampers>>

\* A semantic change reaches a canonical document; it asks for a healthy project.
EditDocs ==
    /\ pc = "idle" /\ Status = "initialized"
    /\ edits < MaxEdits /\ edits' = edits + 1
    /\ brain' = [brain EXCEPT !.docs = edits + 1]
    /\ UNCHANGED <<checkpoint, candidate, displaced, pointer, pc, locals, used, committed, counters>>

\* Someone outside damages or removes a checkpoint.
TamperCheckpoint(o) ==
    /\ Exists(checkpoint[o])
    /\ tampers < MaxTampers /\ tampers' = tampers + 1
    /\ \E t \in {Absent, [Absent EXCEPT !.meta = "damaged"]} :
          checkpoint' = [checkpoint EXCEPT ![o] = t]
    /\ UNCHANGED <<brain, candidate, displaced, pointer, pc, locals, used, edits,
                   committed, crashes, faults>>

Migrate ==
    \/ CopyCheckpoint \/ JournalCheckpointed \/ JournalApplying \/ MigrateMetadata
    \/ JournalValidating \/ Validate \/ Activate \/ CommitPin
    \/ JournalComplete \/ DropCheckpoint

Rollback ==
    \/ RestorePointer \/ RbCopy \/ RbDisplace \/ RbPromote \/ RbVerify
    \/ RbDropDisplaced \/ RbUndoRemove \/ RbUndoRename \/ RbRemoveCandidate
    \/ JournalFailed \/ RbDropCheckpoint \/ JournalRecoveryRequired

Recover ==
    \/ RcCheck \/ RcCopy \/ RcDisplace \/ RcPromote \/ RcCommit
    \/ RcUndoRemove \/ RcUndoRename \/ RcUndoJournal
    \/ RcDropDisplaced \/ RcDropCheckpoint \/ RcDropCandidate

Process == Migrate \/ Rollback \/ Recover

Next ==
    \/ \E o \in Ops : BeginMigration(o) \/ BeginRecovery(o) \/ TamperCheckpoint(o)
    \/ Process
    \/ Throw \/ Crash \/ EditDocs

Spec == Init /\ [][Next]_vars

-----------------------------------------------------------------------------
(* Properties.                                                             *)

Current(t) == Valid(t) /\ t.docs = edits

\* No interruption makes a project look as if it had never been initialized,
\* which is the state in which `init` would write an empty Project Brain.
NeverLooksFresh == tampers = 0 => Status # "uninitialized"

\* Until a migration commits, the exact tree it started from, with every edit
\* the project accepted, is whole somewhere on the disk; after that, the
\* migrated tree or that source is.
RestorableAlways ==
    tampers = 0 =>
        \E t \in {brain} \cup {checkpoint[o] : o \in Ops}
                         \cup {candidate[o] : o \in Ops} \cup {displaced[o] : o \in Ops} :
            /\ t.docs = edits
            /\ t.meta = "source" \/ (committed /\ t.meta = "target")

\* What getStatus calls initialized, whoever asks and whenever, is a source tree
\* or a fully pinned target tree, never a half-migrated one, and it has every
\* accepted edit.
IncompleteNeverHealthy ==
    Status = "initialized" => Current(brain) /\ brain.meta # "migrated"

\* A journal left open always comes with the valid checkpoint that recovery
\* needs, so `recover` never ends in a state it can only report.
InterruptionRecoverable ==
    tampers = 0 /\ Interrupted(brain)
        => RecoveryState = "interrupted-migration"

\* A healthy project pinned to the target has the runtime pointer on the target
\* too: the pin never runs ahead of the activation it gives authority to.
PinHasRuntime ==
    Status = "initialized" /\ brain.meta = "target" => pointer = "target"

\* The program removes or tears the checkpoint of a journaled migration only
\* when the brain is whole, its journal closed for that migration, and the
\* displaced tree gone.
CheckpointOutlivesSwap ==
    [][\A o \in Ops :
          brain.journal.op = o /\ Matches(checkpoint[o], brain.journal.digest)
              /\ checkpoint'[o] # checkpoint[o] /\ tampers' = tampers
          => /\ Current(brain)
             /\ brain.journal.state \in Terminal
             /\ ~Exists(displaced[id])]_vars

\* What holds even when every late cleanup may throw: nothing is lost, nothing
\* looks fresh, and the checkpoint stays until the swap is over.
SurvivesLateCleanups ==
    [](NeverLooksFresh /\ RestorableAlways) /\ CheckpointOutlivesSwap

\* The detailed protocol, seen through getStatus, keeps the contract of updates.
Contract == INSTANCE UpdateContract WITH
    view <- IF Status = "initialized" THEN brain.meta ELSE "blocked",
    docs <- IF Status = "initialized" THEN brain.docs ELSE edits

KeepsContract == Contract!Spec

\* The process that runs keeps running unless it dies, and the operator answers
\* an interrupted migration with `recover --apply`.
FairSpec ==
    Spec /\ WF_vars(Process) /\ WF_vars(\E r \in Ops : BeginRecovery(r))

\* Every interrupted migration ends: in a healthy project, or in a swap that
\* died or failed half-way and left no journal to recover from.  Not so where its
\* checkpoint was damaged from outside, or the bound on recoveries is reached.
InterruptionEnds ==
    Interrupted(brain) ~>
        \/ pc = "idle" /\ (Status = "initialized" \/ (~Valid(brain) /\ ~Interrupted(brain)))
        \/ tampers > 0 \/ (pc = "idle" /\ used = Ops)

=============================================================================
