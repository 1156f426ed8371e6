-------------------------- MODULE MigrationInvariant --------------------------
(***************************************************************************)
(* The inductive invariant behind the safety properties of Migration, for  *)
(* the protocol whose late cleanups do not throw (FailingCleanups = {}).   *)
(***************************************************************************)
EXTENDS Migration

\* A tree whose journal is the open one of the running operation.
Open(t) ==
    /\ Interrupted(t) /\ t.journal.op = op /\ t.journal.digest = digest
    /\ Valid(t) => t.docs = edits

\* The source tree, with every accepted edit and no open journal.
Restored(t) == Matches(t, edits) /\ ~Interrupted(t)

\* Steps before the brain is swapped, while its journal is open.
Working == {"journalApplying", "migrateMetadata", "journalValidating", "validate",
            "activate", "commitPin", "journalComplete", "restorePointer",
            "rbCopy", "rbDisplace", "rcCheck", "rcCopy", "rcDisplace"}

Promoting == {"rbPromote", "rcPromote"}
Promoted == {"rbVerify", "rbDropDisplaced", "rcCommit"}
Undoing == {"rbUndoRemove", "rcUndoRemove"}
Renaming == {"rbUndoRename", "rcUndoRename"}
Committed == {"rbDropCandidate", "journalFailed", "rbDropCheckpoint",
              "rcDropDisplaced", "rcDropCheckpoint"}
GivingUp == {"rbAbandonCandidate", "journalRecoveryRequired"}

\* The checkpoint of the running operation may be missing at these steps.
NoSnapshot == {"idle", "copyCheckpoint", "dropCheckpoint",
               "rbDropCheckpoint", "rcDropCheckpoint", "rcDropCandidate"}

ClosedTarget(t) == t.meta = "target" /\ ~Interrupted(t)

\* What the brain says about itself, whichever step is next.
BrainInv ==
    /\ Valid(brain) => brain.docs = edits
    /\ brain.meta = "migrated" => Interrupted(brain)
    /\ ClosedTarget(brain) => committed /\ pointer = "target"
    /\ Interrupted(brain) => brain.journal.digest = edits

\* What a recovery would find.
CheckpointInv ==
    tampers = 0 =>
        /\ Interrupted(brain) => Matches(checkpoint[brain.journal.op], edits)
        /\ ~Valid(brain) => \E o \in Ops : Matches(checkpoint[o], edits)

\* Copies of a tree never carry an open journal; the trees of identities not
\* drawn yet do not exist, and no journal names such an identity.
CopiesInv ==
    /\ brain.journal.op \in used \cup {NoOp}
    /\ \A o \in Ops :
          /\ ~Interrupted(checkpoint[o]) /\ ~Interrupted(candidate[o])
          /\ checkpoint[o].journal.op \in used \cup {NoOp}
          /\ candidate[o].journal.op \in used \cup {NoOp}
          /\ displaced[o].journal.op \in used \cup {NoOp}
          /\ o \notin used => ~Exists(displaced[o])

\* What the running process may rely on at its next step.
StepInv ==
    /\ pc # "idle" => op \in used /\ id \in used
    /\ pc \notin {"idle", "copyCheckpoint"} => digest = edits
    /\ tampers = 0 /\ pc \notin NoSnapshot => Matches(checkpoint[op], edits)
    /\ pc = "copyCheckpoint" => brain.journal.op # op
    /\ pc \in {"copyCheckpoint", "journalCheckpointed"} => Restored(brain)
    /\ pc \in Working => Open(brain)
    /\ pc \in {"journalApplying", "migrateMetadata"} => brain.meta = "source"
    /\ pc \in {"journalValidating", "validate", "activate", "commitPin"}
          => brain.meta = "migrated"
    /\ pc \in {"commitPin", "journalComplete"} => pointer = "target"
    /\ pc = "journalComplete" => brain.meta = "target"
    /\ pc = "dropCheckpoint" => ClosedTarget(brain) /\ brain.journal.state = "complete"
    /\ pc \in {"rbDisplace", "rcDisplace"} \cup Promoting => Matches(candidate[id], edits)
    /\ pc \in Promoting \cup Renaming => brain = Absent
    /\ pc \in Promoting \cup Promoted \cup Undoing \cup Renaming => Open(displaced[id])
    /\ pc \in Promoted \cup Committed => Restored(brain)
    /\ pc \in Undoing => brain.meta \in {"absent", "source"} /\ ~Interrupted(brain)
    /\ pc = "rcUndoJournal" => Open(brain)
    /\ pc \in {"rbDropCheckpoint", "rcDropDisplaced", "rcDropCheckpoint"}
          => brain.journal.state = "failed"
    /\ pc \in GivingUp => ~ClosedTarget(brain)
    /\ pc \in Working \cup {"copyCheckpoint", "journalCheckpointed", "dropCheckpoint"}
              \cup (Committed \ {"rcDropDisplaced"})
          => ~Exists(displaced[id])

\* The invariant every theorem about Migration rests on: it relates the journal
\* in the brain, the trees beside it and the step the process is at.
IInv == TypeOK /\ BrainInv /\ CheckpointInv /\ CopiesInv /\ StepInv

===============================================================================
