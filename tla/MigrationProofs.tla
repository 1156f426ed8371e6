---------------------------- MODULE MigrationProofs ----------------------------
(***************************************************************************)
(* Theorems about Migration, for every set of operation identities and     *)
(* every bound.                                                            *)
(***************************************************************************)
EXTENDS MigrationInvariant, TLAPS

-----------------------------------------------------------------------------
(* Facts about the data.                                                   *)

\* Every step has a handler, and a handler is a step or the end of the process.
LEMMA HandlerType == \A s \in Steps : Handler[s] \in Steps \cup {"idle"}
BY DEF Handler, Steps

LEMMA AbsentType == Absent \in Trees
BY DEF Absent, Trees, Metas

\* Writing a journal, a metadata file or a document gives a tree again.
LEMMA WriteType ==
  ASSUME NEW t \in Trees, NEW o \in Ops, NEW s \in JournalStates, NEW d \in Nat,
         NEW m \in Metas
  PROVE  /\ [t EXCEPT !.journal = [op |-> o, state |-> s, digest |-> d]] \in Trees
         /\ [t EXCEPT !.meta = m] \in Trees
         /\ [t EXCEPT !.docs = d] \in Trees
BY DEF Trees, Journals

\* What an unfinished copy or removal leaves is a tree.
LEMMA TornType ==
  ASSUME NEW t \in Trees
  PROVE  Torn(t) \subseteq Trees
BY DEF Torn, Trees, Metas, Absent

-----------------------------------------------------------------------------
(* Type correctness.                                                       *)

\* The initial trees are trees.
LEMMA InitType == Init => TypeOK
<1>. SUFFICES ASSUME Init PROVE TypeOK
  OBVIOUS
<1>1. brain \in Trees
  BY DEF Init, Trees, Metas
<1>. QED
  BY <1>1, AbsentType DEF Init, TypeOK

\* A journal write keeps the types of the trees.
LEMMA WriteJournalType ==
  ASSUME TypeOK, pc \in Steps, NEW s \in JournalStates, WriteJournal(s)
  PROVE  /\ brain' \in Trees
         /\ checkpoint' = checkpoint /\ candidate' = candidate /\ displaced' = displaced
<1>1. op \in Ops /\ digest \in Nat /\ "source" \in Metas
  BY DEF TypeOK, Steps, Handler, Metas
<1>. QED
  BY <1>1, WriteType DEF TypeOK, WriteJournal

\* The forward steps write a journal, a metadata file or a checkpoint.
LEMMA MigrateType == TypeOK /\ Migrate => TypeOK'
<1>. SUFFICES ASSUME TypeOK, Migrate PROVE TypeOK'
  OBVIOUS
<1>. USE DEF TypeOK, trees, locals, counters, Go
<1>1. CASE CopyCheckpoint
  BY <1>1 DEF CopyCheckpoint, Steps, Handler, Trees
<1>2. CASE JournalCheckpointed
  BY <1>2, WriteJournalType DEF JournalCheckpointed, Steps, Handler, JournalStates
<1>3. CASE JournalApplying
  BY <1>3, WriteJournalType DEF JournalApplying, Steps, Handler, JournalStates
<1>4. CASE MigrateMetadata
  BY <1>4, WriteType DEF MigrateMetadata, Steps, Handler, JournalStates, Metas
<1>5. CASE JournalValidating
  BY <1>5, WriteJournalType DEF JournalValidating, Steps, Handler, JournalStates
<1>6. CASE Validate
  BY <1>6 DEF Validate, Steps, Handler
<1>7. CASE Activate
  BY <1>7 DEF Activate, Steps, Handler
<1>8. CASE CommitPin
  BY <1>8, WriteType DEF CommitPin, Steps, Handler, JournalStates, Metas
<1>9. CASE JournalComplete
  BY <1>9, WriteJournalType DEF JournalComplete, Steps, Handler, JournalStates, Terminal
<1>10. CASE DropCheckpoint
  BY <1>10, AbsentType DEF DropCheckpoint
<1>. QED
  BY <1>1, <1>2, <1>3, <1>4, <1>5, <1>6, <1>7, <1>8, <1>9, <1>10 DEF Migrate

\* The rollback moves trees between brain, candidate and displaced.
LEMMA RollbackType == TypeOK /\ Rollback => TypeOK'
<1>. SUFFICES ASSUME TypeOK, Rollback PROVE TypeOK'
  OBVIOUS
<1>. USE DEF TypeOK, trees, locals, counters, Go
<1>1. CASE RestorePointer
  BY <1>1 DEF RestorePointer, Steps, Handler
<1>2. CASE RbCopy
  BY <1>2 DEF RbCopy, Steps, Handler
<1>3. CASE RbDisplace
  BY <1>3, AbsentType DEF RbDisplace, Steps, Handler
<1>4. CASE RbPromote
  BY <1>4, AbsentType DEF RbPromote, Steps, Handler
<1>5. CASE RbVerify
  BY <1>5 DEF RbVerify, Steps, Handler
<1>6. CASE RbDropDisplaced
  BY <1>6, AbsentType DEF RbDropDisplaced, Steps, Handler
<1>7. CASE RbUndoRemove
  BY <1>7, AbsentType DEF RbUndoRemove, Steps, Handler
<1>8. CASE RbUndoRename
  BY <1>8, AbsentType DEF RbUndoRename, Steps, Handler
<1>9. CASE RbRemoveCandidate
  BY <1>9, AbsentType DEF RbRemoveCandidate, Steps, Handler
<1>10. CASE JournalFailed
  BY <1>10, WriteJournalType DEF JournalFailed, Steps, Handler, JournalStates, Terminal
<1>11. CASE RbDropCheckpoint
  BY <1>11, AbsentType DEF RbDropCheckpoint
<1>12. CASE JournalRecoveryRequired
  BY <1>12, WriteJournalType DEF JournalRecoveryRequired, JournalStates
<1>. QED
  BY <1>1, <1>2, <1>3, <1>4, <1>5, <1>6, <1>7, <1>8, <1>9, <1>10, <1>11, <1>12 DEF Rollback

\* So does the recovery.
LEMMA RecoverType == TypeOK /\ Recover => TypeOK'
<1>. SUFFICES ASSUME TypeOK, Recover PROVE TypeOK'
  OBVIOUS
<1>. USE DEF TypeOK, trees, locals, counters, Go
<1>1. CASE RcCheck
  BY <1>1, WriteJournalType DEF RcCheck, Steps, Handler, JournalStates
<1>2. CASE RcCopy
  BY <1>2 DEF RcCopy, Steps, Handler
<1>3. CASE RcDisplace
  BY <1>3, AbsentType DEF RcDisplace, Steps, Handler
<1>4. CASE RcPromote
  BY <1>4, AbsentType DEF RcPromote, Steps, Handler
<1>5. CASE RcCommit
  BY <1>5, WriteJournalType DEF RcCommit, Steps, Handler, JournalStates, Terminal
<1>6. CASE RcUndoRemove
  BY <1>6, AbsentType DEF RcUndoRemove, Steps, Handler
<1>7. CASE RcUndoRename
  BY <1>7, AbsentType DEF RcUndoRename, Steps, Handler
<1>8. CASE RcUndoJournal
  BY <1>8, WriteJournalType DEF RcUndoJournal, Steps, Handler, JournalStates
<1>9. CASE RcDropDisplaced
  BY <1>9, AbsentType DEF RcDropDisplaced, Steps, Handler
<1>10. CASE RcDropCheckpoint
  BY <1>10, AbsentType DEF RcDropCheckpoint, Steps, Handler
<1>11. CASE RcDropCandidate
  BY <1>11, AbsentType DEF RcDropCandidate
<1>. QED
  BY <1>1, <1>2, <1>3, <1>4, <1>5, <1>6, <1>7, <1>8, <1>9, <1>10, <1>11 DEF Recover

\* An unfinished step leaves trees.
LEMMA InFlightType ==
  ASSUME TypeOK, pc \in Steps, InFlight
  PROVE  /\ brain' \in Trees
         /\ checkpoint' \in [Ops -> Trees]
         /\ candidate' \in [Ops -> Trees]
         /\ displaced' \in [Ops -> Trees]
<1>. USE DEF TypeOK
<1>1. op \in Ops /\ id \in Ops
  BY DEF Steps, Handler
<1>. QED
  BY <1>1, TornType DEF InFlight, trees

\* Starting a process, its death, its exceptions, edits and damage.
LEMMA EnvironmentType ==
  ASSUME TypeOK,
         \/ \E o \in Ops : BeginMigration(o) \/ BeginRecovery(o) \/ TamperCheckpoint(o)
         \/ Throw \/ Crash \/ EditDocs
  PROVE  TypeOK'
<1>. USE DEF trees, locals, counters
<1>1. ASSUME NEW o \in Ops, BeginMigration(o) PROVE TypeOK'
  BY <1>1 DEF TypeOK, BeginMigration, Steps, Handler
<1>2. ASSUME NEW o \in Ops, BeginRecovery(o) PROVE TypeOK'
  <2>1. brain.journal \in Journals
    BY <1>2 DEF TypeOK, BeginRecovery, RecoveryState, Trees
  <2>. QED
    BY <1>2, <2>1 DEF TypeOK, BeginRecovery, Journals, Steps, Handler
<1>3. ASSUME NEW o \in Ops, TamperCheckpoint(o) PROVE TypeOK'
  <2>1. [Absent EXCEPT !.meta = "damaged"] \in Trees
    BY AbsentType, WriteType DEF Metas, Trees
  <2>. QED
    BY <1>3, <2>1, AbsentType DEF TypeOK, TamperCheckpoint
<1>4. CASE Throw
  <2>1. pc \in Steps /\ Handler[pc] \in Steps \cup {"idle"}
    BY <1>4, HandlerType DEF Throw
  <2>. QED
    BY <1>4, <2>1, InFlightType DEF TypeOK, Throw, Steps, Handler
<1>5. CASE Crash
  BY <1>5, InFlightType DEF TypeOK, Crash
<1>6. CASE EditDocs
  <2>1. brain' \in Trees
    BY <1>6 DEF TypeOK, EditDocs, Trees
  <2>. QED
    BY <1>6, <2>1 DEF TypeOK, EditDocs
<1>. QED
  BY <1>1, <1>2, <1>3, <1>4, <1>5, <1>6

\* No step breaks the type invariant.
LEMMA TypeStep == TypeOK /\ [Next]_vars => TypeOK'
<1>. SUFFICES ASSUME TypeOK, [Next]_vars PROVE TypeOK'
  OBVIOUS
<1>1. CASE UNCHANGED vars
  BY <1>1 DEF TypeOK, vars, trees, locals, counters
<1>2. CASE Process
  BY <1>2, MigrateType, RollbackType, RecoverType DEF Process
<1>. QED
  BY <1>1, <1>2, EnvironmentType DEF Next

\* Every variable keeps its type: no step writes a journal state the parser of
\* the journal would refuse, and no recovery starts without an operation.
THEOREM TypeCorrect == Spec => []TypeOK
BY InitType, TypeStep, PTL DEF Spec

-----------------------------------------------------------------------------
(* The inductive invariant: one lemma per action.                          *)

\* A journal write changes nothing of the brain but its journal.
LEMMA JournalWritten ==
  ASSUME TypeOK, pc \in Steps, NEW s \in JournalStates, WriteJournal(s)
  PROVE  /\ brain'.meta = brain.meta /\ brain'.docs = brain.docs
         /\ brain'.journal = [op |-> op, state |-> s, digest |-> digest]
         /\ brain'.journal # NoJournal
         /\ op \in Ops
<1>1. op \in Ops /\ op # NoOp
  BY OpsAssumption DEF TypeOK, Steps, Handler
<1>2. brain \in Trees
  BY DEF TypeOK
<1>. QED
  BY <1>1, <1>2 DEF WriteJournal, NoJournal

\* applyMigrationUpdate.
LEMMA CopyCheckpointInv ==
  ASSUME IInv, CopyCheckpoint PROVE (BrainInv /\ CheckpointInv /\ CopiesInv /\ StepInv)'
<1>. USE DEF IInv, TypeOK, CopyCheckpoint, Go, trees, locals, counters
<1>1. BrainInv'
  BY DEF BrainInv
<1>2. CheckpointInv'
  BY DEF CheckpointInv, StepInv, Restored
<1>3. CopiesInv'
  BY DEF CopiesInv, StepInv, Restored
<1>4. StepInv'
  BY DEF StepInv, Matches, Restored, Working, Promoting, Promoted, Undoing, Renaming, GivingUp
<1>. QED
  BY <1>1, <1>2, <1>3, <1>4

LEMMA JournalCheckpointedInv ==
  ASSUME IInv, JournalCheckpointed PROVE (BrainInv /\ CheckpointInv /\ CopiesInv /\ StepInv)'
<1>. USE DEF IInv, TypeOK, JournalCheckpointed, Go, trees, locals, counters
<1>0. pc \in Steps /\ "checkpointed" \in JournalStates /\ WriteJournal("checkpointed")
  BY DEF JournalStates
<1>w. /\ brain'.meta = brain.meta /\ brain'.docs = brain.docs
     /\ brain'.journal = [op |-> op, state |-> "checkpointed", digest |-> digest]
     /\ brain'.journal # NoJournal
  BY <1>0, JournalWritten
<1>1. BrainInv'
  BY <1>w DEF BrainInv, StepInv, ClosedTarget, Restored, Matches
<1>2. CheckpointInv'
  BY <1>w DEF CheckpointInv, StepInv, NoSnapshot, WriteJournal
<1>3. CopiesInv'
  BY <1>w DEF CopiesInv, StepInv, WriteJournal
<1>4. StepInv'
  BY <1>w DEF StepInv, Interrupted, Matches, Terminal, Restored, Open, NoSnapshot, Promoting,
     Promoted, Undoing, Renaming, Committed, GivingUp, WriteJournal
<1>. QED
  BY <1>1, <1>2, <1>3, <1>4

LEMMA JournalApplyingInv ==
  ASSUME IInv, JournalApplying PROVE (BrainInv /\ CheckpointInv /\ CopiesInv /\ StepInv)'
<1>. USE DEF IInv, TypeOK, JournalApplying, Go, trees, locals, counters
<1>0. pc \in Steps /\ "applying" \in JournalStates /\ WriteJournal("applying")
  BY DEF JournalStates
<1>w. /\ brain'.meta = brain.meta /\ brain'.docs = brain.docs
     /\ brain'.journal = [op |-> op, state |-> "applying", digest |-> digest]
     /\ brain'.journal # NoJournal
  BY <1>0, JournalWritten
<1>1. BrainInv'
  BY <1>w DEF BrainInv, StepInv, Valid, ClosedTarget
<1>2. CheckpointInv'
  BY <1>w DEF CheckpointInv, StepInv, NoSnapshot, WriteJournal
<1>3. CopiesInv'
  BY <1>w DEF CopiesInv, StepInv, WriteJournal
<1>4. StepInv'
  BY <1>w DEF StepInv, Valid, Interrupted, Terminal, Open, NoSnapshot, Working, Promoting,
     Promoted, Undoing, Renaming, Committed, GivingUp, WriteJournal
<1>. QED
  BY <1>1, <1>2, <1>3, <1>4

LEMMA MigrateMetadataInv ==
  ASSUME IInv, MigrateMetadata PROVE (BrainInv /\ CheckpointInv /\ CopiesInv /\ StepInv)'
<1>. USE DEF IInv, TypeOK, MigrateMetadata, Go, trees, locals, counters
<1>1. BrainInv'
  BY DEF BrainInv, StepInv, Valid, ClosedTarget, Interrupted, Open, Working
<1>2. CheckpointInv'
  BY DEF CheckpointInv, Valid, Interrupted
<1>3. CopiesInv'
  BY DEF CopiesInv
<1>4. StepInv'
  BY DEF StepInv, Valid, Interrupted, Open, NoSnapshot, Working, Promoting, Promoted, Undoing,
     Renaming, Committed, GivingUp
<1>. QED
  BY <1>1, <1>2, <1>3, <1>4

LEMMA JournalValidatingInv ==
  ASSUME IInv, JournalValidating PROVE (BrainInv /\ CheckpointInv /\ CopiesInv /\ StepInv)'
<1>. USE DEF IInv, TypeOK, JournalValidating, Go, trees, locals, counters
<1>0. pc \in Steps /\ "validating" \in JournalStates /\ WriteJournal("validating")
  BY DEF JournalStates
<1>w. /\ brain'.meta = brain.meta /\ brain'.docs = brain.docs
     /\ brain'.journal = [op |-> op, state |-> "validating", digest |-> digest]
     /\ brain'.journal # NoJournal
  BY <1>0, JournalWritten
<1>1. BrainInv'
  BY <1>w DEF BrainInv, StepInv, Valid, ClosedTarget, Interrupted, Terminal
<1>2. CheckpointInv'
  BY <1>w DEF CheckpointInv, StepInv, NoSnapshot, WriteJournal
<1>3. CopiesInv'
  BY <1>w DEF CopiesInv, StepInv, WriteJournal
<1>4. StepInv'
  BY <1>w DEF StepInv, Valid, Interrupted, Terminal, Open, NoSnapshot, Working, Promoting,
     Promoted, Undoing, Renaming, Committed, GivingUp, WriteJournal
<1>. QED
  BY <1>1, <1>2, <1>3, <1>4

LEMMA ValidateInv ==
  ASSUME IInv, Validate PROVE (BrainInv /\ CheckpointInv /\ CopiesInv /\ StepInv)'
<1>. USE DEF IInv, TypeOK, Validate, Go, trees, locals, counters
<1>1. BrainInv'
  BY DEF BrainInv
<1>2. CheckpointInv'
  BY DEF CheckpointInv
<1>3. CopiesInv'
  BY DEF CopiesInv
<1>4. StepInv'
  BY DEF StepInv, Open, NoSnapshot, Working, Promoting, Promoted, Undoing, Renaming, Committed,
     GivingUp
<1>. QED
  BY <1>1, <1>2, <1>3, <1>4

LEMMA ActivateInv ==
  ASSUME IInv, Activate PROVE (BrainInv /\ CheckpointInv /\ CopiesInv /\ StepInv)'
<1>. USE DEF IInv, TypeOK, Activate, Go, trees, locals, counters
<1>1. BrainInv'
  BY DEF BrainInv
<1>2. CheckpointInv'
  BY DEF CheckpointInv
<1>3. CopiesInv'
  BY DEF CopiesInv
<1>4. StepInv'
  BY DEF StepInv, Open, NoSnapshot, Working, Promoting, Promoted, Undoing, Renaming, Committed,
     GivingUp
<1>. QED
  BY <1>1, <1>2, <1>3, <1>4

LEMMA CommitPinInv ==
  ASSUME IInv, CommitPin PROVE (BrainInv /\ CheckpointInv /\ CopiesInv /\ StepInv)'
<1>. USE DEF IInv, TypeOK, CommitPin, Go, trees, locals, counters
<1>1. BrainInv'
  BY DEF BrainInv, StepInv, Valid, ClosedTarget, Interrupted
<1>2. CheckpointInv'
  BY DEF CheckpointInv, Valid, Interrupted
<1>3. CopiesInv'
  BY DEF CopiesInv
<1>4. StepInv'
  BY DEF StepInv, Valid, Interrupted, Open, NoSnapshot, Working, Promoting, Promoted, Undoing,
     Renaming, Committed, GivingUp
<1>. QED
  BY <1>1, <1>2, <1>3, <1>4

LEMMA JournalCompleteInv ==
  ASSUME IInv, JournalComplete PROVE (BrainInv /\ CheckpointInv /\ CopiesInv /\ StepInv)'
<1>. USE DEF IInv, TypeOK, JournalComplete, Go, trees, locals, counters
<1>0. pc \in Steps /\ "complete" \in JournalStates /\ WriteJournal("complete")
  BY DEF JournalStates, Terminal
<1>w. /\ brain'.meta = brain.meta /\ brain'.docs = brain.docs
     /\ brain'.journal = [op |-> op, state |-> "complete", digest |-> digest]
     /\ brain'.journal # NoJournal
  BY <1>0, JournalWritten
<1>1. BrainInv'
  BY <1>w DEF BrainInv, StepInv, Valid
<1>2. CheckpointInv'
  BY <1>w DEF CheckpointInv, Valid, Interrupted, Terminal
<1>3. CopiesInv'
  BY <1>w DEF CopiesInv, StepInv, WriteJournal
<1>4. StepInv'
  BY <1>w DEF StepInv, ClosedTarget, Interrupted, Terminal, NoSnapshot, Working, Promoting,
     Promoted, Undoing, Renaming, Committed, GivingUp, WriteJournal
<1>. QED
  BY <1>1, <1>2, <1>3, <1>4

LEMMA DropCheckpointInv ==
  ASSUME IInv, DropCheckpoint PROVE (BrainInv /\ CheckpointInv /\ CopiesInv /\ StepInv)'
<1>. USE DEF IInv, TypeOK, DropCheckpoint, Go, trees, locals, counters
<1>1. BrainInv'
  BY DEF BrainInv
<1>2. CheckpointInv'
  BY DEF CheckpointInv, StepInv, Valid, ClosedTarget
<1>3. CopiesInv'
  BY DEF CopiesInv, Interrupted, Absent, NoJournal
<1>4. StepInv'
  BY DEF StepInv, NoSnapshot, Working, Promoting, Promoted, Undoing, Renaming, Committed,
     GivingUp
<1>. QED
  BY <1>1, <1>2, <1>3, <1>4

\* The catch block of applyMigrationUpdate and restoreCheckpointSafely.
LEMMA RestorePointerInv ==
  ASSUME IInv, RestorePointer PROVE (BrainInv /\ CheckpointInv /\ CopiesInv /\ StepInv)'
<1>. USE DEF IInv, TypeOK, RestorePointer, Go, trees, locals, counters
<1>1. BrainInv'
  BY DEF BrainInv, StepInv, ClosedTarget, Open, Working
<1>2. CheckpointInv'
  BY DEF CheckpointInv
<1>3. CopiesInv'
  BY DEF CopiesInv
<1>4. StepInv'
  BY DEF StepInv, Open, NoSnapshot, Working, Promoting, Promoted, Undoing, Renaming, Committed,
     GivingUp
<1>. QED
  BY <1>1, <1>2, <1>3, <1>4

LEMMA RbCopyInv ==
  ASSUME IInv, RbCopy PROVE (BrainInv /\ CheckpointInv /\ CopiesInv /\ StepInv)'
<1>. USE DEF IInv, TypeOK, RbCopy, Go, trees, locals, counters
<1>1. BrainInv'
  BY DEF BrainInv
<1>2. CheckpointInv'
  BY DEF CheckpointInv
<1>3. CopiesInv'
  BY DEF CopiesInv
<1>4. StepInv'
  BY DEF StepInv, ClosedTarget, Open, NoSnapshot, Working, Promoting, Promoted, Undoing,
     Renaming, Committed
<1>. QED
  BY <1>1, <1>2, <1>3, <1>4

LEMMA RbDisplaceInv ==
  ASSUME IInv, RbDisplace PROVE (BrainInv /\ CheckpointInv /\ CopiesInv /\ StepInv)'
<1>. USE DEF IInv, TypeOK, RbDisplace, Go, trees, locals, counters
<1>1. BrainInv'
  BY DEF BrainInv, Valid, ClosedTarget, Interrupted, Absent
<1>2. CheckpointInv'
  BY DEF CheckpointInv, StepInv, Interrupted, Absent, NoSnapshot
<1>3. CopiesInv'
  BY DEF CopiesInv, StepInv, Absent, NoJournal
<1>4. StepInv'
  BY DEF StepInv, Open, NoSnapshot, Working, Promoted, Undoing, Committed, GivingUp
<1>. QED
  BY <1>1, <1>2, <1>3, <1>4

LEMMA RbPromoteInv ==
  ASSUME IInv, RbPromote PROVE (BrainInv /\ CheckpointInv /\ CopiesInv /\ StepInv)'
<1>. USE DEF IInv, TypeOK, RbPromote, Go, trees, locals, counters
<1>1. BrainInv'
  BY DEF BrainInv, StepInv, CopiesInv, ClosedTarget, Matches, Promoting
<1>2. CheckpointInv'
  BY DEF CheckpointInv, StepInv, CopiesInv, NoSnapshot
<1>3. CopiesInv'
  BY DEF CopiesInv, Interrupted, Absent, NoJournal
<1>4. StepInv'
  BY DEF StepInv, CopiesInv, Restored, Open, NoSnapshot, Working, Promoting, Undoing, Renaming,
     Committed, GivingUp
<1>. QED
  BY <1>1, <1>2, <1>3, <1>4

LEMMA RbVerifyInv ==
  ASSUME IInv, RbVerify PROVE (BrainInv /\ CheckpointInv /\ CopiesInv /\ StepInv)'
<1>. USE DEF IInv, TypeOK, RbVerify, Go, trees, locals, counters
<1>1. BrainInv'
  BY DEF BrainInv
<1>2. CheckpointInv'
  BY DEF CheckpointInv
<1>3. CopiesInv'
  BY DEF CopiesInv
<1>4. StepInv'
  BY DEF StepInv, Restored, Open, NoSnapshot, Working, Promoting, Promoted, Renaming, Committed,
     GivingUp
<1>. QED
  BY <1>1, <1>2, <1>3, <1>4

LEMMA RbDropDisplacedInv ==
  ASSUME IInv, RbDropDisplaced PROVE (BrainInv /\ CheckpointInv /\ CopiesInv /\ StepInv)'
<1>. USE DEF IInv, TypeOK, RbDropDisplaced, Go, trees, locals, counters
<1>1. BrainInv'
  BY DEF BrainInv
<1>2. CheckpointInv'
  BY DEF CheckpointInv
<1>3. CopiesInv'
  BY DEF CopiesInv, Exists, Absent, NoJournal
<1>4. StepInv'
  BY DEF StepInv, Exists, Restored, Absent, NoSnapshot, Working, Promoting, Promoted, Undoing,
     Renaming, GivingUp
<1>. QED
  BY <1>1, <1>2, <1>3, <1>4

LEMMA RbUndoRemoveInv ==
  ASSUME IInv, RbUndoRemove PROVE (BrainInv /\ CheckpointInv /\ CopiesInv /\ StepInv)'
<1>. USE DEF IInv, TypeOK, RbUndoRemove, Go, trees, locals, counters
<1>1. BrainInv'
  BY DEF BrainInv, Valid, ClosedTarget, Interrupted, Absent
<1>2. CheckpointInv'
  BY DEF CheckpointInv, StepInv, Interrupted, Absent, NoSnapshot
<1>3. CopiesInv'
  BY DEF CopiesInv, Absent, NoJournal
<1>4. StepInv'
  BY DEF StepInv, Open, NoSnapshot, Working, Promoting, Promoted, Undoing, Committed, GivingUp
<1>. QED
  BY <1>1, <1>2, <1>3, <1>4

LEMMA RbUndoRenameInv ==
  ASSUME IInv, RbUndoRename PROVE (BrainInv /\ CheckpointInv /\ CopiesInv /\ StepInv)'
<1>. USE DEF IInv, TypeOK, RbUndoRename, Go, trees, locals, counters
<1>1. BrainInv'
  BY DEF BrainInv, StepInv, ClosedTarget, Open, Renaming
<1>2. CheckpointInv'
  BY DEF CheckpointInv, StepInv, Open, NoSnapshot, Renaming
<1>3. CopiesInv'
  BY DEF CopiesInv, Exists, Absent, NoJournal
<1>4. StepInv'
  BY DEF StepInv, ClosedTarget, Open, NoSnapshot, Working, Promoting, Promoted, Undoing,
     Renaming, Committed
<1>. QED
  BY <1>1, <1>2, <1>3, <1>4

LEMMA RbRemoveCandidateInv ==
  ASSUME IInv, RbRemoveCandidate PROVE (BrainInv /\ CheckpointInv /\ CopiesInv /\ StepInv)'
<1>. USE DEF IInv, TypeOK, RbRemoveCandidate, Go, trees, locals, counters
<1>1. BrainInv'
  BY DEF BrainInv
<1>2. CheckpointInv'
  BY DEF CheckpointInv
<1>3. CopiesInv'
  BY DEF CopiesInv, Interrupted, Absent, NoJournal
<1>4. StepInv'
  BY DEF StepInv, Restored, NoSnapshot, Working, Promoting, Promoted, Undoing, Renaming,
     Committed, GivingUp
<1>. QED
  BY <1>1, <1>2, <1>3, <1>4

LEMMA JournalFailedInv ==
  ASSUME IInv, JournalFailed PROVE (BrainInv /\ CheckpointInv /\ CopiesInv /\ StepInv)'
<1>. USE DEF IInv, TypeOK, JournalFailed, Go, trees, locals, counters
<1>0. pc \in Steps /\ "failed" \in JournalStates /\ WriteJournal("failed")
  BY DEF JournalStates, Terminal
<1>w. /\ brain'.meta = brain.meta /\ brain'.docs = brain.docs
     /\ brain'.journal = [op |-> op, state |-> "failed", digest |-> digest]
     /\ brain'.journal # NoJournal
  BY <1>0, JournalWritten
<1>1. BrainInv'
  BY <1>w DEF BrainInv, StepInv, ClosedTarget, Restored, Matches, Committed
<1>2. CheckpointInv'
  BY <1>w DEF CheckpointInv, Valid, Interrupted, Terminal, WriteJournal
<1>3. CopiesInv'
  BY <1>w DEF CopiesInv, StepInv, WriteJournal
<1>4. StepInv'
  BY <1>w DEF StepInv, Interrupted, Matches, Terminal, Restored, NoSnapshot, Working, Promoting,
     Promoted, Undoing, Renaming, Committed, GivingUp, WriteJournal
<1>. QED
  BY <1>1, <1>2, <1>3, <1>4

LEMMA RbDropCheckpointInv ==
  ASSUME IInv, RbDropCheckpoint PROVE (BrainInv /\ CheckpointInv /\ CopiesInv /\ StepInv)'
<1>. USE DEF IInv, TypeOK, RbDropCheckpoint, Go, trees, locals, counters
<1>1. BrainInv'
  BY DEF BrainInv
<1>2. CheckpointInv'
  BY DEF CheckpointInv, StepInv, Valid, Matches, Restored, Committed
<1>3. CopiesInv'
  BY DEF CopiesInv, Interrupted, Absent, NoJournal
<1>4. StepInv'
  BY DEF StepInv, NoSnapshot, Working, Promoting, Promoted, Undoing, Renaming, Committed,
     GivingUp
<1>. QED
  BY <1>1, <1>2, <1>3, <1>4

\* applyRecovery.
LEMMA RcCopyInv ==
  ASSUME IInv, RcCopy PROVE (BrainInv /\ CheckpointInv /\ CopiesInv /\ StepInv)'
<1>. USE DEF IInv, TypeOK, RcCopy, Go, trees, locals, counters
<1>1. BrainInv'
  BY DEF BrainInv
<1>2. CheckpointInv'
  BY DEF CheckpointInv
<1>3. CopiesInv'
  BY DEF CopiesInv
<1>4. StepInv'
  BY DEF StepInv, Open, NoSnapshot, Working, Promoting, Promoted, Undoing, Renaming, Committed,
     GivingUp
<1>. QED
  BY <1>1, <1>2, <1>3, <1>4

LEMMA RcDisplaceInv ==
  ASSUME IInv, RcDisplace PROVE (BrainInv /\ CheckpointInv /\ CopiesInv /\ StepInv)'
<1>. USE DEF IInv, TypeOK, RcDisplace, Go, trees, locals, counters
<1>1. BrainInv'
  BY DEF BrainInv, Valid, ClosedTarget, Interrupted, Absent
<1>2. CheckpointInv'
  BY DEF CheckpointInv, StepInv, Interrupted, Absent, NoSnapshot
<1>3. CopiesInv'
  BY DEF CopiesInv, StepInv, Absent, NoJournal
<1>4. StepInv'
  BY DEF StepInv, Open, NoSnapshot, Working, Promoted, Undoing, Committed, GivingUp
<1>. QED
  BY <1>1, <1>2, <1>3, <1>4

LEMMA RcPromoteInv ==
  ASSUME IInv, RcPromote PROVE (BrainInv /\ CheckpointInv /\ CopiesInv /\ StepInv)'
<1>. USE DEF IInv, TypeOK, RcPromote, Go, trees, locals, counters
<1>1. BrainInv'
  BY DEF BrainInv, StepInv, CopiesInv, ClosedTarget, Matches, Promoting
<1>2. CheckpointInv'
  BY DEF CheckpointInv, StepInv, CopiesInv, NoSnapshot
<1>3. CopiesInv'
  BY DEF CopiesInv, Interrupted, Absent, NoJournal
<1>4. StepInv'
  BY DEF StepInv, CopiesInv, Restored, Open, NoSnapshot, Working, Promoting, Undoing, Renaming,
     Committed, GivingUp
<1>. QED
  BY <1>1, <1>2, <1>3, <1>4

LEMMA RcCommitInv ==
  ASSUME IInv, RcCommit PROVE (BrainInv /\ CheckpointInv /\ CopiesInv /\ StepInv)'
<1>. USE DEF IInv, TypeOK, RcCommit, Go, trees, locals, counters
<1>0. pc \in Steps /\ "failed" \in JournalStates /\ WriteJournal("failed")
  BY DEF JournalStates, Terminal
<1>w. /\ brain'.meta = brain.meta /\ brain'.docs = brain.docs
     /\ brain'.journal = [op |-> op, state |-> "failed", digest |-> digest]
     /\ brain'.journal # NoJournal
  BY <1>0, JournalWritten
<1>1. BrainInv'
  BY <1>w DEF BrainInv, Valid, ClosedTarget, Interrupted, Terminal
<1>2. CheckpointInv'
  BY <1>w DEF CheckpointInv, Valid, Interrupted, Terminal
<1>3. CopiesInv'
  BY <1>w DEF CopiesInv, StepInv, WriteJournal
<1>4. StepInv'
  BY <1>w DEF StepInv, Interrupted, Matches, Terminal, Restored, NoSnapshot, Working, Promoting,
     Promoted, Undoing, Renaming, GivingUp, WriteJournal
<1>. QED
  BY <1>1, <1>2, <1>3, <1>4

LEMMA RcUndoRemoveInv ==
  ASSUME IInv, RcUndoRemove PROVE (BrainInv /\ CheckpointInv /\ CopiesInv /\ StepInv)'
<1>. USE DEF IInv, TypeOK, RcUndoRemove, Go, trees, locals, counters
<1>1. BrainInv'
  BY DEF BrainInv, Valid, ClosedTarget, Interrupted, Absent
<1>2. CheckpointInv'
  BY DEF CheckpointInv, StepInv, Interrupted, Absent, NoSnapshot
<1>3. CopiesInv'
  BY DEF CopiesInv, Absent, NoJournal
<1>4. StepInv'
  BY DEF StepInv, Open, NoSnapshot, Working, Promoting, Promoted, Undoing, Committed, GivingUp
<1>. QED
  BY <1>1, <1>2, <1>3, <1>4

LEMMA RcUndoRenameInv ==
  ASSUME IInv, RcUndoRename PROVE (BrainInv /\ CheckpointInv /\ CopiesInv /\ StepInv)'
<1>. USE DEF IInv, TypeOK, RcUndoRename, Go, trees, locals, counters
<1>1. BrainInv'
  BY DEF BrainInv, StepInv, ClosedTarget, Open, Renaming
<1>2. CheckpointInv'
  BY DEF CheckpointInv, StepInv, Open, NoSnapshot, Renaming
<1>3. CopiesInv'
  BY DEF CopiesInv, Exists, Absent, NoJournal
<1>4. StepInv'
  BY DEF StepInv, Open, NoSnapshot, Working, Promoting, Promoted, Undoing, Renaming, Committed,
     GivingUp
<1>. QED
  BY <1>1, <1>2, <1>3, <1>4

LEMMA RcUndoJournalInv ==
  ASSUME IInv, RcUndoJournal PROVE (BrainInv /\ CheckpointInv /\ CopiesInv /\ StepInv)'
<1>. USE DEF IInv, TypeOK, RcUndoJournal, Go, trees, locals, counters
<1>0. pc \in Steps /\ "recovery-required" \in JournalStates /\ WriteJournal("recovery-required")
  BY DEF JournalStates
<1>w. /\ brain'.meta = brain.meta /\ brain'.docs = brain.docs
     /\ brain'.journal = [op |-> op, state |-> "recovery-required", digest |-> digest]
     /\ brain'.journal # NoJournal
  BY <1>0, JournalWritten
<1>1. BrainInv'
  BY <1>w DEF BrainInv, StepInv, Valid, ClosedTarget, Interrupted, Terminal
<1>2. CheckpointInv'
  BY <1>w DEF CheckpointInv, StepInv, NoSnapshot, WriteJournal
<1>3. CopiesInv'
  BY <1>w DEF CopiesInv, StepInv, WriteJournal
<1>4. StepInv'
  BY <1>w DEF StepInv, NoSnapshot, Working, Promoting, Promoted, Undoing, Renaming, Committed,
     GivingUp
<1>. QED
  BY <1>1, <1>2, <1>3, <1>4

LEMMA RcDropDisplacedInv ==
  ASSUME IInv, RcDropDisplaced PROVE (BrainInv /\ CheckpointInv /\ CopiesInv /\ StepInv)'
<1>. USE DEF IInv, TypeOK, RcDropDisplaced, Go, trees, locals, counters
<1>1. BrainInv'
  BY DEF BrainInv
<1>2. CheckpointInv'
  BY DEF CheckpointInv
<1>3. CopiesInv'
  BY DEF CopiesInv, Exists, Absent, NoJournal
<1>4. StepInv'
  BY DEF StepInv, Exists, Restored, Absent, NoSnapshot, Working, Promoting, Promoted, Undoing,
     Renaming, Committed, GivingUp
<1>. QED
  BY <1>1, <1>2, <1>3, <1>4

LEMMA RcDropCheckpointInv ==
  ASSUME IInv, RcDropCheckpoint PROVE (BrainInv /\ CheckpointInv /\ CopiesInv /\ StepInv)'
<1>. USE DEF IInv, TypeOK, RcDropCheckpoint, Go, trees, locals, counters
<1>1. BrainInv'
  BY DEF BrainInv
<1>2. CheckpointInv'
  BY DEF CheckpointInv, StepInv, Valid, Matches, Restored, Committed
<1>3. CopiesInv'
  BY DEF CopiesInv, Interrupted, Absent, NoJournal
<1>4. StepInv'
  BY DEF StepInv, NoSnapshot, Working, Promoting, Promoted, Undoing, Renaming, Committed,
     GivingUp
<1>. QED
  BY <1>1, <1>2, <1>3, <1>4

LEMMA RcDropCandidateInv ==
  ASSUME IInv, RcDropCandidate PROVE (BrainInv /\ CheckpointInv /\ CopiesInv /\ StepInv)'
<1>. USE DEF IInv, TypeOK, RcDropCandidate, Go, trees, locals, counters
<1>1. BrainInv'
  BY DEF BrainInv
<1>2. CheckpointInv'
  BY DEF CheckpointInv
<1>3. CopiesInv'
  BY DEF CopiesInv, Interrupted, Absent, NoJournal
<1>4. StepInv'
  BY DEF StepInv, NoSnapshot, Working, Promoting, Promoted, Undoing, Renaming, Committed,
     GivingUp
<1>. QED
  BY <1>1, <1>2, <1>3, <1>4

\* A recovery finds its checkpoint as the plan did, or somebody damaged it.
LEMMA RcCheckInv ==
  ASSUME IInv, RcCheck PROVE (BrainInv /\ CheckpointInv /\ CopiesInv /\ StepInv)'
<1>. USE DEF IInv, TypeOK, RcCheck, Go, trees, locals, counters
<1>1. CASE pc' = "rcCopy"
  BY <1>1 DEF BrainInv, CheckpointInv, CopiesInv, StepInv, Open, Working, Promoting, Promoted,
     Undoing, Renaming, Committed, GivingUp
<1>2. CASE pc' = "idle"
  <2>0. pc \in Steps /\ "recovery-required" \in JournalStates /\ WriteJournal("recovery-required")
    BY <1>2 DEF JournalStates
  <2>w. /\ brain'.meta = brain.meta /\ brain'.docs = brain.docs
        /\ brain'.journal = [op |-> op, state |-> "recovery-required", digest |-> digest]
        /\ brain'.journal # NoJournal
    BY <2>0, JournalWritten
  <2>1. tampers' # 0
    BY <1>2, <2>0 DEF StepInv, NoSnapshot
  <2>2. BrainInv'
    BY <1>2, <2>w DEF BrainInv, StepInv, Valid, ClosedTarget, Interrupted, Terminal
  <2>3. CheckpointInv'
    BY <2>1 DEF CheckpointInv
  <2>4. CopiesInv'
    BY <1>2, <2>0, <2>w DEF CopiesInv, StepInv, WriteJournal
  <2>5. StepInv'
    BY <1>2 DEF StepInv, NoSnapshot, Working, Promoting, Promoted, Undoing, Renaming, Committed,
       GivingUp
  <2>. QED
    BY <2>2, <2>3, <2>4, <2>5
<1>. QED
  BY <1>1, <1>2

\* The last write of a failed rollback closes nothing.
LEMMA JournalRecoveryRequiredInv ==
  ASSUME IInv, JournalRecoveryRequired PROVE (BrainInv /\ CheckpointInv /\ CopiesInv /\ StepInv)'
<1>. USE DEF IInv, TypeOK, JournalRecoveryRequired, Go, trees, locals, counters
<1>1. CASE UNCHANGED trees
  BY <1>1 DEF BrainInv, CheckpointInv, CopiesInv, StepInv, NoSnapshot, Working, Promoting,
     Promoted, Undoing, Renaming, Committed, GivingUp
<1>2. CASE WriteJournal("recovery-required")
  <2>0. pc \in Steps /\ "recovery-required" \in JournalStates
    BY DEF JournalStates
  <2>w. /\ brain'.meta = brain.meta /\ brain'.docs = brain.docs
        /\ brain'.journal = [op |-> op, state |-> "recovery-required", digest |-> digest]
        /\ brain'.journal # NoJournal
    BY <1>2, <2>0, JournalWritten
  <2>2. BrainInv'
    BY <1>2, <2>w DEF BrainInv, StepInv, Valid, ClosedTarget, Interrupted, Terminal
  <2>3. CheckpointInv'
    BY <1>2, <2>w DEF CheckpointInv, StepInv, NoSnapshot, WriteJournal
  <2>4. CopiesInv'
    BY <1>2, <2>0, <2>w DEF CopiesInv, StepInv, WriteJournal
  <2>5. StepInv'
    BY <1>2 DEF StepInv, NoSnapshot, Working, Promoting, Promoted, Undoing, Renaming, Committed,
       GivingUp
  <2>. QED
    BY <2>2, <2>3, <2>4, <2>5
<1>. QED
  BY <1>1, <1>2

\* A migration starts from a source brain without an open journal.
LEMMA BeginMigrationInv ==
  ASSUME IInv, NEW o \in Ops, BeginMigration(o)
  PROVE (BrainInv /\ CheckpointInv /\ CopiesInv /\ StepInv)'
<1>. USE DEF IInv, TypeOK, BeginMigration, trees, locals, counters
<1>1. BrainInv'
  BY DEF BrainInv
<1>2. CheckpointInv'
  BY DEF CheckpointInv
<1>3. CopiesInv'
  BY DEF CopiesInv
<1>4. StepInv'
  BY OpsAssumption DEF StepInv, BrainInv, CopiesInv, Restored, Matches, Valid, NoSnapshot,
     Working, Promoting, Promoted, Undoing, Renaming, GivingUp
<1>. QED
  BY <1>1, <1>2, <1>3, <1>4

\* A recovery starts from the open journal it inspected.
LEMMA BeginRecoveryInv ==
  ASSUME IInv, NEW o \in Ops, BeginRecovery(o)
  PROVE (BrainInv /\ CheckpointInv /\ CopiesInv /\ StepInv)'
<1>. USE DEF IInv, TypeOK, BeginRecovery, RecoveryState, trees, locals, counters
<1>0. Interrupted(brain) /\ brain.journal \in Journals
  BY DEF Trees
<1>1. BrainInv'
  BY DEF BrainInv
<1>2. CheckpointInv'
  BY DEF CheckpointInv
<1>3. CopiesInv'
  BY DEF CopiesInv
<1>4. StepInv'
  BY <1>0, OpsAssumption DEF StepInv, BrainInv, CopiesInv, Journals, Open, Promoting, Promoted,
     Undoing, Renaming, Committed, GivingUp
<1>. QED
  BY <1>1, <1>2, <1>3, <1>4

\* Damage from outside only makes the conditions on the checkpoints void.
LEMMA TamperCheckpointInv ==
  ASSUME IInv, NEW o \in Ops, TamperCheckpoint(o)
  PROVE (BrainInv /\ CheckpointInv /\ CopiesInv /\ StepInv)'
<1>. USE DEF IInv, TypeOK, TamperCheckpoint, trees, locals, counters
<1>0. tampers' # 0
  OBVIOUS
<1>1. BrainInv'
  BY DEF BrainInv
<1>2. CheckpointInv'
  BY <1>0 DEF CheckpointInv
<1>3. CopiesInv'
  BY DEF CopiesInv, Interrupted, Absent, NoJournal
<1>4. StepInv'
  BY <1>0 DEF StepInv, Restored, Open
<1>. QED
  BY <1>1, <1>2, <1>3, <1>4

\* A healthy brain has no open journal, so an edit leaves no stale checkpoint.
LEMMA EditDocsInv ==
  ASSUME IInv, EditDocs
  PROVE (BrainInv /\ CheckpointInv /\ CopiesInv /\ StepInv)'
<1>. USE DEF IInv, TypeOK, EditDocs, Status, trees, locals, counters
<1>0. Valid(brain) /\ ~Interrupted(brain) /\ brain \in Trees
  OBVIOUS
<1>w. brain'.meta = brain.meta /\ brain'.docs = edits' /\ brain'.journal = brain.journal
  BY <1>0
<1>1. BrainInv'
  BY <1>0, <1>w DEF BrainInv, ClosedTarget, Interrupted
<1>2. CheckpointInv'
  BY <1>0, <1>w DEF CheckpointInv, Valid, Interrupted
<1>3. CopiesInv'
  BY <1>w DEF CopiesInv
<1>4. StepInv'
  BY DEF StepInv, NoSnapshot, Working, Promoting, Promoted, Undoing, Renaming, Committed,
     GivingUp
<1>. QED
  BY <1>1, <1>2, <1>3, <1>4

\* A torn tree is a part of the tree, or damaged; its journal is the tree's or gone.
LEMMA TornFacts ==
  ASSUME NEW t \in Trees, NEW u \in Torn(t)
  PROVE  /\ (u.meta = t.meta /\ u.docs = t.docs) \/ u.meta = "damaged"
         /\ u.journal = t.journal \/ u.journal = NoJournal
BY DEF Torn, Absent

\* An unfinished copy or removal harms neither the brain nor a checkpoint in use.
LEMMA InFlightInv ==
  ASSUME IInv, pc \in Steps, InFlight,
         UNCHANGED <<pointer, locals, used, edits, committed, tampers>>
  PROVE (BrainInv /\ CheckpointInv /\ CopiesInv)'
<1>. USE DEF IInv, TypeOK, locals
<1>0. op \in Ops /\ id \in Ops /\ pc # "idle"
  BY DEF Steps, Handler
<1>1. CASE UNCHANGED trees
  BY <1>1 DEF BrainInv, CheckpointInv, CopiesInv, trees
<1>2. CASE /\ pc \in {"copyCheckpoint", "dropCheckpoint", "rbDropCheckpoint", "rcDropCheckpoint"}
           /\ \E t \in Torn(IF pc = "copyCheckpoint" THEN brain ELSE checkpoint[op]) :
                 checkpoint' = [checkpoint EXCEPT ![op] = t]
           /\ UNCHANGED <<brain, candidate, displaced>>
  <2>1. Valid(brain) /\ ~Interrupted(brain)
    BY <1>2 DEF StepInv, Restored, Committed, Matches, Valid, ClosedTarget
  <2>2. PICK t \in Torn(IF pc = "copyCheckpoint" THEN brain ELSE checkpoint[op]) :
                 checkpoint' = [checkpoint EXCEPT ![op] = t]
    BY <1>2
  <2>3. ~Interrupted(t) /\ t.journal.op \in used \cup {NoOp}
    <3>1. t.journal \in {brain.journal, checkpoint[op].journal, NoJournal}
      BY <1>0, <2>2, TornFacts
    <3>. QED
      BY <1>0, <2>1, <3>1 DEF Interrupted, CopiesInv, NoJournal
  <2>4. BrainInv'
    BY <1>2 DEF BrainInv
  <2>5. CheckpointInv'
    BY <1>2, <2>1 DEF CheckpointInv
  <2>6. CopiesInv'
    BY <1>0, <1>2, <2>2, <2>3 DEF CopiesInv
  <2>. QED
    BY <2>4, <2>5, <2>6
<1>3. CASE /\ pc \in {"rbCopy", "rcCopy", "rbDropCandidate", "rbAbandonCandidate", "rcDropCandidate"}
           /\ LET whole == IF pc \in {"rbCopy", "rcCopy"} THEN checkpoint[op] ELSE candidate[id]
              IN  /\ Exists(whole)
                  /\ \E t \in Torn(whole) : candidate' = [candidate EXCEPT ![id] = t]
           /\ UNCHANGED <<brain, checkpoint, displaced>>
  <2>2. PICK t \in Torn(IF pc \in {"rbCopy", "rcCopy"} THEN checkpoint[op] ELSE candidate[id]) :
                 candidate' = [candidate EXCEPT ![id] = t]
    BY <1>3
  <2>3. ~Interrupted(t) /\ t.journal.op \in used \cup {NoOp}
    <3>1. t.journal \in {candidate[id].journal, checkpoint[op].journal, NoJournal}
      BY <1>0, <2>2, TornFacts
    <3>. QED
      BY <1>0, <3>1 DEF Interrupted, CopiesInv, NoJournal
  <2>4. BrainInv'
    BY <1>3 DEF BrainInv
  <2>5. CheckpointInv'
    BY <1>3 DEF CheckpointInv
  <2>6. CopiesInv'
    BY <1>0, <1>3, <2>2, <2>3 DEF CopiesInv
  <2>. QED
    BY <2>4, <2>5, <2>6
<1>4. CASE /\ pc \in {"rbDropDisplaced", "rcDropDisplaced"}
           /\ \E t \in Torn(displaced[id]) : displaced' = [displaced EXCEPT ![id] = t]
           /\ UNCHANGED <<brain, checkpoint, candidate>>
  <2>2. PICK t \in Torn(displaced[id]) : displaced' = [displaced EXCEPT ![id] = t]
    BY <1>4
  <2>3. t.journal.op \in used \cup {NoOp}
    BY <1>0, <2>2, TornFacts DEF CopiesInv, NoJournal
  <2>4. BrainInv'
    BY <1>4 DEF BrainInv
  <2>5. CheckpointInv'
    BY <1>4 DEF CheckpointInv
  <2>6. CopiesInv'
    BY <1>0, <1>4, <2>2, <2>3 DEF CopiesInv, StepInv
  <2>. QED
    BY <2>4, <2>5, <2>6
<1>5. CASE /\ pc \in {"rbUndoRemove", "rcUndoRemove"}
           /\ Exists(brain)
           /\ brain' \in Torn(brain)
           /\ UNCHANGED <<checkpoint, candidate, displaced>>
  <2>1. brain.meta = "source" /\ ~Interrupted(brain)
    BY <1>5 DEF StepInv, Undoing, Exists
  <2>2. /\ (brain'.meta = "source" /\ brain'.docs = brain.docs) \/ brain'.meta = "damaged"
        /\ brain'.journal = brain.journal \/ brain'.journal = NoJournal
    BY <1>5, <2>1, TornFacts
  <2>4. BrainInv'
    BY <2>1, <2>2 DEF BrainInv, Valid, ClosedTarget, Interrupted
  <2>5. CheckpointInv'
    BY <1>0, <1>5, <2>1, <2>2 DEF CheckpointInv, StepInv, NoSnapshot, Interrupted
  <2>6. CopiesInv'
    BY <1>5, <2>2 DEF CopiesInv, NoJournal
  <2>. QED
    BY <2>4, <2>5, <2>6
<1>. QED
  BY <1>1, <1>2, <1>3, <1>4, <1>5 DEF InFlight

\* A process that dies leaves no step to rely on anything.
LEMMA CrashInv ==
  ASSUME IInv, Crash PROVE (BrainInv /\ CheckpointInv /\ CopiesInv /\ StepInv)'
<1>1. (BrainInv /\ CheckpointInv /\ CopiesInv)'
  BY InFlightInv DEF IInv, TypeOK, Crash
<1>2. StepInv'
  BY DEF Crash, StepInv, NoSnapshot, Working, Promoting, Promoted, Undoing, Renaming, Committed,
     GivingUp
<1>. QED
  BY <1>1, <1>2

\* Where an exception leads when the late cleanups do not throw.
LEMMA HandlerTable ==
  ASSUME Throw, FailingCleanups = {}
  PROVE  \/ /\ pc \in {"copyCheckpoint", "journalCheckpointed", "journalRecoveryRequired",
                       "rcCheck", "rcDropCandidate"}
            /\ pc' = "idle"
         \/ /\ pc \in {"journalApplying", "migrateMetadata", "journalValidating", "validate",
                       "activate", "commitPin", "journalComplete"}
            /\ pc' = "restorePointer"
         \/ /\ pc \in {"restorePointer", "rbDropCandidate", "rbAbandonCandidate", "journalFailed"}
            /\ pc' = "journalRecoveryRequired"
         \/ /\ pc \in {"rbCopy", "rbDisplace", "rbUndoRemove", "rbUndoRename"}
            /\ pc' = "rbAbandonCandidate"
         \/ pc \in {"rbPromote", "rbVerify"} /\ pc' = "rbUndoRemove"
         \/ /\ pc \in {"rcCopy", "rcDisplace", "rcUndoRemove", "rcUndoRename", "rcUndoJournal",
                       "rcDropDisplaced", "rcDropCheckpoint"}
            /\ pc' = "rcDropCandidate"
         \/ pc \in {"rcPromote", "rcCommit"} /\ pc' = "rcUndoRemove"
<1>1. pc \in Steps \ LateCleanups /\ pc' = Handler[pc]
  BY DEF Throw
<1>. QED
  BY <1>1 DEF Steps, Handler, LateCleanups

\* Every exception edge leads to a step whose assumptions hold.
LEMMA ThrowInv ==
  ASSUME IInv, Throw, FailingCleanups = {}
  PROVE (BrainInv /\ CheckpointInv /\ CopiesInv /\ StepInv)'
<1>1. (BrainInv /\ CheckpointInv /\ CopiesInv)'
  BY InFlightInv DEF Throw
<1>2. StepInv'
  <2>. USE DEF IInv, TypeOK, Throw, locals
  <2>0. op \in Ops /\ id \in Ops
    BY DEF Steps, Handler
  <2>1. CASE pc' \in {"idle", "rcDropCandidate"}
    BY <2>1, HandlerTable DEF StepInv, NoSnapshot, Working, Promoting, Promoted, Undoing,
       Renaming, Committed, GivingUp
  <2>2. CASE pc' = "restorePointer"
    <3>1. UNCHANGED trees /\ pc \in Working \ NoSnapshot
      BY <2>2, HandlerTable DEF InFlight, Working, NoSnapshot
    <3>. QED
      BY <2>2, <3>1 DEF StepInv, trees, Open, Working, Promoting, Promoted, Undoing, Renaming,
         Committed, GivingUp
  <2>3. CASE pc' \in GivingUp
    <3>1. /\ pc \in {"restorePointer", "rbDropCandidate", "rbAbandonCandidate", "journalFailed",
                     "rbCopy", "rbDisplace", "rbUndoRemove", "rbUndoRename"}
          /\ pc \notin NoSnapshot /\ checkpoint' = checkpoint
      BY <2>3, HandlerTable DEF InFlight, GivingUp, NoSnapshot, trees
    <3>2. ~ClosedTarget(brain)
      BY <3>1 DEF StepInv, ClosedTarget, Restored, Open, Matches, Absent, GivingUp, Working,
         Committed, Undoing, Renaming
    <3>3. ~ClosedTarget(brain')
      <4>1. CASE brain' = brain
        BY <3>2, <4>1
      <4>2. CASE pc = "rbUndoRemove" /\ brain' \in Torn(brain)
        <5>1. brain.meta \in {"absent", "source"}
          BY <4>2 DEF StepInv, Undoing
        <5>. QED
          BY <4>2, <5>1, TornFacts DEF ClosedTarget
      <4>. QED
        BY <3>1, <4>1, <4>2 DEF InFlight, trees
    <3>. QED
      BY <2>3, <3>1, <3>3 DEF StepInv, Working, Promoting, Promoted, Undoing, Renaming,
         Committed, GivingUp
  <2>4. CASE pc' \in Undoing
    <3>1. UNCHANGED trees /\ pc \in {"rbPromote", "rcPromote", "rbVerify", "rcCommit"}
      BY <2>4, HandlerTable DEF InFlight, Undoing
    <3>. QED
      BY <2>4, <3>1 DEF StepInv, trees, Open, Restored, Interrupted, Matches, Absent,
         NoSnapshot, Working, Promoting, Promoted, Undoing, Renaming, Committed, GivingUp
  <2>. QED
    BY <2>1, <2>2, <2>3, <2>4, HandlerTable DEF GivingUp, Undoing
<1>. QED
  BY <1>1, <1>2

\* A fresh source project satisfies the invariant.
LEMMA InitInv == Init => IInv
<1>. SUFFICES ASSUME Init PROVE IInv
  OBVIOUS
<1>1. ~Interrupted(Absent) /\ ~Exists(Absent) /\ Absent.journal.op = NoOp
  BY DEF Interrupted, Exists, Absent, NoJournal
<1>2. brain.journal = NoJournal /\ NoJournal.op = NoOp /\ brain.meta = "source" /\ brain.docs = 0
  BY DEF Init, NoJournal
<1>3. BrainInv /\ CheckpointInv
  BY <1>2 DEF Init, BrainInv, CheckpointInv, Valid, ClosedTarget, Interrupted
<1>4. CopiesInv
  BY <1>1, <1>2 DEF Init, CopiesInv
<1>5. StepInv
  BY DEF Init, StepInv, NoSnapshot, Working, Promoting, Promoted, Undoing, Renaming, Committed,
     GivingUp
<1>. QED
  BY <1>3, <1>4, <1>5, InitType DEF IInv

\* Every step of the running process keeps the invariant.
LEMMA ProcessInv ==
  ASSUME IInv, Process PROVE (BrainInv /\ CheckpointInv /\ CopiesInv /\ StepInv)'
<1>1. CASE Migrate
  BY <1>1, CopyCheckpointInv, JournalCheckpointedInv, JournalApplyingInv, MigrateMetadataInv,
     JournalValidatingInv, ValidateInv, ActivateInv, CommitPinInv, JournalCompleteInv,
     DropCheckpointInv DEF Migrate
<1>2. CASE Rollback
  BY <1>2, RestorePointerInv, RbCopyInv, RbDisplaceInv, RbPromoteInv, RbVerifyInv,
     RbDropDisplacedInv, RbUndoRemoveInv, RbUndoRenameInv, RbRemoveCandidateInv,
     JournalFailedInv, RbDropCheckpointInv, JournalRecoveryRequiredInv DEF Rollback
<1>3. CASE Recover
  BY <1>3, RcCheckInv, RcCopyInv, RcDisplaceInv, RcPromoteInv, RcCommitInv, RcUndoRemoveInv,
     RcUndoRenameInv, RcUndoJournalInv, RcDropDisplacedInv, RcDropCheckpointInv,
     RcDropCandidateInv DEF Recover
<1>. QED
  BY <1>1, <1>2, <1>3 DEF Process

\* Every step keeps the invariant.
LEMMA InvStep ==
  ASSUME FailingCleanups = {}
  PROVE  IInv /\ [Next]_vars => IInv'
<1>. SUFFICES ASSUME IInv, [Next]_vars PROVE (BrainInv /\ CheckpointInv /\ CopiesInv /\ StepInv)'
  BY TypeStep DEF IInv
<1>1. CASE UNCHANGED vars
  BY <1>1 DEF IInv, BrainInv, CheckpointInv, CopiesInv, StepInv, Open, Restored, vars, trees,
     locals, counters
<1>2. CASE Process
  BY <1>2, ProcessInv
<1>3. ASSUME NEW o \in Ops, BeginMigration(o) \/ BeginRecovery(o) \/ TamperCheckpoint(o)
      PROVE  (BrainInv /\ CheckpointInv /\ CopiesInv /\ StepInv)'
  BY <1>3, BeginMigrationInv, BeginRecoveryInv, TamperCheckpointInv
<1>4. CASE Throw \/ Crash \/ EditDocs
  BY <1>4, ThrowInv, CrashInv, EditDocsInv
<1>. QED
  BY <1>1, <1>2, <1>3, <1>4 DEF Next

\* The inductive invariant holds in every reachable state: the journal in the
\* brain, the trees beside it and the next step of the process always fit.
THEOREM InvariantHolds == ASSUME FailingCleanups = {} PROVE Spec => []IInv
BY InitInv, InvStep, PTL DEF Spec

\* The invariant implies the safety properties.
LEMMA InvImplies ==
  IInv => NeverLooksFresh /\ RestorableAlways /\ IncompleteNeverHealthy
          /\ InterruptionRecoverable /\ PinHasRuntime
<1>. SUFFICES ASSUME IInv
     PROVE  NeverLooksFresh /\ RestorableAlways /\ IncompleteNeverHealthy
            /\ InterruptionRecoverable /\ PinHasRuntime
  OBVIOUS
<1>. USE DEF IInv
<1>1. NeverLooksFresh
  BY DEF NeverLooksFresh, Status, Stranded, CheckpointInv, Valid, Exists, Matches
<1>2. RestorableAlways
  <2>. SUFFICES ASSUME tampers = 0 PROVE \E t \in {brain} \cup {checkpoint[o] : o \in Ops} :
          t.docs = edits /\ (t.meta = "source" \/ (committed /\ t.meta = "target"))
    BY DEF RestorableAlways
  <2>1. CASE Interrupted(brain)
    <3>1. brain.journal.op \in Ops
      BY <2>1 DEF TypeOK, Trees, Journals, Interrupted
    <3>. QED
      BY <2>1, <3>1 DEF CheckpointInv, Matches
  <2>2. CASE ~Valid(brain)
    BY <2>2 DEF CheckpointInv, Matches
  <2>3. CASE Valid(brain) /\ ~Interrupted(brain)
    BY <2>3 DEF BrainInv, Valid, ClosedTarget
  <2>. QED
    BY <2>1, <2>2, <2>3
<1>3. IncompleteNeverHealthy
  BY DEF IncompleteNeverHealthy, Status, Current, BrainInv
<1>4. InterruptionRecoverable
  BY DEF InterruptionRecoverable, RecoveryState, BrainInv, CheckpointInv, Interrupted
<1>5. PinHasRuntime
  BY DEF PinHasRuntime, Status, BrainInv, ClosedTarget
<1>. QED
  BY <1>1, <1>2, <1>3, <1>4, <1>5

\* No crash or exception of a migration, its rollback or a recovery makes
\* getStatus report an initialized project as one that was never initialized.
THEOREM NeverFresh == ASSUME FailingCleanups = {} PROVE Spec => []NeverLooksFresh
BY InvariantHolds, InvImplies, PTL

\* The source tree with every accepted edit, or the committed target tree, is
\* whole on the disk in every reachable state.
THEOREM AlwaysRestorable == ASSUME FailingCleanups = {} PROVE Spec => []RestorableAlways
BY InvariantHolds, InvImplies, PTL

\* What getStatus calls initialized is never a half-migrated tree.
THEOREM HealthyIsComplete == ASSUME FailingCleanups = {} PROVE Spec => []IncompleteNeverHealthy
BY InvariantHolds, InvImplies, PTL

\* An open journal always comes with the valid checkpoint applyRecovery needs.
THEOREM AlwaysRecoverable == ASSUME FailingCleanups = {} PROVE Spec => []InterruptionRecoverable
BY InvariantHolds, InvImplies, PTL

\* A healthy project pinned to the target has activated the target runtime.
THEOREM PinAfterRuntime == ASSUME FailingCleanups = {} PROVE Spec => []PinHasRuntime
BY InvariantHolds, InvImplies, PTL

\* Only four steps touch a checkpoint, and each touches that of its operation.
LEMMA CheckpointSteps ==
  ASSUME IInv, Next, tampers' = tampers, NEW o \in Ops, checkpoint'[o] # checkpoint[o]
  PROVE  /\ pc \in {"copyCheckpoint", "dropCheckpoint", "rbDropCheckpoint", "rcDropCheckpoint"}
         /\ o = op
<1>. USE DEF Go, IInv, TypeOK, trees
<1>1. CASE Migrate
  BY <1>1 DEF Migrate, CopyCheckpoint, JournalCheckpointed, JournalApplying, MigrateMetadata,
     JournalValidating, Validate, Activate, CommitPin, JournalComplete, DropCheckpoint,
     WriteJournal
<1>2. CASE Rollback
  BY <1>2 DEF Rollback, RestorePointer, RbCopy, RbDisplace, RbPromote, RbVerify,
     RbDropDisplaced, RbUndoRemove, RbUndoRename, RbRemoveCandidate, JournalFailed,
     RbDropCheckpoint, JournalRecoveryRequired, WriteJournal
<1>3. CASE Recover
  BY <1>3 DEF Recover, RcCheck, RcCopy, RcDisplace, RcPromote, RcCommit, RcUndoRemove,
     RcUndoRename, RcUndoJournal, RcDropDisplaced, RcDropCheckpoint, RcDropCandidate,
     WriteJournal
<1>4. ASSUME NEW r \in Ops PROVE ~BeginMigration(r) /\ ~BeginRecovery(r) /\ ~TamperCheckpoint(r)
  BY DEF BeginMigration, BeginRecovery, TamperCheckpoint
<1>5. ~EditDocs
  BY DEF EditDocs
<1>6. CASE Throw \/ Crash
  BY <1>6 DEF Throw, Crash, InFlight
<1>. QED
  BY <1>1, <1>2, <1>3, <1>4, <1>5, <1>6 DEF Next, Process

\* A checkpoint is removed only after the swap it protects is over.
THEOREM CheckpointKept == ASSUME FailingCleanups = {} PROVE Spec => CheckpointOutlivesSwap
<1>. DEFINE Safe(o) ==
       brain.journal.op = o /\ Matches(checkpoint[o], brain.journal.digest)
           /\ checkpoint'[o] # checkpoint[o] /\ tampers' = tampers
       => /\ Current(brain)
          /\ brain.journal.state \in Terminal
          /\ ~Exists(displaced[id])
<1>1. IInv /\ [Next]_vars => [\A o \in Ops : Safe(o)]_vars
  <2>. SUFFICES ASSUME IInv, Next, NEW o \in Ops,
                       brain.journal.op = o, checkpoint'[o] # checkpoint[o], tampers' = tampers
                PROVE  /\ Current(brain)
                       /\ brain.journal.state \in Terminal
                       /\ ~Exists(displaced[id])
    OBVIOUS
  <2>1. /\ pc \in {"copyCheckpoint", "dropCheckpoint", "rbDropCheckpoint", "rcDropCheckpoint"}
        /\ o = op
    BY CheckpointSteps
  <2>2. pc # "copyCheckpoint"
    BY <2>1 DEF IInv, StepInv
  <2>. QED
    BY <2>1, <2>2 DEF IInv, StepInv, BrainInv, Committed, Restored, ClosedTarget, Matches,
       Current, Valid, Terminal
<1>. QED
  BY <1>1, InvariantHolds, PTL DEF Spec, CheckpointOutlivesSwap

\* A brain pinned to the target stays so, a source brain never becomes one in
\* one step, and only EditDocs counts an edit.
LEMMA BrainSteps ==
  ASSUME IInv, FailingCleanups = {}, Next, ~EditDocs
  PROVE  /\ ClosedTarget(brain) => ClosedTarget(brain')
         /\ brain.meta = "source" => brain'.meta # "target"
         /\ edits' = edits
<1>. USE DEF IInv, TypeOK, trees, Go
<1>0. brain \in Trees
  OBVIOUS
<1>w. ASSUME NEW s \in JournalStates, WriteJournal(s)
      PROVE  brain'.meta = brain.meta /\ brain'.journal.state = s
  BY <1>0, <1>w DEF WriteJournal
<1>1. CASE brain' = brain
  <2>1. edits' = edits
    BY DEF Next, Process, Migrate, CopyCheckpoint, JournalCheckpointed, JournalApplying,
       MigrateMetadata, JournalValidating, Validate, Activate, CommitPin, JournalComplete,
       DropCheckpoint, Rollback, RestorePointer, RbCopy, RbDisplace, RbPromote, RbVerify,
       RbDropDisplaced, RbUndoRemove, RbUndoRename, RbRemoveCandidate, JournalFailed,
       RbDropCheckpoint, JournalRecoveryRequired, Recover, RcCheck, RcCopy, RcDisplace,
       RcPromote, RcCommit, RcUndoRemove, RcUndoRename, RcUndoJournal, RcDropDisplaced,
       RcDropCheckpoint, RcDropCandidate, BeginMigration, BeginRecovery, TamperCheckpoint,
       Throw, Crash
  <2>. QED
    BY <1>1, <2>1
<1>2. CASE Migrate /\ brain' # brain
  <2>1. ~ClosedTarget(brain)
    BY <1>2 DEF Migrate, CopyCheckpoint, JournalCheckpointed, JournalApplying, MigrateMetadata,
       JournalValidating, Validate, Activate, CommitPin, JournalComplete, DropCheckpoint,
       StepInv, Restored, Matches, Open, ClosedTarget, Working
  <2>2. brain.meta = "source" => brain'.meta # "target"
    BY <1>0, <1>2 DEF Migrate, CopyCheckpoint, JournalCheckpointed, JournalApplying,
       MigrateMetadata, JournalValidating, Validate, Activate, CommitPin, JournalComplete,
       DropCheckpoint, StepInv, WriteJournal, Trees
  <2>. QED
    BY <1>2, <2>1, <2>2 DEF Migrate, CopyCheckpoint, JournalCheckpointed, JournalApplying,
       MigrateMetadata, JournalValidating, Validate, Activate, CommitPin, JournalComplete,
       DropCheckpoint
<1>3. CASE Rollback /\ brain' # brain
  <2>1. ~ClosedTarget(brain)
    BY <1>3 DEF Rollback, RestorePointer, RbCopy, RbDisplace, RbPromote, RbVerify,
       RbDropDisplaced, RbUndoRemove, RbUndoRename, RbRemoveCandidate, JournalFailed,
       RbDropCheckpoint, JournalRecoveryRequired, StepInv, Restored, Matches, Open,
       ClosedTarget, Absent, Working, Promoting, Renaming, Undoing, Committed, GivingUp
  <2>2. brain.meta = "source" => brain'.meta # "target"
    BY <1>0, <1>3 DEF Rollback, RestorePointer, RbCopy, RbDisplace, RbPromote, RbVerify,
       RbDropDisplaced, RbUndoRemove, RbUndoRename, RbRemoveCandidate, JournalFailed,
       RbDropCheckpoint, JournalRecoveryRequired, StepInv, WriteJournal, Trees, Absent,
       Promoting, Renaming
  <2>. QED
    BY <1>3, <2>1, <2>2 DEF Rollback, RestorePointer, RbCopy, RbDisplace, RbPromote, RbVerify,
       RbDropDisplaced, RbUndoRemove, RbUndoRename, RbRemoveCandidate, JournalFailed,
       RbDropCheckpoint, JournalRecoveryRequired
<1>4. CASE Recover /\ brain' # brain
  <2>1. ~ClosedTarget(brain)
    BY <1>4 DEF Recover, RcCheck, RcCopy, RcDisplace, RcPromote, RcCommit, RcUndoRemove,
       RcUndoRename, RcUndoJournal, RcDropDisplaced, RcDropCheckpoint, RcDropCandidate, StepInv,
       Open, ClosedTarget, Absent, Working, Promoting, Renaming, Undoing
  <2>2. brain.meta = "source" => brain'.meta # "target"
    BY <1>0, <1>4 DEF Recover, RcCheck, RcCopy, RcDisplace, RcPromote, RcCommit, RcUndoRemove,
       RcUndoRename, RcUndoJournal, RcDropDisplaced, RcDropCheckpoint, RcDropCandidate, StepInv,
       WriteJournal, Trees, Absent, Promoting, Renaming
  <2>. QED
    BY <1>4, <2>1, <2>2 DEF Recover, RcCheck, RcCopy, RcDisplace, RcPromote, RcCommit,
       RcUndoRemove, RcUndoRename, RcUndoJournal, RcDropDisplaced, RcDropCheckpoint,
       RcDropCandidate
<1>5. CASE (Throw \/ Crash) /\ brain' # brain
  <2>1. pc \in Undoing /\ brain' \in Torn(brain) /\ edits' = edits
    BY <1>5 DEF Throw, Crash, InFlight, Undoing
  <2>2. brain.meta \in {"absent", "source"}
    BY <2>1 DEF StepInv
  <2>. QED
    BY <1>0, <2>1, <2>2, TornFacts DEF ClosedTarget
<1>6. ASSUME NEW r \in Ops PROVE BeginMigration(r) \/ BeginRecovery(r) \/ TamperCheckpoint(r)
                              => brain' = brain
  BY DEF BeginMigration, BeginRecovery, TamperCheckpoint
<1>. QED
  BY <1>1, <1>2, <1>3, <1>4, <1>5, <1>6 DEF Next, Process

\* What getStatus shows of a brain that satisfies the invariant.
LEMMA HealthyView ==
  IInv => \/ /\ Status # "initialized"
             /\ ~Valid(brain) \/ Interrupted(brain)
          \/ /\ Status = "initialized"
             /\ Valid(brain) /\ ~Interrupted(brain) /\ brain.docs = edits
             /\ brain.meta = "source" \/ ClosedTarget(brain)
BY DEF IInv, BrainInv, Status, Exists, Valid, ClosedTarget

\* applyMigrationUpdate and applyRecovery implement the contract of updates.
THEOREM ContractKept == ASSUME FailingCleanups = {} PROVE Spec => KeepsContract
<1>. DEFINE view == IF Status = "initialized" THEN brain.meta ELSE "blocked"
            docs == IF Status = "initialized" THEN brain.docs ELSE edits
<1>1. Init => Contract!Init
  <2>. SUFFICES ASSUME Init PROVE view = "source" /\ docs = 0
    BY DEF Contract!Init
  <2>. QED
    BY DEF Init, Status, Exists, Valid, Interrupted
<1>2. IInv /\ IInv' /\ [Next]_vars => [Contract!Next]_<<view, docs>>
  <2>. SUFFICES ASSUME IInv, IInv', [Next]_vars PROVE Contract!Next \/ UNCHANGED <<view, docs>>
    OBVIOUS
  <2>a. \/ view = "blocked" /\ docs = edits
        \/ view = "source" /\ docs = edits /\ brain.meta = "source"
        \/ view = "target" /\ docs = edits /\ ClosedTarget(brain)
    BY HealthyView DEF ClosedTarget
  <2>b. \/ (view = "blocked")' /\ (docs = edits)' /\ (~Valid(brain) \/ Interrupted(brain))'
        \/ (view = "source")' /\ (docs = edits)' /\ (brain.meta = "source")'
        \/ (view = "target")' /\ (docs = edits)' /\ ClosedTarget(brain)'
    <3>1. (\/ /\ Status # "initialized"
              /\ ~Valid(brain) \/ Interrupted(brain)
           \/ /\ Status = "initialized"
              /\ Valid(brain) /\ ~Interrupted(brain) /\ brain.docs = edits
              /\ brain.meta = "source" \/ ClosedTarget(brain))'
      BY HealthyView, PTL
    <3>. QED
      BY <3>1 DEF ClosedTarget
  <2>1. CASE UNCHANGED vars
    BY <2>1 DEF vars, trees, Status, Stranded
  <2>2. CASE EditDocs
    <3>1. brain \in Trees /\ Valid(brain) /\ ~Interrupted(brain) /\ Status = "initialized"
      BY <2>2 DEF EditDocs, IInv, TypeOK, Status
    <3>2. brain'.meta = brain.meta /\ brain'.journal = brain.journal /\ edits' = edits + 1
      BY <2>2, <3>1 DEF EditDocs
    <3>3. Status' = "initialized"
      BY <3>1, <3>2 DEF Status, Exists, Valid, Interrupted
    <3>4. view' = view /\ docs' = docs + 1 /\ view \in {"source", "target"}
      BY <2>a, <2>b, <3>1, <3>2, <3>3 DEF Valid
    <3>. QED
      BY <3>4 DEF Contract!Next, Contract!Edit
  <2>3. CASE Next /\ ~EditDocs
    <3>1. /\ ClosedTarget(brain) => ClosedTarget(brain')
          /\ brain.meta = "source" => brain'.meta # "target"
          /\ edits' = edits
      BY <2>3, BrainSteps
    <3>2. docs' = docs
      BY <2>a, <2>b, <3>1
    <3>3. view = "target" => view' = "target"
      BY <2>a, <2>b, <3>1 DEF ClosedTarget, Valid
    <3>4. view = "source" => view' \in {"source", "blocked"}
      BY <2>a, <2>b, <3>1
    <3>. QED
      BY <2>a, <2>b, <3>2, <3>3, <3>4 DEF Contract!Next, Contract!Block, Contract!Restore,
         Contract!Commit
  <2>. QED
    BY <2>1, <2>2, <2>3
<1>. QED
  BY <1>1, <1>2, InvariantHolds, PTL DEF Spec, KeepsContract, Contract!Spec
================================================================================
