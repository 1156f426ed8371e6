---------------------------- MODULE DesktopProjects ----------------------------
(***************************************************************************)
(* The Desktop process: its start (desktop_project_migration, initialize), *)
(* the commands that register, activate, rename and detach projects, run   *)
(* one after the other on the main thread, and the jobs of its workers,    *)
(* which save a project's state or ask its Project Brain meanwhile.        *)
(*                                                                         *)
(* A mutex covers the active project and most uses of the registry, not    *)
(* all: an activation stores the Project Brain's identity without it.      *)
(* Every rename is a step, a file operation may fail, and the process may  *)
(* die between any two.                                                    *)
(***************************************************************************)
EXTENDS DesktopRegistry

CONSTANTS
    Workers,         \* threads that run one job at a time
    Adoptions,       \* sets of checkouts that may hold a Project Brain at first
    LegacySlot,      \* the place of the single-project files
    MaxGeneration,   \* bound on activations of a session in which nothing goes wrong
    MaxTrouble       \* bound on deaths of the process and failures of file operations

\* Assumed by Desktop.
SlotAssumption == LegacySlot \notin Roots \cup {NoRoot}
AdoptionsAssumption == Adoptions \subseteq SUBSET Roots
BoundsAssumption == MaxGeneration \in Nat /\ MaxTrouble \in Nat

VARIABLES
    legacy,     \* the single-project files
    stage,      \* the staging directory of an import
    source,     \* r |-> the Project Brain in the checkout
    brain,      \* r |-> the Project Brain in the state directory
    main,       \* the main thread
    runtime,    \* ActiveProjectRuntime
    job,        \* w |-> the job of worker w
    trouble,    \* deaths and failures
    torn        \* whether a registry was left unfinished for good (for the properties)

diskVars == <<registryVars, legacy, stage, source, brain>>
vars == <<diskVars, main, runtime, job, trouble, torn>>

Slots == Roots \cup {LegacySlot}

\* Absent, progress without a project, naming one, or contradicting each other.
\* What is saved for a project is read by nothing modelled here.
Legacies == {"none", "progress", "project", "bad"}

Starting == {"restore", "stage", "populate", "place", "finalize", "clean"}
Activating == {"storage", "promote", "unlink", "unlinked", "bind", "lock"}
Writing == {"checkpoint", "commit", "drop"}
LockedWrites == {"register", "rejoin", "rename", "detach", "activate", "finalize"}
StartWrites == {"not-needed", "recovery-required", "restore", "finalize"}

Mains == [op : LockedWrites \cup StartWrites \cup {"none", "bind"},
          step : Starting \cup Activating \cup Writing \cup {"down", "idle"},
          root : Roots \cup {NoRoot},
          draft : Registries \cup {NoRegistry}]
Down == [op |-> "none", step |-> "down", root |-> NoRoot, draft |-> NoRegistry]
Idle == [Down EXCEPT !.step = "idle"]

Runtimes == [generation : 0..MaxGeneration,
             active : Roots \cup {NoRoot},
             recovery : BOOLEAN,     \* startup_recovery
             faulted : BOOLEAN]      \* a file operation has failed (for the properties)
Fresh == [generation |-> 0, active |-> NoRoot, recovery |-> FALSE, faulted |-> FALSE]

Jobs == [kind : {"save", "ask"},
         step : {"over", "work", "replace", "asked", "running", "answer"},
         slot : Slots \cup {NoRoot}, generation : 0..MaxGeneration,    \* its scope
         inner : Roots \cup {NoRoot},       \* the scope a request takes in its worker
         old : Legacies,       \* the single-project files, set aside
         moved : BOOLEAN]     \* the project changed since its scope was read (for the properties)
NoJob == [kind |-> "save", step |-> "over", slot |-> NoRoot, generation |-> 0,
          inner |-> NoRoot, old |-> "none", moved |-> FALSE]

TypeOK ==
    /\ RegistryTypeOK
    /\ legacy \in Legacies
    /\ stage \in {"none", "partial", "whole"}
    /\ source \in [Roots -> {"none", "whole", "torn"}]
    /\ brain \in [Roots -> {"none", "same", "changed", "new"}]
    /\ main \in Mains /\ runtime \in Runtimes
    /\ job \in [Workers -> Jobs]
    /\ \A w \in Workers : job[w].slot = NoRoot <=> job[w].step = "over"
    /\ trouble \in 0..MaxTrouble
    /\ torn \in BOOLEAN

\* A machine on which the registry was never used.
Init ==
    /\ registry = NoRegistry /\ backup = NoRegistry
    /\ dir = [r \in Roots |-> "none"]
    /\ legacy \in Legacies
    /\ stage = "none"
    /\ \E a \in Adoptions : source = [r \in Roots |-> IF r \in a THEN "whole" ELSE "none"]
    /\ brain = [r \in Roots |-> "none"]
    /\ main = Down /\ runtime = Fresh /\ job = [w \in Workers |-> NoJob]
    /\ trouble = 0 /\ torn = FALSE

--------------------------------------------------------------------------------
(* The mutex, and what each return does.                                    *)

MainHolds == main.step \in Writing /\ main.op \in LockedWrites
JobHolds == \E w \in Workers : job[w].step = "replace"
Free == ~MainHolds /\ ~JobHolds

Goto(step) == main' = [main EXCEPT !.step = step]
Return == main' = Idle

\* validate_registry precedes every write.
Write(op, r, g) ==
    IF Valid(g) THEN main' = [op |-> op, step |-> "checkpoint", root |-> r, draft |-> g]
                ELSE Return

\* A change of the scopes S: the jobs under way learn nothing, the properties do.
Move(S) ==
    job' = [w \in Workers |->
        IF job[w].step # "over" /\ job[w].slot \in S
        THEN [job[w] EXCEPT !.moved = TRUE] ELSE job[w]]

\* Trouble leaves fewer activations, and does not follow on as many as there may be.
Generations == IF trouble = 0 THEN MaxGeneration ELSE MaxGeneration - trouble - 1

\* A new generation, with r active.
SwitchTo(r, recovery) ==
    /\ runtime.generation < Generations
    /\ runtime' = [runtime EXCEPT !.generation = @ + 1, !.active = r, !.recovery = recovery]
    /\ IF r = runtime.active THEN job' = job ELSE Move(Slots)

--------------------------------------------------------------------------------
(* The start.                                                               *)

\* The process starts and reads the registry and the single-project files.
Launch ==
    LET next(step) == main' = [Down EXCEPT !.step = step] /\ runtime' = Fresh
        failed == main' = Idle /\ runtime' = [Fresh EXCEPT !.recovery = TRUE]
        marked(state) == main' = [op |-> state, step |-> "checkpoint", root |-> NoRoot,
                 draft |-> [registry EXCEPT !.legacy = state,
                     !.last = IF state = "recovery-required" THEN NoRoot ELSE @]]
             /\ runtime' = Fresh
        none == legacy \in {"none", "progress"}
        resumable == Orphans = {LegacyRoot} /\ dir[LegacyRoot] = "planned"
    IN
    /\ main.step = "down"
    /\ IF registry # NoRegistry /\ registry.legacy = "complete"
       THEN dir' = [r \in Roots |-> IF dir[r] = "planned" THEN "imported" ELSE dir[r]]
       ELSE UNCHANGED dir
    /\ \/ /\ registry # NoRegistry
          /\ \/ registry.legacy = "complete" /\ next("restore")
             \/ registry.legacy = "recovery-required" /\ next("idle")
             \/ registry.legacy = "pending" /\ none /\ marked("not-needed")
             \/ registry.legacy = "not-needed" /\ none /\ next("restore")
             \/ registry.legacy \in {"pending", "not-needed"} /\ ~none /\ marked("recovery-required")
       \/ /\ registry = NoRegistry
          /\ \/ legacy = "none" /\ next("restore")
             \/ legacy = "progress" /\ next("idle")
             \/ legacy = "bad" /\ failed
             \/ legacy = "project" /\ resumable /\ next("finalize")
             \/ legacy = "project" /\ ~resumable /\ Unreadable /\ failed
             \/ legacy = "project" /\ ~Unreadable /\ next("stage")
    /\ UNCHANGED <<registry, backup, legacy, stage, source, brain, job, trouble, torn>>

\* The project that was active last becomes active, if its checkout is still there.
Restore ==
    /\ main.step = "restore"
    /\ IF Unreadable THEN Return /\ runtime' = [runtime EXCEPT !.recovery = TRUE, !.active = NoRoot]
       ELSE /\ \/ Return
               \/ Loaded.last # NoRoot /\ Write("restore", Loaded.last, Loaded)
            /\ UNCHANGED runtime
    /\ UNCHANGED <<diskVars, job, trouble, torn>>

\* prepare_namespace: a stage without its plan is begun anew; the plan is the
\* last file of a stage, and the stage becomes the directory by a rename.
Stage ==
    /\ main.step = "stage"
    /\ IF stage = "whole" THEN Goto("place") /\ UNCHANGED stage
                          ELSE Goto("populate") /\ stage' = "partial"
    /\ UNCHANGED <<registryVars, legacy, source, brain, runtime, job, trouble, torn>>

Populate ==
    /\ main.step = "populate"
    /\ stage' = "whole" /\ Goto("place")
    /\ UNCHANGED <<registryVars, legacy, source, brain, runtime, job, trouble, torn>>

Place ==
    /\ main.step = "place"
    /\ stage' = "none"
    /\ dir' = [dir EXCEPT ![LegacyRoot] = "planned"]
    /\ Goto("finalize")
    /\ UNCHANGED <<registry, backup, legacy, source, brain, runtime, job, trouble, torn>>

\* finalize_legacy_migration: the imported project, active, and the migration complete.
Finalize ==
    /\ main.step = "finalize"
    /\ IF ~Finalizable THEN Return /\ runtime' = [runtime EXCEPT !.recovery = TRUE]
       ELSE /\ Write("finalize", LegacyRoot,
                [Loaded EXCEPT !.projects[LegacyRoot] = "registered",
                     !.identity[LegacyRoot] = IF source[LegacyRoot] = "whole" THEN "old" ELSE NoIdentity,
                     !.last = LegacyRoot, !.legacy = "complete"])
            /\ UNCHANGED runtime
    /\ UNCHANGED <<diskVars, job, trouble, torn>>

\* cleanup_plan: its failure is ignored.
Clean ==
    /\ main.step = "clean"
    /\ dir' \in {dir, [dir EXCEPT ![LegacyRoot] = "imported"]}
    /\ Return
    /\ UNCHANGED <<registry, backup, legacy, stage, source, brain, runtime, job, trouble, torn>>

--------------------------------------------------------------------------------
(* The commands.  One that finds its project or the registry unfit returns  *)
(* an error and changes nothing.                                            *)

Begin == main.step = "idle" /\ ~Unreadable

\* register_at: the directory is made before the registry names it.
Register(r) ==
    /\ Begin /\ Free
    /\ Loaded.projects[r] # "registered"
    /\ LET g == [Loaded EXCEPT !.projects[r] = "registered"] IN
       \/ /\ Loaded.projects[r] = "absent"
          /\ dir' = [dir EXCEPT ![r] = "bare"]
          /\ Write("register", r, g)
       \/ /\ Loaded.projects[r] = "detached"
          /\ UNCHANGED dir
          /\ Write("rejoin", r, g)
    /\ UNCHANGED <<registry, backup, legacy, stage, source, brain, runtime, job, trouble, torn>>

Rename(r) ==
    /\ Begin /\ Free
    /\ r \in Projects(Loaded)
    /\ Write("rename", r, Loaded)
    /\ UNCHANGED <<diskVars, runtime, job, trouble, torn>>

DetachedFrom(g, r) ==
    [g EXCEPT !.projects[r] = "detached", !.last = IF @ = r THEN NoRoot ELSE @]

Detach(r) ==
    /\ Begin /\ Free
    /\ r \in Projects(Loaded)
    /\ Write("detach", r, DetachedFrom(Loaded, r))
    /\ UNCHANGED <<diskVars, runtime, job, trouble, torn>>

\* An activation first prepares the Project Brain, without the mutex.
Activate(r) ==
    /\ Begin
    /\ Loaded.projects[r] = "registered"
    /\ main' = [Idle EXCEPT !.step = "storage", !.root = r]
    /\ UNCHANGED <<diskVars, runtime, job, trouble, torn>>

\* ensureDesktopProjectBrainStorage: a Project Brain in the checkout is copied,
\* promoted by a rename and then removed; one that differs is never touched.
Storage ==
    LET r == main.root IN
    /\ main.step = "storage"
    /\ \/ /\ brain[r] # "none"
          /\ CASE source[r] = "none" -> Goto("bind")
               [] source[r] = "whole" /\ brain[r] = "same" -> Goto("unlink")
               [] OTHER -> Return
          /\ UNCHANGED brain
       \/ /\ brain[r] = "none" /\ source[r] = "whole"
          /\ Goto("promote") /\ UNCHANGED brain
       \/ /\ brain[r] = "none" /\ source[r] = "none"
          /\ brain' = [brain EXCEPT ![r] = "new"] /\ Goto("bind")
    /\ UNCHANGED <<registryVars, legacy, stage, source, runtime, job, trouble, torn>>

Promote ==
    /\ main.step = "promote"
    /\ brain' = [brain EXCEPT ![main.root] = "same"]
    /\ Goto("unlink")
    /\ UNCHANGED <<registryVars, legacy, stage, source, runtime, job, trouble, torn>>

\* The removal of a tree is not one step.
Unlink ==
    /\ \/ main.step = "unlink" /\ source' = [source EXCEPT ![main.root] = "torn"] /\ Goto("unlinked")
       \/ main.step = "unlinked" /\ source' = [source EXCEPT ![main.root] = "none"] /\ Goto("bind")
    /\ UNCHANGED <<registryVars, legacy, stage, brain, runtime, job, trouble, torn>>

IdentityOf(b) == CASE b = "none" -> NoIdentity [] b = "new" -> "new" [] OTHER -> "old"

\* bind_stable_project_identity_at: read, changed and written without the mutex.
Bind ==
    LET r == main.root
        observed == IdentityOf(brain[r])
        known == Loaded.identity[r] IN
    /\ main.step = "bind"
    /\ IF Unreadable \/ known \notin {NoIdentity, observed} THEN Return
       ELSE IF known = observed THEN Goto("lock")
       ELSE Write("bind", r, [Loaded EXCEPT !.identity[r] = observed])
    /\ UNCHANGED <<diskVars, runtime, job, trouble, torn>>

\* Defect: the registry does not record the project as the one active last.
BugLock ==
    /\ main.step = "lock" /\ Free
    /\ IF Unreadable THEN Return ELSE Write("activate", main.root, Loaded)
    /\ UNCHANGED <<diskVars, runtime, job, trouble, torn>>

\* activate_at
Lock ==
    /\ main.step = "lock" /\ Free
    /\ IF Unreadable THEN Return
       ELSE Write("activate", main.root, [Loaded EXCEPT !.last = main.root])
    /\ UNCHANGED <<diskVars, runtime, job, trouble, torn>>

--------------------------------------------------------------------------------
(* write_registry.                                                          *)

\* registry.json becomes the backup...
Checkpoint ==
    /\ main.step = "checkpoint"
    /\ IF registry = NoRegistry THEN UNCHANGED <<registry, backup>>
                                ELSE backup' = registry /\ registry' = NoRegistry
    /\ Goto("commit")
    /\ UNCHANGED <<dir, legacy, stage, source, brain, runtime, job, trouble, torn>>

\* ...and the new file takes its place.  The single-project files end here.
Commit ==
    /\ main.step = "commit"
    /\ registry' = main.draft
    /\ Goto("drop")
    /\ Move({LegacySlot})
    /\ UNCHANGED <<backup, dir, legacy, stage, source, brain, runtime, trouble, torn>>

\* The backup goes; the active project changes only now.
Finish ==
    LET r == main.root IN
    CASE main.op \in {"activate", "restore", "finalize"} ->
             /\ SwitchTo(r, IF main.op = "activate" THEN runtime.recovery ELSE FALSE)
             /\ IF main.op = "finalize" THEN Goto("clean") ELSE Return
      [] main.op = "detach" /\ runtime.active = r -> SwitchTo(NoRoot, runtime.recovery) /\ Return
      [] main.op = "bind" -> Goto("lock") /\ UNCHANGED <<runtime, job>>
      [] main.op = "not-needed" -> Goto("restore") /\ UNCHANGED <<runtime, job>>
      [] main.op = "recovery-required" ->
             /\ runtime' = [runtime EXCEPT !.recovery = legacy = "bad"]
             /\ Return /\ UNCHANGED job
      [] OTHER -> Return /\ UNCHANGED <<runtime, job>>

Drop ==
    /\ main.step = "drop"
    /\ backup' = NoRegistry
    /\ Finish
    /\ UNCHANGED <<registry, dir, legacy, stage, source, brain, trouble, torn>>

--------------------------------------------------------------------------------
(* The workers.                                                             *)

Serving == main.step \notin Starting \cup {"down"} /\ main.op \notin StartWrites

\* Defect: a session without an active project saves for no project.
BugScope == runtime.active

\* project_persistence_scope: the active project, or the single-project files
\* as long as there is no project.
Scope == IF runtime.active # NoRoot THEN runtime.active ELSE LegacySlot

TakeScope(w) ==
    /\ Serving /\ Free
    /\ job[w].step = "over"
    /\ ~runtime.recovery /\ ~Unreadable
    /\ Scope = LegacySlot => Projects(Loaded) = {}
    /\ job' = [job EXCEPT ![w] = [NoJob EXCEPT !.step = "work", !.slot = Scope,
                                      !.generation = runtime.generation]]
    /\ UNCHANGED <<diskVars, main, runtime, trouble, torn>>

\* persistence_scope_matches_runtime
Matches(j) ==
    IF j.slot = LegacySlot THEN runtime.active = NoRoot /\ Projects(Loaded) = {}
    ELSE /\ runtime.active = j.slot /\ runtime.generation = j.generation
         /\ Loaded.projects[j.slot] = "registered"

\* with_project_persistence_scope_current: the mutex is kept while the file is replaced.
Replace(w) ==
    /\ Free
    /\ job[w].step = "work"
    /\ \/ /\ ~Unreadable /\ Matches(job[w])
          /\ IF job[w].slot = LegacySlot
             THEN legacy' = "none" /\ job' = [job EXCEPT ![w].step = "replace", ![w].old = legacy]
             ELSE job' = [job EXCEPT ![w].step = "replace"] /\ UNCHANGED legacy
       \/ /\ Unreadable \/ ~Matches(job[w])
          /\ job' = [job EXCEPT ![w] = NoJob] /\ UNCHANGED legacy
    /\ UNCHANGED <<registryVars, stage, source, brain, main, runtime, trouble, torn>>

Save(w) ==
    /\ job[w].step = "replace"
    /\ legacy' \in IF job[w].slot = LegacySlot THEN {"progress", "project"} ELSE {legacy}
    /\ job' = [job EXCEPT ![w] = NoJob]
    /\ UNCHANGED <<registryVars, stage, source, brain, main, runtime, trouble, torn>>

\* A request to the Project Brain of the active project.
Ask(w) ==
    /\ Serving /\ Free
    /\ job[w].step = "over"
    /\ runtime.active # NoRoot /\ ~Unreadable
    /\ job' = [job EXCEPT ![w] = [NoJob EXCEPT !.kind = "ask", !.step = "asked",
                   !.slot = runtime.active, !.generation = runtime.generation]]
    /\ UNCHANGED <<diskVars, main, runtime, trouble, torn>>

\* run_project_knowledge takes the scope again, in the worker.
Run(w) ==
    /\ Free
    /\ job[w].step = "asked"
    /\ job' = [job EXCEPT ![w] = IF runtime.active = NoRoot \/ Unreadable THEN NoJob
                   ELSE [@ EXCEPT !.step = "running", !.inner = runtime.active]]
    /\ UNCHANGED <<diskVars, main, runtime, trouble, torn>>

\* A read, a refusal, or an apply that changes the Project Brain: a proposal names
\* the project it was made for, and the core refuses it for another.
Answer(w) ==
    LET r == job[w].inner IN
    /\ job[w].step = "running"
    /\ brain' \in {brain} \cup
           IF r = job[w].slot /\ brain[r] = "same" THEN {[brain EXCEPT ![r] = "changed"]} ELSE {}
    /\ job' = [job EXCEPT ![w].step = "answer"]
    /\ UNCHANGED <<registryVars, legacy, stage, source, main, runtime, trouble, torn>>

\* The answer is given only for the scope in which it was asked.
Answers(j) == ~Unreadable /\ runtime.active = j.slot /\ runtime.generation = j.generation

Deliver(w) ==
    /\ Free
    /\ job[w].step = "answer"
    /\ job' = [job EXCEPT ![w] = NoJob]    \* given if Answers(job[w]), an error otherwise
    /\ UNCHANGED <<diskVars, main, runtime, trouble, torn>>

Work(w) == TakeScope(w) \/ Replace(w) \/ Save(w) \/ Ask(w) \/ Run(w) \/ Answer(w) \/ Deliver(w)

--------------------------------------------------------------------------------
(* What fails, and the death of the process.                                *)

Trouble(n) ==
    /\ trouble + n <= MaxTrouble /\ runtime.generation < MaxGeneration
    /\ trouble' = trouble + n

\* An error of the start leaves the session in recovery; any other is reported.
GiveUp ==
    /\ Return
    /\ runtime' = IF main.step \in Starting \/ main.op \in StartWrites
                  THEN [runtime EXCEPT !.active = NoRoot, !.recovery = TRUE, !.faulted = TRUE]
                  ELSE runtime

StepFails ==
    /\ Trouble(1)
    /\ main.step \in (Starting \ {"clean"}) \cup Activating
    /\ GiveUp
    /\ UNCHANGED <<diskVars, job, torn>>

\* Defect: the directory of a registration that failed stays.
BugDirectoryRemoved == dir

\* A rename fails: the backup returns and the directory of a new project goes,
\* unless that fails as well.
DirectoryRemoved == IF main.op = "register" THEN [dir EXCEPT ![main.root] = "none"] ELSE dir

WriteFails ==
    LET restored == IF main.step = "commit" /\ backup # NoRegistry THEN backup ELSE registry
        undo(g, d) ==
            /\ registry' = g /\ dir' = d
            /\ backup' = IF g = registry THEN backup ELSE NoRegistry IN
    /\ main.step \in {"checkpoint", "commit"}
    /\ \/ /\ Trouble(1)
          /\ undo(restored, DirectoryRemoved) /\ UNCHANGED torn
       \/ /\ Trouble(2)
          /\ \/ restored # registry /\ undo(registry, DirectoryRemoved)
             \/ DirectoryRemoved # dir /\ undo(restored, dir)
          /\ torn' = (torn \/ registry' = NoRegistry)
    /\ GiveUp
    /\ UNCHANGED <<legacy, stage, source, brain, job>>

\* A backup that cannot be removed stays.
DropFails ==
    /\ Trouble(1)
    /\ main.step = "drop" /\ backup # NoRegistry
    /\ Finish
    /\ UNCHANGED <<diskVars, torn>>

\* The file set aside returns, unless that fails as well.
SaveFails(w) ==
    /\ job[w].step = "replace"
    /\ \/ /\ Trouble(1)
          /\ legacy' = IF job[w].slot = LegacySlot THEN job[w].old ELSE legacy
       \/ /\ Trouble(2)
          /\ job[w].old # "none" /\ UNCHANGED legacy
    /\ job' = [job EXCEPT ![w] = NoJob]
    /\ UNCHANGED <<registryVars, stage, source, brain, main, runtime, torn>>

\* A registry that a death would leave unfinished: between the two renames, or
\* after the directory of the first project and before the first registry.
Unfinished ==
    \/ main.step = "commit" /\ backup # NoRegistry
    \/ main.op = "register" /\ main.step \in {"checkpoint", "commit"} /\ registry = NoRegistry

Die ==
    /\ main.step # "down"
    /\ Trouble(1)
    /\ main' = Down /\ runtime' = Fresh /\ job' = [w \in Workers |-> NoJob]
    /\ torn' = (torn \/ Unfinished)
    /\ UNCHANGED diskVars

--------------------------------------------------------------------------------

Command(r) == Register(r) \/ Rename(r) \/ Detach(r) \/ Activate(r)

Next ==
    \/ Launch \/ Restore \/ Stage \/ Populate \/ Place \/ Finalize \/ Clean
    \/ \E r \in Roots : Command(r)
    \/ Storage \/ Promote \/ Unlink \/ Bind \/ Lock
    \/ Checkpoint \/ Commit \/ Drop
    \/ \E w \in Workers : Work(w) \/ SaveFails(w)
    \/ StepFails \/ WriteFails \/ DropFails \/ Die

Spec == Init /\ [][Next]_vars

--------------------------------------------------------------------------------
(* Properties.                                                              *)

\* A save that is being written, and an answer that would be given, belong to the
\* project that is active now and has been ever since their scope was read,
\* whatever the user switched to and back meanwhile; and the single-project files
\* are not written once a project is registered.
LandsOnlyIfCurrent ==
    \A w \in Workers :
        job[w].step = "replace" \/ (job[w].step = "answer" /\ Answers(job[w])) => ~job[w].moved

\* A start that meets no fault ends every import that was begun, and ends ready
\* unless the registry is torn or the single-project files contradict each other:
\* no death at any point of an earlier start makes it import twice or give up.
StartConverges ==
    (main.step = "idle" /\ ~runtime.faulted) =>
        /\ runtime.recovery => torn \/ legacy = "bad"
        /\ (\E r \in Roots : dir[r] = "planned") => Loaded.legacy = "complete" \/ torn
        /\ stage # "none" => registry # NoRegistry \/ torn
        /\ Loaded.legacy = "complete" => dir[LegacyRoot] \in {"planned", "imported"}

\* Only a death, or a failed undo, between the renames of a write or before the
\* first one makes the registry unreadable for good.
UnreadableHasCause ==
    (main.step = "idle" /\ Unreadable) => torn \/ runtime.recovery

\* A Project Brain found in a checkout is never lost to an activation, and the
\* identity the registry holds is that of the brain the project has or will have.
BrainNeverLost ==
    \A r \in Roots :
        /\ source[r] = "torn" => brain[r] \in {"same", "changed"}
        /\ \/ Loaded.identity[r] \in {NoIdentity, IdentityOf(brain[r])}
           \/ Loaded.identity[r] = "old" /\ brain[r] = "none" /\ source[r] = "whole"

\* Outside of a write, the active project is the one that the registry records
\* as registered and active last.
ActiveIsRecorded ==
    (main.step \notin Writing /\ runtime.active # NoRoot /\ ~Unreadable) =>
        /\ Loaded.projects[runtime.active] = "registered"
        /\ Loaded.last = runtime.active
================================================================================
