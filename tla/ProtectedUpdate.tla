------------------------------ MODULE ProtectedUpdate ------------------------------
(***************************************************************************)
(* The commands that replace and run the runtime of a project:             *)
(* runtime/protected-lifecycle over lifecycle/update and, with the swap of *)
(* the Project Brain as one step, lifecycle/migration and recovery; and    *)
(* the delegation of any other command to the active runtime (cli).        *)
(*                                                                         *)
(* Each command is a process.  No lock excludes another, so their file     *)
(* accesses interleave; one may throw anywhere, or die.                    *)
(***************************************************************************)
EXTENDS RuntimeInstallation

CONSTANTS
    MaxCommands,   \* bound on commands, numbered in the order in which they begin
    MaxBeside,     \* bound on commands at a time
    MaxTrouble,    \* bound on faults, edits and deaths together
    First          \* the release a project begins with

ASSUME CommandsAssumption == MaxCommands \in Nat /\ MaxBeside \in Nat /\ MaxTrouble \in Nat
ASSUME FirstAssumption == First \in Releases

VARIABLES
    meta,         \* metadata.json: the pinned version and the schema
    journal,      \* the command whose migration is recorded as interrupted
    checkpoint,   \* n |-> the metadata in the checkpoint of command n
    cmd,          \* n |-> the n-th command
    faults,       \* exceptions the environment raised, and edits
    deaths,       \* deaths of processes
    contended,    \* releases that two commands installed at a time (for the properties)
    crossed,      \* whether two commands changed the project at a time (likewise)
    unpaid        \* releases put in place without an authorization (likewise)

projectVars == <<meta, journal, checkpoint>>
troubleVars == <<faults, deaths>>
ghosts == <<contended, crossed, unpaid>>
vars == <<runtimeVars, projectVars, cmd, troubleVars, ghosts>>

Commands == 1..MaxCommands
NoCommand == 0
Metas == [version : Releases, schema : {1, 2}]
NoMeta == [version |-> NoRelease, schema |-> 1]

Preparing == {"install", "promote", "evidence", "trust", "attest"}
Committing == {"confirm", "draft", "pin"}
Migrating == {"begin", "copy", "change", "validate", "activate", "draft", "pin", "verify", "close", "clean"}
Steps == Preparing \cup Committing \cup Migrating \cup
    {"new", "over", "planned", "exists", "authorize", "spend", "existed", "discard", "remove",
     "check", "recheck", "previous", "checkpoint", "open",
     "restore", "swap", "failed", "stuck", "reread", "rewind",
     "status", "spawn"}

CommandRecords == [
    op : {"update", "migrate", "recover", "run"},
    step : Steps,
    source : Releases \cup {NoRelease}, target : Releases \cup {NoRelease},
    interrupted : Commands \cup {NoCommand},    \* the migration a recovery undoes
    core : BOOLEAN,                             \* the runtime is prepared
    existed : BOOLEAN, paid : BOOLEAN,          \* the tree was there; an authorization is used
    previous : Releases \cup {NoRelease},       \* the pointer to restore
    changed : BOOLEAN,                          \* pointerChanged
    draft : Metas \cup {NoMeta},                \* metadata read to be written back
    stale : BOOLEAN]                            \* the project has changed since it looked

NewCommand == [op |-> "run", step |-> "new", source |-> NoRelease, target |-> NoRelease,
               interrupted |-> NoCommand, core |-> FALSE, existed |-> FALSE, paid |-> FALSE,
               previous |-> NoRelease, changed |-> FALSE, draft |-> NoMeta, stale |-> FALSE]
Over == [NewCommand EXCEPT !.step = "over"]

TypeOK ==
    /\ RuntimeTypeOK
    /\ meta \in Metas
    /\ journal \in Commands \cup {NoCommand}
    /\ checkpoint \in [Commands -> Metas \cup {NoMeta}]
    /\ cmd \in [Commands -> CommandRecords]
    /\ faults \in 0..MaxTrouble /\ deaths \in 0..MaxTrouble
    /\ contended \subseteq Releases /\ unpaid \subseteq Releases /\ crossed \in BOOLEAN

\* A project runs the runtime it was initialised with, installed as a release or not.
Init ==
    /\ meta = [version |-> First, schema |-> Schema(First)]
    /\ \E installed \in BOOLEAN :
          /\ release = [v \in Releases |-> IF installed /\ v = First THEN "whole" ELSE "absent"]
          /\ pointer = IF installed THEN First ELSE NoRelease
          /\ trusted = IF installed THEN {First} ELSE {}
    /\ authorized = {}
    /\ journal = NoCommand /\ checkpoint = [n \in Commands |-> NoMeta]
    /\ cmd = [n \in Commands |-> NewCommand]
    /\ faults = 0 /\ deaths = 0
    /\ contended = {} /\ crossed = FALSE /\ unpaid = {}

Alive(n) == cmd[n].step \notin {"new", "over"}
At(n, step) == cmd[n].step = step
To(n, step) == cmd' = [cmd EXCEPT ![n].step = step]
Finish(n) == cmd' = [cmd EXCEPT ![n] = Over]
Become(n, c) == cmd' = [cmd EXCEPT ![n] = c]

\* Steps from which the tree of a release may be put in place or removed.
InstallSteps == Preparing \cup {"exists", "authorize", "spend", "existed", "discard", "remove"}
Contend(n, v) ==
    contended' = IF \E k \in Commands \ {n} : cmd[k].step \in InstallSteps /\ cmd[k].target = v
                 THEN contended \cup {v} ELSE contended
Cross(n) == crossed' = (crossed \/ \E k \in Commands \ {n} : cmd[k].core)

\* The steps that write no file.
KeepFiles == UNCHANGED <<runtimeVars, projectVars, troubleVars>>
Look == KeepFiles /\ UNCHANGED ghosts

\* A bug: the pin is not compared with the plan.
BugCurrent(n) == journal = NoCommand

\* assertLifecycleQuiescent, and the comparison of the pin with the plan.
Current(n) == journal = NoCommand /\ meta.version = cmd[n].source

-----------------------------------------------------------------------------
(* Exceptions.                                                             *)

\* A bug: an exception after the pointer was switched leaves it there.
BugHandler(c) ==
    CASE c.step \in Preparing /\ ~c.core -> IF c.existed THEN "over" ELSE "discard"
      [] c.step \in Migrating /\ c.op = "migrate" -> IF c.changed THEN "restore" ELSE "swap"
      [] c.step \in {"restore", "swap", "failed"} /\ c.op = "migrate" -> "stuck"
      [] OTHER -> "over"

\* A bug: a migration that throws before it activates its runtime is only recorded.
BugRollback(c) ==
    CASE c.step \in Preparing /\ ~c.core -> IF c.existed THEN "over" ELSE "discard"
      [] c.step \in Committing /\ c.op = "update" -> "restore"
      [] c.step \in Migrating /\ c.op = "migrate" -> IF c.changed THEN "restore" ELSE "failed"
      [] c.step \in {"restore", "swap", "failed"} /\ c.op = "migrate" -> "stuck"
      [] OTHER -> "over"

\* The catch and finally blocks around a step.
Handler(c) ==
    CASE c.step \in Preparing /\ ~c.core -> IF c.existed THEN "over" ELSE "discard"
      [] c.step \in Committing /\ c.op = "update" -> "restore"
      [] c.step \in Migrating /\ c.op = "migrate" -> IF c.changed THEN "restore" ELSE "swap"
      [] c.step \in {"restore", "swap", "failed"} /\ c.op = "migrate" -> "stuck"
      [] OTHER -> "over"

Throw(n) ==
    LET step == Handler(cmd[n])
    IN  IF step = "over" THEN Finish(n) ELSE Become(n, [cmd[n] EXCEPT !.step = step, !.draft = NoMeta])

-----------------------------------------------------------------------------
(* Plans.  One that finds nothing to do changes nothing, and is left out.  *)

UpdatePlans ==
    UNION {{[NewCommand EXCEPT !.op = IF Schema(v) = meta.schema THEN "update" ELSE "migrate",
                               !.step = "planned", !.source = meta.version, !.target = v]
            : v \in Candidates(manifest, meta.version)}
           : manifest \in SUBSET Releases}

\* planNormalUpdate or planMigrationUpdate: the one migration is from schema 1 to 2.
Plannable(c) == journal = NoCommand /\ (c.op = "migrate" => meta.schema = 1)

\* inspectRecovery and planRecovery
RecoveryPlans ==
    {[NewCommand EXCEPT !.op = "recover", !.step = "planned", !.interrupted = n]
     : n \in {journal} \cap {k \in Commands : checkpoint[k] # NoMeta}}

Next1(n) == At(n, "new") /\ \A k \in Commands : k < n => ~At(k, "new")
Room == Cardinality({n \in Commands : Alive(n)}) < MaxBeside

BeginUpdate(n) ==
    /\ Next1(n) /\ Room
    /\ \E c \in UpdatePlans : Plannable(c) /\ Become(n, c)
    /\ Look

BeginRecovery(n) ==
    /\ Next1(n) /\ Room
    /\ \E c \in RecoveryPlans : Become(n, c)
    /\ Look

\* The lifecycle authority for exactly this plan is used, or the command ends.
Consume(n) ==
    /\ At(n, "planned")
    /\ IF cmd[n].op = "recover"
       THEN /\ Become(n, [cmd[n] EXCEPT !.step = "reread", !.core = TRUE])
            /\ Cross(n) /\ UNCHANGED contended
       ELSE To(n, "exists") /\ Contend(n, cmd[n].target) /\ UNCHANGED crossed
    /\ KeepFiles /\ UNCHANGED unpaid

-----------------------------------------------------------------------------
(* prepareProtectedRuntime: a release not there yet needs an authorization *)
(* of its own, given and used before anything is installed.                *)

TargetExists(n) ==
    /\ At(n, "exists")
    /\ To(n, IF release[cmd[n].target] = "absent" THEN "authorize" ELSE "existed")
    /\ Look

\* ensureReleaseAuthorizationGuardianAuthority: a person grants one unless there is one.
EnsureAuthorized(n) ==
    /\ At(n, "authorize")
    /\ authorized' = authorized \cup {cmd[n].target}
    /\ To(n, "spend")
    /\ UNCHANGED <<release, pointer, trusted, projectVars, troubleVars, ghosts>>

\* assertReleaseAuthorized
Spend(n) ==
    /\ At(n, "spend")
    /\ IF cmd[n].target \in authorized
       THEN Become(n, [cmd[n] EXCEPT !.step = "existed", !.paid = TRUE])
       ELSE Throw(n)
    /\ authorized' = authorized \ {cmd[n].target}
    /\ UNCHANGED <<release, pointer, trusted, projectVars, troubleVars, ghosts>>

-----------------------------------------------------------------------------
(* installTrustedRuntime, and installVerifiedRuntime in it and on its own. *)

\* A bug: the release is taken for one that this command has installed.
BugExistedBefore(n) ==
    /\ At(n, "existed")
    /\ Become(n, [cmd[n] EXCEPT !.step = "install", !.existed = FALSE])
    /\ Look

ExistedBefore(n) ==
    /\ At(n, "existed")
    /\ Become(n, [cmd[n] EXCEPT !.step = "install", !.existed = release[cmd[n].target] # "absent"])
    /\ Look

\* An installed release is used as it is; a new one is made in a staging directory.
Install(n) ==
    /\ At(n, "install")
    /\ CASE release[cmd[n].target] = "absent" -> To(n, "promote")
         [] release[cmd[n].target] = "whole"  -> To(n, "evidence")
         [] OTHER                             -> Throw(n)
    /\ Look

\* The staging directory is renamed; a directory in its place makes that throw.
Promote(n) ==
    /\ At(n, "promote")
    /\ IF release[cmd[n].target] = "absent"
       THEN /\ release' = [release EXCEPT ![cmd[n].target] = "whole"]
            /\ unpaid' = IF cmd[n].paid THEN unpaid ELSE unpaid \cup {cmd[n].target}
            /\ Become(n, [cmd[n] EXCEPT !.step = "evidence", !.paid = FALSE])
       ELSE Throw(n) /\ UNCHANGED <<release, unpaid>>
    /\ UNCHANGED <<pointer, authorized, trusted, projectVars, troubleVars, contended, crossed>>

\* assertReleaseEvidence and inspectInstalledRoot of the release in place
Evidence(n) ==
    /\ At(n, "evidence")
    /\ IF ~Whole(cmd[n].target) THEN Throw(n)
       ELSE To(n, IF ~cmd[n].core THEN "trust"
                  ELSE IF cmd[n].op = "update" THEN "recheck" ELSE "previous")
    /\ Look

\* establishRuntimeTrust: a person grants it unless it is there.
Trust(n) ==
    /\ At(n, "trust")
    /\ IF Whole(cmd[n].target)
       THEN trusted' = trusted \cup {cmd[n].target} /\ To(n, "attest")
       ELSE UNCHANGED trusted /\ Throw(n)
    /\ UNCHANGED <<release, pointer, authorized, projectVars, troubleVars, ghosts>>

\* assertRuntimeTrusted and attestCli; applyNormalUpdate or applyMigrationUpdate follows.
Attest(n) ==
    /\ At(n, "attest")
    /\ IF Whole(cmd[n].target)
       THEN /\ Become(n, [cmd[n] EXCEPT !.step = "check", !.core = TRUE, !.existed = FALSE, !.paid = FALSE])
            /\ Cross(n)
       ELSE Throw(n) /\ UNCHANGED crossed
    /\ KeepFiles /\ UNCHANGED <<contended, unpaid>>

\* The release this command did not find is removed, file by file.
Discard(n) ==
    /\ At(n, "discard")
    /\ IF Whole(cmd[n].target)
       THEN release' = [release EXCEPT ![cmd[n].target] = "torn"] /\ To(n, "remove")
       ELSE To(n, "remove") /\ UNCHANGED release
    /\ UNCHANGED <<pointer, authorized, trusted, projectVars, troubleVars, ghosts>>

Remove(n) ==
    /\ At(n, "remove")
    /\ release' = [release EXCEPT ![cmd[n].target] = "absent"]
    /\ Finish(n)
    /\ UNCHANGED <<pointer, authorized, trusted, projectVars, troubleVars, ghosts>>

-----------------------------------------------------------------------------
(* applyNormalUpdate, and the first steps of applyMigrationUpdate.         *)

\* The plan is compared with the project, and the documents are remembered.
Check(n) ==
    /\ At(n, "check")
    /\ IF Current(n) /\ (cmd[n].op = "migrate" => meta.schema = 1)
       THEN Become(n, [cmd[n] EXCEPT !.step = "install", !.stale = FALSE])
       ELSE Throw(n)
    /\ Contend(n, cmd[n].target)
    /\ KeepFiles /\ UNCHANGED <<crossed, unpaid>>

Recheck(n) ==
    /\ At(n, "recheck")
    /\ IF Current(n) /\ ~cmd[n].stale THEN To(n, "previous") ELSE Throw(n)
    /\ Look

Previous(n) ==
    /\ At(n, "previous")
    /\ IF PointerReadable
       THEN Become(n, [cmd[n] EXCEPT !.previous = pointer,
                          !.step = IF cmd[n].op = "update" THEN "activate" ELSE "checkpoint"])
       ELSE Throw(n)
    /\ Look

\* activateInstalledRuntime
Activate(n) ==
    /\ At(n, "activate")
    /\ IF Whole(cmd[n].target)
       THEN /\ pointer' = cmd[n].target
            /\ Become(n, [cmd[n] EXCEPT !.changed = TRUE,
                             !.step = IF cmd[n].op = "update" THEN "confirm" ELSE "draft"])
       ELSE UNCHANGED pointer /\ Throw(n)
    /\ UNCHANGED <<release, authorized, trusted, projectVars, troubleVars, ghosts>>

Confirm(n) ==
    /\ At(n, "confirm")
    /\ IF Current(n) /\ ~cmd[n].stale THEN To(n, "draft") ELSE Throw(n)
    /\ Look

\* updateFrameworkLifecycle: what it read is written back with the new version.
Draft(n) ==
    /\ At(n, "draft")
    /\ Become(n, [cmd[n] EXCEPT !.step = "pin", !.draft = meta])
    /\ Look

\* A command that looked before metadata.json was written acts on what it saw.
WriteMeta(n, m, c) ==
    /\ meta' = m
    /\ cmd' = [k \in Commands |-> IF k = n THEN c
                                  ELSE IF cmd[k].op = "run" /\ Alive(k) THEN [cmd[k] EXCEPT !.stale = TRUE]
                                  ELSE cmd[k]]

Pin(n) ==
    /\ At(n, "pin")
    /\ WriteMeta(n, [cmd[n].draft EXCEPT !.version = cmd[n].target],
                 IF cmd[n].op = "update" THEN Over ELSE [cmd[n] EXCEPT !.step = "verify", !.draft = NoMeta])
    /\ UNCHANGED <<runtimeVars, journal, checkpoint, troubleVars, ghosts>>

\* restoreActiveRuntimePointer throws when the previous release is not whole.
Restore(n) ==
    /\ At(n, "restore")
    /\ IF cmd[n].previous = NoRelease \/ Whole(cmd[n].previous)
       THEN /\ pointer' = cmd[n].previous
            /\ IF cmd[n].op = "update" THEN Finish(n) ELSE To(n, "swap")
       ELSE UNCHANGED pointer /\ Throw(n)
    /\ UNCHANGED <<release, authorized, trusted, projectVars, troubleVars, ghosts>>

-----------------------------------------------------------------------------
(* applyMigrationUpdate.                                                   *)

\* The copy of the Project Brain; one that is not of the source is not used.
Checkpoint(n) ==
    /\ At(n, "checkpoint")
    /\ checkpoint' = [checkpoint EXCEPT ![n] = meta]
    /\ IF meta = [version |-> cmd[n].source, schema |-> 1] THEN To(n, "open") ELSE Throw(n)
    /\ UNCHANGED <<runtimeVars, meta, journal, troubleVars, ghosts>>

\* The journal is written twice, "checkpointed" and "applying".
Open(n) ==
    /\ At(n, "open")
    /\ journal' = n /\ To(n, "copy")
    /\ UNCHANGED <<runtimeVars, meta, checkpoint, troubleVars, ghosts>>

Copy(n) ==
    /\ At(n, "copy")
    /\ Become(n, [cmd[n] EXCEPT !.step = "change", !.draft = meta])
    /\ Look

Change(n) ==
    /\ At(n, "change")
    /\ WriteMeta(n, [cmd[n].draft EXCEPT !.schema = 2], [cmd[n] EXCEPT !.step = "validate", !.draft = NoMeta])
    /\ UNCHANGED <<runtimeVars, journal, checkpoint, troubleVars, ghosts>>

\* The journal says "validating".
Validate(n) ==
    /\ At(n, "validate")
    /\ journal' = n
    /\ IF meta.schema = 2 THEN To(n, "activate") ELSE Throw(n)
    /\ UNCHANGED <<runtimeVars, meta, checkpoint, troubleVars, ghosts>>

Verify(n) ==
    /\ At(n, "verify")
    /\ IF meta = [version |-> cmd[n].target, schema |-> 2] THEN To(n, "close") ELSE Throw(n)
    /\ Look

Close(n) ==
    /\ At(n, "close")
    /\ journal' = NoCommand /\ To(n, "clean")
    /\ UNCHANGED <<runtimeVars, meta, checkpoint, troubleVars, ghosts>>

DropCheckpoint(n) == checkpoint' = [checkpoint EXCEPT ![n] = NoMeta]

Clean(n) ==
    /\ At(n, "clean")
    /\ DropCheckpoint(n) /\ Finish(n)
    /\ UNCHANGED <<runtimeVars, meta, journal, troubleVars, ghosts>>

\* A bug: the checkpoint is not looked at before it replaces the Project Brain.
BugSwap(n) ==
    /\ At(n, "swap")
    /\ WriteMeta(n, checkpoint[n], [cmd[n] EXCEPT !.step = "failed"])
    /\ journal' = NoCommand
    /\ UNCHANGED <<runtimeVars, checkpoint, troubleVars, ghosts>>

\* restoreCheckpointSafely: the journal is in the Project Brain that is swapped.
Swap(n) ==
    /\ At(n, "swap")
    /\ IF checkpoint[n] = NoMeta THEN UNCHANGED <<meta, journal>> /\ Throw(n)
       ELSE /\ WriteMeta(n, checkpoint[n], [cmd[n] EXCEPT !.step = "failed"])
            /\ journal' = NoCommand
    /\ UNCHANGED <<runtimeVars, checkpoint, troubleVars, ghosts>>

\* The journal says "failed", and the checkpoint goes.
Failed(n) ==
    /\ At(n, "failed")
    /\ journal' = NoCommand /\ DropCheckpoint(n) /\ Finish(n)
    /\ UNCHANGED <<runtimeVars, meta, troubleVars, ghosts>>

\* The rollback threw: the journal says "recovery-required".
Stuck(n) ==
    /\ At(n, "stuck")
    /\ journal' = n /\ Finish(n)
    /\ UNCHANGED <<runtimeVars, meta, checkpoint, troubleVars, ghosts>>

-----------------------------------------------------------------------------
(* applyRecovery: the Project Brain of the checkpoint, not the pointer.    *)

Reread(n) ==
    /\ At(n, "reread")
    /\ IF journal = cmd[n].interrupted /\ checkpoint[journal] # NoMeta THEN To(n, "rewind") ELSE Throw(n)
    /\ Look

Rewind(n) ==
    /\ At(n, "rewind")
    /\ IF checkpoint[cmd[n].interrupted] = NoMeta THEN UNCHANGED projectVars /\ Throw(n)
       ELSE /\ WriteMeta(n, checkpoint[cmd[n].interrupted], Over)
            /\ journal' = NoCommand
            /\ DropCheckpoint(cmd[n].interrupted)
    /\ UNCHANGED <<runtimeVars, troubleVars, ghosts>>

-----------------------------------------------------------------------------
(* delegateToActiveRuntime.                                                *)

\* readTrustedActiveRuntimePointer: a command that cannot read it ends.
BeginRun(n) ==
    /\ Next1(n) /\ Room
    /\ pointer # NoRelease /\ PointerReadable /\ pointer \in trusted
    /\ Become(n, [NewCommand EXCEPT !.step = "status", !.source = pointer])
    /\ Look

\* A runtime runs only when the project is pinned to it.
Status(n) ==
    /\ At(n, "status")
    /\ IF meta.version = cmd[n].source
       THEN Become(n, [cmd[n] EXCEPT !.step = "spawn", !.stale = FALSE])
       ELSE Throw(n)
    /\ Look

Spawn(n) == At(n, "spawn") /\ Finish(n) /\ Look

-----------------------------------------------------------------------------
(* The environment.                                                        *)

Trouble == faults + deaths < MaxTrouble

\* Any file access, child process or person may fail a step.
Fault(n) ==
    /\ Alive(n) /\ Trouble
    /\ Throw(n)
    /\ faults' = faults + 1
    /\ UNCHANGED <<runtimeVars, projectVars, deaths, ghosts>>

\* Somebody edits a document that is part of the project.
Edit ==
    /\ Trouble /\ \E n \in Commands : cmd[n].op = "update" /\ cmd[n].core
    /\ cmd' = [n \in Commands |-> IF cmd[n].op = "update" /\ cmd[n].core
                                  THEN [cmd[n] EXCEPT !.stale = TRUE] ELSE cmd[n]]
    /\ faults' = faults + 1
    /\ UNCHANGED <<runtimeVars, projectVars, deaths, ghosts>>

Die(n) ==
    /\ Alive(n) /\ Trouble
    /\ Finish(n)
    /\ deaths' = deaths + 1
    /\ UNCHANGED <<runtimeVars, projectVars, faults, ghosts>>

Step(n) ==
    \/ Consume(n) \/ TargetExists(n) \/ EnsureAuthorized(n) \/ Spend(n)
    \/ ExistedBefore(n) \/ Install(n) \/ Promote(n) \/ Evidence(n) \/ Trust(n) \/ Attest(n)
    \/ Discard(n) \/ Remove(n)
    \/ Check(n) \/ Recheck(n) \/ Previous(n) \/ Activate(n) \/ Confirm(n) \/ Draft(n) \/ Pin(n) \/ Restore(n)
    \/ Checkpoint(n) \/ Open(n) \/ Copy(n) \/ Change(n) \/ Validate(n) \/ Verify(n) \/ Close(n) \/ Clean(n)
    \/ Swap(n) \/ Failed(n) \/ Stuck(n)
    \/ Reread(n) \/ Rewind(n)
    \/ Status(n) \/ Spawn(n)

Next ==
    \/ \E n \in Commands :
          BeginUpdate(n) \/ BeginRecovery(n) \/ BeginRun(n) \/ Step(n) \/ Fault(n) \/ Die(n)
    \/ Edit

Spec == Init /\ [][Next]_vars

-----------------------------------------------------------------------------
(* Properties.                                                             *)

\* The release active.json names is there, whole, whatever failed or died in
\* between: an installation that fails removes no release but its own
\* (installTrustedRuntime), unless two commands installed that release at a time.
PointedIsWhole == pointer \notin contended => PointerReadable

\* Every release that a command put in place used an authorization given for it
\* (prepareProtectedRuntime, release-authorization), with the same exception.
FreshIsAuthorized == unpaid \subseteq contended

\* So what the pointer names may be trusted: it is whole, and it was authorized.
PointedIsTrusted == PointedIsWhole /\ FreshIsAuthorized

\* The pin moves to a newer release, which the pointer already names, or back to
\* a checkpoint (applyNormalUpdate, applyMigrationUpdate), unless two commands
\* changed the project at a time.
PinFollowsPointer ==
    [][crossed' \/ meta'.version = meta.version
       \/ (Newer(meta'.version, meta.version) /\ pointer = meta'.version)
       \/ (\E n \in Commands : meta' = checkpoint[n])]_vars

\* The schema of the Project Brain is that of the release it is pinned to, unless
\* a migration is recorded as interrupted: what updateFrameworkLifecycle writes
\* back has lost no migration, nor has a rollback lost the release.
SchemaOfPin == crossed \/ journal # NoCommand \/ meta.schema = Schema(meta.version)

\* A command delegates to the release the project was pinned to when it looked: a
\* pointer that is ahead of the pin has no execution authority (update.ts).
RunsThePin == \A n \in Commands : At(n, "spawn") => cmd[n].stale \/ cmd[n].source = meta.version

\* So the pin tells both what the documents are and what runs.
PinIsHonoured == SchemaOfPin /\ RunsThePin

\* One failure of one command leaves no trace in the pointer and the journal: when
\* all are over, active.json names the pinned release, if any.
FailureRestores ==
    (\A n \in Commands : ~Alive(n)) /\ faults < 2 /\ deaths = 0 /\ ~crossed /\ contended = {} =>
        journal = NoCommand /\ pointer \in {NoRelease, meta.version}
====
