# A formal model of Livariant

TLA+ modules, TLC runs and TLAPS proofs about Livariant: what happens to a Project
Brain, to the authority to change it, to the runtime that works on it and to the
state of the Desktop when an operation is interrupted, repeated or raced.
`PROJECT.json` lists the runs, the mutants that show that each property can fail, the
source lines every definition stands for, the hazards of the code and the theorems.

## The system

Livariant keeps a project's canonical knowledge in a directory `.project-brain`
and works on it with a command line (`src/src`, TypeScript), an MCP server, a
protected *Guardian* helper that runs with elevated rights, and a desktop
application (`src/apps/desktop`, Rust and TypeScript). There is no server and no
database: every component keeps its state in files, several processes share them,
and nearly every protocol is "read, decide, write a candidate, compare, rename".

| Component | State | Operations | Interacts with | Hard behaviour |
|---|---|---|---|---|
| Schema migration, recovery (`lifecycle/`) | the tree, checkpoint, candidate and displaced trees, `.lifecycle` journal | plan and apply a migration, automatic rollback, inspect, plan and apply a recovery | Project Brain store, runtime pointer, status | crash at every step, throwing cleanups, damaged checkpoints |
| Semantic authorization and apply (`runtime/authorization`, `semantic-apply*`) | `active.json`, history records, machine-local receipts and lock | authorize, apply, reconcile, align a failure, report | Guardian records, documents, local integrity | two kinds of evidence that a crash separates; concurrent applies; repeated commands |
| Guardian Authority (`guardian/`) | one file per record and consumer, protected by the operating system | issue, select, expire, consume | every authorized operation | check-then-rename, torn records, ambiguous duplicates |
| Normal update, runtime installation (`lifecycle/update`, `distribution/`) | releases, active pointer, framework pin | plan, install by staging and rename, activate, commit the pin | store, Guardian | pointer ahead of pin, concurrent edits |
| Project Brain store, canonical changes (`project-brain/`, `runtime/canonical-*`) | documents, metadata | inspect, bootstrap, compare-and-replace, lifecycle metadata | all | lost updates between compare and rename |
| Integrity (`project-brain/*integrity`, `runtime/protected-*`) | local receipt, Guardian acceptance | inspect, accept, gate | Guardian, apply, lifecycle | stale acceptance |
| Proposals, provider returns, maintenance | none that persists | build, revalidate | apply | stale baselines |
| Adoption, first run, source registry (`project/`, `project_*.rs`) | request, input and presentation of a project; review and authorization handoff files | tell sources, observe, review, present, adopt | apply, Desktop | workers on copies, replacements by two renames, one-shot handoffs |
| Findings, autonomy, verification trace | one machine-local autonomy profile | scan, read and write the profile, assess supplied evidence | command line, MCP server | a profile that is replaced while it is read |
| Connectors, diagnostics (`connectors/`, `diagnostics/`) | host session, connection intent, event log, measurements; sessions' observations, decisions and bindings | connect, restore, measure, append; observe, reconcile, decide | Desktop | state used after an await, files replaced by several writers |
| MCP server (`mcp/`) | the gate of its process, the handshake, the contexts it issued | context, return, verification trace | provider contexts, Project Brain, session observations | documents that change between the reads of one call; repeated returns; a new process |
| Desktop registry, migration, updater, broadcasts, telemetry (Rust) | registry file and backup, project namespaces | register, activate, detach, migrate a legacy project, update | connectors, first run | crash between backup and rename, stale generations |
| Desktop user interface (`apps/desktop/src`) | what it shows and of which project, refreshes under way, generations | load, refresh, confirm, click | every command of the Desktop | answers that arrive late or in another order |

What makes them correct:

* *Lifecycle*: the source tree with every accepted edit, or the committed target,
  is always whole on the disk; an incomplete operation never looks fresh or
  healthy; an open journal can always be recovered; the pin never runs ahead of
  the runtime.
* *Apply*: nothing enters the documents without a consumed one-shot authority; an
  authorization is spent once and settled once; the two pieces of evidence agree;
  an interrupted apply can be resumed; no report denies a change that was made.
* *Guardian*: one record authorizes one operation; an ambiguous or unreadable
  store refuses.
* *Update*: the pin is the commit point; a failure before it restores the pointer.
* *Integrity*: only accepted states pass the gate.
* *Desktop registry*: a crash leaves the registry or its backup; work for a project
  that is no longer active is refused.
* *Desktop*: what the window shows is of the project it names; nothing is protected as
  the user's that the user did not accept; a stored choice is the user's last; what was
  measured or observed is attributed to the project it belongs to.

## Modules

| Module | What it is |
|---|---|
| `Migration` | `applyMigrationUpdate`, `restoreCheckpointSafely`, `inspectRecovery`, `planRecovery`, `applyRecovery`; its properties |
| `UpdateContract` | what an update promises the user of `getStatus`: `Migration` implements it |
| `MigrationInvariant`, `MigrationProofs` | the inductive invariant of `Migration`, and the theorems about it |
| `SemanticApply` | authorize and apply, the Guardian records they use, the report; its properties |
| `SemanticApplyInvariant`, `SemanticApplyProofs` | the inductive invariant of `SemanticApply`, and the theorems about it |
| `ApplyContract` | what a one-shot authorization promises: `SemanticApply` implements it for one process |
| `GuardianRoot` | the protected root: its provisioning, the repair of its access lists, the replacement of its helper |
| `GuardianAuthority` | the authority records: the calls of ordinary processes and the privileged helpers they start; extends `GuardianRoot` |
| `GuardianInvariant`, `GuardianProofs` | the inductive invariant of the root and the records, and the theorems about them |
| `SemVer` | the order of versions an update is chosen by |
| `RuntimeInstallation` | the installed releases, the active pointer, what the Guardian keeps of them, and the choice of an update |
| `ProtectedUpdate` | update, migrate, recover and any delegated command as processes; extends `RuntimeInstallation` |
| `ProtectedUpdateInvariant`, `ProtectedUpdateProofs` | the inductive invariant of `ProtectedUpdate`, and the theorems about it |
| `DesktopRegistry` | the registry of the Desktop's projects, its two renames and its reading |
| `DesktopProjects` | the start of the Desktop, its project commands and the jobs of its workers; extends `DesktopRegistry` |
| `OperatorBroadcast` | signed operator documents: update blocks, live notices, sequence numbers |
| `DesktopUpdater` | checks, installations and the notification center; extends `OperatorBroadcast` |
| `Connections` | the Codex connection: commands, the restoring thread, the connector host, intents, measured usage |
| `SourceReview` | the first run: the sources told of a project, their observation, review and presentation |
| `ProjectKnowledge` | the confirmed knowledge the window shows, its proposals and its protection |
| `ProviderSessions` | which project a provider's session belongs to: evidence, decisions, reconciliations |
| `AgentBridge` | the MCP server: what an agent is told of a project and what becomes of what it returns; extends `ProjectKnowledge`, whose documents it reads |
| `DesktopInvariant` | the inductive invariants of the Desktop's parts |
| `DesktopProjectsProofs` | the theorems about the projects and the updates |
| `DesktopKnowledgeProofs` | the theorems about the review, the knowledge and the agent's server |
| `DesktopProviderProofs` | the theorems about the connection and the sessions |
| `DesktopProofs` | what every part holds, from all of them |
| `Desktop` | the process of the Desktop, composed of its parts, with the server of the agent beside it |
| `MCMigration`, `MCSemanticApply`, `MCGuardian`, `MCProtectedUpdate`, `MCDesktop` | the instances TLC checks |
| `MCAgentBridge` | the agent's server by itself, for what is promised of its contexts |

Definitions whose names begin with `Bug` are variants with a plausible defect. No
action uses them; substituted for the definition that follows them they make a
property fail.

### Migration

A tree is a record of what the lifecycle can tell about a directory: its metadata
(`source`: schema 1; `migrated`: schema 2 with the old pin; `target`: schema 2 with
the new pin; `damaged`; `absent`), its documents, as the number of edits they hold,
and its journal. `brain`, `checkpoint`, `candidate` and `displaced` are the trees at
the four kinds of path; `pointer` is the version `active.json` of the managed
runtime names. `pc` is the next durable effect of the running process; the code
between two effects only reads and is part of the step that uses what it read.
`Handler` is the exception structure of the code: where each step's exception leads,
through catch and finally blocks. Steps whose recursive copy or removal does not
finish leave a torn tree (`Torn`, `InFlight`): some required files gone or not, the
journal directory gone or not.

`Throw` and `Crash` may strike at every step. `EditDocs` is project work, which asks
for a healthy project; it runs between lifecycle operations. `TamperCheckpoint` is
damage from outside. `FailingCleanups` names the cleanups after the point of success
that may throw, because two of them break the protocol (see Findings).

### SemanticApply

`doc` is the managed documents (is the proposed statement in them, how many edits by
hand), `accepted` the local integrity receipt; `active`, `history`, `temps` and
`litter` are the directory `.authorizations`; `machine` and `lock` the machine-local
receipts; `records`, `gtemps` and `glitter` the Guardian store of this consumer. Each
process has a step, the authorization it works on, the record it consumes and the
terminal state it is heading for. One action is one access to a shared file; a
read-compare-rename is two steps (`Compare`, `Replace`), since nothing in the code
makes it one. Reads that follow each other are one step where only the last can
matter: they read the same file and fail the same way. The documents never return to
the baseline of the proposal, so checking the baseline once at the end of such a
sequence refuses whatever an earlier check would have refused.

`Handler`, `Raise` and `Check` are the exception structure; an exception in the
middle of a completion turns it into a failure, as `applyActionableProposal` does.
`Throw`, `Crash` and `Tear` are failures: a failing process removes its candidate
file and releases its lock, a dead one leaves both, and a `writeFile` in place that
does not finish leaves a file nobody can parse. `Expire` is the ten minutes of a
one-shot record, at any time. `Edit` is an editor.

The project has one proposal. Its plan fixes the identities of the decisions it
writes, so applying it gives the same documents whoever does it. The protected
integrity of the baseline is assumed when the work begins.

### GuardianRoot, GuardianAuthority

`root` is the protected directory: the helper, the descriptor that carries its digest,
the directory of records, and the access list of the two leaf files ("broken" is the
historical defect that `recover` repairs). A privileged operation (`task`) provisions
it, repairs it or replaces the helper, one file access per action; `Handler` says
where an exception leads. The access lists of the two files change together.

A record file is absent, torn, active or consumed. A call is one issuance or
consumption and the helper process it may start: the helper outlives a call that gives
up (on Windows after five minutes), asks a person, and writes. The clock passes and may be set
back. `confirmed`, `spent`, `raced` and `overlapped` are history for the properties.
The receipt by which the Desktop stands for the consent of a person is part of
`Confirm`.

### RuntimeInstallation, ProtectedUpdate

A release is its version, and its tree absent, whole or torn. `pointer` is
`active.json`, `authorized` and `trusted` what the Guardian keeps, `meta` the pinned
version and the schema, `journal` the command whose migration is recorded as
interrupted. A command is a process with its step and what it has read so far; no lock
excludes a second one, so their file accesses interleave. A manifest is any set of
releases, and may differ from command to command. The swap of the Project Brain, which
`Migration` models in its steps, is one step here; the Guardian's consumption succeeds
or throws. `localeCompare`, which orders prerelease identifiers, is taken as a rank.

### DesktopRegistry, DesktopProjects

`registry` and `backup` are the registry file and what the first of the two renames
sets aside; `dir` the state directory of a project; `legacy` the files of the version
that had one project; `stage` the staging of its import; `source` and `brain` the
Project Brain in the checkout and in the state directory. The main thread runs the
commands one after another, as Tauri does with synchronous ones; asynchronous ones are
`job`s of workers, and take the mutex only for their replacement. A project is named
by the root of its checkout. Every rename is a step; file operations fail and the
process dies between any two (`trouble`). One instance runs: the only bundle is the
Windows installer, whose single-instance guard the code relies on.

### OperatorBroadcast, DesktopUpdater

`accepted`, `blocks` and `notices` are the three stores of the pipeline and `pass` is
the document the background thread is at. A store is replaced by a removal and a
rename, so that between them it reads as empty. `replies` are the reads of the window
that are not yet answered. `committed`, `replaced` and `announced` remember, for the
properties, which documents were accepted and which one wrote each block and each notice
last. `ui` is the check or installation the window waits for;
`center` and `temp` are the notification center and the temporary file its two writers
share.

### Connections

`intent` is `connections/codex.json` of each project, `oldIntent` that of the version
without projects; `host` is the spawned connector host with its session, sequencer and
queue of appends; `call` is what the main thread and the restoring thread are at. A
mutex lets one request at a time reach the host, and a request that fails costs the
host its life. `log` and `measured` are the diagnostic log and the measurement state
of each project. The usage of a measurement is a count that grows.

### SourceReview

`request`, `input` and `presentation` are the three files of a project: what the user
told, its projection with what was observed, and what the window is shown. `setup` is
the main thread between the two files it replaces (`first_run_project_state.rs`), `flow`
the calls of the window, which a worker answers from a whole copy of the input
(`project_review_selection.rs`, `project_source_observation.rs`). `lock` is the mutex of
the registry, held during the two renames of a replacement. `window` holds the
generation by which `project-source-review-bridge.ts` drops late answers. A state of the
repositories is a model value; what Git says of one is a function of it.

### ProjectKnowledge

`document` is the content of a project's documents, `receipt` the local receipt,
`guarded` and `proven` the contents with a baseline Authority or a completed change's
consumed one. A `task` is a command of the window with the process it runs
(`desktop-project-knowledge.ts`, started by `project_knowledge_bridge.rs`) and the steps
of `main.ts` that follow its answer; the active project is compared before and after a
process, and read again where the code does. `desk` is what `main.ts` keeps: what is
shown, the protection card, the proposal, the refresh under way. The documents may be
edited between any two steps. The apply, which `SemanticApply` models in its steps, is
its check, rename, verification and receipt here.

### ProviderSessions

One session: of Codex, known from `catalog`, or of a provider whose hooks tell of it.
`spool` is what was observed, `decisions` the user's assignments, `stored` and `scratch`
the bindings file and the temporary file that every reconciliation of the process
shares. `recons` are the background thread and the refreshes of the window, `order` the
command of the main thread on the decisions, `view` the diagnostics
(`provider_session_reconciliation.rs`, `diagnostics-cockpit.ts`). The binding itself is
a chain of operators after `provider-project-binding.ts` and the two reconciliation
programs. A place is the set of projects whose checkouts contain it, or lie in it where
the code looks at both; the longest path decides among nested ones.

### AgentBridge

`server` is the process a host starts in a project: what the gate said of that project,
once and for all, and how far the handshake is. `queue` holds the lines, which are taken
one after the other; `work` is the tool call under way. A context is read in four steps
(doctor, documents, documents again, doctor) and a return reads in the same four, up to
three times; the documents may be edited, accepted or protected between any two.
`issuances` is the map `issuedProviderContexts`: an entry is replaced by the next issue
of its packet id, and spent by the first return. `contexts`, `returns` and `candidates`
are what was issued, processed and prepared (`mcp/server.ts`, `context-snapshot.ts`,
`provider-return.ts`, `semantic-maintenance.ts`). Two checkouts may share their logical
identity (`twins`).

### Desktop

The parts share the process and its death, but no file and no lock, so each is looked
at alone: `part` is drawn once.

## Runs

| Run | Shows | Bounds |
|---|---|---|
| `MigrationCrash` | safety of migration, rollback and recovery; refinement of `UpdateContract`; every interruption ends | 3 identities, 1 edit, 2 crashes, 2 exceptions, 1 damage |
| `MigrationLateCleanup` | what survives when every late cleanup may throw | 3 identities, 1 crash, 3 exceptions, no edit |
| `MigrationUndoneRollback` | violation: a late exception undoes a verified rollback | |
| `MigrationCleanupReopens` | violation: a late exception re-opens a closed journal | |
| `SemanticApplyRace` | consistency of the evidence under two processes | 2 processes, 2 authorizations, 2 records, 1 crash, 1 exception |
| `SemanticApplySolo` | refinement of `ApplyContract`; interrupted applies resume | 1 process, 2 authorizations, 2 records, 1 edit, 2 crashes, 1 exception |
| `SemanticApplyTwoConsumers` | violation: two processes past one consumption | 2 processes, no failure |
| `SemanticApplyNotApplied` | violation: a completed apply reported as not applied | 1 process, 1 edit, 1 exception |
| `AgentContext` | violation: a server tells the context of another project than its own, and of documents that were edited and put back meanwhile | 2 projects, 2 contents, 1 call, 2 changes |
| `Guardian` | authority is confirmed and used once, or the store refuses with a known cause; upgrades and repairs of the root; every call returns | 2 helper builds, 2 privileged terminals, 2 operations on the root, 2 calls, 3 records, 2 materials (one-shot and persistent), 2 troubles |
| `ProtectedUpdate` | what the pointer names, the pin and the schema agree, failures restore, under two commands at once | 3 releases, 3 commands, 2 at a time, 2 troubles |
| `Desktop` | the six parts of the Desktop, and the server of an agent, each by itself: projects, updates with the operator's documents, connection, review, knowledge, sessions, agent | projects: 2 checkouts, 1 worker, 3 activations, 2 troubles; updates: 3 documents, 2 blocks, 1 notice, 1 reply, 1 trouble; connection: 2 projects, 1 switch, 2 choices, 1 measurement, 1 fault; review: 2 projects, 2 states of the sources, 2 calls, 4 turns, 1 mishap; knowledge: 2 projects, 2 contents, 2 tasks, 4 moves; sessions: 2 nested checkouts, 1 refresh beside the background thread, 2 deeds; agent: 2 projects, 2 contents, 2 threads, 3 calls, 2 changes |

Why the bounds are enough. Three identities are one migration, a recovery of it and
one more of either; two crashes and two exceptions let the rollback and the recovery
of a failed operation fail too, which is the depth at which their cleanups meet each
other. One edit tells a tree with the accepted work from one without. Two processes
are what the comparisons and the lock are about; two authorizations and two records
let one be spent, failed or expired while another exists. Unused bounds are not
hidden: identities are drawn once, as random identifiers are, and the models stop
when they run out, so deadlock is not checked.

In `Guardian`, two calls and two operations on the root are what overlaps, and two at a
time (`MaxBeside`) is what every race in it needs; the third record lets one be issued
beside an ambiguous pair. In `ProtectedUpdate`, release `two` has another schema, so
updating to it is a migration, and `rc` is a prerelease of it; the third command starts
after two have crossed. In `Desktop`, what goes wrong counts against the activations of
a session (`Generations`): three, by which a project becomes active again after another,
where nothing goes wrong, and one or none after a trouble or two. The
documents have a block that a later one takes over, a notice that ends, and a notice for
another version. The second project is what a late answer could land in; which project is
active first does not matter, and the beginnings in which a connection is measured have
no shims and no old intent. Beginnings with a measurement or an old choice allow one new
choice, the others two. Four turns of a review are sources told, a project
left and come back to, and a call; two calls overlap, and one mishap is what each cause
in its properties names. Four moves of the knowledge are an edit, a switch and two
commands. In `ProviderSessions` deeds count what the user and the providers do together
with what goes wrong: an observation and a decision, or either beside a death;
reconciliations are not counted. Its session begins with the evidence of `Desktop`'s
`Init`, a decision for the other project among it; that every evidence is decided
rightly is a conjunct of the property over all catalogs, observations and decisions
(`BindingsAgree`). In `AgentBridge` three calls are a context, its return and the return
once more, or two contexts and a return; two changes are an edit that is undone, or an
edit and a restart. A state is told by the variables of its part (`VIEW`), since the
others keep their first values.

Liveness. `MigrationCrash` assumes that a running process keeps running unless it dies
(weak fairness of its steps) and that an operator answers an interrupted migration with
`recover --apply` (weak fairness of starting a recovery; the identities of recoveries
bound how often, which `InterruptionEnds` excepts, as it does a checkpoint that was
damaged from outside). Identities are interchangeable; as liveness excludes symmetry,
they are drawn in one order (`InOrder`). `SemanticApplySolo` assumes the same of the
process, and strong fairness of repeating an apply: the person who authorized a change
tries again until it is done. It is strong because a process that runs meanwhile
disables it. `InterruptionResumes` asks only of an authorization whose process left
neither the lock nor a candidate file behind and whose documents are as they were:
everything else the code refuses on purpose, for a person to look at. `CallsReturn` of
`Guardian` assumes weak fairness of each call's own steps and of its helper's; nobody
has to confirm anything, since the launcher of Windows gives up after five minutes
(`privileged-helper.ts:135`). With `sudo` (`:70`) there is no such limit: the call waits
until the user, at that terminal, answers or interrupts it, and there the step by which
the call gives up stands for the user's.

## Findings

1. `restoreCheckpointSafely` removes the displaced tree inside the block whose catch
   undoes the swap (`lifecycle/migration.ts:286`). If the removal throws half-way, the
   verified source is removed and the half-migrated tree, perhaps without its journal,
   comes back. `applyRecovery` has the same cleanup outside its undo block, with a
   comment that says why.
2. The removal of the checkpoint after a successful rollback is inside the block whose
   catch writes `recovery-required` (`lifecycle/migration.ts:431`): a restored project
   is blocked behind a journal whose checkpoint is torn.
3. `reconcilePreMutationAuthorization` takes the pair applying/applying for an
   interrupted apply (`runtime/semantic-apply-reconciliation.ts:244`), also when its
   process is alive. Two processes are then in the mutation; one of them may fail the
   authorization while the other renames the documents, so documents change under an
   authorization recorded as failed. `KeepsContract` is therefore checked for one
   process.
4. `classifyApplyFailure` does not look for a completed history record
   (`cli/apply-command.ts:31`): if accepting the new documents fails after completion,
   the command reports that nothing was applied.
5. A context is of the workspace that the host's call names, where it names one
   (`mcp/server.ts:402`), and not of the project path the server runs in, as
   `docs/mcp-agent-bridge.md:199` says. What the agent returns is reviewed against the
   server's project, so that it is never a proposal for the other one (`CandidateStands`).
6. `buildProjectContextSnapshot` compares two readings of the documents and asks the
   doctor before and after them (`runtime/context-snapshot.ts:167`). An edit after the
   first look that is undone before the last one is what both readings found: a clean
   snapshot of documents nobody accepted, although `docs/project-context-snapshot.md:45`
   promises none when the Project Brain changes meanwhile. `ToldIsAccepted` is what holds:
   it takes two edits in one call.

Findings 5 and 6 share the run `AgentContext`, whose property each of the two documents
implies by itself: TLC's counterexample is a context that keeps neither promise.

## What the models show besides

No document promises otherwise in these cases, so they are no findings, but for one
message of the window (see *Sessions*); each is a behaviour of the model, and the
properties name it as the cause of what they allow.

*Guardian.* A record whose consumption precedes its issuance, after the clock is set
back, is malformed, and then every call of its consumer refuses. Two issuances at once
leave two active records, and every later selection refuses as ambiguous. A helper that
dies leaves a torn record or its temporary file, which block their consumer for good.
If removing the second backup fails, an upgrade rolls back without the first, and the
root loses its helper.

*Updates.* When two commands install one release, the one that fails removes the tree
of the other, even when it is pinned. A release that is seen to exist needs no
authorization, and may be gone when it is installed: it is then installed anew without
one. A pointer to a release that is not whole makes every command but `update`,
`recover`, `version`, `help`, `status` and `doctor` fail, and none repairs it. Crossing
commands can lose a schema or a migration, and two faults can leave the pointer ahead of
the pin.

*Projects.* A death between the two renames of the registry, or before the first
registry after the first state directory, makes the registry unreadable for good. A
start that found a registry in need of recovery restores no last active project. A
death while the checkout's `.project-brain` is being removed leaves it torn, and its
activation is refused from then on; one between promotion and removal restores the
project, and the next apply makes its two Project Brains differ, so that the next
activation is refused. A project that is registered in the session that wrote the files
of the version without projects makes the next start ask for recovery. A death between
the two renames of `replace_staged_file` leaves the saved state under a random name.
Migrating with a registry that has no projects is unreachable.

*Updates of the Desktop.* A store that is read between its removal and its rename, or
after a death there, is empty: a blocked version is unblocked, accepted sequences are
forgotten, the notification center loses its records or a toast is shown twice. A block
is looked at before the download, which may take ten minutes, and not after it. A
document with a notice for another version of the client is refused whole, and its
blocks with it. Two writers of the notification center can lose the whole store.

*Connection.* The restoring thread brings the old intent in without the mutex, so that
its rename can overwrite the choice the user has just made. A death between its claim
and its rename loses the old intent. A host that answers with an error is killed, and
its Codex session with it. A death during an append tears the log, and every later
export fails and costs the connection; a death during a write of the measurement state
makes every later measurement fail. The restoring thread may replace the host of the
project that is active by then. A `codex --version` that hangs blocks the main thread.

*Agent.* The gate asks for the protection of the server's project, once per process; its
refusal lasts until the process ends, and contexts that follow ask for the local receipt
only.

*Review of sources.* A worker replaces the input by one made of the copy it read, so that
sources told meanwhile are undone, while the request still tells them (`overtaken`). A
death between the two files leaves an input without its request, or a new one beside the
old request; one between the renames of a file leaves it under a random name
(`unfinished`).

*Knowledge.* Documents that are edited between the check of their protection and their
reading are shown as confirmed (`slipped`). An answer that was made before an activation
and arrives after the window was told of it shows another project's areas until the next
refresh (`late`): the process compares the project, the window does not. A refresh that
was started earlier also clears the mark of the one under way.

*Sessions.* A decision is stored by removing the file and renaming its successor; a
death or a failure in between loses the decisions of every session (`forgotten`),
although the window then says "Existing assignments were kept"
(`diagnostics-cockpit.ts:662`). A session is assigned to the project that is active when
the command runs, which need not be the one shown (`strayed`). Two reconciliations share
a temporary name: one may rename the other's bindings, or remove them, until the next.
Refreshes are shown in the order they are answered. The observations are never trimmed:
past 16 MB, or with a torn line, every reconciliation fails from then on.

## Proofs

Eight modules hold theorems, four of them about the parts of the Desktop. The inductive
invariants they rest on are in modules beside them, in named parts; TLC checked every part on the instance of the runs
before it was proved. None of the properties is inductive by itself: they speak of files,
and what a step does to a file depends on where its process is and on what it has read.
Every inductive invariant therefore says three things: what holds of the files whoever
moves, what a process at a step may rely on, and what two processes cannot both be doing.
In all of them there is one lemma per action. The last steps combine these with `PTL`.

### Migration

`MigrationProofs` proves, for every set of identities and every bound:

* `TypeCorrect`, without further assumption;
* with `FailingCleanups = {}`, the hypothesis of every other theorem: the inductive
  invariant (`InvariantHolds`) and from it `NeverFresh`, `AlwaysRestorable`,
  `HealthyIsComplete`, `AlwaysRecoverable`, `PinAfterRuntime`, `CheckpointKept` and
  `ContractKept`, the refinement of `UpdateContract`.

The hypothesis is needed: the two violation runs are behaviours without it.

`BrainInv` says what the brain says about itself at any time (a migrated tree has its
journal open; a closed target is committed and activated). `CheckpointInv` says what a
recovery would find. `CopiesInv` says that copies never carry an open journal, so a
promoted copy closes it. `StepInv` says what each group of steps may rely on: while the
process works, the open journal is its own and its checkpoint matches; while it swaps,
the displaced tree is the one with the open journal; once it has committed, the restored
tree is whole. Each lemma has a step per part of the invariant; `HandlerTable` and
`InFlightInv` carry the exceptions and crashes. `ContractKept` maps initial states and
steps: `BrainSteps` shows that no single step turns a source into a target or a closed
target into anything else, `HealthyView` reads the abstract state off the invariant.

### SemanticApply

`SemanticApplyProofs` proves, for every number of processes, authorizations and records
and every bound: the inductive invariant (`InvariantHolds`), `TypeCorrect`,
`MutationAuthorized`, `CompletedIsApplied`, `EvidenceAgrees`, the action properties
`ForwardOnly` and `UncertainNeverDenied`, and the refinement of `ApplyContract` for one
process (`ContractKept`, with `Procs = {p}`: with two it is false, see Findings).

`FilesInv` relates the active authorization, the history, the receipts and the records of
the Guardian, whichever process wrote them. `Relies` is what each step of a process takes
from the reads before it; `Apart` names the steps that the lock, the comparison before a
rename or the one-shot record keeps two processes from taking together. The frames are
`QuietStep`, a step that changes no shared file, and `FileStep`, one that changes one of
them; a lemma per kind of file change says which reliances of the others survive it. The
action properties need what a step does and not only what states satisfy: `Moves` says
where a process can go from each step.

### Guardian

`GuardianProofs` proves, for every number of calls, operations, helpers, records and
materials: the inductive invariant (`InvariantHolds`), `TypeCorrect`,
`AuthorityIsEarned`, `StuckHasCause` (every cause a store can have for refusing is one of
those named under *What the models show besides*), `FailedUpgradeRestores` and the
action property `RecoveryOpensPair`: a recovery opens the helper and the descriptor it
inspected, and no others.

Of the root, the invariant says that the first provisioning precedes everything else
(`MadeFirst`), that operations do not overlap unless `overlapped` says so
(`OneAtATime`), that a repair acts on what it inspected (`RecoveryChecked`) and that a
replacement can be undone from the backups it has made (`PairKept`, by `Undoable`). Of
the calls, it says what the helper of each may write (`CallInv`, `OwnDraft`), that an
identity that is not drawn yet names no file (`Undrawn`), that what is done was consumed,
by one user (`ConfirmedGrants`, `DoneIsConsumed`, `OneUser`), and where each cause of a
refusal comes from (`ClockForward`, `RecordsWhole`, `OneIssuance`). Privileged operations
and calls have separate frames (`TaskMove`, `QuietStep`), since neither writes the files
of the other. The assumptions used are `ReleaseAssumption`, `NoneAssumption` and
`ClockAssumption`.

### ProtectedUpdate

`ProtectedUpdateProofs` proves, for every set of releases with any schemas and every
number of commands: the inductive invariant (`InvariantHolds`), `TypeCorrect`,
`PointedIsTrusted`, `PinIsHonoured`, `FailureRestores` and the action property
`PinFollowsPointer`.

`CommandInv` is the record of each command: which steps it can be at with what it has
read. `ReleasesInv` says, of a release no two commands contend for, that one command
installs it at most, that a release in use is whole and nobody may discard it.
`ProjectInv` says that, unless commands have crossed, one changes the project at a time,
that its schema is the pin's, and how far an update or a migration has come
(`UpdateInv`, `MigrateInv`). `PointerInv` says what an exception does to the pointer:
while at most one fault has happened and nothing has crossed, a project that nobody
changes is settled, and a command that cannot restore what it found is unreachable. The
frame `Keeps` collects what a step does to each part of the record of its command
(`TreeStep`, `ProjectStep`, `RunStep`, `PointerStep`); the lemma `StepKeeps` says that
this is enough, and the lemma of each action shows no more. The assumptions used are
`ReleasesAssumption`, `SchemaAssumption`, `CommandsAssumption` and `FirstAssumption`.

### Desktop

The parts share no variable but for the documents the agent's server reads, so each has an
inductive invariant of its own in `DesktopInvariant`, which every step of another part
leaves alone; one theorem says that it holds in every state of the Desktop, and the
properties follow from it. `TypeCorrect` (`DesktopProofs`) combines the seven of them.

* *Projects* (`DesktopProjectsProofs`: `ProjectsInvariantHolds`, `StartHolds`,
  `ActiveHolds`). The invariant speaks of the `Standing` registry, which during a write is
  the one set aside, and of the project that is active once the write is over (`Becomes`).
  `MainFits` says which command or start is at each step, `WriteInv` what a write has in
  hand, `StandingInv` that the registry that stands is sound, `ImportInv` what an
  interrupted import leaves for the next start, `BrainInv` where a Project Brain is while it
  is moved, `JobInv` which session each worker was begun in. Planning the proof showed that
  the second half of the model's `StartConverges` said nothing, as the scope of a quantifier
  reached too far; what it was meant to say holds: an import that was planned is recorded,
  unless a write was torn.
* *Updates* (the same module: `UpdatesInvariantHolds`, `DocumentsHold`, `NoticesHold`).
  `PassInv` and `NoticesInv` say that a pass writes what its document asks for, and that its
  document is later than all that were committed; `StoreInv` and `NoticesInv` that what the
  last document said of a block or a notice is in force, but where the pass under way writes
  it again; `SaidInv` that a document is committed, or about to be, only after it had the
  last word on everything it asks for (`replaced`, `announced`), which since then only a
  later one can have taken over; `WindowInv` that the one read the
  window waits for is of what the store holds; `CenterInv` that, while no two writers
  overlap, what a writer of the center is to put in place keeps what was told and marked.
  The other half of each step is what a failure or a death in the middle of a replacement
  leaves behind, which the properties name as lost.
* *Review* (`DesktopKnowledgeProofs`: `ReviewInvariantHolds`, `ReviewHolds`). A file that is
  being replaced is in neither place: the invariant speaks of `WholeInput` and
  `WholeRequest`, the file or the one set aside for it. `LockInv` says that a replacement
  under way is of the active project, `CoherentInv` that in every copy of an input what was
  observed is of the sources beside it, `FollowsInv` that inputs follow their request but
  for the one being projected, `ShownInv` that a call lags behind the window and the window
  behind the process.
* *Knowledge* (the same module: `KnowledgeInvariantHolds`, `KnowledgeHolds`).
  `TaskFits` is what a command at each step may rely on, `DeskFits` what the window may.
* *Agent* (the same module: `AgentInvariantHolds`, `AgentHolds`). A server that reads the
  documents several times in one call accepts what was never accepted only if they changed
  there and back between the reads: `WorkInv` counts those edits, and `edits` allows them
  only that many. `QueueInv` counts lines against calls, so that the copies of contexts,
  by which `IssuedInv` tells them apart, never run out.
* *Sessions* (`DesktopProviderProofs`: `SessionsInvariantHolds`, `SessionsHold`). `AnswersInv`
  says that no answer, wherever it is (at a run, in the temporary file, stored, shown), goes
  against the decisions in force, and that none counts as fresh once they are lost. The last
  part was found by planning the proof: with the run's bound of three deeds TLC could not
  see an answer made before the decisions were lost being shown after the user decided
  again. The property now speaks of the answers of decisions that are in force.
* *Connection* (the same module: `ConnectionInvariantHolds`, `ChoiceHolds`,
  `UsageHolds`). `CallInv` says what the mutex gives (one call has the host, which is of its
  project); `ChoiceInv` that an open session suits the stored choice or the one about to be
  stored, and that nothing pins a choice of the user's; `UsageInv` that what is logged and
  what waits together are at most what Codex counts, and of a thread of the host's project;
  `MeasureInv` that they are exactly that for the measurement under way. The lemmas on
  `Count` say what appending to the queue and taking from it do to those numbers. Three
  frames carry the steps: `PlainStep` changes no stored file, `StoresKeeps` stores a choice,
  `WorldKeeps` is what happens to the host from outside.

The assumptions used are the named ones of `Desktop`.

### Only model-checked

The liveness properties `InterruptionEnds`, `InterruptionResumes` and `CallsReturn`
(fairness and ENABLED are out of the prover's reach); the
migration's properties that hold with late cleanups that throw. Every other
safety invariant, action property and refinement that a passing run checks is proved. The five runs
that expect a violation refute what they check. The assumptions on the constants are
evaluated by TLC on every run.

## Not modelled, and why

* The refresh of the local integrity receipt after a lifecycle operation: planned
  with the integrity module.
* An edit that lands between the comparison and the rename of a document
  (`project-brain/store.ts:204`) is in the model, and is lost in it as it is in the
  code; no property denies it.
* `invalidateAuthorization` has no caller.
* Parsing, markdown rewriting, digests and dialogs: data the properties do not tell
  apart. Operating-system protection of the Guardian: assumed.
* Review of sources: the selection of paths is any set the inventory offers; listeners
  that accumulate; what Git and Core say in detail.
* Knowledge: the launch commands of its stages, keeping or rejecting an area by its
  buttons, damaged and ambiguous Project Brains, a death of the Desktop in that part, and
  the Guardian upgrade in its elevated script (`GuardianRoot` models it).
* Sessions: more than one session, a temporary file written in part, summaries, presets
  of the diagnostics and wording. The registered projects, observations and decisions are
  read in one step.
* Projects of the Desktop: display names, availability, stray directories, edits from
  outside.
* Updates of the Desktop: the status file of the background thread, records of the
  legacy category, a failing read of the notices, texts, telemetry, GitHub.
* Connection: the Codex MCP entry, inspection of providers, invalid stored intents, a
  thread whose counts regress.
* The components listed as `not_modelled` in `PROJECT.json`.

## Plan

In this order:

1. The integrity receipt around lifecycle operations.
2. Adoption from the command line: authorization handoffs, review and semantic apply.
