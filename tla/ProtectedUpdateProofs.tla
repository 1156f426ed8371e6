------------------------- MODULE ProtectedUpdateProofs -------------------------
(***************************************************************************)
(* Theorems about ProtectedUpdate, for every set of releases, versions,    *)
(* schemas and ways between them, and every number of commands, of them at *)
(* a time, of faults and of deaths.                                        *)
(***************************************************************************)
EXTENDS ProtectedUpdateInvariant, TLAPS

-----------------------------------------------------------------------------
(* What a step of the command n may do, part by part.                      *)

FilesOK ==
    /\ RuntimeTypeOK
    /\ meta \in Metas /\ journal \in Commands \cup {NoCommand}
    /\ checkpoint \in [Commands -> Metas \cup {NoMeta}]
    /\ faults \in 0..MaxTrouble /\ deaths \in 0..MaxTrouble
    /\ contended \subseteq Releases /\ unpaid \subseteq Releases /\ crossed \in BOOLEAN

Grows == contended \subseteq contended' /\ (crossed => crossed') /\ faults <= faults' /\ deaths <= deaths'

\* Another command is told of a change at most.
Moves(n) ==
    /\ cmd' \in [Commands -> CommandRecords] /\ CommandInv(cmd'[n])
    /\ \A k \in Commands \ {n} :
         \/ cmd'[k] = cmd[k]
         \/ cmd[k].op = "run" /\ Alive(k) /\ cmd'[k] = [cmd[k] EXCEPT !.stale = TRUE]

Alone(n, v) == \A k \in Commands \ {n} : ~Installs(cmd[k], v)

\* c goes on with the release v that it did not find when it began, and has not paid for.
Unpaid(c, v) == c.target = v /\ c.step \in {"existed", "install", "promote"} /\ ~c.core /\ ~c.paid

TreeStep(n) ==
    /\ unpaid' \subseteq contended'
    /\ \A v \in Releases \ contended' :
         /\ pointer' = v \/ Uses(cmd'[n], v) =>
              \/ InUse(v)
              \/ Whole(v) /\ release'[v] = release[v] /\ Alone(n, v) /\ ~Destroys(cmd'[n], v)
         /\ Installs(cmd'[n], v) => Alone(n, v)
         /\ Destroys(cmd'[n], v) => Destroys(cmd[n], v) \/ ~Whole(v)
         /\ Unpaid(cmd'[n], v) => release'[v] # "absent"
         /\ release'[v] # release[v] =>
              Installs(cmd[n], v) /\ (Destroys(cmd[n], v) \/ (~Whole(v) /\ release'[v] = "whole"))

CheckpointsInv == \A n \in Commands : checkpoint[n] # NoMeta => checkpoint[n].schema = Schema(checkpoint[n].version)

ProjectStep(n) ==
    ~crossed' =>
      /\ cmd'[n].core => cmd[n].core \/ \A k \in Commands \ {n} : ~cmd[k].core
      /\ SchemaOfPin' /\ CheckpointsInv'
      /\ Replaces(cmd'[n]) => PlanInv(cmd'[n])
      /\ cmd'[n].core /\ cmd'[n].op = "update" => UpdateInv(cmd[n])'
      /\ cmd'[n].core /\ cmd'[n].op = "migrate" => MigrateInv(n, cmd[n])'

RunStep(n) ==
    /\ cmd'[n].step = "spawn" => cmd'[n].stale \/ cmd'[n].source = meta'.version
    /\ meta'.version = meta.version
       \/ \A k \in Commands \ {n} : cmd[k].op = "run" /\ Alive(k) => cmd'[k].stale

PointerStep(n) ==
    Recoverable' =>
      /\ cmd[n].core /\ ~cmd'[n].core => Settled'
      /\ cmd'[n].core =>
           /\ cmd'[n].op = "recover" => cmd'[n].step = "reread" /\ Settled'
           /\ cmd'[n].op = "update" => UpdatePointer(cmd[n])'
           /\ cmd'[n].op = "migrate" => MigratePointer(cmd[n])'

\* Only the command that changes the project writes the project and the pointer.
Owns(n) == cmd[n].core \/ UNCHANGED <<projectVars, pointer>>

Keeps(n) == /\ FilesOK' /\ Grows /\ Moves(n) /\ Owns(n)
            /\ TreeStep(n) /\ ProjectStep(n) /\ RunStep(n) /\ PointerStep(n)

-----------------------------------------------------------------------------
(* That is enough.                                                         *)

LEMMA TypeParts == TypeOK <=> FilesOK /\ cmd \in [Commands -> CommandRecords]
BY DEF TypeOK, FilesOK

\* What a step of n leaves of another command.
LEMMA Others ==
  ASSUME IInv, NEW n \in Commands, Moves(n), NEW k \in Commands \ {n}
  PROVE  /\ CommandInv(cmd'[k])
         /\ cmd'[k].op = cmd[k].op /\ cmd'[k].step = cmd[k].step /\ cmd'[k].core = cmd[k].core
         /\ cmd'[k].source = cmd[k].source /\ cmd'[k].target = cmd[k].target
         /\ cmd'[k].previous = cmd[k].previous /\ cmd'[k].existed = cmd[k].existed
         /\ cmd'[k].paid = cmd[k].paid
         /\ cmd[k].op # "run" => cmd'[k] = cmd[k]
         /\ cmd[k].stale => cmd'[k].stale
<1>1. cmd[k] \in CommandRecords /\ CommandInv(cmd[k])
  BY DEF IInv, TypeOK
<1>2. CASE cmd'[k] = cmd[k]
  BY <1>1, <1>2
<1>3. CASE cmd[k].op = "run" /\ Alive(k) /\ cmd'[k] = [cmd[k] EXCEPT !.stale = TRUE]
  <2>1. /\ cmd'[k].op = cmd[k].op /\ cmd'[k].step = cmd[k].step /\ cmd'[k].core = cmd[k].core
        /\ cmd'[k].source = cmd[k].source /\ cmd'[k].target = cmd[k].target
        /\ cmd'[k].previous = cmd[k].previous /\ cmd'[k].existed = cmd[k].existed
        /\ cmd'[k].paid = cmd[k].paid /\ cmd'[k].stale
    BY <1>1, <1>3 DEF CommandRecords
  <2>2. CommandInv(cmd'[k])
    BY <1>1, <1>3, <2>1 DEF CommandInv, Alive, Replaces
  <2>. QED
    BY <1>3, <2>1, <2>2
<1>. QED
  BY <1>2, <1>3 DEF Moves

LEMMA TreesKept ==
  ASSUME IInv, NEW n \in Commands, FilesOK', Grows, Moves(n), TreeStep(n)
  PROVE  ReleasesInv'
<1>1. SUFFICES ASSUME NEW v \in Releases \ contended' PROVE ReleaseInv(v)'
  BY DEF ReleasesInv, TreeStep, FreshIsAuthorized
<1>2. ReleaseInv(v) /\ v \in Releases
  BY DEF IInv, ReleasesInv, Grows
<1>3. \A k \in Commands \ {n} :
        /\ Installs(cmd'[k], v) <=> Installs(cmd[k], v)
        /\ Destroys(cmd'[k], v) <=> Destroys(cmd[k], v)
        /\ Uses(cmd'[k], v) <=> Uses(cmd[k], v)
        /\ Unpaid(cmd'[k], v) <=> Unpaid(cmd[k], v)
  BY Others DEF Installs, Destroys, Uses, Unpaid
<1>4. \A k \in Commands : Destroys(cmd[k], v) \/ Unpaid(cmd[k], v) => Installs(cmd[k], v)
  BY DEF Destroys, Unpaid, Installs, InstallSteps, Preparing
<1>5. \A k, j \in Commands : Installs(cmd'[k], v) /\ Installs(cmd'[j], v) => k = j
  BY <1>2, <1>3 DEF TreeStep, Alone, ReleaseInv
<1>6. InUse(v) => /\ Whole(v)' /\ \A k \in Commands : ~Destroys(cmd'[k], v)
  <2>. SUFFICES ASSUME InUse(v) PROVE Whole(v)' /\ \A k \in Commands : ~Destroys(cmd'[k], v)
    OBVIOUS
  <2>1. Whole(v) /\ \A k \in Commands : ~Destroys(cmd[k], v)
    BY <1>2 DEF ReleaseInv
  <2>2. Whole(v)'
    BY <2>1 DEF TreeStep, Whole
  <2>3. ~Destroys(cmd'[n], v)
    BY <2>1 DEF TreeStep
  <2>. QED
    BY <1>3, <2>1, <2>2, <2>3
<1>7. InUse(v)' => /\ Whole(v)' /\ \A k \in Commands : ~Destroys(cmd'[k], v)
  <2>. SUFFICES ASSUME InUse(v)' PROVE Whole(v)' /\ \A k \in Commands : ~Destroys(cmd'[k], v)
    OBVIOUS
  <2>1. CASE InUse(v)
    BY <2>1, <1>6
  <2>2. CASE ~InUse(v)
    <3>1. \A k \in Commands \ {n} : ~Uses(cmd'[k], v)
      BY <2>2, <1>3 DEF InUse
    <3>2. pointer' = v \/ Uses(cmd'[n], v)
      BY <3>1 DEF InUse, Uses
    <3>3. Whole(v) /\ release'[v] = release[v] /\ Alone(n, v) /\ ~Destroys(cmd'[n], v)
      BY <2>2, <3>2 DEF TreeStep
    <3>. QED
      BY <3>3, <1>3, <1>4 DEF Alone, Whole
  <2>. QED
    BY <2>1, <2>2
<1>8. \A k \in Commands : Unpaid(cmd'[k], v) => release'[v] # "absent"
  <2>. SUFFICES ASSUME NEW k \in Commands, Unpaid(cmd'[k], v) PROVE release'[v] # "absent"
    OBVIOUS
  <2>1. CASE k = n
    BY <2>1 DEF TreeStep
  <2>2. CASE k # n
    <3>1. Unpaid(cmd[k], v) /\ release[v] # "absent"
      BY <2>2, <1>2, <1>3 DEF ReleaseInv, Unpaid
    <3>2. release'[v] = release[v]
      BY <2>2, <3>1, <1>2, <1>4 DEF TreeStep, ReleaseInv
    <3>. QED
      BY <3>1, <3>2
  <2>. QED
    BY <2>1, <2>2
<1>. QED
  BY <1>5, <1>7, <1>8 DEF ReleaseInv, Installs, Unpaid, InUse, Whole, Uses, Destroys

LEMMA ProjectKept ==
  ASSUME IInv, NEW n \in Commands, Grows, Moves(n), Owns(n), ProjectStep(n)
  PROVE  ProjectInv'
<1>1. SUFFICES ASSUME ~crossed' PROVE ProjectInv'
  BY DEF ProjectInv
<1>2. ~crossed /\ OneCore
  BY <1>1 DEF Grows, IInv, ProjectInv
<1>3. OneCore'
  BY <1>1, <1>2, Others DEF OneCore, ProjectStep
<1>4. ASSUME NEW k \in Commands \ {n}, Replaces(cmd'[k]) PROVE PlanInv(cmd'[k])
  <2>1. Replaces(cmd[k])
    BY <1>4, Others DEF Replaces
  <2>. QED
    BY <1>2, <1>4, <2>1, Others DEF Replaces, PlanInv, IInv, ProjectInv
<1>5. ASSUME NEW k \in Commands \ {n}, cmd'[k].core
      PROVE  /\ cmd'[k].op = "update" => UpdateInv(cmd[k])'
             /\ cmd'[k].op = "migrate" => MigrateInv(k, cmd[k])'
  <2>1. cmd[k].core /\ cmd'[k].op = cmd[k].op /\ (cmd[k].op # "run" => cmd'[k] = cmd[k])
    BY <1>5, Others
  <2>2. UNCHANGED <<projectVars, pointer>>
    BY <1>2, <2>1 DEF OneCore, Owns
  <2>3. /\ cmd[k].op = "update" => UpdateInv(cmd[k])
        /\ cmd[k].op = "migrate" => MigrateInv(k, cmd[k])
    BY <1>2, <2>1 DEF IInv, ProjectInv
  <2>. QED
    BY <2>1, <2>2, <2>3 DEF UpdateInv, MigrateInv, Project, projectVars
<1>. QED
  BY <1>1, <1>3, <1>4, <1>5 DEF ProjectInv, ProjectStep, CheckpointsInv

LEMMA RunsKept ==
  ASSUME IInv, NEW n \in Commands, Moves(n), RunStep(n)
  PROVE  RunsThePin'
<1>. SUFFICES ASSUME NEW k \in Commands, cmd'[k].step = "spawn"
              PROVE  cmd'[k].stale \/ cmd'[k].source = meta'.version
  BY DEF RunsThePin, At
<1>1. CASE k = n
  BY <1>1 DEF RunStep
<1>2. CASE k # n
  <2>1. cmd[k].step = "spawn" /\ cmd'[k].source = cmd[k].source /\ (cmd[k].stale => cmd'[k].stale)
    BY <1>2, Others
  <2>2. cmd[k].stale \/ cmd[k].source = meta.version
    BY <2>1 DEF IInv, RunsThePin, At
  <2>3. cmd[k].op = "run" /\ Alive(k)
    BY <2>1
    DEF IInv, TypeOK, CommandRecords, CommandInv, Replaces, Alive, InstallSteps, Preparing, UpdateSteps,
        MigrateSteps
  <2>. QED
    BY <1>2, <2>1, <2>2, <2>3 DEF RunStep
<1>. QED
  BY <1>1, <1>2

LEMMA PointerKept ==
  ASSUME IInv, NEW n \in Commands, FilesOK', Grows, Moves(n), Owns(n), ProjectStep(n), PointerStep(n)
  PROVE  PointerInv'
<1>1. SUFFICES ASSUME Recoverable' PROVE PointerInv'
  BY DEF PointerInv
<1>2. /\ Recoverable /\ ~crossed /\ ~crossed' /\ OneCore
      /\ faults \in Nat /\ faults' \in Nat /\ (faults = 1 => faults' = 1)
  BY <1>1, CommandsAssumption DEF Recoverable, Grows, FilesOK, IInv, TypeOK, ProjectInv
<1>3. ASSUME \A k \in Commands : ~cmd'[k].core PROVE Settled'
  <2>1. \A k \in Commands \ {n} : ~cmd[k].core
    BY <1>3, Others
  <2>2. CASE cmd[n].core
    BY <1>1, <1>3, <2>2 DEF PointerStep
  <2>3. CASE ~cmd[n].core
    BY <1>2, <2>1, <2>3 DEF IInv, PointerInv, Owns, Settled, projectVars
  <2>. QED
    BY <2>2, <2>3
<1>4. ASSUME NEW k \in Commands \ {n}, cmd'[k].core
      PROVE  /\ cmd'[k].op = "recover" => cmd'[k].step = "reread" /\ Settled'
             /\ cmd'[k].op = "update" => UpdatePointer(cmd[k])'
             /\ cmd'[k].op = "migrate" => MigratePointer(cmd[k])'
  <2>1. cmd[k].core /\ cmd'[k].op = cmd[k].op /\ (cmd[k].op # "run" => cmd'[k] = cmd[k])
    BY <1>4, Others
  <2>2. UNCHANGED <<projectVars, pointer>>
    BY <1>2, <2>1 DEF OneCore, Owns
  <2>3. /\ cmd[k].op = "recover" => cmd[k].step = "reread" /\ Settled
        /\ cmd[k].op = "update" => UpdatePointer(cmd[k])
        /\ cmd[k].op = "migrate" => MigratePointer(cmd[k])
    BY <1>2, <2>1 DEF IInv, PointerInv
  <2>. QED
    BY <1>2, <2>1, <2>2, <2>3 DEF UpdatePointer, MigratePointer, Settled, projectVars
<1>. QED
  BY <1>1, <1>3, <1>4 DEF PointerInv, PointerStep

LEMMA StepKeeps ==
  ASSUME IInv, NEW n \in Commands, Keeps(n)
  PROVE  IInv'
<1>1. TypeOK'
  BY DEF Keeps, Moves, TypeOK, FilesOK
<1>2. \A k \in Commands : CommandInv(cmd'[k])
  BY Others DEF Keeps, Moves
<1>3. ReleasesInv' /\ ProjectInv' /\ RunsThePin' /\ PointerInv'
  BY TreesKept, ProjectKept, RunsKept, PointerKept DEF Keeps
<1>. QED
  BY <1>1, <1>2, <1>3 DEF IInv

-----------------------------------------------------------------------------
(* Records of commands.                                                    *)

LEMMA Stepping ==
  ASSUME NEW c \in CommandRecords, NEW s \in Steps, NEW d, d = [c EXCEPT !.step = s]
  PROVE  /\ d \in CommandRecords /\ d.step = s
         /\ d.op = c.op /\ d.source = c.source /\ d.target = c.target /\ d.interrupted = c.interrupted
         /\ d.core = c.core /\ d.existed = c.existed /\ d.paid = c.paid /\ d.previous = c.previous
         /\ d.changed = c.changed /\ d.draft = c.draft /\ d.stale = c.stale
BY DEF CommandRecords

LEMMA StepNames ==
  \A s \in {"new", "over", "planned", "exists", "authorize", "spend", "existed", "discard", "remove",
            "install", "promote", "evidence", "trust", "attest", "check", "recheck", "previous",
            "activate", "confirm", "draft", "pin", "restore", "checkpoint", "open", "copy", "change",
            "validate", "verify", "close", "clean", "swap", "failed", "stuck", "reread", "rewind",
            "status", "spawn"} : s \in Steps
BY DEF Steps, Preparing, Committing, Migrating

LEMMA NewCommandFacts ==
  /\ NewCommand \in CommandRecords /\ Over \in CommandRecords /\ CommandInv(NewCommand) /\ CommandInv(Over)
  /\ Over.step = "over" /\ Over.op = "run" /\ ~Over.core /\ Over.target = NoRelease
  /\ Over.previous = NoRelease
<1>1. NewCommand \in CommandRecords
  BY StepNames DEF NewCommand, CommandRecords, NoCommand
<1>2. /\ Over \in CommandRecords /\ Over.step = "over" /\ Over.op = "run" /\ ~Over.core
      /\ Over.target = NoRelease /\ Over.previous = NoRelease
  BY <1>1, StepNames, Stepping DEF Over, NewCommand
<1>3. NewCommand = [NewCommand EXCEPT !.step = NewCommand.step]
  BY <1>1 DEF CommandRecords
<1>. QED
  BY <1>1, <1>2, <1>3 DEF CommandInv, Replaces, NewCommand, Over

Thrown(c) == IF Handler(c) = "over" THEN Over ELSE [c EXCEPT !.step = Handler(c), !.draft = NoMeta]

LEMMA ThrowIs == \A n : Throw(n) <=> cmd' = [cmd EXCEPT ![n] = Thrown(cmd[n])]
BY DEF Throw, Thrown, Finish, Become

LEMMA ThrownFacts ==
  ASSUME NEW c \in CommandRecords, CommandInv(c), c.step \notin {"new", "over"}, NEW d, d = Thrown(c)
  PROVE  /\ d \in CommandRecords /\ CommandInv(d)
         /\ \/ d = Over /\ Handler(c) = "over"
            \/ /\ d.op = c.op /\ d.source = c.source /\ d.target = c.target /\ d.core = c.core
               /\ d.existed = c.existed /\ d.previous = c.previous /\ d.changed = c.changed
               /\ d.stale = c.stale /\ d.step = Handler(c) /\ d.step # "over"
<1>1. CASE Handler(c) = "over"
  BY <1>1, NewCommandFacts DEF Thrown
<1>2. CASE Handler(c) # "over"
  <2>1. d = [c EXCEPT !.step = Handler(c), !.draft = NoMeta]
    BY <1>2 DEF Thrown
  <2>2. Handler(c) \in {"discard", "restore", "swap", "failed", "stuck"}
    BY <1>2 DEF Handler
  <2>3. /\ d.op = c.op /\ d.source = c.source /\ d.target = c.target /\ d.core = c.core
        /\ d.existed = c.existed /\ d.previous = c.previous /\ d.changed = c.changed
        /\ d.stale = c.stale /\ d.step = Handler(c)
    BY <2>1 DEF CommandRecords
  <2>4. d \in CommandRecords
    <3>1. [c EXCEPT !.step = Handler(c)] \in CommandRecords
      BY <2>2, StepNames, Stepping
    <3>. QED
      BY <2>1, <3>1 DEF CommandRecords
  <2>5. CommandInv(d)
    BY <1>2, <2>2, <2>3
    DEF Handler, CommandInv, Replaces, Preparing, Committing, Migrating, InstallSteps, UpdateSteps,
        MigrateSteps
  <2>. QED
    BY <1>2, <2>3, <2>4, <2>5
<1>. QED
  BY <1>1, <1>2

-----------------------------------------------------------------------------
(* The steps of a command, and the exceptions.                             *)

LEMMA BecomeMoves ==
  ASSUME IInv, NEW n \in Commands, NEW d \in CommandRecords, CommandInv(d), cmd' = [cmd EXCEPT ![n] = d]
  PROVE  Moves(n) /\ cmd'[n] = d
BY DEF IInv, TypeOK, Moves

LEMMA CommandTyped ==
  ASSUME IInv, NEW n \in Commands
  PROVE  cmd[n] \in CommandRecords /\ CommandInv(cmd[n]) /\ FilesOK
BY TypeParts DEF IInv, TypeOK

\* A command that keeps the trees and the pointer, and goes on or ends.
Follows(n) ==
    \A v \in Releases :
      /\ Installs(cmd'[n], v) => Installs(cmd[n], v)
      /\ Uses(cmd'[n], v) => Uses(cmd[n], v) \/ pointer = v
      /\ Destroys(cmd'[n], v) => Destroys(cmd[n], v) \/ ~Whole(v)
      /\ Unpaid(cmd'[n], v) => Unpaid(cmd[n], v) \/ release[v] # "absent"

LEMMA TreesFollow ==
  ASSUME IInv, NEW n \in Commands, Grows, UNCHANGED <<release, pointer, unpaid>>, Follows(n)
  PROVE  TreeStep(n)
<1>1. unpaid' \subseteq contended'
  BY DEF IInv, ReleasesInv, FreshIsAuthorized, Grows
<1>2. ASSUME NEW v \in Releases \ contended' PROVE ReleaseInv(v) /\ v \in Releases
  BY DEF IInv, ReleasesInv, Grows
<1>3. ASSUME NEW v \in Releases \ contended', pointer' = v \/ Uses(cmd'[n], v) PROVE InUse(v)
  BY <1>3 DEF Follows, InUse
<1>4. ASSUME NEW v \in Releases \ contended', Installs(cmd'[n], v) PROVE Alone(n, v)
  BY <1>2, <1>4 DEF Follows, Alone, ReleaseInv
<1>5. ASSUME NEW v \in Releases \ contended', Unpaid(cmd'[n], v) PROVE release'[v] # "absent"
  BY <1>2, <1>5 DEF Follows, Unpaid, ReleaseInv
<1>. QED
  BY <1>1, <1>3, <1>4, <1>5 DEF TreeStep, Follows

LEMMA OverFollows ==
  ASSUME NEW n \in Commands, cmd'[n] = Over
  PROVE  Follows(n)
BY NewCommandFacts, ReleasesAssumption DEF Follows, Installs, Uses, Destroys, Unpaid, InstallSteps, Preparing

LEMMA ThrowMoves ==
  ASSUME IInv, NEW n \in Commands, Alive(n), Throw(n)
  PROVE  Moves(n) /\ cmd'[n] = Thrown(cmd[n]) /\ Follows(n)
<1>1. Moves(n) /\ cmd'[n] = Thrown(cmd[n])
  BY ThrowIs, ThrownFacts, BecomeMoves, CommandTyped DEF Alive
<1>2. CASE cmd'[n] = Over
  BY <1>1, <1>2, OverFollows
<1>3. CASE cmd'[n] # Over
  BY <1>1, <1>3, ThrownFacts, CommandTyped
  DEF Follows, Installs, Uses, Destroys, Unpaid, Handler, Alive, InstallSteps, Preparing
<1>. QED
  BY <1>1, <1>2, <1>3

\* A command that has not begun to change the project, and does not now.
LEMMA Preparation ==
  ASSUME IInv, NEW n \in Commands, Grows, Moves(n), UNCHANGED <<projectVars, pointer>>,
         ~cmd[n].core, ~cmd'[n].core, cmd'[n].step # "spawn",
         Replaces(cmd'[n]) => /\ Replaces(cmd[n]) /\ cmd'[n].op = cmd[n].op
                              /\ cmd'[n].source = cmd[n].source /\ cmd'[n].target = cmd[n].target
  PROVE  Owns(n) /\ ProjectStep(n) /\ RunStep(n) /\ PointerStep(n)
<1>1. ASSUME ~crossed' PROVE SchemaOfPin' /\ CheckpointsInv' /\ (Replaces(cmd'[n]) => PlanInv(cmd'[n]))
  BY <1>1 DEF Grows, IInv, ProjectInv, SchemaOfPin, CheckpointsInv, PlanInv, projectVars, Replaces
<1>2. ProjectStep(n) /\ PointerStep(n)
  BY <1>1 DEF ProjectStep, PointerStep
<1>. QED
  BY <1>2 DEF Owns, RunStep, projectVars

LEMMA LookKeeps ==
  ASSUME IInv, Look
  PROVE  FilesOK' /\ Grows /\ UNCHANGED <<release, pointer, unpaid, projectVars, faults, contended, crossed>>
<1>1. FilesOK
  BY TypeParts DEF IInv
<1>2. /\ UNCHANGED <<release, pointer, authorized, trusted, meta, journal, checkpoint>>
      /\ UNCHANGED <<faults, deaths, contended, crossed, unpaid>>
  BY DEF Look, KeepFiles, runtimeVars, projectVars, troubleVars, ghosts
<1>. QED
  BY <1>1, <1>2 DEF FilesOK, RuntimeTypeOK, Grows, projectVars

LEMMA PreparationFails ==
  ASSUME IInv, NEW n \in Commands, Alive(n), Throw(n), ~cmd[n].core, FilesOK', Grows,
         UNCHANGED <<release, pointer, unpaid, projectVars>>
  PROVE  IInv'
<1>1. Moves(n) /\ cmd'[n] = Thrown(cmd[n]) /\ Follows(n)
  BY ThrowMoves
<1>2. TreeStep(n)
  BY <1>1, TreesFollow
<1>3. /\ ~cmd'[n].core /\ cmd'[n].step # "spawn"
      /\ Replaces(cmd'[n]) => /\ Replaces(cmd[n]) /\ cmd'[n].op = cmd[n].op
                              /\ cmd'[n].source = cmd[n].source /\ cmd'[n].target = cmd[n].target
  BY <1>1, CommandTyped, ThrownFacts, NewCommandFacts DEF Replaces, Handler, Alive
<1>4. Owns(n) /\ ProjectStep(n) /\ RunStep(n) /\ PointerStep(n)
  BY <1>1, <1>3, Preparation
<1>. QED
  BY <1>1, <1>2, <1>4, StepKeeps DEF Keeps

\* One fault, or a document that was edited, is all that a command may be excused for.
Excused(n) ==
    Recoverable' => \/ Handler(cmd[n]) = "over" /\ cmd[n].step # "restore"
                    \/ faults = 0 /\ faults' = 1
                    \/ cmd[n].op = "update" /\ cmd[n].step = "confirm" /\ cmd[n].stale /\ faults' = faults

LEMMA ChangeFails ==
  ASSUME IInv, NEW n \in Commands, Alive(n), Throw(n), cmd[n].core, FilesOK', Grows, Excused(n),
         UNCHANGED <<release, pointer, unpaid, projectVars>>
  PROVE  IInv'
<1>1. Moves(n) /\ cmd'[n] = Thrown(cmd[n]) /\ Follows(n)
  BY ThrowMoves
<1>2. TreeStep(n)
  BY <1>1, TreesFollow
<1>3. cmd[n] \in CommandRecords /\ CommandInv(cmd[n]) /\ cmd[n].op \in {"update", "migrate", "recover", "run"}
  BY CommandTyped DEF CommandRecords
<1>4. \/ cmd'[n] = Over /\ Handler(cmd[n]) = "over"
      \/ /\ cmd'[n].op = cmd[n].op /\ cmd'[n].source = cmd[n].source /\ cmd'[n].target = cmd[n].target
         /\ cmd'[n].core /\ cmd'[n].previous = cmd[n].previous
         /\ cmd'[n].changed = cmd[n].changed /\ cmd'[n].stale = cmd[n].stale
         /\ cmd'[n].step = Handler(cmd[n]) /\ Handler(cmd[n]) # "over"
  BY <1>1, <1>3, ThrownFacts DEF Alive
<1>5. ASSUME ~crossed' PROVE ~crossed /\ ProjectStep(n)
  <2>1. /\ ~crossed /\ SchemaOfPin /\ CheckpointsInv /\ (Replaces(cmd[n]) => PlanInv(cmd[n]))
        /\ cmd[n].op = "update" => UpdateInv(cmd[n])
        /\ cmd[n].op = "migrate" => MigrateInv(n, cmd[n])
    BY <1>5 DEF Grows, IInv, ProjectInv, CheckpointsInv
  <2>2. SchemaOfPin' /\ CheckpointsInv'
    BY <2>1, <1>5 DEF SchemaOfPin, CheckpointsInv, projectVars
  <2>3. Replaces(cmd'[n]) => PlanInv(cmd'[n])
    BY <2>1, <1>4, NewCommandFacts DEF Replaces, PlanInv, Alive
  <2>4. ASSUME cmd'[n].core, cmd'[n].op = "update" PROVE UpdateInv(cmd[n])'
    BY <2>1, <2>4, <1>3, <1>4, NewCommandFacts
    DEF UpdateInv, projectVars, Handler, Alive, Preparing, Committing, Migrating, CommandInv, Replaces
  <2>5. ASSUME cmd'[n].core, cmd'[n].op = "migrate" PROVE MigrateInv(n, cmd[n])'
    <3>1. cmd[n].op = "migrate" /\ cmd'[n].step \in {"restore", "swap", "stuck"}
      BY <2>5, <1>3, <1>4, NewCommandFacts DEF Handler, Alive, Preparing, Committing, Migrating
    <3>2. cmd'[n].step # "stuck" => checkpoint[n] = [version |-> cmd[n].source, schema |-> 1]
      BY <2>1, <1>3, <1>4, <3>1, NewCommandFacts
      DEF Handler, Alive, Preparing, Committing, Migrating, CommandInv, Replaces, MigrateSteps, MigrateInv
    <3>. QED
      BY <3>1, <3>2, <1>4, NewCommandFacts DEF MigrateInv, projectVars
  <2>. QED
    BY <2>1, <2>2, <2>3, <2>4, <2>5 DEF ProjectStep
<1>6. ASSUME Recoverable' PROVE PointerStep(n)
  <2>1. Recoverable /\ ~crossed /\ faults \in Nat /\ faults' \in Nat
    BY <1>6, CommandTyped, CommandsAssumption DEF Recoverable, Grows, FilesOK
  <2>2. /\ cmd[n].op = "recover" => cmd[n].step = "reread" /\ Settled
        /\ cmd[n].op = "update" => UpdatePointer(cmd[n]) /\ UpdateInv(cmd[n])
        /\ cmd[n].op = "migrate" => MigratePointer(cmd[n]) /\ MigrateInv(n, cmd[n])
    BY <2>1 DEF IInv, PointerInv, ProjectInv
  <2>3. ASSUME ~cmd'[n].core PROVE Settled'
    <3>1. Handler(cmd[n]) = "over"
      BY <2>3, <1>4
    <3>2. cmd[n].step # "restore"
      BY <1>6, <2>1, <2>2, <3>1, <1>3
      DEF Excused, UpdatePointer, MigratePointer, Alive, CommandInv, Replaces, Handler, Migrating
    <3>3. Settled
      BY <2>2, <3>1, <3>2, <1>3
      DEF UpdatePointer, MigratePointer, Handler, Preparing, Committing, Migrating, Alive, CommandInv,
          Replaces, MigrateSteps
    <3>. QED
      BY <3>3 DEF Settled, projectVars
  <2>4. ASSUME cmd'[n].core
        PROVE  /\ cmd'[n].op = cmd[n].op /\ cmd[n].op # "recover" /\ faults' = 1
               /\ cmd'[n].step \in {"restore", "swap"}
    <3>1. /\ cmd'[n].op = cmd[n].op /\ cmd'[n].step = Handler(cmd[n]) /\ Handler(cmd[n]) # "over"
      BY <2>4, <1>4, NewCommandFacts
    <3>2. cmd[n].op # "recover"
      BY <2>2, <3>1 DEF Handler, Preparing, Committing, Migrating
    <3>3. faults' = 1
      BY <1>6, <2>1, <2>2, <3>1 DEF Excused, UpdatePointer, Grows
    <3>4. cmd'[n].step # "stuck"
      BY <1>6, <2>1, <2>2, <3>1, <1>3
      DEF Excused, MigratePointer, Handler, Alive, CommandInv, Preparing, Committing, Migrating
    <3>. QED
      BY <3>1, <3>2, <3>3, <3>4, <1>3 DEF Handler, Alive
  <2>5. ASSUME cmd'[n].core, cmd'[n].op = "update" PROVE UpdatePointer(cmd[n])'
    <3>1. cmd[n].step \in Committing
      BY <2>4, <2>5, <1>3, <1>4, NewCommandFacts DEF Handler, Alive, Preparing, Committing, Migrating
    <3>. QED
      BY <2>2, <2>4, <2>5, <3>1, <1>4, NewCommandFacts
      DEF UpdatePointer, Handler, Alive, Preparing, Committing, Migrating, CommandInv
  <2>6. ASSUME cmd'[n].core, cmd'[n].op = "migrate" PROVE MigratePointer(cmd[n])'
    <3>1. cmd[n].step \in Migrating \cap MigrateSteps
      BY <2>4, <2>6, <1>3, <1>4, NewCommandFacts
      DEF Handler, Alive, Preparing, Committing, Migrating, CommandInv, Replaces, MigrateSteps
    <3>2. cmd[n].previous \in {NoRelease, cmd[n].source}
      BY <2>2, <2>4, <2>6, <3>1 DEF MigratePointer, MigrateSteps, Migrating
    <3>3. cmd'[n].step = "swap" => pointer \in {NoRelease, cmd[n].source}
      BY <2>2, <2>4, <2>6, <3>1, <1>3, <1>4, NewCommandFacts
      DEF MigratePointer, MigrateSteps, Migrating, Handler, Preparing, CommandInv
    <3>. QED
      BY <2>4, <2>6, <3>2, <3>3, <1>4, NewCommandFacts DEF MigratePointer
  <2>. QED
    BY <2>3, <2>4, <2>5, <2>6 DEF PointerStep
<1>7. ProjectStep(n) /\ PointerStep(n)
  BY <1>5, <1>6 DEF ProjectStep, PointerStep
<1>8. Owns(n) /\ RunStep(n)
  BY <1>3, <1>4, NewCommandFacts DEF Owns, RunStep, projectVars, Handler
<1>. QED
  BY <1>1, <1>2, <1>7, <1>8, StepKeeps DEF Keeps

-----------------------------------------------------------------------------
(* Commands that begin, and that install a release.                        *)

\* A command that begins has nothing of the project yet.
LEMMA Beginning ==
  ASSUME IInv, NEW n \in Commands, At(n, "new"), NEW d \in CommandRecords, CommandInv(d), Become(n, d),
         Look, ~d.core, d.step \in {"planned", "status"}, ~crossed /\ Replaces(d) => PlanInv(d)
  PROVE  IInv'
<1>1. Moves(n) /\ cmd'[n] = d
  BY BecomeMoves DEF Become
<1>2. FilesOK' /\ Grows /\ UNCHANGED <<release, pointer, unpaid, projectVars, faults, contended, crossed>>
  BY LookKeeps
<1>3. cmd[n].step = "new" /\ ~cmd[n].core
  BY CommandTyped DEF At, CommandInv, NewCommand
<1>4. Follows(n)
  BY <1>1 DEF Follows, Installs, Uses, Destroys, Unpaid, InstallSteps, Preparing
<1>5. TreeStep(n)
  BY <1>2, <1>4, TreesFollow
<1>6. ASSUME ~crossed' PROVE SchemaOfPin' /\ CheckpointsInv'
  BY <1>2, <1>6 DEF IInv, ProjectInv, SchemaOfPin, CheckpointsInv, projectVars
<1>7. Owns(n) /\ ProjectStep(n) /\ RunStep(n) /\ PointerStep(n)
  BY <1>1, <1>2, <1>3, <1>6 DEF Owns, ProjectStep, RunStep, PointerStep, projectVars
<1>. QED
  BY <1>1, <1>2, <1>5, <1>7, StepKeeps DEF Keeps

LEMMA BeginUpdateStep ==
  ASSUME IInv, NEW n \in Commands, BeginUpdate(n)
  PROVE  IInv'
<1>1. PICK c \in UpdatePlans : Plannable(c) /\ Become(n, c)
  BY DEF BeginUpdate
<1>a. PICK manifest \in SUBSET Releases :
        c \in {[NewCommand EXCEPT !.op = IF Schema(v) = meta.schema THEN "update" ELSE "migrate",
                                  !.step = "planned", !.source = meta.version, !.target = v]
               : v \in Candidates(manifest, meta.version)}
  BY DEF UpdatePlans
<1>2. PICK v \in Candidates(manifest, meta.version) :
        c = [NewCommand EXCEPT !.op = IF Schema(v) = meta.schema THEN "update" ELSE "migrate",
                               !.step = "planned", !.source = meta.version, !.target = v]
  BY <1>a
<1>3. v \in Releases /\ Newer(v, meta.version) /\ meta \in Metas
  BY <1>2, CommandTyped DEF Candidates, Compatible, FilesOK
<1>4. /\ c.op = IF Schema(v) = meta.schema THEN "update" ELSE "migrate"
      /\ c.step = "planned" /\ c.source = meta.version /\ c.target = v /\ ~c.core
      /\ c.previous = NoRelease /\ ~c.changed /\ ~c.stale
  BY <1>2 DEF NewCommand
<1>5. c \in CommandRecords
  BY <1>2, <1>3, StepNames, NewCommandFacts DEF CommandRecords, Metas
<1>6. CommandInv(c)
  BY <1>3, <1>4 DEF CommandInv, Replaces, Metas
<1>7. ~crossed /\ Replaces(c) => PlanInv(c)
  BY <1>1, <1>3, <1>4, SchemaAssumption DEF Plannable, PlanInv, Metas, IInv, ProjectInv, SchemaOfPin
<1>. QED
  BY <1>1, <1>4, <1>5, <1>6, <1>7, Beginning DEF BeginUpdate, Next1

LEMMA BeginRecoveryStep ==
  ASSUME IInv, NEW n \in Commands, BeginRecovery(n)
  PROVE  IInv'
<1>1. PICK c \in RecoveryPlans : Become(n, c)
  BY DEF BeginRecovery
<1>2. PICK k \in Commands : c = [NewCommand EXCEPT !.op = "recover", !.step = "planned", !.interrupted = k]
  BY <1>1, CommandTyped DEF RecoveryPlans, FilesOK
<1>3. /\ c.op = "recover" /\ c.step = "planned" /\ ~c.core /\ c.interrupted = k
      /\ c.target = NoRelease /\ c.previous = NoRelease
  BY <1>2 DEF NewCommand
<1>4. c \in CommandRecords
  BY <1>2, StepNames, NewCommandFacts DEF CommandRecords
<1>5. CommandInv(c) /\ ~Replaces(c)
  BY <1>3 DEF CommandInv, Replaces
<1>. QED
  BY <1>1, <1>3, <1>4, <1>5, Beginning DEF BeginRecovery, Next1

LEMMA BeginRunStep ==
  ASSUME IInv, NEW n \in Commands, BeginRun(n)
  PROVE  IInv'
<1>. DEFINE c == [NewCommand EXCEPT !.step = "status", !.source = pointer]
<1>1. /\ c.op = "run" /\ c.step = "status" /\ ~c.core
  BY DEF NewCommand
<1>2. c \in CommandRecords
  BY CommandTyped, StepNames, NewCommandFacts DEF CommandRecords, FilesOK, RuntimeTypeOK
<1>3. CommandInv(c) /\ ~Replaces(c)
  BY <1>1 DEF CommandInv, Replaces
<1>. QED
  BY <1>1, <1>2, <1>3, Beginning DEF BeginRun, Next1

\* The steps up to the verified release that write no tree.
LEMMA PreparationStep ==
  ASSUME IInv, NEW n \in Commands, NEW d \in CommandRecords, cmd' = [cmd EXCEPT ![n] = d],
         ~cmd[n].core, Replaces(cmd[n]), FilesOK', Grows, TreeStep(n),
         UNCHANGED <<projectVars, pointer>>,
         d.step \in InstallSteps,
         /\ d.op = cmd[n].op /\ d.source = cmd[n].source /\ d.target = cmd[n].target
         /\ d.core = cmd[n].core /\ d.previous = cmd[n].previous
         /\ d.changed = cmd[n].changed /\ d.stale = cmd[n].stale
  PROVE  IInv'
<1>1. CommandInv(d)
  BY CommandTyped DEF CommandInv, Replaces, InstallSteps, Preparing
<1>2. Moves(n) /\ cmd'[n] = d
  BY <1>1, BecomeMoves
<1>3. Owns(n) /\ ProjectStep(n) /\ RunStep(n) /\ PointerStep(n)
  BY <1>2, Preparation DEF InstallSteps, Preparing, Replaces
<1>. QED
  BY <1>2, <1>3, StepKeeps DEF Keeps

\* A command at a step of an installation installs for an update.
LEMMA Installing ==
  ASSUME IInv, NEW n \in Commands, cmd[n].step \in InstallSteps
  PROVE  /\ Alive(n) /\ Replaces(cmd[n]) /\ cmd[n].target \in Releases
         /\ cmd[n].core => cmd[n].step \in {"install", "promote", "evidence"}
<1>1. cmd[n] \in CommandRecords /\ CommandInv(cmd[n])
  BY CommandTyped
<1>. QED
  BY <1>1
  DEF CommandRecords, CommandInv, Replaces, Alive, InstallSteps, Preparing, UpdateSteps, MigrateSteps

LEMMA TargetExistsStep ==
  ASSUME IInv, NEW n \in Commands, TargetExists(n)
  PROVE  IInv'
<1>. DEFINE s == IF release[cmd[n].target] = "absent" THEN "authorize" ELSE "existed"
            d == [cmd[n] EXCEPT !.step = s]
<1>1. cmd[n].step = "exists" /\ cmd' = [cmd EXCEPT ![n] = [cmd[n] EXCEPT !.step = s]] /\ Look
  BY DEF TargetExists, At, To
<1>2. cmd[n] \in CommandRecords /\ s \in InstallSteps /\ s \in Steps /\ cmd'[n] = d
  BY <1>1, CommandTyped, StepNames DEF InstallSteps, IInv, TypeOK
<1>3. Replaces(cmd[n]) /\ ~cmd[n].core
  BY <1>1, Installing DEF InstallSteps
<1>4. /\ d \in CommandRecords /\ d.step = s
      /\ d.op = cmd[n].op /\ d.source = cmd[n].source /\ d.target = cmd[n].target
      /\ d.core = cmd[n].core /\ d.previous = cmd[n].previous
      /\ d.changed = cmd[n].changed /\ d.stale = cmd[n].stale
  BY <1>2, Stepping
<1>5. Follows(n)
  BY <1>1, <1>2, <1>3, <1>4 DEF Follows, Installs, Uses, Destroys, Unpaid, InstallSteps, Preparing
<1>6. TreeStep(n)
  BY <1>1, <1>5, LookKeeps, TreesFollow
<1>. QED
  BY <1>1, <1>2, <1>3, <1>4, <1>6, LookKeeps, PreparationStep

\* A step that only goes on, to a step of the preparation.
LEMMA PreparationGoesOn ==
  ASSUME IInv, NEW n \in Commands, NEW s, To(n, s), ~cmd[n].core, FilesOK', Grows,
         UNCHANGED <<release, pointer, unpaid, projectVars>>,
         \/ cmd[n].step = "authorize" /\ s = "spend"
         \/ cmd[n].step = "install" /\ s \in {"promote", "evidence"}
         \/ cmd[n].step = "evidence" /\ s = "trust"
         \/ cmd[n].step = "trust" /\ s = "attest"
  PROVE  IInv'
<1>. DEFINE d == [cmd[n] EXCEPT !.step = s]
<1>1. cmd[n] \in CommandRecords /\ s \in InstallSteps /\ s \in Steps /\ cmd[n].step \in InstallSteps
  BY CommandTyped, StepNames DEF InstallSteps, Preparing
<1>2. cmd' = [cmd EXCEPT ![n] = d] /\ cmd'[n] = d
  BY DEF To, IInv, TypeOK
<1>3. Replaces(cmd[n])
  BY <1>1, Installing
<1>4. /\ d \in CommandRecords /\ d.step = s
      /\ d.op = cmd[n].op /\ d.source = cmd[n].source /\ d.target = cmd[n].target
      /\ d.core = cmd[n].core /\ d.previous = cmd[n].previous /\ d.existed = cmd[n].existed
      /\ d.paid = cmd[n].paid /\ d.changed = cmd[n].changed /\ d.stale = cmd[n].stale
  BY <1>1, Stepping
<1>5. Follows(n)
  BY <1>1, <1>2, <1>4 DEF Follows, Installs, Uses, Destroys, Unpaid, InstallSteps, Preparing
<1>6. TreeStep(n)
  BY <1>5, TreesFollow
<1>. QED
  BY <1>1, <1>2, <1>3, <1>4, <1>6, PreparationStep

LEMMA EnsureAuthorizedStep ==
  ASSUME IInv, NEW n \in Commands, EnsureAuthorized(n)
  PROVE  IInv'
<1>1. /\ cmd[n].step = "authorize" /\ To(n, "spend") /\ authorized' = authorized \cup {cmd[n].target}
      /\ UNCHANGED <<release, pointer, trusted, meta, journal, checkpoint>>
      /\ UNCHANGED <<faults, deaths, contended, crossed, unpaid>>
  BY DEF EnsureAuthorized, At, projectVars, troubleVars, ghosts
<1>2. ~cmd[n].core /\ cmd[n].target \in Releases
  BY <1>1, Installing DEF InstallSteps
<1>3. FilesOK' /\ Grows
  BY <1>1, <1>2, CommandTyped DEF FilesOK, RuntimeTypeOK, Grows
<1>. QED
  BY <1>1, <1>2, <1>3, PreparationGoesOn DEF projectVars

LEMMA SpendStep ==
  ASSUME IInv, NEW n \in Commands, Spend(n)
  PROVE  IInv'
<1>1. /\ cmd[n].step = "spend" /\ authorized' = authorized \ {cmd[n].target}
      /\ UNCHANGED <<release, pointer, trusted, meta, journal, checkpoint>>
      /\ UNCHANGED <<faults, deaths, contended, crossed, unpaid>>
  BY DEF Spend, At, projectVars, troubleVars, ghosts
<1>2. ~cmd[n].core /\ Replaces(cmd[n]) /\ Alive(n)
  BY <1>1, Installing DEF InstallSteps
<1>3. FilesOK' /\ Grows
  BY <1>1, CommandTyped DEF FilesOK, RuntimeTypeOK, Grows
<1>4. CASE Throw(n)
  BY <1>1, <1>2, <1>3, <1>4, PreparationFails DEF projectVars
<1>5. CASE Become(n, [cmd[n] EXCEPT !.step = "existed", !.paid = TRUE])
  <2>. DEFINE d == [cmd[n] EXCEPT !.step = "existed", !.paid = TRUE]
  <2>1. cmd' = [cmd EXCEPT ![n] = d] /\ cmd'[n] = d /\ cmd[n] \in CommandRecords
    BY <1>5, CommandTyped DEF Become, IInv, TypeOK
  <2>2. /\ d.step = "existed" /\ d.paid
        /\ d.op = cmd[n].op /\ d.source = cmd[n].source /\ d.target = cmd[n].target
        /\ d.core = cmd[n].core /\ d.previous = cmd[n].previous
        /\ d.changed = cmd[n].changed /\ d.stale = cmd[n].stale
    BY <2>1 DEF CommandRecords
  <2>3. d \in CommandRecords
    BY <2>1, StepNames DEF CommandRecords
  <2>4. Follows(n)
    BY <1>1, <1>2, <2>1, <2>2 DEF Follows, Installs, Uses, Destroys, Unpaid, InstallSteps, Preparing
  <2>5. TreeStep(n)
    BY <1>1, <1>3, <2>4, TreesFollow
  <2>6. d.step \in InstallSteps
    BY <2>2 DEF InstallSteps
  <2>. QED
    BY <1>1, <1>2, <1>3, <2>1, <2>2, <2>3, <2>5, <2>6, PreparationStep DEF projectVars
<1>. QED
  BY <1>4, <1>5 DEF Spend

LEMMA ExistedBeforeStep ==
  ASSUME IInv, NEW n \in Commands, ExistedBefore(n)
  PROVE  IInv'
<1>. DEFINE d == [cmd[n] EXCEPT !.step = "install", !.existed = release[cmd[n].target] # "absent"]
<1>1. cmd[n].step = "existed" /\ cmd' = [cmd EXCEPT ![n] = d] /\ Look
  BY DEF ExistedBefore, At, Become
<1>2. cmd'[n] = d /\ cmd[n] \in CommandRecords
  BY <1>1, CommandTyped DEF IInv, TypeOK
<1>3. /\ d.step = "install" /\ d.existed = (release[cmd[n].target] # "absent")
      /\ d.op = cmd[n].op /\ d.source = cmd[n].source /\ d.target = cmd[n].target
      /\ d.core = cmd[n].core /\ d.previous = cmd[n].previous /\ d.paid = cmd[n].paid
      /\ d.changed = cmd[n].changed /\ d.stale = cmd[n].stale
  BY <1>2 DEF CommandRecords
<1>4. d \in CommandRecords
  BY <1>2, StepNames DEF CommandRecords
<1>5. ~cmd[n].core /\ Replaces(cmd[n])
  BY <1>1, Installing DEF InstallSteps
<1>6. Follows(n)
  BY <1>1, <1>2, <1>3, <1>5 DEF Follows, Installs, Uses, Destroys, Unpaid, InstallSteps, Preparing, Whole
<1>7. TreeStep(n)
  BY <1>1, <1>6, LookKeeps, TreesFollow
<1>8. d.step \in InstallSteps
  BY <1>3 DEF InstallSteps, Preparing
<1>. QED
  BY <1>1, <1>3, <1>4, <1>5, <1>7, <1>8, LookKeeps, PreparationStep

\* A command that changes the project finds its release whole, unless it was contended.
LEMMA FindsWhole ==
  ASSUME IInv, NEW n \in Commands, cmd[n].core, NEW v \in {cmd[n].target, cmd[n].previous}, v \in Releases
  PROVE  v \in contended \/ Whole(v)
BY DEF IInv, ReleasesInv, ReleaseInv, InUse, Uses

-----------------------------------------------------------------------------
(* Commands that change the project.                                       *)

LEMMA Core ==
  ASSUME IInv, NEW n \in Commands, cmd[n].core
  PROVE  /\ cmd[n] \in CommandRecords /\ CommandInv(cmd[n]) /\ Alive(n) /\ cmd[n].op # "run"
         /\ cmd[n].op # "recover" => Replaces(cmd[n]) /\ cmd[n].op \in {"update", "migrate"}
         /\ ~crossed =>
              /\ SchemaOfPin /\ CheckpointsInv /\ (Replaces(cmd[n]) => PlanInv(cmd[n]))
              /\ cmd[n].op = "update" => UpdateInv(cmd[n])
              /\ cmd[n].op = "migrate" => MigrateInv(n, cmd[n])
         /\ Recoverable =>
              /\ ~crossed
              /\ cmd[n].op = "recover" => cmd[n].step = "reread" /\ Settled
              /\ cmd[n].op = "update" => UpdatePointer(cmd[n])
              /\ cmd[n].op = "migrate" => MigratePointer(cmd[n])
<1>1. cmd[n] \in CommandRecords /\ CommandInv(cmd[n])
  BY CommandTyped
<1>2. Alive(n) /\ cmd[n].op # "run"
  BY <1>1 DEF CommandInv, NewCommand, Alive
<1>3. cmd[n].op # "recover" => Replaces(cmd[n]) /\ cmd[n].op \in {"update", "migrate"}
  BY <1>1, <1>2 DEF Replaces, Alive, CommandRecords
<1>. QED
  BY <1>1, <1>2, <1>3 DEF IInv, ProjectInv, PointerInv, CheckpointsInv, Recoverable

\* The tree and the pointer, when a command names what it uses already.
LEMMA CoreTrees ==
  ASSUME IInv, NEW n \in Commands, cmd[n].core, Grows, UNCHANGED <<release, unpaid>>,
         pointer' \in {pointer, cmd[n].target, cmd[n].previous}, NEW d, cmd'[n] = d,
         \/ d.target = NoRelease /\ d.previous = NoRelease
         \/ /\ d.core /\ d.target = cmd[n].target /\ d.previous \in {cmd[n].previous, pointer}
            /\ d.step \in InstallSteps => cmd[n].step \in InstallSteps
  PROVE  TreeStep(n)
<1>1. unpaid' \subseteq contended'
  BY DEF IInv, ReleasesInv, FreshIsAuthorized, Grows
<1>2. ASSUME NEW v \in Releases \ contended' PROVE ReleaseInv(v) /\ v \in Releases
  BY DEF IInv, ReleasesInv, Grows
<1>3. ASSUME NEW v \in Releases \ contended', pointer' = v \/ Uses(cmd'[n], v) PROVE InUse(v)
  BY <1>2, <1>3, ReleasesAssumption DEF InUse, Uses
<1>4. ASSUME NEW v \in Releases \ contended', Installs(cmd'[n], v) PROVE Alone(n, v)
  BY <1>2, <1>4, ReleasesAssumption DEF Alone, ReleaseInv, Installs
<1>5. ASSUME NEW v \in Releases \ contended' PROVE ~Unpaid(cmd'[n], v) /\ ~Destroys(cmd'[n], v)
  BY <1>2, ReleasesAssumption DEF Unpaid, Destroys
<1>. QED
  BY <1>1, <1>3, <1>4, <1>5 DEF TreeStep

\* A step of such a command that writes neither the project nor the pointer.
LEMMA CoreLooks ==
  ASSUME IInv, NEW n \in Commands, cmd[n].core, FilesOK', Grows, TreeStep(n),
         UNCHANGED <<pointer, projectVars, faults, crossed>>,
         NEW d \in CommandRecords, CommandInv(d), cmd' = [cmd EXCEPT ![n] = d],
         d.core, d.step # "spawn",
         d.op = cmd[n].op /\ d.source = cmd[n].source /\ d.target = cmd[n].target,
         ~crossed => /\ d.op = "update" => UpdateInv(d)
                     /\ d.op = "migrate" => MigrateInv(n, d),
         Recoverable => /\ d.op # "recover"
                        /\ d.op = "update" => UpdatePointer(d)
                        /\ d.op = "migrate" => MigratePointer(d)
  PROVE  IInv'
<1>1. Moves(n) /\ cmd'[n] = d
  BY BecomeMoves
<1>2. ProjectStep(n)
  <2>1. ASSUME ~crossed' PROVE /\ SchemaOfPin' /\ CheckpointsInv' /\ (Replaces(d) => PlanInv(d))
    BY <2>1, Core DEF SchemaOfPin, CheckpointsInv, projectVars, Replaces, PlanInv, Alive
  <2>2. ASSUME ~crossed', d.op = "update" PROVE UpdateInv(cmd[n])'
    BY <2>2, <1>1 DEF UpdateInv, projectVars
  <2>3. ASSUME ~crossed', d.op = "migrate" PROVE MigrateInv(n, cmd[n])'
    BY <2>3, <1>1 DEF MigrateInv, Project, projectVars
  <2>. QED
    BY <1>1, <2>1, <2>2, <2>3 DEF ProjectStep
<1>3. PointerStep(n)
  <2>1. Recoverable' => Recoverable
    BY CommandTyped, CommandsAssumption DEF Recoverable, Grows, FilesOK
  <2>2. ASSUME Recoverable', d.op = "update" PROVE UpdatePointer(cmd[n])'
    BY <2>1, <2>2, <1>1 DEF UpdatePointer, Settled, projectVars
  <2>3. ASSUME Recoverable', d.op = "migrate" PROVE MigratePointer(cmd[n])'
    BY <2>1, <2>3, <1>1 DEF MigratePointer, Settled, projectVars
  <2>. QED
    BY <1>1, <2>1, <2>2, <2>3 DEF PointerStep
<1>4. Owns(n) /\ RunStep(n)
  BY <1>1 DEF Owns, RunStep, projectVars
<1>. QED
  BY <1>1, <1>2, <1>3, <1>4, StepKeeps DEF Keeps

\* Goes on from one step to another, with nothing to remember.
LEMMA CoreGoesOn ==
  ASSUME IInv, NEW n \in Commands, cmd[n].core, FilesOK', Grows, NEW s, To(n, s), TreeStep(n),
         UNCHANGED <<pointer, projectVars, faults, crossed>>,
         \/ cmd[n].step = "install" /\ s \in {"promote", "evidence"}
         \/ cmd[n].step = "promote" /\ s = "evidence"
         \/ cmd[n].step = "evidence" /\ s = IF cmd[n].op = "update" THEN "recheck" ELSE "previous"
         \/ cmd[n].step = "recheck" /\ s = "previous"
         \/ cmd[n].step = "confirm" /\ s = "draft"
         \/ cmd[n].step = "verify" /\ s = "close"
  PROVE  IInv'
<1>. DEFINE d == [cmd[n] EXCEPT !.step = s]
<1>1. cmd[n] \in CommandRecords /\ CommandInv(cmd[n]) /\ s \in Steps /\ cmd' = [cmd EXCEPT ![n] = d]
  BY CommandTyped, StepNames DEF To
<1>2. /\ d \in CommandRecords /\ d.step = s
      /\ d.op = cmd[n].op /\ d.source = cmd[n].source /\ d.target = cmd[n].target
      /\ d.core = cmd[n].core /\ d.previous = cmd[n].previous
      /\ d.changed = cmd[n].changed /\ d.stale = cmd[n].stale /\ d.draft = cmd[n].draft
  BY <1>1 DEF CommandRecords
<1>3. Replaces(cmd[n]) /\ cmd[n].op \in {"update", "migrate"}
  BY Core DEF CommandInv
<1>4. CommandInv(d)
  BY <1>1, <1>2, <1>3 DEF CommandInv, Replaces, UpdateSteps, MigrateSteps
<1>5. ASSUME ~crossed
      PROVE  /\ d.op = "update" => UpdateInv(d)
             /\ d.op = "migrate" => MigrateInv(n, d)
  BY <1>1, <1>2, <1>3, <1>5, Core DEF UpdateInv, MigrateInv, CommandInv, Replaces, UpdateSteps, MigrateSteps
<1>6. ASSUME Recoverable
      PROVE  /\ d.op = "update" => UpdatePointer(d)
             /\ d.op = "migrate" => MigratePointer(d)
  BY <1>1, <1>2, <1>3, <1>6, Core
  DEF UpdatePointer, MigratePointer, CommandInv, Replaces, UpdateSteps, MigrateSteps
<1>7. d.step # "spawn"
  BY <1>2
<1>. QED
  BY <1>1, <1>2, <1>3, <1>4, <1>5, <1>6, <1>7, CoreLooks

-----------------------------------------------------------------------------
(* The installation of a release.                                          *)

LEMMA LookTrees ==
  ASSUME IInv, NEW n \in Commands, cmd[n].core, Grows, UNCHANGED <<release, pointer, unpaid>>, NEW s,
         To(n, s), s \in InstallSteps => cmd[n].step \in InstallSteps
  PROVE  TreeStep(n)
<1>. DEFINE d == [cmd[n] EXCEPT !.step = s]
<1>1. cmd[n] \in CommandRecords /\ cmd'[n] = d
  BY CommandTyped DEF To, IInv, TypeOK
<1>2. d.core /\ d.target = cmd[n].target /\ d.previous = cmd[n].previous /\ d.step = s
  BY <1>1 DEF CommandRecords
<1>. QED
  BY <1>1, <1>2, CoreTrees

LEMMA InstallStep ==
  ASSUME IInv, NEW n \in Commands, Install(n)
  PROVE  IInv'
<1>1. /\ cmd[n].step = "install" /\ Look /\ cmd[n].step \in InstallSteps
      /\ To(n, "promote") \/ To(n, "evidence") \/ Throw(n)
  BY DEF Install, At, InstallSteps, Preparing
<1>2. /\ FilesOK' /\ Grows /\ UNCHANGED <<release, pointer, unpaid, projectVars, faults, contended, crossed>>
      /\ Replaces(cmd[n]) /\ Alive(n)
  BY <1>1, LookKeeps, Installing
<1>3. CASE ~cmd[n].core
  BY <1>1, <1>2, <1>3, PreparationGoesOn, PreparationFails
<1>4. CASE cmd[n].core /\ Throw(n)
  <2>1. Handler(cmd[n]) = "over"
    BY <1>1, <1>4 DEF Handler, Preparing, Committing, Migrating
  <2>. QED
    BY <1>1, <1>2, <1>4, <2>1, ChangeFails DEF Excused
<1>5. CASE cmd[n].core /\ ~Throw(n)
  BY <1>1, <1>2, <1>5, LookTrees, CoreGoesOn
<1>. QED
  BY <1>3, <1>4, <1>5

LEMMA PromoteStep ==
  ASSUME IInv, NEW n \in Commands, Promote(n)
  PROVE  IInv'
<1>1. /\ cmd[n].step = "promote" /\ UNCHANGED <<pointer, authorized, trusted, meta, journal, checkpoint>>
      /\ UNCHANGED <<faults, deaths, contended, crossed>>
  BY DEF Promote, At, projectVars, troubleVars
<1>2. Replaces(cmd[n]) /\ Alive(n) /\ cmd[n].target \in Releases /\ cmd[n] \in CommandRecords
  BY <1>1, Installing, CommandTyped DEF InstallSteps, Preparing
<1>3. FilesOK' /\ Grows
  <2>1. release' \in [Releases -> Trees] /\ unpaid' \subseteq Releases
    BY <1>2, CommandTyped DEF Promote, FilesOK, RuntimeTypeOK, Trees
  <2>. QED
    BY <1>1, <2>1, CommandTyped DEF FilesOK, RuntimeTypeOK, Grows
<1>4. CASE Throw(n) /\ UNCHANGED <<release, unpaid>>
  <2>1. CASE ~cmd[n].core
    BY <1>1, <1>2, <1>3, <1>4, <2>1, PreparationFails DEF projectVars
  <2>2. CASE cmd[n].core
    <3>1. Handler(cmd[n]) = "over"
      BY <1>1, <2>2 DEF Handler, Preparing, Committing, Migrating
    <3>. QED
      BY <1>1, <1>2, <1>3, <1>4, <2>2, <3>1, ChangeFails DEF Excused, projectVars
  <2>. QED
    BY <2>1, <2>2
<1>5. CASE ~(Throw(n) /\ UNCHANGED <<release, unpaid>>)
  <2>. DEFINE d == [cmd[n] EXCEPT !.step = "evidence", !.paid = FALSE]
  <2>1. /\ release[cmd[n].target] = "absent" /\ release' = [release EXCEPT ![cmd[n].target] = "whole"]
        /\ unpaid' = IF cmd[n].paid THEN unpaid ELSE unpaid \cup {cmd[n].target}
        /\ cmd' = [cmd EXCEPT ![n] = d] /\ cmd'[n] = d
    BY <1>5 DEF Promote, Become, IInv, TypeOK
  <2>2. /\ d.step = "evidence" /\ ~d.paid
        /\ d.op = cmd[n].op /\ d.source = cmd[n].source /\ d.target = cmd[n].target
        /\ d.core = cmd[n].core /\ d.previous = cmd[n].previous /\ d.existed = cmd[n].existed
        /\ d.changed = cmd[n].changed /\ d.stale = cmd[n].stale /\ d.draft = cmd[n].draft
    BY <1>2 DEF CommandRecords
  <2>3. d \in CommandRecords
    BY <1>2, StepNames DEF CommandRecords
  <2>4. cmd[n].core => cmd[n].target \in contended
    BY <1>2, <2>1, FindsWhole DEF Whole
  <2>5. ~cmd[n].core /\ ~cmd[n].paid => cmd[n].target \in contended
    BY <1>1, <1>2, <2>1 DEF IInv, ReleasesInv, ReleaseInv
  <2>6. unpaid' \subseteq contended'
    BY <1>1, <2>1, <2>4, <2>5 DEF IInv, ReleasesInv, FreshIsAuthorized
  <2>7. TreeStep(n)
    <3>1. release \in [Releases -> Trees]
      BY CommandTyped DEF FilesOK, RuntimeTypeOK
    <3>2. \A v \in Releases : release'[v] = IF v = cmd[n].target THEN "whole" ELSE release[v]
      BY <2>1, <3>1
    <3>3. \A v \in Releases \ contended : ReleaseInv(v)
      BY DEF IInv, ReleasesInv
    <3>4. ASSUME NEW v \in Releases \ contended
          PROVE  /\ Installs(cmd'[n], v) => Alone(n, v)
                 /\ Uses(cmd'[n], v) => InUse(v)
                 /\ Destroys(cmd'[n], v) => Destroys(cmd[n], v)
                 /\ ~Unpaid(cmd'[n], v)
      BY <1>1, <2>1, <2>2, <3>3
      DEF Installs, Uses, InUse, Destroys, Unpaid, Alone, ReleaseInv, InstallSteps, Preparing
    <3>5. Installs(cmd[n], cmd[n].target)
      BY <1>1 DEF Installs, InstallSteps, Preparing
    <3>. QED
      BY <1>1, <2>1, <2>6, <3>2, <3>4, <3>5 DEF TreeStep, Whole, InUse
  <2>8. CASE ~cmd[n].core
    <3>1. d.step \in InstallSteps
      BY <2>2 DEF InstallSteps, Preparing
    <3>. QED
      BY <1>1, <1>2, <1>3, <2>1, <2>2, <2>3, <2>7, <2>8, <3>1, PreparationStep DEF projectVars
  <2>9. CASE cmd[n].core
    <3>1. CommandInv(d) /\ d.op \in {"update", "migrate"}
      <4>1. cmd[n].op \in {"update", "migrate"} /\ CommandInv(cmd[n])
        BY <1>2, CommandTyped DEF Replaces
      <4>. QED
        BY <1>1, <1>2, <2>2, <2>9, <4>1 DEF CommandInv, Replaces, UpdateSteps, MigrateSteps
    <3>2. ASSUME ~crossed
          PROVE  /\ d.op = "update" => UpdateInv(d)
                 /\ d.op = "migrate" => MigrateInv(n, d)
      BY <1>1, <2>2, <2>9, <3>1, <3>2, Core DEF UpdateInv, MigrateInv
    <3>3. ASSUME Recoverable
          PROVE  /\ d.op = "update" => UpdatePointer(d)
                 /\ d.op = "migrate" => MigratePointer(d)
      BY <1>1, <2>2, <2>9, <3>1, <3>3, Core DEF UpdatePointer, MigratePointer
    <3>4. d.step # "spawn" /\ d.op # "recover"
      BY <2>2, <3>1
    <3>. QED
      BY <1>1, <1>2, <1>3, <2>1, <2>2, <2>3, <2>7, <2>9, <3>1, <3>2, <3>3, <3>4, CoreLooks DEF projectVars
  <2>. QED
    BY <2>8, <2>9
<1>. QED
  BY <1>4, <1>5

LEMMA EvidenceStep ==
  ASSUME IInv, NEW n \in Commands, Evidence(n)
  PROVE  IInv'
<1>. DEFINE s == IF cmd[n].op = "update" THEN "recheck" ELSE "previous"
<1>1. /\ cmd[n].step = "evidence" /\ Look /\ cmd[n].step \in InstallSteps
      /\ Throw(n) \/ (~cmd[n].core /\ To(n, "trust")) \/ (cmd[n].core /\ To(n, s))
  BY DEF Evidence, At, InstallSteps, Preparing
<1>2. /\ FilesOK' /\ Grows /\ UNCHANGED <<release, pointer, unpaid, projectVars, faults, contended, crossed>>
      /\ Replaces(cmd[n]) /\ Alive(n)
  BY <1>1, LookKeeps, Installing
<1>3. CASE ~cmd[n].core
  BY <1>1, <1>2, <1>3, PreparationGoesOn, PreparationFails
<1>4. CASE cmd[n].core /\ Throw(n)
  <2>1. Handler(cmd[n]) = "over"
    BY <1>1, <1>4 DEF Handler, Preparing, Committing, Migrating
  <2>. QED
    BY <1>1, <1>2, <1>4, <2>1, ChangeFails DEF Excused
<1>5. CASE cmd[n].core /\ ~Throw(n)
  <2>1. TreeStep(n)
    BY <1>1, <1>2, <1>5, LookTrees
  <2>. QED
    BY <1>1, <1>2, <1>5, <2>1, CoreGoesOn
<1>. QED
  BY <1>3, <1>4, <1>5

LEMMA TrustStep ==
  ASSUME IInv, NEW n \in Commands, Trust(n)
  PROVE  IInv'
<1>1. /\ cmd[n].step = "trust" /\ UNCHANGED <<release, pointer, authorized, meta, journal, checkpoint>>
      /\ UNCHANGED <<faults, deaths, contended, crossed, unpaid>>
  BY DEF Trust, At, projectVars, troubleVars, ghosts
<1>2. ~cmd[n].core /\ Alive(n) /\ cmd[n].target \in Releases
  BY <1>1, Installing DEF InstallSteps, Preparing
<1>3. trusted' \subseteq Releases
  BY <1>2, CommandTyped DEF Trust, FilesOK, RuntimeTypeOK
<1>4. FilesOK' /\ Grows
  BY <1>1, <1>3, CommandTyped DEF FilesOK, RuntimeTypeOK, Grows
<1>5. To(n, "attest") \/ Throw(n)
  BY DEF Trust
<1>. QED
  BY <1>1, <1>2, <1>4, <1>5, PreparationGoesOn, PreparationFails DEF projectVars

\* The release is verified and nobody else installs it: it may be relied upon.
LEMMA AttestStep ==
  ASSUME IInv, NEW n \in Commands, Attest(n)
  PROVE  IInv'
<1>1. /\ cmd[n].step = "attest"
      /\ UNCHANGED <<release, pointer, authorized, trusted, meta, journal, checkpoint>>
      /\ UNCHANGED <<faults, deaths, contended, unpaid>>
  BY DEF Attest, At, KeepFiles, runtimeVars, projectVars, troubleVars
<1>2. /\ ~cmd[n].core /\ Replaces(cmd[n]) /\ Alive(n) /\ cmd[n].target \in Releases
      /\ cmd[n] \in CommandRecords /\ CommandInv(cmd[n])
  BY <1>1, Installing, CommandTyped DEF InstallSteps, Preparing
<1>3. crossed' \in BOOLEAN /\ (crossed => crossed')
  BY CommandTyped, Zenon DEF Attest, Cross, FilesOK
<1>4. FilesOK' /\ Grows
  <2>1. faults \in Int /\ deaths \in Int
    BY CommandTyped, CommandsAssumption DEF FilesOK
  <2>. QED
    BY <1>1, <1>3, <2>1, CommandTyped DEF FilesOK, RuntimeTypeOK, Grows
<1>5. CASE Throw(n)
  BY <1>1, <1>2, <1>4, <1>5, PreparationFails DEF projectVars
<1>6. CASE ~Throw(n)
  <2>. DEFINE d == [cmd[n] EXCEPT !.step = "check", !.core = TRUE, !.existed = FALSE, !.paid = FALSE]
  <2>1. Whole(cmd[n].target) /\ Cross(n) /\ cmd' = [cmd EXCEPT ![n] = d] /\ cmd'[n] = d
    BY <1>6 DEF Attest, Become, IInv, TypeOK
  <2>2. /\ d.step = "check" /\ d.core
        /\ d.op = cmd[n].op /\ d.source = cmd[n].source /\ d.target = cmd[n].target
        /\ d.previous = NoRelease /\ ~d.changed /\ ~d.stale
    BY <1>2 DEF CommandRecords, CommandInv
  <2>3. d \in CommandRecords
    BY <1>2, StepNames DEF CommandRecords
  <2>4. CommandInv(d)
    BY <1>2, <2>2 DEF CommandInv, Replaces, UpdateSteps, MigrateSteps
  <2>5. Moves(n)
    BY <2>1, <2>3, <2>4, BecomeMoves
  <2>6. TreeStep(n)
    <3>1. \A v \in Releases \ contended : ReleaseInv(v)
      BY DEF IInv, ReleasesInv
    <3>2. unpaid' \subseteq contended'
      BY <1>1 DEF IInv, ReleasesInv, FreshIsAuthorized
    <3>3. ASSUME NEW v \in Releases \ contended, Uses(d, v) PROVE Whole(v) /\ Alone(n, v)
      BY <1>1, <1>2, <2>1, <2>2, <3>1, <3>3, ReleasesAssumption
      DEF Uses, Alone, ReleaseInv, Installs, InstallSteps, Preparing
    <3>4. ASSUME NEW v \in Releases PROVE ~Installs(d, v) /\ ~Destroys(d, v) /\ ~Unpaid(d, v)
      BY <2>2 DEF Installs, Destroys, Unpaid, InstallSteps, Preparing
    <3>. QED
      BY <1>1, <2>1, <3>2, <3>3, <3>4 DEF TreeStep, InUse
  <2>7. ASSUME ~crossed' PROVE ~crossed /\ \A k \in Commands \ {n} : ~cmd[k].core
    BY <2>1, <2>7, Zenon DEF Cross
  <2>8. ProjectStep(n)
    <3>1. ASSUME ~crossed' PROVE SchemaOfPin' /\ CheckpointsInv' /\ PlanInv(d)
      BY <1>1, <1>2, <2>2, <2>7, <3>1
      DEF SchemaOfPin, CheckpointsInv, IInv, ProjectInv, PlanInv, Replaces
    <3>2. UpdateInv(cmd[n])' /\ MigrateInv(n, cmd[n])'
      BY <2>1, <2>2 DEF UpdateInv, MigrateInv
    <3>. QED
      BY <2>1, <2>7, <3>1, <3>2 DEF ProjectStep
  <2>9. PointerStep(n)
    <3>1. ASSUME Recoverable' PROVE Settled
      BY <1>1, <1>2, <2>7, <3>1 DEF Recoverable, IInv, PointerInv
    <3>. QED
      BY <1>1, <1>2, <2>1, <2>2, <3>1 DEF PointerStep, UpdatePointer, MigratePointer, Settled, Replaces
  <2>10. Owns(n) /\ RunStep(n)
    BY <1>1, <2>1, <2>2 DEF Owns, RunStep, projectVars
  <2>. QED
    BY <1>4, <2>5, <2>6, <2>8, <2>9, <2>10, StepKeeps DEF Keeps
<1>. QED
  BY <1>5, <1>6

\* The trees, when the command writes that of its own release.
LEMMA RemovalTrees ==
  ASSUME IInv, NEW n \in Commands, cmd[n].step \in {"discard", "remove"}, NEW t, Grows,
         release' = [release EXCEPT ![cmd[n].target] = t], UNCHANGED <<pointer, unpaid>>,
         ~cmd'[n].core, cmd'[n].target \in {cmd[n].target, NoRelease}, cmd'[n].step \in {"remove", "over"}
  PROVE  TreeStep(n)
<1>1. cmd[n].step \in InstallSteps /\ ~cmd[n].core /\ cmd[n].target \in Releases
  BY Installing DEF InstallSteps
<1>2. unpaid' \subseteq contended'
  BY DEF IInv, ReleasesInv, FreshIsAuthorized, Grows
<1>3. \A v \in Releases \ contended' : ReleaseInv(v)
  BY DEF IInv, ReleasesInv, Grows
<1>4. \A v \in Releases : v # cmd[n].target => release'[v] = release[v]
  BY CommandTyped DEF FilesOK, RuntimeTypeOK
<1>5. Installs(cmd[n], cmd[n].target) /\ Destroys(cmd[n], cmd[n].target)
  BY <1>1 DEF Installs, Destroys, Preparing
<1>6. ASSUME NEW v \in Releases \ contended'
      PROVE  /\ Installs(cmd'[n], v) => Alone(n, v)
             /\ ~Uses(cmd'[n], v)
             /\ Destroys(cmd'[n], v) => Destroys(cmd[n], v)
             /\ ~Unpaid(cmd'[n], v)
  BY <1>1, <1>3, <1>5, ReleasesAssumption DEF Installs, Uses, Destroys, Unpaid, Alone, ReleaseInv, InstallSteps
<1>. QED
  BY <1>2, <1>4, <1>5, <1>6 DEF TreeStep, InUse

LEMMA DiscardStep ==
  ASSUME IInv, NEW n \in Commands, Discard(n)
  PROVE  IInv'
<1>. DEFINE d == [cmd[n] EXCEPT !.step = "remove"]
            t == IF Whole(cmd[n].target) THEN "torn" ELSE release[cmd[n].target]
<1>1. /\ cmd[n].step = "discard" /\ cmd' = [cmd EXCEPT ![n] = d] /\ cmd'[n] = d
      /\ UNCHANGED <<pointer, authorized, trusted, meta, journal, checkpoint>>
      /\ UNCHANGED <<faults, deaths, contended, crossed, unpaid>>
  BY DEF Discard, At, To, projectVars, troubleVars, ghosts, IInv, TypeOK
<1>2. ~cmd[n].core /\ Replaces(cmd[n]) /\ cmd[n].target \in Releases /\ cmd[n] \in CommandRecords
  BY <1>1, Installing, CommandTyped DEF InstallSteps
<1>3. release \in [Releases -> Trees]
  BY CommandTyped DEF FilesOK, RuntimeTypeOK
<1>4. release' = [release EXCEPT ![cmd[n].target] = t]
  BY <1>3 DEF Discard
<1>5. FilesOK' /\ Grows
  <2>1. release' \in [Releases -> Trees]
    BY <1>2, <1>3, <1>4 DEF Trees
  <2>. QED
    BY <1>1, <2>1, CommandTyped DEF FilesOK, RuntimeTypeOK, Grows
<1>6. /\ d \in CommandRecords /\ d.step = "remove"
      /\ d.op = cmd[n].op /\ d.source = cmd[n].source /\ d.target = cmd[n].target
      /\ d.core = cmd[n].core /\ d.previous = cmd[n].previous
      /\ d.changed = cmd[n].changed /\ d.stale = cmd[n].stale
  BY <1>2, StepNames, Stepping
<1>7. TreeStep(n)
  BY <1>1, <1>2, <1>4, <1>5, <1>6, RemovalTrees
<1>8. d.step \in InstallSteps
  BY <1>6 DEF InstallSteps
<1>. QED
  BY <1>1, <1>2, <1>5, <1>6, <1>7, <1>8, PreparationStep DEF projectVars

LEMMA RemoveStep ==
  ASSUME IInv, NEW n \in Commands, Remove(n)
  PROVE  IInv'
<1>1. /\ cmd[n].step = "remove" /\ cmd' = [cmd EXCEPT ![n] = Over] /\ cmd'[n] = Over
      /\ UNCHANGED <<pointer, authorized, trusted, meta, journal, checkpoint>>
      /\ UNCHANGED <<faults, deaths, contended, crossed, unpaid>>
      /\ release' = [release EXCEPT ![cmd[n].target] = "absent"]
  BY DEF Remove, At, Finish, projectVars, troubleVars, ghosts, IInv, TypeOK
<1>2. ~cmd[n].core /\ Replaces(cmd[n])
  BY <1>1, Installing DEF InstallSteps
<1>3. FilesOK' /\ Grows
  <2>1. release' \in [Releases -> Trees]
    BY <1>1, CommandTyped DEF Trees, FilesOK, RuntimeTypeOK
  <2>. QED
    BY <1>1, <2>1, CommandTyped DEF FilesOK, RuntimeTypeOK, Grows
<1>4. TreeStep(n)
  BY <1>1, <1>3, NewCommandFacts, RemovalTrees
<1>5. Moves(n)
  BY <1>1, NewCommandFacts, BecomeMoves
<1>6. Owns(n) /\ ProjectStep(n) /\ RunStep(n) /\ PointerStep(n)
  BY <1>1, <1>2, <1>3, <1>5, NewCommandFacts, Preparation DEF projectVars, Replaces
<1>. QED
  BY <1>3, <1>4, <1>5, <1>6, StepKeeps DEF Keeps

LEMMA ContendAlone ==
  ASSUME IInv, NEW n \in Commands, NEW v \in Releases, Contend(n, v)
  PROVE  contended' \subseteq Releases /\ contended \subseteq contended' /\ (v \notin contended' => Alone(n, v))
<1>1. contended \subseteq Releases
  BY CommandTyped DEF FilesOK
<1>. QED
  BY <1>1 DEF Contend, Alone, Installs

LEMMA ConsumeStep ==
  ASSUME IInv, NEW n \in Commands, Consume(n)
  PROVE  IInv'
<1>1. /\ cmd[n].step = "planned"
      /\ UNCHANGED <<release, pointer, authorized, trusted, meta, journal, checkpoint>>
      /\ UNCHANGED <<faults, deaths, unpaid>>
  BY DEF Consume, At, KeepFiles, runtimeVars, projectVars, troubleVars
<1>2. cmd[n] \in CommandRecords /\ CommandInv(cmd[n]) /\ FilesOK /\ faults \in Int /\ deaths \in Int
  BY CommandTyped, CommandsAssumption DEF FilesOK
<1>3. ~cmd[n].core /\ (cmd[n].op # "recover" => Replaces(cmd[n]) /\ cmd[n].target \in Releases)
  BY <1>1, <1>2 DEF CommandInv, Replaces, CommandRecords, UpdateSteps, MigrateSteps
<1>4. unpaid' \subseteq contended
  BY <1>1 DEF IInv, ReleasesInv, FreshIsAuthorized
<1>5. CASE cmd[n].op = "recover"
  <2>. DEFINE d == [cmd[n] EXCEPT !.step = "reread", !.core = TRUE]
  <2>1. cmd' = [cmd EXCEPT ![n] = d] /\ cmd'[n] = d /\ Cross(n) /\ contended' = contended
    BY <1>5 DEF Consume, Become, IInv, TypeOK
  <2>2. /\ d.step = "reread" /\ d.core /\ d.op = "recover"
        /\ d.interrupted = cmd[n].interrupted /\ d.target = NoRelease /\ d.previous = NoRelease
    BY <1>1, <1>2, <1>5 DEF CommandRecords, CommandInv
  <2>3. d \in CommandRecords
    BY <1>2, StepNames DEF CommandRecords
  <2>4. CommandInv(d) /\ ~Replaces(d)
    BY <1>1, <1>2, <1>5, <2>2 DEF CommandInv, Replaces
  <2>5. Moves(n)
    BY <2>1, <2>3, <2>4, BecomeMoves
  <2>6. crossed' \in BOOLEAN /\ (crossed => crossed')
    BY <1>2, <2>1, Zenon DEF Cross, FilesOK
  <2>7. FilesOK' /\ Grows
    BY <1>1, <1>2, <2>1, <2>6 DEF FilesOK, RuntimeTypeOK, Grows
  <2>8. ASSUME ~crossed' PROVE ~crossed /\ \A k \in Commands \ {n} : ~cmd[k].core
    BY <2>1, <2>8, Zenon DEF Cross
  <2>9. TreeStep(n)
    BY <1>1, <1>4, <2>1, <2>2, ReleasesAssumption DEF TreeStep, Uses, Installs, Destroys, Unpaid, InUse
  <2>10. ProjectStep(n)
    BY <1>1, <2>1, <2>2, <2>4, <2>8 DEF ProjectStep, SchemaOfPin, CheckpointsInv, IInv, ProjectInv
  <2>11. ASSUME Recoverable' PROVE Settled
    BY <1>1, <1>3, <2>1, <2>8, <2>11 DEF Recoverable, IInv, PointerInv
  <2>12. PointerStep(n)
    BY <1>1, <1>3, <2>1, <2>2, <2>11 DEF PointerStep, Settled
  <2>13. Owns(n) /\ RunStep(n)
    BY <1>1, <2>1, <2>2 DEF Owns, RunStep, projectVars
  <2>. QED
    BY <2>5, <2>7, <2>9, <2>10, <2>12, <2>13, StepKeeps DEF Keeps
<1>6. CASE cmd[n].op # "recover"
  <2>. DEFINE d == [cmd[n] EXCEPT !.step = "exists"]
  <2>1. /\ cmd' = [cmd EXCEPT ![n] = d] /\ cmd'[n] = d /\ Contend(n, cmd[n].target) /\ crossed' = crossed
    BY <1>6 DEF Consume, To, IInv, TypeOK
  <2>2. /\ d \in CommandRecords /\ d.step = "exists" /\ ~d.core
        /\ d.op = cmd[n].op /\ d.source = cmd[n].source /\ d.target = cmd[n].target
        /\ d.core = cmd[n].core /\ d.previous = cmd[n].previous
        /\ d.changed = cmd[n].changed /\ d.stale = cmd[n].stale
    BY <1>2, <1>3, StepNames, Stepping
  <2>3. /\ contended' \subseteq Releases /\ contended \subseteq contended'
        /\ cmd[n].target \notin contended' => Alone(n, cmd[n].target)
    BY <1>3, <1>6, <2>1, ContendAlone
  <2>4. FilesOK' /\ Grows
    BY <1>1, <1>2, <2>1, <2>3 DEF FilesOK, RuntimeTypeOK, Grows
  <2>5. TreeStep(n)
    BY <1>1, <1>4, <2>1, <2>2, <2>3 DEF TreeStep, Uses, Installs, Destroys, Unpaid, InUse, Preparing
  <2>6. d.step \in InstallSteps
    BY <2>2 DEF InstallSteps
  <2>. QED
    BY <1>1, <1>3, <1>6, <2>1, <2>2, <2>4, <2>5, <2>6, PreparationStep DEF projectVars
<1>. QED
  BY <1>5, <1>6

-----------------------------------------------------------------------------
(* The update.                                                             *)

LEMMA CheckStep ==
  ASSUME IInv, NEW n \in Commands, Check(n)
  PROVE  IInv'
<1>1. /\ cmd[n].step = "check" /\ Contend(n, cmd[n].target)
      /\ UNCHANGED <<release, pointer, authorized, trusted, meta, journal, checkpoint>>
      /\ UNCHANGED <<faults, deaths, crossed, unpaid>>
  BY DEF Check, At, KeepFiles, runtimeVars, projectVars, troubleVars
<1>2. cmd[n] \in CommandRecords /\ CommandInv(cmd[n]) /\ FilesOK /\ faults \in Int /\ deaths \in Int
  BY CommandTyped, CommandsAssumption DEF FilesOK
<1>3. /\ cmd[n].core /\ Replaces(cmd[n]) /\ cmd[n].target \in Releases
      /\ cmd[n].op \in {"update", "migrate"}
  BY <1>1, <1>2 DEF CommandInv, Replaces, CommandRecords, InstallSteps, Preparing
<1>4. /\ contended' \subseteq Releases /\ contended \subseteq contended'
      /\ cmd[n].target \notin contended' => Alone(n, cmd[n].target)
  BY <1>1, <1>3, ContendAlone
<1>5. FilesOK' /\ Grows
  BY <1>1, <1>2, <1>4 DEF FilesOK, RuntimeTypeOK, Grows
<1>6. CASE Throw(n)
  <2>1. Handler(cmd[n]) = "over" /\ Alive(n)
    BY <1>1, <1>3 DEF Handler, Preparing, Committing, Migrating, Alive
  <2>. QED
    BY <1>1, <1>3, <1>5, <1>6, <2>1, ChangeFails DEF Excused, projectVars
<1>7. CASE ~Throw(n)
  <2>. DEFINE d == [cmd[n] EXCEPT !.step = "install", !.stale = FALSE]
  <2>1. /\ cmd' = [cmd EXCEPT ![n] = d] /\ cmd'[n] = d
        /\ Current(n) /\ (cmd[n].op = "migrate" => meta.schema = 1)
    BY <1>7 DEF Check, Become, IInv, TypeOK
  <2>2. /\ d.step = "install" /\ d.core /\ ~d.stale
        /\ d.op = cmd[n].op /\ d.source = cmd[n].source /\ d.target = cmd[n].target
        /\ d.previous = cmd[n].previous /\ d.changed = cmd[n].changed
    BY <1>2, <1>3 DEF CommandRecords
  <2>3. d \in CommandRecords
    BY <1>2, StepNames DEF CommandRecords
  <2>4. CommandInv(d)
    BY <1>1, <1>2, <1>3, <2>2 DEF CommandInv, Replaces, UpdateSteps, MigrateSteps
  <2>5. TreeStep(n)
    <3>1. unpaid' \subseteq contended'
      BY <1>1, <1>4 DEF IInv, ReleasesInv, FreshIsAuthorized
    <3>. QED
      BY <1>1, <1>3, <1>4, <2>1, <2>2, <3>1 DEF TreeStep, Uses, Installs, Destroys, Unpaid, InUse, Preparing
  <2>6. meta = [version |-> meta.version, schema |-> meta.schema]
    BY <1>2 DEF FilesOK, Metas
  <2>7. UpdateInv(d) \/ d.op # "update"
    BY <2>1, <2>2 DEF UpdateInv, Current
  <2>8. MigrateInv(n, d) \/ d.op # "migrate"
    BY <2>1, <2>2, <2>6 DEF MigrateInv, Current, Project
  <2>9. ASSUME Recoverable
        PROVE  /\ d.op = "update" => UpdatePointer(d)
               /\ d.op = "migrate" => MigratePointer(d)
    BY <1>1, <1>3, <2>2, <2>9, Core DEF UpdatePointer, MigratePointer
  <2>10. d.step # "spawn" /\ d.op # "recover"
    BY <1>3, <2>2
  <2>. QED
    BY <1>1, <1>3, <1>5, <2>1, <2>2, <2>3, <2>4, <2>5, <2>7, <2>8, <2>9, <2>10, CoreLooks DEF projectVars
<1>. QED
  BY <1>6, <1>7

\* Where a command is that changes the project, at a step of that change.
LEMMA Changing ==
  ASSUME IInv, NEW n \in Commands,
         cmd[n].step \in (UpdateSteps \cup MigrateSteps) \ {"install", "promote", "evidence"}
  PROVE  /\ cmd[n].core /\ Replaces(cmd[n]) /\ Alive(n) /\ cmd[n].op \in {"update", "migrate"}
         /\ cmd[n].target \in Releases /\ cmd[n].source \in Releases
         /\ cmd[n].step \in IF cmd[n].op = "update" THEN UpdateSteps ELSE MigrateSteps
<1>1. cmd[n] \in CommandRecords /\ CommandInv(cmd[n])
  BY CommandTyped
<1>. QED
  BY <1>1
  DEF CommandRecords, CommandInv, Replaces, Alive, InstallSteps, Preparing, UpdateSteps, MigrateSteps

LEMMA RecheckStep ==
  ASSUME IInv, NEW n \in Commands, Recheck(n)
  PROVE  IInv'
<1>1. cmd[n].step = "recheck" /\ Look /\ (To(n, "previous") \/ Throw(n))
  BY DEF Recheck, At
<1>2. /\ FilesOK' /\ Grows /\ UNCHANGED <<release, pointer, unpaid, projectVars, faults, contended, crossed>>
      /\ cmd[n].core /\ Alive(n)
  BY <1>1, LookKeeps, Changing DEF UpdateSteps
<1>3. CASE Throw(n)
  <2>1. Handler(cmd[n]) = "over"
    BY <1>1 DEF Handler, Preparing, Committing, Migrating
  <2>. QED
    BY <1>1, <1>2, <1>3, <2>1, ChangeFails DEF Excused
<1>4. CASE To(n, "previous")
  <2>1. TreeStep(n)
    BY <1>1, <1>2, <1>4, LookTrees DEF InstallSteps, Preparing
  <2>. QED
    BY <1>1, <1>2, <1>4, <2>1, CoreGoesOn
<1>. QED
  BY <1>1, <1>3, <1>4

LEMMA PreviousStep ==
  ASSUME IInv, NEW n \in Commands, Previous(n)
  PROVE  IInv'
<1>1. cmd[n].step = "previous" /\ Look
  BY DEF Previous, At
<1>2. /\ FilesOK' /\ Grows /\ UNCHANGED <<release, pointer, unpaid, projectVars, faults, contended, crossed>>
      /\ cmd[n].core /\ Alive(n) /\ Replaces(cmd[n]) /\ cmd[n].op \in {"update", "migrate"}
      /\ cmd[n] \in CommandRecords /\ CommandInv(cmd[n]) /\ FilesOK
  BY <1>1, LookKeeps, Changing, CommandTyped DEF UpdateSteps
<1>3. CASE Throw(n)
  <2>1. Handler(cmd[n]) = "over"
    BY <1>1 DEF Handler, Preparing, Committing, Migrating
  <2>. QED
    BY <1>1, <1>2, <1>3, <2>1, ChangeFails DEF Excused
<1>4. CASE ~Throw(n)
  <2>. DEFINE s == IF cmd[n].op = "update" THEN "activate" ELSE "checkpoint"
              d == [cmd[n] EXCEPT !.previous = pointer, !.step = s]
  <2>1. cmd' = [cmd EXCEPT ![n] = d] /\ cmd'[n] = d
    BY <1>4 DEF Previous, Become, IInv, TypeOK
  <2>2. /\ d.step = s /\ d.previous = pointer /\ d.core
        /\ d.op = cmd[n].op /\ d.source = cmd[n].source /\ d.target = cmd[n].target
        /\ d.stale = cmd[n].stale /\ d.changed = cmd[n].changed
    BY <1>2 DEF CommandRecords
  <2>3. s \in Steps /\ s \in {"activate", "checkpoint"} /\ pointer \in Releases \cup {NoRelease}
    BY <1>2, StepNames DEF FilesOK, RuntimeTypeOK
  <2>4. d \in CommandRecords
    BY <1>2, <2>3 DEF CommandRecords
  <2>5. CommandInv(d)
    BY <1>1, <1>2, <2>2, <2>3 DEF CommandInv, Replaces, UpdateSteps, MigrateSteps
  <2>6. TreeStep(n)
    BY <1>1, <1>2, <2>1, <2>2, <2>3, CoreTrees DEF InstallSteps, Preparing
  <2>7. ASSUME ~crossed
        PROVE  /\ d.op = "update" => UpdateInv(d)
               /\ d.op = "migrate" => MigrateInv(n, d)
    BY <1>1, <1>2, <2>2, <2>7, Core DEF UpdateInv, MigrateInv
  <2>8. ASSUME Recoverable
        PROVE  /\ d.op = "update" => UpdatePointer(d)
               /\ d.op = "migrate" => MigratePointer(d)
    <3>1. Settled /\ meta.version = cmd[n].source
      <4>1. ~crossed
        BY <2>8 DEF Recoverable
      <4>2. CASE cmd[n].op = "update"
        <5>1. UpdateInv(cmd[n]) /\ UpdatePointer(cmd[n])
          BY <1>2, <2>8, <4>1, <4>2, Core
        <5>. QED
          BY <1>1, <5>1 DEF UpdatePointer, UpdateInv
      <4>3. CASE cmd[n].op = "migrate"
        <5>1. MigrateInv(n, cmd[n]) /\ MigratePointer(cmd[n])
          BY <1>2, <2>8, <4>1, <4>3, Core
        <5>. QED
          BY <1>1, <5>1 DEF MigratePointer, MigrateInv, Project
      <4>. QED
        BY <1>2, <4>2, <4>3
    <3>. QED
      BY <1>1, <1>2, <2>2, <2>8, <3>1, Core DEF UpdatePointer, MigratePointer, Settled
  <2>9. d.step # "spawn" /\ d.op # "recover"
    BY <1>2, <2>2
  <2>. QED
    BY <1>2, <2>1, <2>2, <2>4, <2>5, <2>6, <2>7, <2>8, <2>9, CoreLooks
<1>. QED
  BY <1>3, <1>4

LEMMA ActivateStep ==
  ASSUME IInv, NEW n \in Commands, Activate(n)
  PROVE  IInv'
<1>1. /\ cmd[n].step = "activate"
      /\ UNCHANGED <<release, authorized, trusted, meta, journal, checkpoint>>
      /\ UNCHANGED <<faults, deaths, contended, crossed, unpaid>>
  BY DEF Activate, At, projectVars, troubleVars, ghosts
<1>2. /\ cmd[n].core /\ Alive(n) /\ Replaces(cmd[n]) /\ cmd[n].op \in {"update", "migrate"}
      /\ cmd[n].target \in Releases /\ cmd[n] \in CommandRecords /\ CommandInv(cmd[n])
  BY <1>1, Changing, CommandTyped DEF UpdateSteps
<1>3. FilesOK' /\ Grows
  <2>1. pointer' \in Releases \cup {NoRelease}
    BY <1>2, CommandTyped DEF Activate, FilesOK, RuntimeTypeOK
  <2>. QED
    BY <1>1, <2>1, CommandTyped, CommandsAssumption DEF FilesOK, RuntimeTypeOK, Grows
<1>4. CASE ~Whole(cmd[n].target)
  <2>1. pointer' = pointer /\ Throw(n) /\ ~Recoverable'
    BY <1>1, <1>2, <1>4, FindsWhole DEF Activate, Recoverable
  <2>. QED
    BY <1>1, <1>2, <1>3, <2>1, ChangeFails DEF Excused, projectVars
<1>5. CASE Whole(cmd[n].target)
  <2>. DEFINE s == IF cmd[n].op = "update" THEN "confirm" ELSE "draft"
              d == [cmd[n] EXCEPT !.changed = TRUE, !.step = s]
  <2>1. cmd' = [cmd EXCEPT ![n] = d] /\ cmd'[n] = d /\ pointer' = cmd[n].target
    BY <1>5 DEF Activate, Become, IInv, TypeOK
  <2>2. /\ d.step = s /\ d.changed /\ d.core
        /\ d.op = cmd[n].op /\ d.source = cmd[n].source /\ d.target = cmd[n].target
        /\ d.stale = cmd[n].stale /\ d.previous = cmd[n].previous
    BY <1>2 DEF CommandRecords
  <2>3. s \in Steps /\ s \in {"confirm", "draft"}
    BY StepNames
  <2>4. d \in CommandRecords
    BY <1>2, <2>3 DEF CommandRecords
  <2>5. CommandInv(d)
    BY <1>1, <1>2, <2>2, <2>3 DEF CommandInv, Replaces, UpdateSteps, MigrateSteps
  <2>6. Moves(n)
    BY <2>1, <2>4, <2>5, BecomeMoves
  <2>7. TreeStep(n)
    BY <1>1, <1>2, <1>3, <2>1, <2>2, <2>3, CoreTrees DEF InstallSteps, Preparing
  <2>8. ProjectStep(n)
    <3>1. ASSUME ~crossed' PROVE SchemaOfPin' /\ CheckpointsInv' /\ PlanInv(d)
      BY <1>1, <1>2, <2>2, <3>1, Core DEF SchemaOfPin, CheckpointsInv, PlanInv
    <3>2. ASSUME ~crossed', d.op = "update" PROVE UpdateInv(cmd[n])'
      BY <1>1, <1>2, <2>1, <2>2, <3>2, Core DEF UpdateInv
    <3>3. ASSUME ~crossed', d.op = "migrate" PROVE MigrateInv(n, cmd[n])'
      BY <1>1, <1>2, <2>1, <2>2, <3>3, Core DEF MigrateInv, Project
    <3>. QED
      BY <1>2, <2>1, <3>1, <3>2, <3>3 DEF ProjectStep
  <2>9. PointerStep(n)
    <3>1. Recoverable' => Recoverable
      BY <1>1 DEF Recoverable
    <3>2. ASSUME Recoverable', d.op = "update" PROVE UpdatePointer(cmd[n])'
      <4>1. UpdatePointer(cmd[n]) /\ d.step = "confirm"
        BY <1>2, <2>2, <3>1, <3>2, Core
      <4>. QED
        BY <1>1, <2>1, <2>2, <4>1 DEF UpdatePointer
    <3>3. ASSUME Recoverable', d.op = "migrate" PROVE MigratePointer(cmd[n])'
      <4>1. MigratePointer(cmd[n]) /\ d.step = "draft"
        BY <1>2, <2>2, <3>1, <3>3, Core
      <4>2. cmd[n].previous \in {NoRelease, cmd[n].source}
        BY <1>1, <4>1 DEF MigratePointer, MigrateSteps
      <4>. QED
        BY <1>1, <2>1, <2>2, <4>1, <4>2 DEF MigratePointer
    <3>. QED
      BY <1>2, <2>1, <2>2, <3>2, <3>3 DEF PointerStep
  <2>10. Owns(n) /\ RunStep(n)
    BY <1>1, <1>2, <2>1, <2>2 DEF Owns, RunStep
  <2>. QED
    BY <1>3, <2>6, <2>7, <2>8, <2>9, <2>10, StepKeeps DEF Keeps
<1>. QED
  BY <1>4, <1>5

LEMMA ConfirmStep ==
  ASSUME IInv, NEW n \in Commands, Confirm(n)
  PROVE  IInv'
<1>1. cmd[n].step = "confirm" /\ Look
  BY DEF Confirm, At
<1>2. /\ FilesOK' /\ Grows /\ UNCHANGED <<release, pointer, unpaid, projectVars, faults, contended, crossed>>
      /\ cmd[n].core /\ Alive(n) /\ cmd[n].op = "update"
  BY <1>1, LookKeeps, Changing DEF UpdateSteps, MigrateSteps
<1>3. CASE ~(Current(n) /\ ~cmd[n].stale)
  <2>1. ASSUME Recoverable' PROVE cmd[n].stale
    <3>1. ~crossed
      BY <1>2, <2>1 DEF Recoverable
    <3>. QED
      BY <1>1, <1>2, <1>3, <3>1, Core DEF UpdateInv, Current
  <2>2. Throw(n)
    BY <1>3 DEF Confirm
  <2>. QED
    BY <1>1, <1>2, <2>1, <2>2, ChangeFails DEF Excused
<1>4. CASE Current(n) /\ ~cmd[n].stale
  <2>1. To(n, "draft")
    BY <1>4 DEF Confirm
  <2>2. TreeStep(n)
    BY <1>1, <1>2, <2>1, LookTrees DEF InstallSteps, Preparing
  <2>. QED
    BY <1>1, <1>2, <2>1, <2>2, CoreGoesOn
<1>. QED
  BY <1>3, <1>4

\* Reading what is to be written back, at "draft" and at "copy".
LEMMA ReadsMeta ==
  ASSUME IInv, NEW n \in Commands, NEW s, Look,
         (cmd[n].step = "draft" /\ s = "pin") \/ (cmd[n].step = "copy" /\ s = "change"),
         Become(n, [cmd[n] EXCEPT !.step = s, !.draft = meta])
  PROVE  IInv'
<1>. DEFINE d == [cmd[n] EXCEPT !.step = s, !.draft = meta]
<1>1. /\ FilesOK' /\ Grows /\ UNCHANGED <<release, pointer, unpaid, projectVars, faults, contended, crossed>>
      /\ cmd[n].core /\ Alive(n) /\ Replaces(cmd[n]) /\ cmd[n].op \in {"update", "migrate"}
      /\ cmd[n].step \in IF cmd[n].op = "update" THEN UpdateSteps ELSE MigrateSteps
      /\ cmd[n] \in CommandRecords /\ CommandInv(cmd[n]) /\ meta \in Metas
  BY LookKeeps, Changing, CommandTyped DEF UpdateSteps, MigrateSteps, FilesOK
<1>2. cmd' = [cmd EXCEPT ![n] = d] /\ cmd'[n] = d /\ s \in Steps /\ s \in {"pin", "change"}
  BY StepNames DEF Become, IInv, TypeOK
<1>3. /\ d.step = s /\ d.draft = meta /\ d.core /\ d.changed = cmd[n].changed
      /\ d.op = cmd[n].op /\ d.source = cmd[n].source /\ d.target = cmd[n].target
      /\ d.stale = cmd[n].stale /\ d.previous = cmd[n].previous
  BY <1>1 DEF CommandRecords
<1>4. d \in CommandRecords
  BY <1>1, <1>2 DEF CommandRecords
<1>5. CommandInv(d)
  BY <1>1, <1>2, <1>3 DEF CommandInv, Replaces, UpdateSteps, MigrateSteps
<1>6. TreeStep(n)
  BY <1>1, <1>2, <1>3, CoreTrees DEF InstallSteps, Preparing
<1>7. ASSUME ~crossed
      PROVE  /\ d.op = "update" => UpdateInv(d)
             /\ d.op = "migrate" => MigrateInv(n, d)
  BY <1>1, <1>2, <1>3, <1>7, Core DEF UpdateInv, MigrateInv, UpdateSteps, MigrateSteps
<1>8. ASSUME Recoverable
      PROVE  /\ d.op = "update" => UpdatePointer(d)
             /\ d.op = "migrate" => MigratePointer(d)
  BY <1>1, <1>2, <1>3, <1>8, Core DEF UpdatePointer, MigratePointer, UpdateSteps, MigrateSteps
<1>9. d.step # "spawn" /\ d.op # "recover"
  BY <1>1, <1>2, <1>3
<1>. QED
  BY <1>1, <1>2, <1>3, <1>4, <1>5, <1>6, <1>7, <1>8, <1>9, CoreLooks

LEMMA DraftStep ==
  ASSUME IInv, NEW n \in Commands, Draft(n)
  PROVE  IInv'
BY ReadsMeta DEF Draft, At

LEMMA WriteMoves ==
  ASSUME IInv, NEW n \in Commands, NEW m, NEW d \in CommandRecords, CommandInv(d), WriteMeta(n, m, d)
  PROVE  /\ Moves(n) /\ cmd'[n] = d /\ meta' = m
         /\ \A k \in Commands \ {n} : cmd[k].op = "run" /\ Alive(k) => cmd'[k].stale
<1>1. cmd \in [Commands -> CommandRecords]
  BY DEF IInv, TypeOK
<1>2. \A k \in Commands : [cmd[k] EXCEPT !.stale = TRUE] \in CommandRecords
                          /\ [cmd[k] EXCEPT !.stale = TRUE].stale
  BY <1>1 DEF CommandRecords
<1>3. \A k \in Commands : cmd'[k] = IF k = n THEN d
                                    ELSE IF cmd[k].op = "run" /\ Alive(k) THEN [cmd[k] EXCEPT !.stale = TRUE]
                                    ELSE cmd[k]
  BY DEF WriteMeta
<1>4. cmd' \in [Commands -> CommandRecords]
  BY <1>1, <1>2 DEF WriteMeta
<1>5. cmd'[n] = d /\ meta' = m
  BY <1>3 DEF WriteMeta
<1>6. \A k \in Commands \ {n} : cmd[k].op = "run" /\ Alive(k) => cmd'[k].stale
  BY <1>2, <1>3
<1>7. \A k \in Commands \ {n} : \/ cmd'[k] = cmd[k]
                                \/ cmd[k].op = "run" /\ Alive(k) /\ cmd'[k] = [cmd[k] EXCEPT !.stale = TRUE]
  BY <1>3, Zenon
<1>. QED
  BY <1>4, <1>5, <1>6, <1>7 DEF Moves

\* What every step that writes metadata.json shares.
LEMMA WriteKeeps ==
  ASSUME IInv, NEW n \in Commands, cmd[n].core, NEW m \in Metas, NEW d \in CommandRecords, CommandInv(d),
         WriteMeta(n, m, d),
         UNCHANGED <<runtimeVars, troubleVars, ghosts>>,
         journal' \in Commands \cup {NoCommand}, checkpoint' \in [Commands -> Metas \cup {NoMeta}],
         d.step # "spawn",
         \/ d = Over
         \/ d.core /\ d.target = cmd[n].target /\ d.previous = cmd[n].previous /\ d.step \notin InstallSteps,
         ProjectStep(n), PointerStep(n)
  PROVE  IInv'
<1>1. /\ Moves(n) /\ cmd'[n] = d /\ meta' = m
      /\ \A k \in Commands \ {n} : cmd[k].op = "run" /\ Alive(k) => cmd'[k].stale
  BY WriteMoves
<1>2. /\ UNCHANGED <<release, pointer, authorized, trusted>>
      /\ UNCHANGED <<faults, deaths, contended, crossed, unpaid>>
  BY DEF runtimeVars, troubleVars, ghosts
<1>3. FilesOK' /\ Grows
  BY <1>1, <1>2, CommandTyped, CommandsAssumption DEF FilesOK, RuntimeTypeOK, Grows
<1>4. TreeStep(n)
  BY <1>1, <1>2, <1>3, NewCommandFacts, CoreTrees
<1>5. Owns(n) /\ RunStep(n)
  BY <1>1 DEF Owns, RunStep
<1>. QED
  BY <1>1, <1>3, <1>4, <1>5, StepKeeps DEF Keeps

LEMMA PinStep ==
  ASSUME IInv, NEW n \in Commands, Pin(n)
  PROVE  IInv'
<1>. DEFINE m == [cmd[n].draft EXCEPT !.version = cmd[n].target]
            d == IF cmd[n].op = "update" THEN Over ELSE [cmd[n] EXCEPT !.step = "verify", !.draft = NoMeta]
<1>1. /\ cmd[n].step = "pin" /\ WriteMeta(n, m, d) /\ UNCHANGED <<runtimeVars, troubleVars, ghosts>>
      /\ UNCHANGED <<release, pointer, journal, checkpoint>>
      /\ UNCHANGED <<faults, deaths, contended, crossed>>
  BY DEF Pin, At, runtimeVars, troubleVars, ghosts
<1>2. /\ cmd[n].core /\ Replaces(cmd[n]) /\ cmd[n].op \in {"update", "migrate"} /\ cmd[n].target \in Releases
      /\ cmd[n] \in CommandRecords /\ CommandInv(cmd[n]) /\ FilesOK
  BY <1>1, Changing, CommandTyped DEF UpdateSteps
<1>3. /\ m \in Metas /\ m.version = cmd[n].target /\ m.schema = cmd[n].draft.schema
      /\ m = [version |-> cmd[n].target, schema |-> cmd[n].draft.schema]
  BY <1>1, <1>2 DEF CommandInv, Metas
<1>4. cmd[n].op = "migrate" =>
        /\ d.step = "verify" /\ d.core /\ d.changed
        /\ d.op = cmd[n].op /\ d.source = cmd[n].source /\ d.target = cmd[n].target
        /\ d.previous = cmd[n].previous
  BY <1>1, <1>2 DEF CommandRecords, CommandInv
<1>5. d \in CommandRecords
  <2>1. [cmd[n] EXCEPT !.step = "verify"] \in CommandRecords
    BY <1>2, StepNames, Stepping
  <2>2. [cmd[n] EXCEPT !.step = "verify", !.draft = NoMeta] \in CommandRecords
    BY <1>2, <2>1 DEF CommandRecords
  <2>. QED
    BY <2>2, NewCommandFacts
<1>6. CommandInv(d)
  BY <1>2, <1>4, NewCommandFacts DEF CommandInv, Replaces, MigrateSteps
<1>7. cmd'[n] = d /\ meta' = m
  BY <1>1, <1>5, <1>6, WriteMoves
<1>8. ASSUME ~crossed
      PROVE  /\ PlanInv(cmd[n]) /\ SchemaOfPin /\ CheckpointsInv /\ pointer = cmd[n].target
             /\ cmd[n].op = "update" => journal = NoCommand /\ cmd[n].draft = meta /\ meta.version = cmd[n].source
             /\ cmd[n].op = "migrate" => MigrateInv(n, cmd[n]) /\ cmd[n].draft = meta /\ meta.schema = 2
  BY <1>1, <1>2, <1>8, Core DEF UpdateInv, MigrateInv, Project
<1>9. ProjectStep(n)
  <2>1. ASSUME ~crossed' PROVE SchemaOfPin' /\ CheckpointsInv'
    BY <1>1, <1>2, <1>3, <1>7, <1>8, <2>1 DEF SchemaOfPin, CheckpointsInv, PlanInv
  <2>2. ASSUME ~crossed', cmd[n].op = "migrate" PROVE MigrateInv(n, cmd[n])' /\ PlanInv(d)
    BY <1>1, <1>2, <1>3, <1>4, <1>7, <1>8, <2>2 DEF MigrateInv, PlanInv, Project
  <2>. QED
    BY <1>2, <1>4, <1>7, <2>1, <2>2, NewCommandFacts DEF ProjectStep, Replaces
<1>10. PointerStep(n)
  <2>1. ASSUME Recoverable' PROVE Recoverable /\ ~crossed
    BY <1>1, <2>1 DEF Recoverable
  <2>2. ASSUME Recoverable', cmd[n].op = "update" PROVE Settled'
    BY <1>1, <1>3, <1>7, <1>8, <2>1, <2>2 DEF Settled
  <2>3. ASSUME Recoverable', cmd[n].op = "migrate" PROVE MigratePointer(cmd[n])'
    <3>1. MigratePointer(cmd[n])
      BY <1>2, <2>1, <2>3, Core
    <3>2. cmd[n].previous \in {NoRelease, cmd[n].source}
      BY <1>1, <3>1 DEF MigratePointer, MigrateSteps
    <3>. QED
      BY <1>4, <1>7, <2>3, <3>2 DEF MigratePointer
  <2>. QED
    BY <1>2, <1>4, <1>7, <2>2, <2>3, NewCommandFacts DEF PointerStep
<1>11. /\ d.step # "spawn"
       /\ \/ d = Over
          \/ d.core /\ d.target = cmd[n].target /\ d.previous = cmd[n].previous /\ d.step \notin InstallSteps
  BY <1>2, <1>4, NewCommandFacts DEF InstallSteps, Preparing
<1>12. journal' \in Commands \cup {NoCommand} /\ checkpoint' \in [Commands -> Metas \cup {NoMeta}]
  BY <1>1, <1>2 DEF FilesOK
<1>. QED
  BY <1>1, <1>2, <1>3, <1>5, <1>6, <1>9, <1>10, <1>11, <1>12, WriteKeeps

LEMMA RestoreStep ==
  ASSUME IInv, NEW n \in Commands, Restore(n)
  PROVE  IInv'
<1>1. /\ cmd[n].step = "restore"
      /\ UNCHANGED <<release, authorized, trusted, meta, journal, checkpoint>>
      /\ UNCHANGED <<faults, deaths, contended, crossed, unpaid>>
  BY DEF Restore, At, projectVars, troubleVars, ghosts
<1>2. /\ cmd[n].core /\ Alive(n) /\ Replaces(cmd[n]) /\ cmd[n].op \in {"update", "migrate"}
      /\ cmd[n].previous \in Releases \cup {NoRelease} /\ cmd[n] \in CommandRecords
      /\ CommandInv(cmd[n]) /\ FilesOK
  BY <1>1, Changing, CommandTyped DEF UpdateSteps, CommandRecords
<1>3. FilesOK' /\ Grows
  <2>1. pointer' \in Releases \cup {NoRelease}
    BY <1>2 DEF Restore, FilesOK, RuntimeTypeOK
  <2>. QED
    BY <1>1, <1>2, <2>1, CommandsAssumption DEF FilesOK, RuntimeTypeOK, Grows
<1>4. CASE ~(cmd[n].previous = NoRelease \/ Whole(cmd[n].previous))
  <2>1. pointer' = pointer /\ Throw(n) /\ ~Recoverable'
    BY <1>1, <1>2, <1>4, FindsWhole DEF Restore, Recoverable
  <2>. QED
    BY <1>1, <1>2, <1>3, <2>1, ChangeFails DEF Excused, projectVars
<1>5. CASE cmd[n].previous = NoRelease \/ Whole(cmd[n].previous)
  <2>. DEFINE d == IF cmd[n].op = "update" THEN Over ELSE [cmd[n] EXCEPT !.step = "swap"]
  <2>1. cmd' = [cmd EXCEPT ![n] = d] /\ cmd'[n] = d /\ pointer' = cmd[n].previous
    BY <1>5 DEF Restore, Finish, To, IInv, TypeOK
  <2>2. cmd[n].op = "migrate" =>
          /\ d.step = "swap" /\ d.core /\ d.changed = cmd[n].changed
          /\ d.op = cmd[n].op /\ d.source = cmd[n].source /\ d.target = cmd[n].target
          /\ d.previous = cmd[n].previous
    BY <1>2 DEF CommandRecords
  <2>3. d \in CommandRecords
    BY <1>2, StepNames, Stepping, NewCommandFacts
  <2>4. CommandInv(d)
    BY <1>2, <2>2, NewCommandFacts DEF CommandInv, Replaces, MigrateSteps
  <2>5. Moves(n)
    BY <2>1, <2>3, <2>4, BecomeMoves
  <2>6. TreeStep(n)
    BY <1>1, <1>2, <1>3, <2>1, <2>2, NewCommandFacts, CoreTrees DEF InstallSteps, Preparing
  <2>7. ASSUME ~crossed
        PROVE  /\ SchemaOfPin /\ CheckpointsInv /\ PlanInv(cmd[n])
               /\ cmd[n].op = "update" => journal = NoCommand /\ meta.version = cmd[n].source
               /\ cmd[n].op = "migrate" => checkpoint[n] = [version |-> cmd[n].source, schema |-> 1]
    BY <1>1, <1>2, <2>7, Core DEF UpdateInv, MigrateInv
  <2>8. ProjectStep(n)
    <3>1. ASSUME ~crossed' PROVE SchemaOfPin' /\ CheckpointsInv'
      BY <1>1, <2>7, <3>1 DEF SchemaOfPin, CheckpointsInv
    <3>2. ASSUME ~crossed', cmd[n].op = "migrate" PROVE MigrateInv(n, cmd[n])' /\ PlanInv(d)
      BY <1>1, <2>1, <2>2, <2>7, <3>2 DEF MigrateInv, PlanInv
    <3>. QED
      BY <1>2, <2>1, <2>2, <3>1, <3>2, NewCommandFacts DEF ProjectStep, Replaces
  <2>9. PointerStep(n)
    <3>1. ASSUME Recoverable'
          PROVE  /\ ~crossed
                 /\ cmd[n].op = "update" => UpdatePointer(cmd[n])
                 /\ cmd[n].op = "migrate" => MigratePointer(cmd[n])
      BY <1>1, <1>2, <3>1, Core DEF Recoverable
    <3>2. ASSUME Recoverable', cmd[n].op = "update" PROVE Settled'
      BY <1>1, <2>1, <2>7, <3>1, <3>2 DEF UpdatePointer, Settled
    <3>3. ASSUME Recoverable', cmd[n].op = "migrate" PROVE MigratePointer(cmd[n])'
      <4>1. cmd[n].previous \in {NoRelease, cmd[n].source} /\ faults = 1
        BY <1>1, <3>1, <3>3 DEF MigratePointer, MigrateSteps
      <4>. QED
        BY <1>1, <2>1, <2>2, <3>3, <4>1 DEF MigratePointer
    <3>. QED
      BY <1>2, <2>1, <2>2, <3>2, <3>3, NewCommandFacts DEF PointerStep
  <2>10. Owns(n) /\ RunStep(n)
    BY <1>1, <1>2, <2>1, <2>2, NewCommandFacts DEF Owns, RunStep
  <2>. QED
    BY <1>3, <2>5, <2>6, <2>8, <2>9, <2>10, StepKeeps DEF Keeps
<1>. QED
  BY <1>4, <1>5

-----------------------------------------------------------------------------
(* The migration.                                                          *)

\* What every step that writes the journal or a checkpoint shares.
LEMMA JournalKeeps ==
  ASSUME IInv, NEW n \in Commands, cmd[n].core, NEW d \in CommandRecords, CommandInv(d),
         cmd' = [cmd EXCEPT ![n] = d],
         UNCHANGED <<runtimeVars, meta, troubleVars, ghosts>>,
         journal' \in Commands \cup {NoCommand}, checkpoint' \in [Commands -> Metas \cup {NoMeta}],
         d.step # "spawn",
         \/ d = Over
         \/ d.core /\ d.target = cmd[n].target /\ d.previous = cmd[n].previous /\ d.step \notin InstallSteps,
         ProjectStep(n), PointerStep(n)
  PROVE  IInv'
<1>1. Moves(n) /\ cmd'[n] = d
  BY BecomeMoves
<1>2. /\ UNCHANGED <<release, pointer, authorized, trusted, meta>>
      /\ UNCHANGED <<faults, deaths, contended, crossed, unpaid>>
  BY DEF runtimeVars, troubleVars, ghosts
<1>3. FilesOK' /\ Grows
  BY <1>1, <1>2, CommandTyped, CommandsAssumption DEF FilesOK, RuntimeTypeOK, Grows
<1>4. TreeStep(n)
  BY <1>1, <1>2, <1>3, NewCommandFacts, CoreTrees
<1>5. Owns(n) /\ RunStep(n)
  BY <1>1, <1>2 DEF Owns, RunStep
<1>. QED
  BY <1>1, <1>3, <1>4, <1>5, StepKeeps DEF Keeps

EarlySteps == {"check", "install", "promote", "evidence", "previous", "checkpoint", "open", "copy", "change",
               "validate", "activate"}

LEMMA MigrateTo ==
  ASSUME IInv, NEW n \in Commands, cmd[n].core, cmd[n].op = "migrate", NEW d, NEW s \in MigrateSteps,
         d = [cmd[n] EXCEPT !.step = s], s \notin {"pin", "change"},
         s \in {"draft", "verify", "close", "clean"} => cmd[n].changed,
         s \in EarlySteps => ~cmd[n].changed
  PROVE  /\ d \in CommandRecords /\ CommandInv(d) /\ Replaces(d) /\ Replaces(cmd[n])
         /\ d.step = s /\ d.core /\ d.op = "migrate"
         /\ d.source = cmd[n].source /\ d.target = cmd[n].target /\ d.previous = cmd[n].previous
         /\ d.changed = cmd[n].changed /\ d.draft = cmd[n].draft
<1>1. cmd[n] \in CommandRecords /\ CommandInv(cmd[n]) /\ Replaces(cmd[n])
  BY Core
<1>2. s \in Steps
  BY StepNames DEF MigrateSteps
<1>3. /\ d \in CommandRecords /\ d.step = s /\ d.core /\ d.op = "migrate"
      /\ d.source = cmd[n].source /\ d.target = cmd[n].target /\ d.previous = cmd[n].previous
      /\ d.changed = cmd[n].changed /\ d.draft = cmd[n].draft
  BY <1>1, <1>2, Stepping
<1>4. Replaces(d)
  BY <1>3 DEF Replaces, MigrateSteps
<1>. QED
  BY <1>1, <1>3, <1>4 DEF CommandInv, Replaces, MigrateSteps, EarlySteps

\* A command at a step of the migration, and what is known then.
LEMMA AtMigrate ==
  ASSUME IInv, NEW n \in Commands,
         cmd[n].step \in {"checkpoint", "open", "copy", "change", "validate", "verify", "close", "clean",
                          "swap", "failed", "stuck"}
  PROVE  /\ cmd[n].core /\ cmd[n].op = "migrate" /\ Replaces(cmd[n]) /\ Alive(n)
         /\ cmd[n] \in CommandRecords /\ CommandInv(cmd[n]) /\ FilesOK
         /\ cmd[n].source \in Releases /\ cmd[n].target \in Releases
         /\ cmd[n].step \in EarlySteps => ~cmd[n].changed
         /\ cmd[n].step \in {"verify", "close", "clean"} => cmd[n].changed
         /\ ~crossed => SchemaOfPin /\ CheckpointsInv /\ PlanInv(cmd[n]) /\ MigrateInv(n, cmd[n])
         /\ Recoverable => ~crossed /\ MigratePointer(cmd[n])
<1>1. /\ cmd[n].core /\ cmd[n].op = "migrate" /\ Replaces(cmd[n]) /\ Alive(n)
      /\ cmd[n].source \in Releases /\ cmd[n].target \in Releases
  BY Changing DEF UpdateSteps, MigrateSteps
<1>2. cmd[n] \in CommandRecords /\ CommandInv(cmd[n]) /\ FilesOK
  BY CommandTyped
<1>3. /\ cmd[n].step \in EarlySteps => ~cmd[n].changed
      /\ cmd[n].step \in {"verify", "close", "clean"} => cmd[n].changed
  BY <1>1, <1>2 DEF CommandInv, EarlySteps
<1>. QED
  BY <1>1, <1>2, <1>3, Core

LEMMA CheckpointStep ==
  ASSUME IInv, NEW n \in Commands, Checkpoint(n)
  PROVE  IInv'
<1>. DEFINE good == meta = [version |-> cmd[n].source, schema |-> 1]
            d == IF good THEN [cmd[n] EXCEPT !.step = "open"] ELSE Over
<1>1. /\ cmd[n].step = "checkpoint" /\ UNCHANGED <<runtimeVars, meta, troubleVars, ghosts>>
      /\ checkpoint' = [checkpoint EXCEPT ![n] = meta]
      /\ UNCHANGED <<pointer, meta, journal, crossed, faults, deaths, contended>>
  BY DEF Checkpoint, At, runtimeVars, troubleVars, ghosts
<1>2. /\ cmd[n].core /\ cmd[n].op = "migrate" /\ ~cmd[n].changed /\ FilesOK
      /\ ~crossed => SchemaOfPin /\ CheckpointsInv /\ PlanInv(cmd[n]) /\ MigrateInv(n, cmd[n])
      /\ Recoverable => ~crossed /\ MigratePointer(cmd[n])
  BY <1>1, AtMigrate DEF EarlySteps
<1>3. Handler(cmd[n]) = "over"
  BY <1>1, <1>2 DEF Handler, Preparing, Committing, Migrating
<1>4. cmd' = [cmd EXCEPT ![n] = d] /\ cmd'[n] = d
  BY <1>3, ThrowIs DEF Checkpoint, To, Thrown, IInv, TypeOK
<1>5. good => /\ d \in CommandRecords /\ CommandInv(d) /\ Replaces(d)
              /\ d.step = "open" /\ d.core /\ d.op = "migrate"
              /\ d.source = cmd[n].source /\ d.target = cmd[n].target /\ d.previous = cmd[n].previous
  BY <1>2, MigrateTo DEF MigrateSteps
<1>6. ~crossed => good
  BY <1>1, <1>2 DEF MigrateInv, Project
<1>7. checkpoint' \in [Commands -> Metas \cup {NoMeta}] /\ journal' \in Commands \cup {NoCommand}
  BY <1>1, <1>2 DEF FilesOK
<1>8. ProjectStep(n)
  <2>1. ASSUME ~crossed' PROVE SchemaOfPin' /\ CheckpointsInv' /\ PlanInv(d) /\ MigrateInv(n, cmd[n])'
    BY <1>1, <1>2, <1>4, <1>5, <1>6, <2>1
    DEF SchemaOfPin, CheckpointsInv, PlanInv, MigrateInv, FilesOK, Project
  <2>. QED
    BY <1>1, <1>2, <1>4, <1>5, <1>6, <2>1 DEF ProjectStep
<1>9. PointerStep(n)
  <2>1. ASSUME Recoverable' PROVE MigratePointer(cmd[n])' /\ good
    BY <1>1, <1>2, <1>4, <1>5, <1>6, <2>1 DEF Recoverable, MigratePointer, Settled, MigrateSteps
  <2>. QED
    BY <1>4, <1>5, <2>1 DEF PointerStep
<1>10. d \in CommandRecords /\ CommandInv(d) /\ d.step # "spawn"
       /\ \/ d = Over
          \/ d.core /\ d.target = cmd[n].target /\ d.previous = cmd[n].previous /\ d.step \notin InstallSteps
  BY <1>5, NewCommandFacts DEF InstallSteps, Preparing
<1>. QED
  BY <1>1, <1>2, <1>4, <1>7, <1>8, <1>9, <1>10, JournalKeeps

LEMMA OpenStep ==
  ASSUME IInv, NEW n \in Commands, Open(n)
  PROVE  IInv'
<1>. DEFINE d == [cmd[n] EXCEPT !.step = "copy"]
<1>1. /\ cmd[n].step = "open" /\ UNCHANGED <<runtimeVars, meta, troubleVars, ghosts>>
      /\ journal' = n /\ cmd' = [cmd EXCEPT ![n] = d] /\ cmd'[n] = d
      /\ UNCHANGED <<pointer, meta, checkpoint, crossed, faults, deaths, contended>>
  BY DEF Open, At, To, runtimeVars, troubleVars, ghosts, IInv, TypeOK
<1>2. /\ cmd[n].core /\ cmd[n].op = "migrate" /\ ~cmd[n].changed /\ FilesOK
      /\ ~crossed => SchemaOfPin /\ CheckpointsInv /\ PlanInv(cmd[n]) /\ MigrateInv(n, cmd[n])
      /\ Recoverable => ~crossed /\ MigratePointer(cmd[n])
  BY <1>1, AtMigrate DEF EarlySteps
<1>3. /\ d \in CommandRecords /\ CommandInv(d) /\ Replaces(d)
      /\ d.step = "copy" /\ d.core /\ d.op = "migrate"
      /\ d.source = cmd[n].source /\ d.target = cmd[n].target /\ d.previous = cmd[n].previous
  BY <1>2, MigrateTo DEF MigrateSteps
<1>4. ProjectStep(n)
  <2>1. ASSUME ~crossed' PROVE SchemaOfPin' /\ CheckpointsInv' /\ PlanInv(d) /\ MigrateInv(n, cmd[n])'
    BY <1>1, <1>2, <1>3, <2>1 DEF SchemaOfPin, CheckpointsInv, PlanInv, MigrateInv, Project, NoCommand, Commands
  <2>. QED
    BY <1>1, <1>2, <1>3, <2>1 DEF ProjectStep
<1>5. PointerStep(n)
  <2>1. ASSUME Recoverable' PROVE MigratePointer(cmd[n])'
    <3>1. MigratePointer(cmd[n]) /\ MigrateInv(n, cmd[n])
      BY <1>1, <1>2, <2>1 DEF Recoverable
    <3>. QED
      <4>1. pointer \in {NoRelease, meta.version} /\ cmd[n].previous \in {NoRelease, cmd[n].source}
        BY <1>1, <3>1 DEF MigratePointer, Settled, MigrateSteps
      <4>2. meta.version = cmd[n].source
        BY <1>1, <3>1 DEF MigrateInv, Project
      <4>. QED
        BY <1>1, <1>3, <4>1, <4>2 DEF MigratePointer
  <2>. QED
    BY <1>1, <1>3, <2>1 DEF PointerStep
<1>6. journal' \in Commands \cup {NoCommand} /\ checkpoint' \in [Commands -> Metas \cup {NoMeta}]
  BY <1>1, <1>2 DEF FilesOK
<1>7. d.step # "spawn" /\ d.step \notin InstallSteps
  BY <1>3 DEF InstallSteps, Preparing
<1>. QED
  BY <1>1, <1>2, <1>3, <1>4, <1>5, <1>6, <1>7, JournalKeeps

LEMMA CopyStep ==
  ASSUME IInv, NEW n \in Commands, Copy(n)
  PROVE  IInv'
BY ReadsMeta DEF Copy, At

LEMMA ChangeStep ==
  ASSUME IInv, NEW n \in Commands, Change(n)
  PROVE  IInv'
<1>. DEFINE m == [cmd[n].draft EXCEPT !.schema = 2]
            d == [cmd[n] EXCEPT !.step = "validate", !.draft = NoMeta]
<1>1. /\ cmd[n].step = "change" /\ WriteMeta(n, m, d) /\ UNCHANGED <<runtimeVars, troubleVars, ghosts>>
      /\ UNCHANGED <<release, pointer, journal, checkpoint>>
      /\ UNCHANGED <<faults, deaths, contended, crossed>>
  BY DEF Change, At, runtimeVars, troubleVars, ghosts
<1>2. /\ cmd[n].core /\ cmd[n].op = "migrate" /\ ~cmd[n].changed /\ FilesOK /\ Replaces(cmd[n])
      /\ cmd[n] \in CommandRecords /\ CommandInv(cmd[n])
      /\ ~crossed => SchemaOfPin /\ CheckpointsInv /\ PlanInv(cmd[n]) /\ MigrateInv(n, cmd[n])
      /\ Recoverable => ~crossed /\ MigratePointer(cmd[n])
  BY <1>1, AtMigrate DEF EarlySteps
<1>3. /\ m \in Metas /\ m = [version |-> cmd[n].draft.version, schema |-> 2]
  BY <1>1, <1>2 DEF CommandInv, Metas
<1>4. /\ d.step = "validate" /\ d.core /\ d.changed = cmd[n].changed
      /\ d.op = cmd[n].op /\ d.source = cmd[n].source /\ d.target = cmd[n].target
      /\ d.previous = cmd[n].previous
  BY <1>2 DEF CommandRecords
<1>5. d \in CommandRecords
  <2>1. [cmd[n] EXCEPT !.step = "validate"] \in CommandRecords
    BY <1>2, StepNames, Stepping
  <2>. QED
    BY <1>2, <2>1 DEF CommandRecords
<1>6. CommandInv(d)
  BY <1>2, <1>4 DEF CommandInv, Replaces, MigrateSteps
<1>7. cmd'[n] = d /\ meta' = m
  BY <1>1, <1>5, <1>6, WriteMoves
<1>8. ProjectStep(n)
  <2>1. ASSUME ~crossed' PROVE journal = n /\ Project(cmd[n].source, 1) /\ cmd[n].draft = meta
    BY <1>1, <1>2, <2>1 DEF MigrateInv
  <2>2. ASSUME ~crossed' PROVE SchemaOfPin' /\ CheckpointsInv' /\ PlanInv(d) /\ MigrateInv(n, cmd[n])'
    BY <1>1, <1>2, <1>3, <1>4, <1>7, <2>1, <2>2
    DEF SchemaOfPin, CheckpointsInv, PlanInv, MigrateInv, Project, NoCommand, Commands
  <2>. QED
    BY <1>1, <1>2, <1>4, <1>7, <2>2 DEF ProjectStep
<1>9. PointerStep(n)
  <2>1. ASSUME Recoverable' PROVE MigratePointer(cmd[n])'
    <3>1. MigratePointer(cmd[n])
      BY <1>1, <1>2, <2>1 DEF Recoverable
    <3>. QED
      BY <1>1, <1>4, <1>7, <3>1 DEF MigratePointer, MigrateSteps
  <2>. QED
    BY <1>2, <1>4, <1>7, <2>1 DEF PointerStep
<1>10. d.step # "spawn" /\ d.step \notin InstallSteps
  BY <1>4 DEF InstallSteps, Preparing
<1>11. journal' \in Commands \cup {NoCommand} /\ checkpoint' \in [Commands -> Metas \cup {NoMeta}]
  BY <1>1, <1>2 DEF FilesOK
<1>. QED
  BY <1>1, <1>2, <1>3, <1>4, <1>5, <1>6, <1>8, <1>9, <1>10, <1>11, WriteKeeps

\* The schema is found changed, unless two commands change the project.
LEMMA ValidateStep ==
  ASSUME IInv, NEW n \in Commands, Validate(n)
  PROVE  IInv'
<1>1. /\ cmd[n].step = "validate" /\ UNCHANGED <<runtimeVars, meta, troubleVars, ghosts>>
      /\ journal' = n
      /\ UNCHANGED <<pointer, meta, checkpoint, crossed, faults, deaths, contended>>
  BY DEF Validate, At, runtimeVars, troubleVars, ghosts
<1>2. /\ cmd[n].core /\ cmd[n].op = "migrate" /\ ~cmd[n].changed /\ FilesOK /\ Alive(n)
      /\ cmd[n] \in CommandRecords /\ CommandInv(cmd[n])
      /\ ~crossed => SchemaOfPin /\ CheckpointsInv /\ PlanInv(cmd[n]) /\ MigrateInv(n, cmd[n])
      /\ Recoverable => ~crossed /\ MigratePointer(cmd[n])
  BY <1>1, AtMigrate DEF EarlySteps
<1>. DEFINE s == IF meta.schema = 2 THEN "activate" ELSE "swap"
            d == IF meta.schema = 2 THEN [cmd[n] EXCEPT !.step = "activate"] ELSE Thrown(cmd[n])
<1>3. cmd' = [cmd EXCEPT ![n] = d] /\ cmd'[n] = d
  BY ThrowIs DEF Validate, To, IInv, TypeOK
<1>4. Handler(cmd[n]) = "swap"
  BY <1>1, <1>2 DEF Handler, Preparing, Committing, Migrating
<1>5. /\ d \in CommandRecords /\ CommandInv(d)
      /\ d.step = s /\ d.core /\ d.op = "migrate"
      /\ d.source = cmd[n].source /\ d.target = cmd[n].target /\ d.previous = cmd[n].previous
  <2>1. CASE meta.schema = 2
    BY <1>2, <2>1, MigrateTo DEF MigrateSteps
  <2>2. CASE meta.schema # 2
    <3>1. Thrown(cmd[n]) # Over
      BY <1>2, <1>4, NewCommandFacts DEF Thrown, CommandRecords
    <3>. QED
      BY <1>1, <1>2, <1>4, <2>2, <3>1, ThrownFacts DEF Alive
  <2>. QED
    BY <2>1, <2>2
<1>6. ~crossed => s = "activate"
  BY <1>1, <1>2 DEF MigrateInv, Project
<1>7. ProjectStep(n)
  <2>1. ASSUME ~crossed' PROVE SchemaOfPin' /\ CheckpointsInv' /\ PlanInv(d) /\ MigrateInv(n, cmd[n])'
    BY <1>1, <1>2, <1>3, <1>5, <1>6, <2>1
    DEF SchemaOfPin, CheckpointsInv, PlanInv, MigrateInv, Project, NoCommand, Commands
  <2>. QED
    BY <1>1, <1>2, <1>3, <1>5, <2>1 DEF ProjectStep
<1>8. PointerStep(n)
  <2>1. ASSUME Recoverable' PROVE MigratePointer(cmd[n])'
    <3>1. MigratePointer(cmd[n]) /\ s = "activate"
      BY <1>1, <1>2, <1>6, <2>1 DEF Recoverable
    <3>. QED
      BY <1>1, <1>3, <1>5, <3>1 DEF MigratePointer, MigrateSteps
  <2>. QED
    BY <1>3, <1>5, <2>1 DEF PointerStep
<1>9. journal' \in Commands \cup {NoCommand} /\ checkpoint' \in [Commands -> Metas \cup {NoMeta}]
  BY <1>1, <1>2 DEF FilesOK
<1>10. d.step # "spawn" /\ d.step \notin InstallSteps
  BY <1>5 DEF InstallSteps, Preparing
<1>. QED
  BY <1>1, <1>2, <1>3, <1>5, <1>7, <1>8, <1>9, <1>10, JournalKeeps

LEMMA VerifyStep ==
  ASSUME IInv, NEW n \in Commands, Verify(n)
  PROVE  IInv'
<1>1. cmd[n].step = "verify" /\ Look
  BY DEF Verify, At
<1>2. /\ cmd[n].core /\ cmd[n].op = "migrate" /\ Alive(n)
      /\ ~crossed => MigrateInv(n, cmd[n])
  BY <1>1, AtMigrate
<1>3. FilesOK' /\ Grows /\ UNCHANGED <<release, pointer, unpaid, projectVars, faults, contended, crossed>>
  BY <1>1, LookKeeps
<1>4. CASE To(n, "close")
  <2>1. TreeStep(n)
    BY <1>2, <1>3, <1>4, LookTrees DEF InstallSteps, Preparing
  <2>. QED
    BY <1>1, <1>2, <1>3, <1>4, <2>1, CoreGoesOn
<1>5. CASE ~To(n, "close")
  <2>1. Throw(n) /\ meta # [version |-> cmd[n].target, schema |-> 2]
    BY <1>5 DEF Verify
  <2>2. ~Recoverable'
    BY <1>1, <1>2, <1>3, <2>1 DEF Recoverable, MigrateInv, Project
  <2>. QED
    BY <1>2, <1>3, <2>1, <2>2, ChangeFails DEF Excused
<1>. QED
  BY <1>4, <1>5

LEMMA CloseStep ==
  ASSUME IInv, NEW n \in Commands, Close(n)
  PROVE  IInv'
<1>. DEFINE d == [cmd[n] EXCEPT !.step = "clean"]
<1>1. /\ cmd[n].step = "close" /\ UNCHANGED <<runtimeVars, meta, troubleVars, ghosts>>
      /\ journal' = NoCommand /\ cmd' = [cmd EXCEPT ![n] = d] /\ cmd'[n] = d
      /\ UNCHANGED <<pointer, meta, checkpoint, crossed, faults, deaths, contended>>
  BY DEF Close, At, To, runtimeVars, troubleVars, ghosts, IInv, TypeOK
<1>2. /\ cmd[n].core /\ cmd[n].op = "migrate" /\ cmd[n].changed /\ FilesOK
      /\ ~crossed => SchemaOfPin /\ CheckpointsInv /\ PlanInv(cmd[n]) /\ MigrateInv(n, cmd[n])
      /\ Recoverable => ~crossed /\ MigratePointer(cmd[n])
  BY <1>1, AtMigrate
<1>3. /\ d \in CommandRecords /\ CommandInv(d)
      /\ d.step = "clean" /\ d.core /\ d.op = "migrate"
      /\ d.source = cmd[n].source /\ d.target = cmd[n].target /\ d.previous = cmd[n].previous
  BY <1>2, MigrateTo DEF MigrateSteps, EarlySteps
<1>4. ProjectStep(n)
  <2>1. ASSUME ~crossed' PROVE SchemaOfPin' /\ CheckpointsInv' /\ PlanInv(d) /\ MigrateInv(n, cmd[n])'
    <3>1. MigrateInv(n, cmd[n]) /\ PlanInv(cmd[n]) /\ CheckpointsInv
      BY <1>1, <1>2, <2>1
    <3>2. /\ Project(cmd[n].target, 2) /\ pointer = cmd[n].target
          /\ checkpoint[n] = [version |-> cmd[n].source, schema |-> 1]
      BY <1>1, <3>1 DEF MigrateInv
    <3>3. SchemaOfPin' /\ PlanInv(d)
      BY <1>1, <1>2, <1>3, <3>1, <3>2 DEF SchemaOfPin, PlanInv, Project
    <3>4. CheckpointsInv'
      BY <1>1, <3>1 DEF CheckpointsInv
    <3>5. MigrateInv(n, cmd[n])'
      BY <1>1, <1>3, <3>2 DEF MigrateInv, Project
    <3>. QED
      BY <3>3, <3>4, <3>5
  <2>. QED
    BY <1>1, <1>2, <1>3, <2>1 DEF ProjectStep
<1>5. PointerStep(n)
  <2>1. ASSUME Recoverable' PROVE MigratePointer(cmd[n])'
    <3>1. MigratePointer(cmd[n])
      BY <1>1, <1>2, <2>1 DEF Recoverable
    <3>. QED
      BY <1>1, <1>3, <3>1 DEF MigratePointer, MigrateSteps
  <2>. QED
    BY <1>1, <1>3, <2>1 DEF PointerStep
<1>6. journal' \in Commands \cup {NoCommand} /\ checkpoint' \in [Commands -> Metas \cup {NoMeta}]
  BY <1>1, <1>2 DEF FilesOK
<1>7. d.step # "spawn" /\ d.step \notin InstallSteps
  BY <1>3 DEF InstallSteps, Preparing
<1>. QED
  BY <1>1, <1>2, <1>3, <1>4, <1>5, <1>6, <1>7, JournalKeeps

\* A command that ends the change of the project, leaving it as it should be.
LEMMA ChangeEnds ==
  ASSUME IInv, NEW n \in Commands, cmd[n].core, cmd' = [cmd EXCEPT ![n] = Over],
         UNCHANGED <<runtimeVars, meta, troubleVars, ghosts>>,
         journal' \in Commands \cup {NoCommand}, checkpoint' \in [Commands -> Metas \cup {NoMeta}],
         ~crossed => SchemaOfPin' /\ CheckpointsInv',
         Recoverable => Settled'
  PROVE  IInv'
<1>1. UNCHANGED <<crossed, faults, deaths, contended>> /\ cmd'[n] = Over
  BY DEF troubleVars, ghosts, IInv, TypeOK
<1>2. ProjectStep(n) /\ PointerStep(n)
  BY <1>1, NewCommandFacts DEF ProjectStep, PointerStep, Replaces, Recoverable
<1>. QED
  BY <1>2, NewCommandFacts, JournalKeeps

LEMMA CleanStep ==
  ASSUME IInv, NEW n \in Commands, Clean(n)
  PROVE  IInv'
<1>1. /\ cmd[n].step = "clean" /\ UNCHANGED <<runtimeVars, meta, troubleVars, ghosts>>
      /\ checkpoint' = [checkpoint EXCEPT ![n] = NoMeta] /\ cmd' = [cmd EXCEPT ![n] = Over]
      /\ UNCHANGED <<pointer, meta, journal, crossed>>
  BY DEF Clean, At, Finish, DropCheckpoint, runtimeVars, troubleVars, ghosts
<1>2. /\ cmd[n].core /\ FilesOK
      /\ ~crossed => SchemaOfPin /\ CheckpointsInv /\ MigrateInv(n, cmd[n])
      /\ Recoverable => ~crossed
  BY <1>1, AtMigrate
<1>3. checkpoint' \in [Commands -> Metas \cup {NoMeta}] /\ journal' \in Commands \cup {NoCommand}
  BY <1>1, <1>2 DEF FilesOK
<1>4. ~crossed => SchemaOfPin' /\ CheckpointsInv'
  BY <1>1, <1>2 DEF SchemaOfPin, CheckpointsInv, FilesOK
<1>5. Recoverable => Settled'
  BY <1>1, <1>2 DEF Settled, MigrateInv, Project
<1>. QED
  BY <1>1, <1>2, <1>3, <1>4, <1>5, ChangeEnds

LEMMA FailedStep ==
  ASSUME IInv, NEW n \in Commands, Failed(n)
  PROVE  IInv'
<1>1. /\ cmd[n].step = "failed" /\ UNCHANGED <<runtimeVars, meta, troubleVars, ghosts>>
      /\ checkpoint' = [checkpoint EXCEPT ![n] = NoMeta] /\ cmd' = [cmd EXCEPT ![n] = Over]
      /\ journal' = NoCommand /\ UNCHANGED <<pointer, meta, crossed>>
  BY DEF Failed, At, Finish, DropCheckpoint, runtimeVars, troubleVars, ghosts
<1>2. /\ cmd[n].core /\ FilesOK
      /\ ~crossed => SchemaOfPin /\ CheckpointsInv /\ MigrateInv(n, cmd[n])
      /\ Recoverable => ~crossed /\ MigratePointer(cmd[n])
  BY <1>1, AtMigrate
<1>3. checkpoint' \in [Commands -> Metas \cup {NoMeta}] /\ journal' \in Commands \cup {NoCommand}
  BY <1>1, <1>2 DEF FilesOK
<1>4. ~crossed => SchemaOfPin' /\ CheckpointsInv'
  BY <1>1, <1>2 DEF SchemaOfPin, CheckpointsInv, FilesOK, MigrateInv
<1>5. Recoverable => Settled'
  BY <1>1, <1>2 DEF Settled, MigrateInv, MigratePointer, Project
<1>. QED
  BY <1>1, <1>2, <1>3, <1>4, <1>5, ChangeEnds

LEMMA StuckStep ==
  ASSUME IInv, NEW n \in Commands, Stuck(n)
  PROVE  IInv'
<1>1. /\ cmd[n].step = "stuck" /\ UNCHANGED <<runtimeVars, meta, troubleVars, ghosts>>
      /\ journal' = n /\ cmd' = [cmd EXCEPT ![n] = Over] /\ UNCHANGED <<meta, checkpoint, crossed>>
  BY DEF Stuck, At, Finish, runtimeVars, troubleVars, ghosts
<1>2. /\ cmd[n].core /\ FilesOK
      /\ ~crossed => SchemaOfPin /\ CheckpointsInv
      /\ Recoverable => ~crossed /\ MigratePointer(cmd[n])
  BY <1>1, AtMigrate
<1>3. checkpoint' \in [Commands -> Metas \cup {NoMeta}] /\ journal' \in Commands \cup {NoCommand}
  BY <1>1, <1>2 DEF FilesOK
<1>4. ~crossed => SchemaOfPin' /\ CheckpointsInv'
  BY <1>1, <1>2 DEF SchemaOfPin, CheckpointsInv, Commands, NoCommand
<1>5. ~Recoverable
  BY <1>1, <1>2 DEF MigratePointer
<1>. QED
  BY <1>1, <1>2, <1>3, <1>4, <1>5, ChangeEnds

\* The checkpoint is there, and it is of the source.
LEMMA SwapStep ==
  ASSUME IInv, NEW n \in Commands, Swap(n)
  PROVE  IInv'
<1>1. /\ cmd[n].step = "swap" /\ UNCHANGED <<runtimeVars, checkpoint, troubleVars, ghosts>>
      /\ UNCHANGED <<release, pointer, authorized, trusted, checkpoint>>
      /\ UNCHANGED <<crossed, faults, deaths, contended, unpaid>>
  BY DEF Swap, At, runtimeVars, troubleVars, ghosts
<1>2. /\ cmd[n].core /\ cmd[n].op = "migrate" /\ FilesOK /\ Alive(n)
      /\ cmd[n].source \in Releases
      /\ cmd[n] \in CommandRecords /\ CommandInv(cmd[n])
      /\ ~crossed => SchemaOfPin /\ CheckpointsInv /\ PlanInv(cmd[n]) /\ MigrateInv(n, cmd[n])
      /\ Recoverable => ~crossed /\ MigratePointer(cmd[n])
  BY <1>1, AtMigrate
<1>3. NoMeta \notin Metas
  BY ReleasesAssumption DEF NoMeta, Metas
<1>4. ~crossed => checkpoint[n] = [version |-> cmd[n].source, schema |-> 1] /\ checkpoint[n] # NoMeta
  BY <1>1, <1>2, ReleasesAssumption DEF MigrateInv, NoMeta
<1>5. CASE checkpoint[n] = NoMeta
  <2>1. Throw(n) /\ UNCHANGED <<meta, journal>> /\ ~Recoverable'
    BY <1>1, <1>4, <1>5 DEF Swap, Recoverable
  <2>2. FilesOK' /\ Grows
    BY <1>1, <1>2, <2>1, CommandsAssumption DEF FilesOK, RuntimeTypeOK, Grows
  <2>. QED
    BY <1>1, <1>2, <2>1, <2>2, ChangeFails DEF Excused, projectVars
<1>6. CASE checkpoint[n] # NoMeta
  <2>. DEFINE d == [cmd[n] EXCEPT !.step = "failed"]
  <2>1. WriteMeta(n, checkpoint[n], d) /\ journal' = NoCommand
    BY <1>6 DEF Swap
  <2>2. checkpoint[n] \in Metas
    BY <1>2, <1>6 DEF FilesOK
  <2>3. /\ d \in CommandRecords /\ CommandInv(d)
        /\ d.step = "failed" /\ d.core /\ d.op = "migrate"
        /\ d.source = cmd[n].source /\ d.target = cmd[n].target /\ d.previous = cmd[n].previous
    BY <1>2, MigrateTo DEF MigrateSteps, EarlySteps
  <2>4. cmd'[n] = d /\ meta' = checkpoint[n]
    BY <2>1, <2>3, WriteMoves
  <2>5. ProjectStep(n)
    <3>1. ASSUME ~crossed' PROVE SchemaOfPin' /\ CheckpointsInv' /\ PlanInv(d) /\ MigrateInv(n, cmd[n])'
      <4>1. checkpoint[n] = [version |-> cmd[n].source, schema |-> 1] /\ CheckpointsInv /\ PlanInv(cmd[n])
        BY <1>1, <1>2, <1>4, <3>1
      <4>2. SchemaOfPin' /\ PlanInv(d)
        BY <1>2, <2>3, <2>4, <4>1 DEF SchemaOfPin, PlanInv
      <4>3. CheckpointsInv'
        BY <1>1, <4>1 DEF CheckpointsInv
      <4>4. MigrateInv(n, cmd[n])'
        BY <2>1, <2>3, <2>4, <4>1 DEF MigrateInv, Project
      <4>. QED
        BY <4>2, <4>3, <4>4
    <3>. QED
      BY <1>2, <2>3, <2>4, <3>1 DEF ProjectStep
  <2>6. PointerStep(n)
    <3>1. ASSUME Recoverable' PROVE MigratePointer(cmd[n])'
      <4>1. MigratePointer(cmd[n])
        BY <1>1, <1>2, <3>1 DEF Recoverable
      <4>. QED
        BY <1>1, <2>3, <2>4, <4>1 DEF MigratePointer, MigrateSteps
    <3>. QED
      BY <2>3, <2>4, <3>1 DEF PointerStep
  <2>7. d.step # "spawn" /\ d.step \notin InstallSteps
    BY <2>3 DEF InstallSteps, Preparing
  <2>8. journal' \in Commands \cup {NoCommand} /\ checkpoint' \in [Commands -> Metas \cup {NoMeta}]
    BY <1>1, <1>2, <2>1 DEF FilesOK
  <2>. QED
    BY <1>1, <1>2, <2>1, <2>2, <2>3, <2>5, <2>6, <2>7, <2>8, WriteKeeps
<1>. QED
  BY <1>5, <1>6

-----------------------------------------------------------------------------
(* A recovery, and the delegation.                                         *)

LEMMA AtRecover ==
  ASSUME IInv, NEW n \in Commands, cmd[n].step \in {"reread", "rewind"}
  PROVE  /\ cmd[n].core /\ cmd[n].op = "recover" /\ Alive(n)
         /\ cmd[n] \in CommandRecords /\ CommandInv(cmd[n]) /\ FilesOK
         /\ cmd[n].interrupted \in Commands
         /\ cmd[n].target = NoRelease /\ cmd[n].previous = NoRelease
         /\ ~crossed => SchemaOfPin /\ CheckpointsInv
         /\ Recoverable => ~crossed /\ cmd[n].step = "reread" /\ Settled
<1>1. cmd[n] \in CommandRecords /\ CommandInv(cmd[n]) /\ FilesOK
  BY CommandTyped
<1>2. cmd[n].core /\ cmd[n].op = "recover" /\ Alive(n)
  BY <1>1
  DEF CommandRecords, CommandInv, Replaces, Alive, InstallSteps, Preparing, UpdateSteps, MigrateSteps
<1>. QED
  BY <1>1, <1>2, Core DEF CommandInv, Alive

LEMMA RereadStep ==
  ASSUME IInv, NEW n \in Commands, Reread(n)
  PROVE  IInv'
<1>1. cmd[n].step = "reread" /\ Look
  BY DEF Reread, At
<1>2. /\ cmd[n].core /\ cmd[n].op = "recover" /\ Alive(n) /\ cmd[n].interrupted \in Commands
      /\ cmd[n] \in CommandRecords /\ CommandInv(cmd[n])
      /\ cmd[n].target = NoRelease /\ cmd[n].previous = NoRelease
      /\ Recoverable => Settled
  BY <1>1, AtRecover
<1>3. FilesOK' /\ Grows /\ UNCHANGED <<release, pointer, unpaid, projectVars, faults, contended, crossed>>
  BY <1>1, LookKeeps
<1>4. CASE Throw(n)
  <2>1. Handler(cmd[n]) = "over"
    BY <1>1 DEF Handler, Preparing, Committing, Migrating
  <2>. QED
    BY <1>1, <1>2, <1>3, <1>4, <2>1, ChangeFails DEF Excused
<1>5. CASE ~Throw(n)
  <2>. DEFINE d == [cmd[n] EXCEPT !.step = "rewind"]
  <2>1. cmd' = [cmd EXCEPT ![n] = d] /\ cmd'[n] = d /\ journal = cmd[n].interrupted
    BY <1>5 DEF Reread, To, IInv, TypeOK
  <2>2. ~Recoverable
    BY <1>2, <2>1 DEF Settled, NoCommand, Commands
  <2>3. /\ d \in CommandRecords /\ d.step = "rewind" /\ d.core /\ d.op = cmd[n].op
        /\ d.source = cmd[n].source /\ d.target = cmd[n].target /\ d.previous = cmd[n].previous
        /\ d.interrupted = cmd[n].interrupted
    BY <1>2, StepNames, Stepping
  <2>4. CommandInv(d)
    BY <1>2, <2>3 DEF CommandInv, Replaces
  <2>5. TreeStep(n)
    BY <1>2, <1>3, <2>1, <2>3, CoreTrees
  <2>6. d.step # "spawn" /\ d.op # "update" /\ d.op # "migrate"
    BY <1>2, <2>3
  <2>. QED
    BY <1>2, <1>3, <2>1, <2>2, <2>3, <2>4, <2>5, <2>6, CoreLooks
<1>. QED
  BY <1>4, <1>5

\* The Project Brain of the checkpoint agrees with its own metadata.
LEMMA RewindStep ==
  ASSUME IInv, NEW n \in Commands, Rewind(n)
  PROVE  IInv'
<1>1. /\ cmd[n].step = "rewind" /\ UNCHANGED <<runtimeVars, troubleVars, ghosts>>
      /\ UNCHANGED <<release, pointer, authorized, trusted>>
      /\ UNCHANGED <<crossed, faults, deaths, contended, unpaid>>
  BY DEF Rewind, At, runtimeVars, troubleVars, ghosts
<1>2. /\ cmd[n].core /\ cmd[n].op = "recover" /\ Alive(n) /\ cmd[n].interrupted \in Commands /\ FilesOK
      /\ ~crossed => SchemaOfPin /\ CheckpointsInv
      /\ ~Recoverable
  BY <1>1, AtRecover
<1>3. ~Recoverable'
  BY <1>1, <1>2 DEF Recoverable
<1>. DEFINE k == cmd[n].interrupted
<1>4. CASE checkpoint[k] = NoMeta
  <2>1. Throw(n) /\ UNCHANGED projectVars
    BY <1>4 DEF Rewind
  <2>2. FilesOK' /\ Grows
    BY <1>1, <1>2, <2>1, CommandsAssumption DEF FilesOK, RuntimeTypeOK, Grows, projectVars
  <2>. QED
    BY <1>1, <1>2, <1>3, <2>1, <2>2, ChangeFails DEF Excused
<1>5. CASE checkpoint[k] # NoMeta
  <2>1. /\ WriteMeta(n, checkpoint[k], Over) /\ journal' = NoCommand
        /\ checkpoint' = [checkpoint EXCEPT ![k] = NoMeta]
    BY <1>5 DEF Rewind, DropCheckpoint
  <2>2. checkpoint[k] \in Metas
    BY <1>2, <1>5 DEF FilesOK
  <2>3. cmd'[n] = Over /\ meta' = checkpoint[k]
    BY <2>1, NewCommandFacts, WriteMoves
  <2>4. ASSUME ~crossed' PROVE SchemaOfPin' /\ CheckpointsInv'
    BY <1>1, <1>2, <1>5, <2>1, <2>3, <2>4 DEF SchemaOfPin, CheckpointsInv, FilesOK
  <2>5. ProjectStep(n) /\ PointerStep(n)
    BY <1>3, <2>3, <2>4, NewCommandFacts DEF ProjectStep, PointerStep, Replaces
  <2>6. journal' \in Commands \cup {NoCommand} /\ checkpoint' \in [Commands -> Metas \cup {NoMeta}]
    BY <1>1, <1>2, <2>1 DEF FilesOK
  <2>. QED
    BY <1>1, <1>2, <2>1, <2>2, <2>5, <2>6, NewCommandFacts, WriteKeeps
<1>. QED
  BY <1>4, <1>5

LEMMA AtRun ==
  ASSUME IInv, NEW n \in Commands, cmd[n].step \in {"status", "spawn"}
  PROVE  ~cmd[n].core /\ cmd[n].op = "run" /\ Alive(n) /\ cmd[n] \in CommandRecords
BY CommandTyped
DEF CommandRecords, CommandInv, Replaces, Alive, InstallSteps, Preparing, UpdateSteps, MigrateSteps

\* What is run is what the project is pinned to.
LEMMA StatusStep ==
  ASSUME IInv, NEW n \in Commands, Status(n)
  PROVE  IInv'
<1>1. /\ cmd[n].step = "status" /\ Look
      /\ FilesOK' /\ Grows /\ UNCHANGED <<release, pointer, unpaid, projectVars, faults, contended, crossed>>
      /\ ~cmd[n].core /\ cmd[n].op = "run" /\ Alive(n) /\ cmd[n] \in CommandRecords
  BY LookKeeps, AtRun DEF Status, At
<1>2. CASE Throw(n)
  BY <1>1, <1>2, PreparationFails
<1>3. CASE ~Throw(n)
  <2>. DEFINE d == [cmd[n] EXCEPT !.step = "spawn", !.stale = FALSE]
  <2>1. cmd' = [cmd EXCEPT ![n] = d] /\ cmd'[n] = d /\ meta.version = cmd[n].source
    BY <1>3 DEF Status, Become, IInv, TypeOK
  <2>2. d.step = "spawn" /\ d.op = "run" /\ ~d.core /\ d.source = cmd[n].source
    BY <1>1 DEF CommandRecords
  <2>3. d \in CommandRecords
    BY <1>1, StepNames DEF CommandRecords
  <2>4. CommandInv(d)
    BY <2>2 DEF CommandInv, Replaces
  <2>5. Moves(n)
    BY <2>1, <2>3, <2>4, BecomeMoves
  <2>6. Follows(n)
    BY <2>1, <2>2 DEF Follows, Installs, Uses, Destroys, Unpaid, InstallSteps, Preparing
  <2>7. TreeStep(n)
    BY <1>1, <2>6, TreesFollow
  <2>8. ASSUME ~crossed' PROVE SchemaOfPin' /\ CheckpointsInv'
    BY <1>1, <2>8 DEF IInv, ProjectInv, SchemaOfPin, CheckpointsInv, projectVars
  <2>9. Owns(n) /\ ProjectStep(n) /\ RunStep(n) /\ PointerStep(n)
    BY <1>1, <2>1, <2>2, <2>8 DEF Owns, ProjectStep, RunStep, PointerStep, Replaces, projectVars
  <2>. QED
    BY <1>1, <2>5, <2>7, <2>9, StepKeeps DEF Keeps
<1>. QED
  BY <1>2, <1>3

LEMMA SpawnStep ==
  ASSUME IInv, NEW n \in Commands, Spawn(n)
  PROVE  IInv'
<1>1. /\ cmd[n].step = "spawn" /\ Look /\ Finish(n)
      /\ FilesOK' /\ Grows /\ UNCHANGED <<release, pointer, unpaid, projectVars, faults, contended, crossed>>
      /\ ~cmd[n].core /\ cmd[n].op = "run" /\ Alive(n)
  BY LookKeeps, AtRun DEF Spawn, At
<1>2. Throw(n)
  BY <1>1 DEF Throw, Handler, Preparing, Committing, Migrating
<1>. QED
  BY <1>1, <1>2, PreparationFails

-----------------------------------------------------------------------------
(* The environment.                                                        *)

LEMMA FaultStep ==
  ASSUME IInv, NEW n \in Commands, Fault(n)
  PROVE  IInv'
<1>1. /\ Alive(n) /\ Throw(n) /\ faults' = faults + 1 /\ Trouble
      /\ UNCHANGED <<release, pointer, authorized, trusted, meta, journal, checkpoint>>
      /\ UNCHANGED <<deaths, contended, crossed, unpaid>>
  BY DEF Fault, runtimeVars, projectVars, ghosts
<1>2. FilesOK /\ faults \in Nat /\ deaths \in Nat
  BY CommandTyped, CommandsAssumption DEF FilesOK
<1>3. FilesOK' /\ Grows
  BY <1>1, <1>2, CommandsAssumption DEF FilesOK, RuntimeTypeOK, Grows, Trouble
<1>4. Excused(n)
  BY <1>1, <1>2 DEF Excused, Recoverable
<1>. QED
  BY <1>1, <1>3, <1>4, PreparationFails, ChangeFails DEF projectVars

LEMMA DieStep ==
  ASSUME IInv, NEW n \in Commands, Die(n)
  PROVE  IInv'
<1>1. /\ Alive(n) /\ cmd' = [cmd EXCEPT ![n] = Over] /\ cmd'[n] = Over /\ deaths' = deaths + 1 /\ Trouble
      /\ UNCHANGED <<release, pointer, authorized, trusted, meta, journal, checkpoint>>
      /\ UNCHANGED <<faults, contended, crossed, unpaid>>
  BY DEF Die, Finish, runtimeVars, projectVars, ghosts, IInv, TypeOK
<1>2. FilesOK /\ faults \in Nat /\ deaths \in Nat
  BY CommandTyped, CommandsAssumption DEF FilesOK
<1>3. FilesOK' /\ Grows /\ ~Recoverable'
  BY <1>1, <1>2, CommandsAssumption DEF FilesOK, RuntimeTypeOK, Grows, Trouble, Recoverable
<1>4. Moves(n) /\ TreeStep(n)
  BY <1>1, <1>3, NewCommandFacts, BecomeMoves, OverFollows, TreesFollow
<1>5. ASSUME ~crossed' PROVE SchemaOfPin' /\ CheckpointsInv'
  BY <1>1, <1>5 DEF IInv, ProjectInv, SchemaOfPin, CheckpointsInv
<1>6. Owns(n) /\ ProjectStep(n) /\ RunStep(n) /\ PointerStep(n)
  BY <1>1, <1>3, <1>5, NewCommandFacts DEF Owns, ProjectStep, RunStep, PointerStep, Replaces, projectVars
<1>. QED
  BY <1>3, <1>4, <1>6, StepKeeps DEF Keeps

LEMMA EditStep ==
  ASSUME IInv, Edit
  PROVE  IInv'
<1>1. /\ cmd' = [n \in Commands |-> IF cmd[n].op = "update" /\ cmd[n].core
                                    THEN [cmd[n] EXCEPT !.stale = TRUE] ELSE cmd[n]]
      /\ faults' = faults + 1 /\ Trouble
      /\ UNCHANGED <<release, pointer, authorized, trusted, meta, journal, checkpoint>>
      /\ UNCHANGED <<deaths, contended, crossed, unpaid>>
  BY DEF Edit, runtimeVars, projectVars, ghosts
<1>2. FilesOK /\ faults \in Nat /\ deaths \in Nat
  BY TypeParts, CommandsAssumption DEF FilesOK, IInv
<1>3. FilesOK'
  BY <1>1, <1>2, CommandsAssumption DEF FilesOK, RuntimeTypeOK, Trouble
<1>4. ASSUME NEW k \in Commands
      PROVE  /\ cmd'[k] \in CommandRecords /\ CommandInv(cmd'[k])
             /\ cmd'[k].op = cmd[k].op /\ cmd'[k].step = cmd[k].step /\ cmd'[k].core = cmd[k].core
             /\ cmd'[k].source = cmd[k].source /\ cmd'[k].target = cmd[k].target
             /\ cmd'[k].previous = cmd[k].previous /\ cmd'[k].existed = cmd[k].existed
             /\ cmd'[k].paid = cmd[k].paid /\ cmd'[k].draft = cmd[k].draft
             /\ cmd'[k].stale => cmd[k].stale \/ (cmd[k].op = "update" /\ cmd[k].core)
             /\ cmd[k].stale => cmd'[k].stale
  <2>1. cmd[k] \in CommandRecords /\ CommandInv(cmd[k])
    BY DEF IInv, TypeOK
  <2>2. CASE cmd'[k] = cmd[k]
    BY <2>1, <2>2
  <2>3. CASE cmd'[k] = [cmd[k] EXCEPT !.stale = TRUE] /\ cmd[k].op = "update" /\ cmd[k].core
    <3>1. /\ cmd'[k] \in CommandRecords /\ cmd'[k].stale
          /\ cmd'[k].op = cmd[k].op /\ cmd'[k].step = cmd[k].step /\ cmd'[k].core = cmd[k].core
          /\ cmd'[k].source = cmd[k].source /\ cmd'[k].target = cmd[k].target
          /\ cmd'[k].previous = cmd[k].previous /\ cmd'[k].existed = cmd[k].existed
          /\ cmd'[k].paid = cmd[k].paid /\ cmd'[k].draft = cmd[k].draft
      BY ZenonT(60), <2>1, <2>3 DEF CommandRecords
    <3>2. cmd[k].step \notin {"new", "over"}
      BY <2>1, <2>3, Core DEF Alive
    <3>3. CommandInv(cmd'[k])
      BY <2>1, <2>3, <3>1, <3>2 DEF CommandInv, Replaces
    <3>. QED
      BY <2>3, <3>1, <3>3
  <2>. QED
    BY <1>1, <2>2, <2>3
<1>5. TypeOK'
  <2>1. cmd' \in [Commands -> CommandRecords]
    BY <1>1, <1>4
  <2>. QED
    BY <1>3, <2>1 DEF TypeOK, FilesOK
<1>6. ReleasesInv'
  <2>1. unpaid' \subseteq contended'
    BY <1>1 DEF IInv, ReleasesInv, FreshIsAuthorized
  <2>2. ASSUME NEW v \in Releases \ contended PROVE ReleaseInv(v)'
    <3>1. ReleaseInv(v)
      BY DEF IInv, ReleasesInv
    <3>. QED
      BY <1>1, <1>4, <3>1 DEF ReleaseInv, Installs, InUse, Uses, Destroys, Whole
  <2>. QED
    BY <1>1, <2>1, <2>2 DEF ReleasesInv, FreshIsAuthorized
<1>7. ProjectInv'
  <2>. SUFFICES ASSUME ~crossed PROVE ProjectInv'
    BY <1>1 DEF ProjectInv
  <2>1. OneCore' /\ SchemaOfPin' /\ CheckpointsInv'
    BY <1>1, <1>4 DEF OneCore, SchemaOfPin, CheckpointsInv, IInv, ProjectInv
  <2>2. ASSUME NEW k \in Commands, Replaces(cmd'[k]) PROVE PlanInv(cmd'[k])
    BY <1>4, <2>2 DEF Replaces, PlanInv, IInv, ProjectInv
  <2>3. ASSUME NEW k \in Commands, cmd'[k].core, cmd'[k].op = "update" PROVE UpdateInv(cmd[k])'
    <3>1. UpdateInv(cmd[k])
      BY <1>4, <2>3 DEF IInv, ProjectInv
    <3>. QED
      BY <1>1, <1>4, <3>1 DEF UpdateInv
  <2>4. ASSUME NEW k \in Commands, cmd'[k].core, cmd'[k].op = "migrate" PROVE MigrateInv(k, cmd[k])'
    <3>1. MigrateInv(k, cmd[k])
      BY <1>4, <2>4 DEF IInv, ProjectInv
    <3>. QED
      BY <1>1, <1>4, <3>1 DEF MigrateInv, Project
  <2>. QED
    BY <2>1, <2>2, <2>3, <2>4 DEF ProjectInv, CheckpointsInv
<1>8. RunsThePin'
  BY <1>1, <1>4 DEF RunsThePin, At, IInv
<1>9. PointerInv'
  <2>. SUFFICES ASSUME Recoverable' PROVE PointerInv'
    BY DEF PointerInv
  <2>1. Recoverable /\ faults' = 1
    BY <1>1, <1>2 DEF Recoverable
  <2>2. (\A k \in Commands : ~cmd'[k].core) => Settled'
    BY <1>1, <1>4, <2>1 DEF IInv, PointerInv, Settled
  <2>3. ASSUME NEW k \in Commands, cmd'[k].core, cmd'[k].op = "recover"
        PROVE  cmd'[k].step = "reread" /\ Settled'
    BY <1>1, <1>4, <2>1, <2>3 DEF IInv, PointerInv, Settled
  <2>4. ASSUME NEW k \in Commands, cmd'[k].core, cmd'[k].op = "update" PROVE UpdatePointer(cmd[k])'
    <3>1. UpdatePointer(cmd[k])
      BY <1>4, <2>1, <2>4 DEF IInv, PointerInv
    <3>. QED
      BY <1>1, <1>4, <2>1, <3>1 DEF UpdatePointer, Settled
  <2>5. ASSUME NEW k \in Commands, cmd'[k].core, cmd'[k].op = "migrate" PROVE MigratePointer(cmd[k])'
    <3>1. MigratePointer(cmd[k])
      BY <1>4, <2>1, <2>5 DEF IInv, PointerInv
    <3>. QED
      BY <1>1, <1>4, <2>1, <3>1 DEF MigratePointer, Settled
  <2>. QED
    BY <2>2, <2>3, <2>4, <2>5 DEF PointerInv
<1>. QED
  BY <1>4, <1>5, <1>6, <1>7, <1>8, <1>9 DEF IInv

-----------------------------------------------------------------------------
(* The theorems.                                                           *)

LEMMA InitIInv == Init => IInv
<1>. SUFFICES ASSUME Init PROVE IInv
  OBVIOUS
<1>1. \A n \in Commands : cmd[n] = NewCommand /\ cmd[n].step = "new" /\ ~cmd[n].core
  BY DEF Init, NewCommand
<1>2. /\ meta = [version |-> First, schema |-> Schema(First)] /\ First \in Releases
      /\ pointer \in {NoRelease, First} /\ (pointer = First => release[First] = "whole")
      /\ journal = NoCommand /\ checkpoint = [n \in Commands |-> NoMeta]
      /\ faults = 0 /\ deaths = 0 /\ contended = {} /\ crossed = FALSE /\ unpaid = {}
  <2>1. First # NoRelease
    BY FirstAssumption, ReleasesAssumption
  <2>. QED
    BY <2>1, FirstAssumption DEF Init
<1>3. TypeOK
  <2>1. RuntimeTypeOK
    BY FirstAssumption DEF Init, RuntimeTypeOK, Trees
  <2>2. cmd \in [Commands -> CommandRecords]
    BY NewCommandFacts DEF Init
  <2>. QED
    <3>1. meta \in Metas /\ NoMeta \in Metas \cup {NoMeta}
      BY <1>2, SchemaAssumption DEF Metas
    <3>2. checkpoint \in [Commands -> Metas \cup {NoMeta}]
      BY <1>2, <3>1
    <3>3. faults \in 0..MaxTrouble /\ deaths \in 0..MaxTrouble
      BY <1>2, CommandsAssumption
    <3>4. crossed \in BOOLEAN
      BY <1>2
    <3>. QED
      BY <1>2, <2>1, <2>2, <3>1, <3>2, <3>3, <3>4 DEF TypeOK
<1>4. \A n \in Commands : CommandInv(cmd[n])
  BY <1>1, NewCommandFacts
<1>5. ReleasesInv
  <2>1. ASSUME NEW v \in Releases, NEW n \in Commands
        PROVE  ~Installs(cmd[n], v) /\ ~Uses(cmd[n], v) /\ ~Destroys(cmd[n], v) /\ ~Unpaid(cmd[n], v)
    BY <1>1 DEF Installs, Uses, Destroys, Unpaid, InstallSteps, Preparing
  <2>2. ASSUME NEW v \in Releases PROVE ReleaseInv(v)
    BY <1>2, <2>1, ReleasesAssumption DEF ReleaseInv, InUse, Unpaid, Whole
  <2>. QED
    BY <1>2, <2>2 DEF ReleasesInv, FreshIsAuthorized
<1>6. ProjectInv
  BY <1>1, <1>2 DEF ProjectInv, OneCore, SchemaOfPin, Replaces
<1>7. RunsThePin /\ PointerInv
  BY <1>1, <1>2 DEF RunsThePin, At, PointerInv, Settled
<1>. QED
  BY <1>3, <1>4, <1>5, <1>6, <1>7 DEF IInv

LEMMA StepIInv ==
  ASSUME IInv, NEW n \in Commands, Step(n)
  PROVE  IInv'
<1>1. CASE \/ Consume(n) \/ TargetExists(n) \/ EnsureAuthorized(n) \/ Spend(n) \/ ExistedBefore(n)
           \/ Install(n) \/ Promote(n) \/ Evidence(n) \/ Trust(n) \/ Attest(n) \/ Discard(n) \/ Remove(n)
  BY <1>1, ConsumeStep, TargetExistsStep, EnsureAuthorizedStep, SpendStep, ExistedBeforeStep, InstallStep,
     PromoteStep, EvidenceStep, TrustStep, AttestStep, DiscardStep, RemoveStep
<1>2. CASE \/ Check(n) \/ Recheck(n) \/ Previous(n) \/ Activate(n) \/ Confirm(n) \/ Draft(n) \/ Pin(n)
           \/ Restore(n)
  BY <1>2, CheckStep, RecheckStep, PreviousStep, ActivateStep, ConfirmStep, DraftStep, PinStep, RestoreStep
<1>3. CASE \/ Checkpoint(n) \/ Open(n) \/ Copy(n) \/ Change(n) \/ Validate(n) \/ Verify(n) \/ Close(n)
           \/ Clean(n) \/ Swap(n) \/ Failed(n) \/ Stuck(n)
  BY <1>3, CheckpointStep, OpenStep, CopyStep, ChangeStep, ValidateStep, VerifyStep, CloseStep, CleanStep,
     SwapStep, FailedStep, StuckStep
<1>4. CASE Reread(n) \/ Rewind(n) \/ Status(n) \/ Spawn(n)
  BY <1>4, RereadStep, RewindStep, StatusStep, SpawnStep
<1>. QED
  BY <1>1, <1>2, <1>3, <1>4 DEF Step

LEMMA NextIInv == IInv /\ [Next]_vars => IInv'
<1>. SUFFICES ASSUME IInv, [Next]_vars PROVE IInv'
  OBVIOUS
<1>1. ASSUME NEW n \in Commands,
             BeginUpdate(n) \/ BeginRecovery(n) \/ BeginRun(n) \/ Step(n) \/ Fault(n) \/ Die(n)
      PROVE  IInv'
  BY <1>1, BeginUpdateStep, BeginRecoveryStep, BeginRunStep, StepIInv, FaultStep, DieStep
<1>2. CASE UNCHANGED vars
  <2>1. /\ UNCHANGED <<release, pointer, authorized, trusted, meta, journal, checkpoint, cmd>>
        /\ UNCHANGED <<faults, deaths, contended, crossed, unpaid>>
    BY <1>2 DEF vars, runtimeVars, projectVars, troubleVars, ghosts
  <2>2. TypeOK' /\ (\A n \in Commands : CommandInv(cmd[n]))' /\ ReleasesInv' /\ RunsThePin'
    BY <2>1
    DEF IInv, TypeOK, RuntimeTypeOK, ReleasesInv, FreshIsAuthorized, ReleaseInv, Installs, InUse, Uses,
        Destroys, Whole, RunsThePin, At
  <2>3. ProjectInv'
    BY <2>1 DEF IInv, ProjectInv, OneCore, SchemaOfPin, UpdateInv, MigrateInv, Project
  <2>4. PointerInv'
    BY <2>1 DEF IInv, PointerInv, Recoverable, Settled, UpdatePointer, MigratePointer
  <2>. QED
    BY <2>2, <2>3, <2>4 DEF IInv
<1>. QED
  BY <1>1, <1>2, EditStep DEF Next

THEOREM InvariantHolds == Spec => []IInv
BY InitIInv, NextIInv, PTL DEF Spec

\* The releases, the project and the commands are what they were declared to be.
THEOREM TypeCorrect == Spec => []TypeOK
<1>1. IInv => TypeOK
  BY DEF IInv
<1>. QED
  BY <1>1, InvariantHolds, PTL

\* The release that active.json names is there, whole, and every release put in place
\* used an authorization given for it, unless two commands installed it at a time.
THEOREM PointerIsTrusted == Spec => []PointedIsTrusted
<1>1. IInv => PointedIsTrusted
  <2>. SUFFICES ASSUME IInv PROVE PointedIsTrusted
    OBVIOUS
  <2>1. ASSUME pointer \notin contended, pointer # NoRelease PROVE Whole(pointer)
    <3>1. pointer \in Releases \ contended
      BY <2>1 DEF IInv, TypeOK, RuntimeTypeOK
    <3>. QED
      BY <3>1 DEF IInv, ReleasesInv, ReleaseInv, InUse
  <2>. QED
    BY <2>1 DEF PointedIsTrusted, PointedIsWhole, PointerReadable, IInv, ReleasesInv
<1>. QED
  BY <1>1, InvariantHolds, PTL

\* The schema is that of the pinned release, unless a migration is recorded as
\* interrupted, and a command runs what the project was pinned to when it looked.
THEOREM PinHonoured == Spec => []PinIsHonoured
<1>1. IInv => PinIsHonoured
  BY DEF IInv, ProjectInv, PinIsHonoured, SchemaOfPin
<1>. QED
  BY <1>1, InvariantHolds, PTL

\* One failure of one command leaves no trace in the pointer and the journal.
THEOREM FailureRestored == Spec => []FailureRestores
<1>1. IInv => FailureRestores
  <2>1. ASSUME IInv, NEW n \in Commands, ~Alive(n) PROVE ~cmd[n].core
    BY <2>1, Core
  <2>. QED
    BY <2>1 DEF IInv, PointerInv, Recoverable, Settled, FailureRestores
<1>. QED
  BY <1>1, InvariantHolds, PTL

\* The pin moves to a newer release that the pointer names, or to a checkpoint.
THEOREM PinFollows == Spec => PinFollowsPointer
<1>. DEFINE Moved == \/ crossed' \/ meta'.version = meta.version
                     \/ Newer(meta'.version, meta.version) /\ pointer = meta'.version
                     \/ \E n \in Commands : meta' = checkpoint[n]
<1>1. ASSUME IInv, NEW n \in Commands, Pin(n) PROVE Moved
  <2>1. cmd[n].step = "pin" /\ meta' = [cmd[n].draft EXCEPT !.version = cmd[n].target] /\ crossed' = crossed
    BY <1>1 DEF Pin, At, WriteMeta, ghosts
  <2>2. /\ cmd[n].core /\ Replaces(cmd[n]) /\ cmd[n].op \in {"update", "migrate"}
        /\ CommandInv(cmd[n]) /\ meta \in Metas
    BY <1>1, <2>1, Changing, CommandTyped DEF UpdateSteps, FilesOK
  <2>3. meta'.version = cmd[n].target /\ Newer(cmd[n].target, cmd[n].source)
    BY <2>1, <2>2 DEF CommandInv, Metas
  <2>4. ~crossed => meta.version = cmd[n].source /\ pointer = cmd[n].target
    <3>1. ASSUME ~crossed, cmd[n].op = "update" PROVE meta.version = cmd[n].source /\ pointer = cmd[n].target
      BY <1>1, <2>1, <2>2, <3>1, Core DEF UpdateInv
    <3>2. ASSUME ~crossed, cmd[n].op = "migrate" PROVE meta.version = cmd[n].source /\ pointer = cmd[n].target
      <4>1. MigrateInv(n, cmd[n])
        BY <1>1, <2>2, <3>2, Core
      <4>. QED
        BY <2>1, <2>2, <4>1 DEF MigrateInv, Project, Metas
    <3>. QED
      BY <2>2, <3>1, <3>2
  <2>. QED
    BY <2>1, <2>3, <2>4
<1>2. ASSUME IInv, NEW n \in Commands, Change(n) PROVE Moved
  <2>1. cmd[n].step = "change" /\ meta' = [cmd[n].draft EXCEPT !.schema = 2] /\ crossed' = crossed
    BY <1>2 DEF Change, At, WriteMeta, ghosts
  <2>2. ~crossed => cmd[n].draft = meta
    BY <1>2, <2>1, AtMigrate DEF MigrateInv
  <2>3. CommandInv(cmd[n]) /\ cmd[n].draft \in Metas
    BY <1>2, <2>1, CommandTyped DEF CommandInv
  <2>. QED
    BY <2>1, <2>2, <2>3 DEF Metas
<1>3. ASSUME IInv, NEW n \in Commands, Swap(n) \/ Rewind(n) PROVE Moved
  BY <1>3, AtRecover DEF Swap, Rewind, WriteMeta, projectVars, At
<1>4. ASSUME NEW n \in Commands, Step(n), ~(Pin(n) \/ Change(n) \/ Swap(n) \/ Rewind(n)) PROVE meta' = meta
  BY <1>4
  DEF Step, Consume, TargetExists, EnsureAuthorized, Spend, ExistedBefore, Install, Promote, Evidence, Trust,
      Attest, Discard, Remove, Check, Recheck, Previous, Activate, Confirm, Draft, Restore, Checkpoint, Open,
      Copy, Validate, Verify, Close, Clean, Failed, Stuck, Reread, Status, Spawn, Look, KeepFiles, projectVars
<1>5. ASSUME NEW n \in Commands, BeginUpdate(n) \/ BeginRecovery(n) \/ BeginRun(n) \/ Fault(n) \/ Die(n) \/ Edit
      PROVE  meta' = meta
  BY <1>5 DEF BeginUpdate, BeginRecovery, BeginRun, Fault, Die, Edit, Look, KeepFiles, projectVars
<1>6. IInv /\ [Next]_vars => [Moved]_vars
  <2>. SUFFICES ASSUME IInv, Next PROVE Moved
    BY DEF vars
  <2>1. CASE Edit
    BY <2>1 DEF Edit, projectVars
  <2>. QED
    BY <1>1, <1>2, <1>3, <1>4, <1>5, <2>1 DEF Next
<1>. QED
  BY <1>6, InvariantHolds, PTL DEF Spec, PinFollowsPointer
=================================================================================
