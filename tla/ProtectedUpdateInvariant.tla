------------------------ MODULE ProtectedUpdateInvariant ------------------------
(***************************************************************************)
(* The inductive invariant behind the safety properties of ProtectedUpdate,*)
(* for any number of releases, commands, faults and deaths.                *)
(***************************************************************************)
EXTENDS ProtectedUpdate

Replaces(c) == c.op \in {"update", "migrate"} /\ c.step \notin {"new", "over"}

-----------------------------------------------------------------------------
(* The control of a command.                                               *)

UpdateSteps == {"check", "install", "promote", "evidence", "recheck", "previous", "activate",
                "confirm", "draft", "pin", "restore"}
MigrateSteps == {"check", "install", "promote", "evidence", "previous", "checkpoint", "open",
                 "copy", "change", "validate", "activate", "draft", "pin", "verify", "close",
                 "clean", "restore", "swap", "failed", "stuck"}

CommandInv(c) ==
    /\ c.step \in {"new", "over"} => c = [NewCommand EXCEPT !.step = c.step]
    /\ c.step \notin {"new", "over"} /\ c.op = "run" => ~c.core /\ c.step \in {"status", "spawn"}
    /\ c.op = "recover" =>
         /\ c.step \in {"planned", "reread", "rewind"} /\ (c.core <=> c.step # "planned")
         /\ c.interrupted \in Commands /\ c.target = NoRelease /\ c.previous = NoRelease
    /\ Replaces(c) =>
         /\ c.target \in Releases /\ c.source \in Releases /\ Newer(c.target, c.source)
         /\ ~c.core => /\ c.step \in InstallSteps \cup {"planned"} /\ c.previous = NoRelease
                       /\ ~c.changed /\ ~c.stale
         /\ c.core => c.step \in IF c.op = "update" THEN UpdateSteps ELSE MigrateSteps
    /\ c.step \in {"pin", "change"} => c.draft \in Metas
    /\ c.op = "migrate" /\ c.core =>
         /\ c.step \in {"draft", "pin", "verify", "close", "clean"} => c.changed
         /\ c.step \in {"check", "install", "promote", "evidence", "previous", "checkpoint", "open",
                        "copy", "change", "validate", "activate"} => ~c.changed

-----------------------------------------------------------------------------
(* Releases.                                                               *)

Installs(c, v) == c.step \in InstallSteps /\ c.target = v

\* c may remove the release v when it throws, or is about to.
Destroys(c, v) ==
    /\ c.target = v /\ ~c.core
    /\ (c.step \in Preparing /\ ~c.existed) \/ c.step \in {"discard", "remove"}

\* c has verified v, or found it in active.json, and counts on it.
Uses(c, v) == c.core /\ (c.target = v \/ c.previous = v)

InUse(v) == pointer = v \/ \E n \in Commands : Uses(cmd[n], v)

ReleaseInv(v) ==
    /\ \A n, k \in Commands : Installs(cmd[n], v) /\ Installs(cmd[k], v) => n = k
    /\ InUse(v) => Whole(v) /\ \A n \in Commands : ~Destroys(cmd[n], v)
    /\ \A n \in Commands :
         cmd[n].target = v /\ cmd[n].step \in {"existed", "install", "promote"} /\ ~cmd[n].core /\ ~cmd[n].paid
           => release[v] # "absent"

ReleasesInv == FreshIsAuthorized /\ \A v \in Releases \ contended : ReleaseInv(v)

-----------------------------------------------------------------------------
(* The project, unless two commands changed it at a time.                  *)

OneCore == \A n, k \in Commands : cmd[n].core /\ cmd[k].core => n = k

\* What the plan of c says of the schemas.
PlanInv(c) ==
    /\ c.op = "update" => Schema(c.target) = Schema(c.source)
    /\ c.op = "migrate" => Schema(c.source) = 1 /\ Schema(c.target) = 2

Project(version, schema) == meta = [version |-> version, schema |-> schema]

\* What the command that changes the project has left of it so far.
UpdateInv(c) ==
    /\ c.step # "check" => journal = NoCommand /\ meta.version = c.source
    /\ c.step = "pin" => c.draft = meta
    /\ c.step \in {"confirm", "draft", "pin"} => pointer = c.target

MigrateInv(n, c) ==
    /\ c.step \in {"install", "promote", "evidence", "previous", "checkpoint", "open"} =>
          journal = NoCommand /\ Project(c.source, 1)
    /\ c.step \in {"copy", "change"} => journal = n /\ Project(c.source, 1)
    /\ c.step \in {"validate", "activate", "draft", "pin"} => journal = n /\ Project(c.source, 2)
    /\ c.step \in {"verify", "close"} => journal = n /\ Project(c.target, 2)
    /\ c.step = "clean" => journal = NoCommand /\ Project(c.target, 2)
    /\ c.step = "failed" => journal = NoCommand /\ Project(c.source, 1)
    /\ c.step \in {"change", "pin"} => c.draft = meta
    /\ c.step \in {"draft", "pin", "verify", "close", "clean"} => pointer = c.target
    /\ c.step \in {"open", "copy", "change", "validate", "activate", "draft", "pin", "verify", "close",
                   "clean", "restore", "swap"}
         => checkpoint[n] = [version |-> c.source, schema |-> 1]

ProjectInv ==
    ~crossed =>
      /\ OneCore /\ SchemaOfPin
      /\ \A n \in Commands : checkpoint[n] # NoMeta => checkpoint[n].schema = Schema(checkpoint[n].version)
      /\ \A n \in Commands : Replaces(cmd[n]) => PlanInv(cmd[n])
      /\ \A n \in Commands : cmd[n].core /\ cmd[n].op = "update" => UpdateInv(cmd[n])
      /\ \A n \in Commands : cmd[n].core /\ cmd[n].op = "migrate" => MigrateInv(n, cmd[n])

-----------------------------------------------------------------------------
(* The pointer, after one failure.                                         *)

Recoverable == faults < 2 /\ deaths = 0 /\ ~crossed /\ contended = {}

Settled == journal = NoCommand /\ pointer \in {NoRelease, meta.version}

UpdatePointer(c) ==
    /\ c.step \notin {"confirm", "draft", "pin", "restore"} => Settled
    /\ c.step \in {"activate", "confirm", "draft", "pin", "restore"} => c.previous \in {NoRelease, c.source}
    /\ c.stale \/ c.step = "restore" => faults = 1

MigratePointer(c) ==
    /\ c.step \in {"check", "install", "promote", "evidence", "previous", "checkpoint", "open"} => Settled
    /\ c.step \in {"copy", "change", "validate", "activate", "swap", "failed"} =>
         pointer \in {NoRelease, c.source}
    /\ c.step \in MigrateSteps \ {"check", "install", "promote", "evidence", "previous"} =>
         c.previous \in {NoRelease, c.source}
    /\ c.step \in {"restore", "swap", "failed"} => faults = 1
    /\ c.step # "stuck"

PointerInv ==
    Recoverable =>
      /\ (\A n \in Commands : ~cmd[n].core) => Settled
      /\ \A n \in Commands : cmd[n].core =>
           /\ cmd[n].op = "recover" => cmd[n].step = "reread" /\ Settled
           /\ cmd[n].op = "update" => UpdatePointer(cmd[n])
           /\ cmd[n].op = "migrate" => MigratePointer(cmd[n])

IInv ==
    /\ TypeOK /\ (\A n \in Commands : CommandInv(cmd[n]))
    /\ ReleasesInv /\ ProjectInv /\ RunsThePin /\ PointerInv
=================================================================================
