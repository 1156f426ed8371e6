------------------------------ MODULE DesktopInvariant ------------------------------
(***************************************************************************)
(* The inductive invariant of Desktop, a part of it for each part of the   *)
(* Desktop that theorems are about.                                        *)
(***************************************************************************)
EXTENDS Desktop, Sequences

-------------------------------------------------------------------------------------
(* The review of sources.                                                      *)

ReviewCalls ==
    [step : Review!FlowSteps, asked : 0..MaxTurns, project : Scopes \cup {NoScope}, turn : 0..MaxTurns,
     copy : Review!Inputs \cup {NoFile}, selected : SUBSET Paths]

ReviewShape ==
    /\ Review!ReviewTypeOK
    /\ setup \in [step : {"idle", "input", "request"}, next : Review!Requests]
    /\ flow \in [Flows -> ReviewCalls]
    /\ lock \in [by : Flows \cup {"setup", "none"},
                 old : Review!Requests \cup Review!Inputs \cup Review!Presentations \cup {NoFile}]
    /\ window \in [turn : 0..MaxTurns, shown : Scopes \cup {NoScope}]

\* The replacement under way is of this file of the active project.
LocksInput ==
    \/ lock.by = "setup" /\ setup.step = "input"
    \/ lock.by \in Flows /\ flow[lock.by].step \in {"selecting", "observing"}
LocksRequest == lock.by = "setup" /\ setup.step = "request"
LocksPresentation == lock.by \in Flows /\ flow[lock.by].step = "presenting"

\* The main thread is in a replacement only when it makes a transition, and a worker
\* only in the session that it read its copy in; what was set aside is a file of its kind,
\* which is missing meanwhile.
LockInv ==
    /\ lock.by # "none" => LocksInput \/ LocksRequest \/ LocksPresentation
    /\ lock.by \in Flows => Review!InScope(lock.by)
    /\ lock.by = "none" => lock.old = NoFile
    /\ LocksInput => lock.old \in Review!Inputs \cup {NoFile}
    /\ LocksRequest => lock.old \in Review!Requests \cup {NoFile}
    /\ LocksInput => input[session.project] = NoFile
    /\ LocksRequest => request[session.project] = NoFile
    /\ LocksPresentation => lock.old \in Review!Presentations \cup {NoFile}

\* A file with the one that is set aside for it.
WholeInput(p) == IF LocksInput /\ p = session.project THEN lock.old ELSE input[p]
WholeRequest(p) == IF LocksRequest /\ p = session.project THEN lock.old ELSE request[p]

\* The main thread has projected its next request, which is not written yet.
Projecting(p) == p = session.project /\ setup.step = "request" /\ Review!Ready(setup.next)

\* A worker has read an input, which stays until the process dies.
ReadInv ==
    /\ setup.step = "input" => Review!Ready(setup.next)
    /\ \A f \in Flows : flow[f].step \in {"inventory"} \cup Review!Replacing =>
        flow[f].project \in Scopes /\ flow[f].copy # NoFile /\ WholeInput(flow[f].project) # NoFile

\* Every input is of a request, but for the one that is being projected.
KeptInv ==
    \A p \in Scopes \ unfinished :
        WholeInput(p) # NoFile => WholeRequest(p) # NoFile \/ Projecting(p)

Coherent(file) == file # NoFile => file.observed \in {NoFile, file.sources}

\* What is observed is of the sources beside it, in every copy there is.
CoherentInv ==
    /\ \A p \in Scopes : Coherent(input[p]) /\ Coherent(presentation[p])
    /\ \A f \in Flows : Coherent(flow[f].copy)
    /\ LocksInput \/ LocksPresentation => Coherent(lock.old)

OfRequest(file, q) == file # NoFile /\ file.sources = q.sources

\* The sources of an input are those of the request, the next one if it is projected;
\* a worker that does not overtake replaces the input it has read.
FollowsInv ==
    /\ \A p \in Scopes \ (overtaken \cup unfinished) :
        \/ Projecting(p)
        \/ Review!Ready(WholeRequest(p)) => OfRequest(WholeInput(p), WholeRequest(p))
    /\ \A p \in Scopes \ overtaken : Projecting(p) => OfRequest(WholeInput(p), setup.next)
    /\ LocksInput /\ lock.by \in Flows /\ session.project \notin overtaken =>
        lock.old = flow[lock.by].copy

\* The window lags behind the process, and a call behind the window; what is to be
\* shown of the present session is of its project.
ShownInv ==
    /\ session.turn <= turns /\ turns + mishaps <= MaxTurns
    /\ window.turn <= session.turn
    /\ \A f \in Flows :
        /\ flow[f].asked <= window.turn
        /\ flow[f].step = "shown" /\ flow[f].asked = session.turn => flow[f].project = session.project
    /\ Review!WindowShowsActive

ReviewInv == ReviewShape /\ LockInv /\ ReadInv /\ KeptInv /\ CoherentInv /\ FollowsInv /\ ShownInv

-------------------------------------------------------------------------------------
(* The knowledge of a project.                                                 *)

Reviewable == [project : Scopes, base : Contents, post : Contents]

KnowledgeTasks ==
    [step : Knowledge!Steps, purpose : Knowledge!Purposes, turn : 0..MaxMoves, project : Scopes \cup {NoScope},
     checked : 0..MaxMoves, digest : Knowledge!Digests, proposal : Reviewable \cup {Knowledge!NoProposal},
     answer : Knowledge!Answers, on : Tasks \cup {NoTask}]

Desks ==
    [turn : 0..MaxMoves, shown : Knowledge!Digests, late : BOOLEAN, protection : Knowledge!Answers,
     proposal : Reviewable \cup {Knowledge!NoProposal}, refreshing : Tasks \cup {NoTask}, activating : BOOLEAN]

\* A digest or an answer of a project is of a content of it.
Whole(d) == d.project \in Scopes => d.content \in Contents
IsConfirmed(d) == d.project \in Scopes /\ d.content \in confirmed[d.project]
IsSlipped(d) == d.project \in Scopes /\ d.content \in slipped[d.project]

Applying == {"authorizing", "replacing", "verifying", "recording", "inspecting"}
Accepting == {"checked", "confirming"}

\* Why a command is at a step.
PurposeFits(c) ==
    /\ c.step \in {"applying", "applied"} \cup Applying => c.purpose = "apply"
    /\ c.step \in {"accepting", "uac", "completing", "accepted"} \cup Accepting => c.purpose \in {"activate", "confirm"}
    /\ c.step = "called" => c.purpose \in {"prepare", "apply", "activate", "confirm"}
    /\ c.step \in {"building", "built"} => c.purpose = "prepare"

\* What a command accepts or applies, the user has accepted; as long as its project is
\* the active one, it works on that; and what it will show is confirmed, or came
\* between a check and a read.
TaskFits(c) ==
    /\ c \in KnowledgeTasks /\ PurposeFits(c)
    /\ c.turn <= scope.turn /\ c.checked <= scope.turn
    /\ Whole(c.digest) /\ Whole(c.answer)
    /\ c.digest.project \in Scopes => IsConfirmed(c.digest)
    /\ c.purpose = "apply" /\ c.proposal \in Reviewable => c.proposal.post \in confirmed[c.proposal.project]
    /\ c.step \in {"reading"} \cup Applying \cup Accepting => c.project \in Scopes
    /\ c.step \in {"reading"} \cup Applying /\ c.turn = scope.turn => c.project = scope.project
    /\ c.step \in Applying \ {"authorizing"} => c.proposal \in Reviewable /\ c.proposal.project = c.project
    /\ c.step \in {"answered", "applied"} =>
        /\ IsConfirmed(c.answer) \/ IsSlipped(c.answer)
        /\ c.checked = scope.turn => c.answer.project = scope.project
    /\ c.step = "uac" => IsConfirmed(c.answer)

DeskFits(d) ==
    /\ d \in Desks
    /\ d.turn <= scope.turn
    /\ Whole(d.protection)
    /\ d.shown.project # NoScope =>
        /\ IsConfirmed(d.shown) \/ IsSlipped(d.shown)
        /\ (d.turn = scope.turn /\ ~d.late) => d.shown.project = scope.project

KnowledgeShape ==
    /\ document \in [Scopes -> Contents] /\ receipt \in [Scopes -> Contents \cup {NoContent}]
    /\ {guarded, proven, confirmed, slipped} \subseteq [Scopes -> SUBSET Contents]
    /\ tasks \in [Tasks -> KnowledgeTasks]
    /\ scope \in [project : Scopes, turn : 0..MaxMoves]
    /\ moves \in 0..MaxMoves /\ scope.turn <= moves

KnowledgeInv ==
    /\ KnowledgeShape
    /\ \A t \in Tasks : TaskFits(tasks[t])
    /\ DeskFits(desk)
    /\ Knowledge!ProtectedIsConfirmed

-------------------------------------------------------------------------------------
(* The agent.                                                                  *)

Lines ==
    [kind : {"initialize", "initialized", "context", "return", "none"}, thread : Threads \cup {"none"},
     project : Scopes \cup {NoScope}, packet : Agent!Packets \cup {Agent!NoPacket}]

Works ==
    [step : {"idle", "doctor", "capture", "recapture", "doctorAfter"}, purpose : Agent!Tools \cup {"none"},
     line : Lines, content : Contents \cup {NoContent}, edits : 0..MaxMoves]

Issuances == [id : Agent!PacketIds, copy : 1..MaxCalls, available : BOOLEAN, thread : Threads]
Returns == [packet : Agent!Packets, thread : Threads, run : 0..MaxMoves, newest : 1..MaxCalls]

AgentShape ==
    /\ KnowledgeShape /\ desk \in Desks
    /\ server \in [run : 0..MaxMoves, home : Scopes, gate : {"none", "held", "refused"},
                   life : {"new", "initializing", "ready"}]
    /\ server.run <= moves
    /\ queue \in Seq(Lines) /\ work \in Works /\ work.edits <= moves
    /\ issuances \subseteq Issuances
    /\ contexts \subseteq Agent!Packets /\ IsFiniteSet(contexts)
    /\ observations \subseteq [thread : Threads, project : Scopes, brain : Scopes]
    /\ returns \in Seq(Returns) /\ calls \in 0..MaxCalls

\* A return is of a context that was issued, and of the server's project.
LineFits(line) ==
    /\ line.kind = "context" => line.thread \in Threads /\ line.project \in Scopes
    /\ line.kind = "return" =>
        line.thread \in Threads /\ line.project = server.home /\ line.packet \in contexts

Greeting(line) == line.kind \in {"initialize", "initialized"}
Busy == IF work.purpose = "context" THEN 1 ELSE 0

\* Behind what is left of the host's first greeting there are no more lines than calls
\* that have not led to a context.
QueueInv ==
    /\ \A n \in 1..Len(queue) : LineFits(queue[n])
    /\ \E h \in 0..2 :
        /\ h <= Len(queue) /\ \A n \in 1..h : Greeting(queue[n])
        /\ Len(queue) - h + Cardinality(contexts) + Busy <= calls

\* How often the documents were edited at least, for the reads of a tool to have seen a
\* content that was never accepted: back and forth for each read that is over, and
\* forth, at least, for one that saw it or would see it now.
Base(x) ==
    IF x # work.line.packet.id.content THEN 0
    ELSE CASE work.purpose = "proposal" -> 2
           [] work.purpose = "actionable" -> 4
           [] OTHER -> 0
Seen(x) ==
    CASE work.step = "capture" -> IF document[work.line.project] = x THEN 1 ELSE 0
      [] work.step \in {"recapture", "doctorAfter"} /\ work.content = x ->
             IF document[work.line.project] = x THEN 1 ELSE 2
      [] OTHER -> 0

WorkInv ==
    /\ work.step = "idle" => work = Agent!Idle
    /\ work.step # "idle" =>
        /\ work.purpose \in Agent!Tools /\ LineFits(work.line)
        /\ work.line.kind = IF work.purpose = "context" THEN "context" ELSE "return"
        /\ \A x \in Contents \ confirmed[work.line.project] : work.edits >= Base(x) + Seen(x)
    /\ work.step \in {"recapture", "doctorAfter"} => work.content \in Contents

\* Contexts are told apart by their copies; an issue that is remembered is the newest of
\* its id, and is of this process; one that is available was not returned.
IssuedInv ==
    /\ \A c \in contexts : c.copy <= Cardinality(contexts)
    /\ \A c, d \in contexts : c.copy = d.copy => c = d
    /\ \A i \in issuances :
        /\ i.thread = i.id.thread
        /\ \E c \in contexts : c.id = i.id /\ c.copy = i.copy /\ c.run = server.run
        /\ \A c \in contexts : c.id = i.id => c.copy <= i.copy
        /\ i.available => \A n \in 1..Len(returns) : returns[n].packet.copy # i.copy
    /\ \A n \in 1..Len(returns) : returns[n].packet \in contexts

\* In the agent's part only what is accepted is recorded.
RecordedIsConfirmed == \A p \in Scopes : receipt[p] # NoContent => receipt[p] \in confirmed[p]

AgentInv ==
    /\ AgentShape /\ QueueInv /\ WorkInv /\ IssuedInv /\ RecordedIsConfirmed
    /\ Agent!ToldIsAccepted /\ Agent!ObservedIsTold /\ Agent!ReturnedOnce /\ Agent!CandidateStands

-------------------------------------------------------------------------------------
(* The sessions of providers.                                                  *)

Runs == [step : Sessions!RunSteps, answer : Sessions!Answers]

SessionsShape == Sessions!SessionsTypeOK /\ recons \in [Sessions!Runs -> Runs]

\* The next decisions say what was asked, but that a session is assigned to the project
\* that is active meanwhile.
OrderInv ==
    order.step # "idle" =>
        /\ order.action \in Sessions!Actions /\ order.shown \in Scopes
        /\ order.step \in {"drafted", "removed"} =>
            IF order.action = "assign" THEN order.verdict \in Scopes ELSE order.verdict = Sessions!Meant

\* What is stored tells of the session.
Tells(a) == a.state = "ready" /\ a.binding # Sessions!Unlisted

\* Wherever an answer is, it goes against no decision in force, and is old once the
\* decisions are lost; and all that is written tells of the session.
Stands(a) == Sessions!Honours(a) /\ (forgotten => ~a.fresh)
AnswersInv ==
    /\ Stands(view.answer)
    /\ \A a \in {stored, scratch} : Stands(a) /\ (a = Sessions!NoAnswer \/ Tells(a))
    /\ \A r \in Sessions!Runs :
        /\ Stands(recons[r].answer)
        /\ recons[r].step \in {"answered", "written", "clear"} => Tells(recons[r].answer)

SessionsInv == SessionsShape /\ OrderInv /\ Sessions!DecisionsStand /\ AnswersInv

-------------------------------------------------------------------------------------
(* The connection.                                                             *)

CallSteps ==
    {"next", "scoped", "intent", "claim", "place", "desired", "serve", "save", "close", "turn", "answer"}
Calls ==
    [op : Connection!Requests \cup {"none", "migrate"}, step : CallSteps, scope : Scopes \cup {NoScope},
     draft : Connection!Intents \cup {Connection!NoIntent}]

Deltas == [thread : Connection!Measures, amount : {1}, tagged : BOOLEAN]
Counts == UNION {[ts -> Nat] : ts \in SUBSET Connection!Measures}
Hosts ==
    [scope : Scopes \cup {NoScope}, dead : BOOLEAN, open : BOOLEAN,
     selected : Connection!Commands \cup {Connection!NoCommand}, mode : {"auto", "manual"},
     known : Counts, tagged : SUBSET Connection!Measures, completed : SUBSET Connection!Measures,
     queue : Seq(Deltas)]
Logs == [own : [Connection!Measures -> Nat], free : [Connection!Measures -> Nat], torn : BOOLEAN]

ConnectionShape ==
    /\ shims \in {{}, Connection!Commands} /\ active \in Scopes \cup {NoScope}
    /\ {intent, chosen} \subseteq [Scopes -> Connection!Intents \cup {Connection!NoIntent}]
    /\ oldIntent \in Connection!Intents \cup {Connection!NoIntent}
    /\ host \in Hosts /\ call \in [Connection!Callers -> Calls]
    /\ log \in [Scopes -> Logs] /\ measured \in [Scopes -> {"no", "lately", "torn"}]
    /\ spent \in [Connection!Measures -> Nat] /\ purpose \in [Connection!Measures -> Scopes \cup {NoScope}]
    /\ overwritten \subseteq Scopes

Spawning == {"intent", "claim", "place"}
Serving == {"serve", "save", "close", "turn", "answer"}

\* What a call is at, by what it is for.
CallFitsOp(c) ==
    /\ c.op = "none" => c.step = "next"
    /\ c.op = "migrate" => c.step \in {"next", "scoped", "claim", "place", "desired"}
    /\ c.step = "desired" => c.op = "migrate"
    /\ c.step = "save" => c.op \in {"inspect", "connect", "connectTo"}
    /\ c.step = "close" => c.op = "disconnect"
    /\ c.step \in {"turn", "answer"} => c.op = "measure"
    /\ c.step # "next" => c.scope \in Scopes

\* One call at a time has the mutex, and the host, which is of its project; the active
\* project stays while the main thread is in a call.
CallInv ==
    /\ \A c \in Connection!Callers :
        /\ CallFitsOp(call[c])
        /\ call[c].step \in Serving => host.scope = call[c].scope
        /\ call[c].step \in Spawning /\ call[c].op # "migrate" => host = Connection!NoHost
    /\ call["main"].op # "migrate"
    /\ call["main"].step # "next" => call["main"].scope = active
    /\ call["restore"].op \in {"none", "migrate", "inspect"}
    /\ ~(Connection!Holds("main") /\ Connection!Holds("restore"))

HostInv ==
    /\ host.scope = NoScope => host.dead
    /\ host.dead => host = [Connection!NewHost(host.scope) EXCEPT !.dead = TRUE]
    /\ host.open => host.selected \in Connection!Commands
    /\ host.open /\ host.mode = "auto" /\ host.selected # "default" => host.selected \notin shims
    /\ host.tagged \subseteq DOMAIN host.known /\ host.completed \subseteq host.tagged

\* An executable is pinned only where it can be; a choice is never left to be pinned.
Pinned(i) == i.mode = "auto" => i.command \notin shims
Unpinned == Connection!Intent(TRUE, "auto", Connection!NoCommand)

Suits(i) ==
    /\ i.desired
    /\ \/ Connection!Launches(i) = host.selected
       \/ host.mode = "manual" /\ i.mode = "auto" /\ host.selected \in shims

\* A session suits what is stored, or is about to be; what pins an intent finds it as it
\* was, or what displaced it.
SaveFits(c) ==
    /\ Pinned(c.draft)
    /\ host.open => Suits(c.draft)
    /\ c.op = "inspect" =>
        /\ "default" \notin shims
        /\ c.scope \in overwritten \/ intent[c.scope] = Unpinned
    /\ c.op # "inspect" /\ c.draft = Unpinned => shims # {}

ChoiceInv ==
    /\ Pinned(oldIntent) /\ \A p \in Scopes : Pinned(intent[p])
    /\ \A p \in Scopes : chosen[p] = Unpinned => shims # {}
    /\ \A c \in Connection!Callers :
        /\ call[c].step = "save" => SaveFits(call[c])
        /\ call[c].step \in {"claim", "place"} => Pinned(call[c].draft)
    /\ host.open /\ host.scope \notin overwritten /\ (\A c \in Connection!Callers : call[c].step \notin {"save", "close"})
        => Suits(intent[host.scope])
    /\ Connection!ChoiceStands

\* What is logged of a measurement, and what waits to be.
Logged(p, t) == log[p].own[t] + log[p].free[t]
Queued(t) == {n \in DOMAIN host.queue : host.queue[n].thread = t}

\* Measurements are begun one after the other; what the host knows or is to append is of
\* its project, and no more than Codex counts.
UsageInv ==
    /\ \E k \in 0..MaxMeasures : Connection!Started = 1..k
    /\ \A t \in Connection!Measures \ Connection!Started : spent[t] = 0
    /\ \A t \in DOMAIN host.known : purpose[t] = host.scope /\ host.known[t] = spent[t]
    /\ \A n \in DOMAIN host.queue : purpose[host.queue[n].thread] = host.scope
    /\ host.scope \in Scopes =>
        \A t \in Connection!Measures : Logged(host.scope, t) + Cardinality(Queued(t)) <= spent[t]
    /\ Connection!UsageIsOfItsProject

\* From the beginning of a measurement on, what is told of it is its own.
MeasureInv ==
    \A c \in Connection!Callers : call[c].step \in {"turn", "answer"} /\ ~host.dead =>
        LET t == Connection!Cardinality(Connection!Started) IN
        /\ t \in host.tagged
        /\ ~log[host.scope].torn => log[host.scope].own[t] + Connection!Waiting(t) = host.known[t]

ConnectionInv == ConnectionShape /\ CallInv /\ HostInv /\ ChoiceInv /\ UsageInv /\ MeasureInv

-------------------------------------------------------------------------------------
(* The projects.                                                               *)

\* The registry on the disk; while it is replaced, the one it was.
Standing == IF main.step = "commit" /\ backup # NoRegistry THEN backup ELSE registry
Held == IF Standing = NoRegistry THEN Projects!EmptyRegistry ELSE Standing

\* The project that is active once the write under way is over.
Becomes ==
    CASE main.op \in {"activate", "restore", "finalize"} -> main.root
      [] main.op = "detach" /\ runtime.active = main.root -> NoRoot
      [] OTHER -> runtime.active

Records(g, r) == r # NoRoot => g.projects[r] = "registered" /\ g.last = r

\* The identity of a Project Brain is the one it has, or will have once it is moved.
IdentityFits(identity, r) ==
    \/ identity \in {Projects!NoIdentity, Projects!IdentityOf(brain[r])}
    \/ identity = "old" /\ brain[r] = "none" /\ source[r] = "whole"

Sound(g) ==
    /\ g \in Projects!Registries /\ Projects!Valid(g) /\ Projects!Projects(g) # {}
    /\ \A r \in Roots : IdentityFits(g.identity[r], r)
    /\ g.legacy = "complete" => g.projects[LegacyRoot] # "absent" /\ dir[LegacyRoot] \in {"planned", "imported"}
    /\ dir[LegacyRoot] = "planned" => g.legacy = "complete"

\* Which command or start is at a step.
MainFits ==
    CASE main.step = "down" -> main = Projects!Down
      [] main.step = "idle" -> main = Projects!Idle
      [] main.step = "restore" -> main.op \in {"none", "not-needed"}
      [] main.step = "clean" -> main.op = "finalize" /\ registry # NoRegistry
      [] main.step \in Projects!Starting \ {"restore", "clean"} -> main.op = "none"
      [] main.step \in Projects!Activating ->
             /\ main.op \in {"none", "bind"} /\ main.root \in Roots
             /\ registry # NoRegistry /\ registry.projects[main.root] = "registered"
      [] OTHER ->
             /\ main.op # "none"
             /\ main.root = NoRoot => main.op \in {"not-needed", "recovery-required"}
             /\ main.op \in {"rejoin", "rename", "detach", "activate", "bind", "not-needed", "recovery-required", "restore"}
                    => Standing # NoRegistry

\* What is written.
WriteInv ==
    main.step \in Projects!Writing =>
        /\ Sound(main.draft) /\ Records(main.draft, Becomes)
        /\ main.step = "checkpoint" => registry # NoRegistry \/ backup = NoRegistry
        /\ main.step = "commit" => registry = NoRegistry
        /\ main.step = "drop" => registry = main.draft
        /\ main.op = "register" /\ main.step # "drop" => Held.projects[main.root] = "absent" /\ dir[main.root] = "bare"
        /\ main.op = "bind" => main.root \in Roots /\ main.draft.projects[main.root] = "registered"

StandingInv ==
    /\ Standing # NoRegistry => Sound(Standing)
    /\ \A r \in Roots : dir[r] \in {"planned", "imported"} => r = LegacyRoot

\* An import that is not recorded yet.
Imported == Projects!Orphans = {LegacyRoot} /\ dir[LegacyRoot] = "planned"
Interrupted == runtime.recovery /\ runtime.faulted

ImportInv ==
    /\ main.step \in {"stage", "populate", "place"} =>
        registry = NoRegistry /\ ~Projects!Unreadable /\ legacy = "project"
    /\ main.step = "populate" => stage = "partial"
    /\ main.step = "place" => stage = "whole"
    /\ main.step = "finalize" \/ (main.op = "finalize" /\ main.step \in {"checkpoint", "commit"}) =>
        Standing = NoRegistry /\ Imported /\ legacy = "project"
    /\ main.step = "restore" /\ Projects!Unreadable => torn
    /\ registry = NoRegistry /\ ~torn /\ (main.step # "commit" \/ backup = NoRegistry) =>
        /\ backup = NoRegistry
        /\ \/ Projects!Orphans = {}
           \/ /\ Imported /\ stage = "none" /\ legacy = "project"
              /\ \/ main.step \in {"down", "finalize"}
                 \/ main.op = "finalize" /\ main.step \in {"checkpoint", "commit"}
                 \/ main.step = "idle" /\ Interrupted
           \/ main.op = "register" /\ main.step \in {"checkpoint", "commit"} /\ Projects!Orphans = {main.root}
        /\ stage # "none" =>
            legacy = "project" /\ (main.step \in {"down", "stage", "populate", "place"} \/ Interrupted)
    /\ runtime.recovery /\ ~runtime.faulted => torn \/ legacy = "bad"

BrainInv ==
    /\ \A r \in Roots :
        /\ brain[r] = "new" => source[r] = "none"
        /\ source[r] = "torn" => brain[r] \in {"same", "changed"}
    /\ main.step = "promote" => brain[main.root] = "none" /\ source[main.root] = "whole"
    /\ main.step \in {"unlink", "unlinked"} => brain[main.root] \in {"same", "changed"}

ActiveInv ==
    /\ runtime.active # NoRoot => Projects!Serving \/ main.step = "clean"
    /\ Records(Held, runtime.active) \/ main.step = "drop" \/ (main.step = "idle" /\ Projects!Unreadable)

\* What a worker knows of the project its job is for.
JobFits(j) ==
    /\ j.kind = "save" => j.step \in {"over", "work", "replace"}
    /\ j.kind = "ask" => j.step \in {"asked", "running", "answer"} /\ j.slot \in Roots
    /\ j.step \in {"running", "answer"} => j.inner \in Roots
    /\ j.step # "over" =>
        /\ Projects!Serving /\ j.generation <= runtime.generation
        /\ j.kind = "save" => ~runtime.recovery
        /\ j.moved => IF j.slot = LegacySlot THEN Standing # NoRegistry \/ backup # NoRegistry
                      ELSE j.generation < runtime.generation
    /\ j.step = "replace" =>
        /\ ~j.moved /\ ~Projects!MainHolds
        /\ j.slot = LegacySlot => registry = NoRegistry /\ backup = NoRegistry

JobInv == \A w \in Workers : JobFits(job[w])

ProjectsInv ==
    /\ Projects!TypeOK /\ MainFits /\ WriteInv /\ StandingInv /\ ImportInv /\ BrainInv /\ ActiveInv /\ JobInv

-------------------------------------------------------------------------------------
(* The updates.                                                                *)

Seqs == {d.seq : d \in Documents}
StoredBlocks == UNION {{Updates!AsBlock(d, b) : b \in d.blocks} : d \in Documents}
StoredNotices == [id : Updates!NoticeIds, until : Nat, source : Seqs]

PassSteps == {"blocks", "renameBlocks", "notices", "renameNotices", "accept", "renameAccepted"}
Passes ==
    [step : PassSteps, doc : Seqs, at : Nat, blocks : SUBSET StoredBlocks, notices : SUBSET StoredNotices,
     withdrawn : SUBSET Updates!NoticeIds]
Reads == [notices : SUBSET StoredNotices, current : BOOLEAN]

Marks == [Versions -> {"none", "unread", "read"}]
Windows ==
    [step : {"idle", "check"}] \cup [step : {"apply"}, version : Versions]
        \cup [step : {"list", "download"}, version : Versions, ordered : BOOLEAN, gap : BOOLEAN]
        \cup [step : {"record", "wait"}, version : Versions, existed : BOOLEAN]
CenterWriters == {Updates!Idle} \cup [step : {"write", "remove", "rename"}, content : Marks]

DocumentsShape ==
    /\ online \in BOOLEAN /\ now \in 1..MaxNow /\ accepted \in {0} \cup Seqs
    /\ blocks \subseteq StoredBlocks /\ notices \subseteq StoredNotices /\ shown \subseteq StoredNotices
    /\ replies \subseteq Reads /\ pass \in {Updates!NoPass} \cup Passes
    /\ troubles \in 0..MaxBroadcastTrouble /\ committed \subseteq Seqs /\ losses \subseteq Updates!Stores
    /\ replaced \in [Updates!Ids -> {0} \cup Seqs]
    /\ announced \in [Updates!NoticeIds -> {0} \cup Seqs]

CenterShape ==
    /\ {installed, offer} \subseteq {0} \cup Versions /\ ui \in Windows
    /\ center \in Marks /\ temp \in {Updates!NoCenter} \cup Marks /\ writer \in [Updates!Writers -> CenterWriters]
    /\ toasts \in [Versions -> 0..MaxToasts] /\ marked \subseteq Versions
    /\ crossed \in BOOLEAN /\ centerLost \in BOOLEAN

\* The blocks and notices a document asked for when it was fetched.
Wanted(d) == {b \in d.blocks : pass.at < b.until}
Ours(d) == {n \in d.notices : n.ours}
Shown(d) == {n \in Ours(d) : pass.at < n.until}

\* A pass is of a later document than any that was accepted; it writes what that one
\* asks for, and the last word on that is then its own.
BlocksAhead == pass.step \in {"blocks", "renameBlocks"}
NoticesAhead == BlocksAhead \/ pass.step \in {"notices", "renameNotices"}
PassInv ==
    pass # Updates!NoPass =>
        /\ pass.at <= now
        /\ "accepted" \in losses \/ \A s \in committed : s <= pass.doc
        /\ \A d \in Documents : d.seq = pass.doc =>
            /\ pass.step = "blocks" => pass.blocks = {Updates!AsBlock(d, b) : b \in Wanted(d)}
            /\ pass.step = "renameBlocks" => {Updates!AsBlock(d, b) : b \in Wanted(d)} \subseteq pass.blocks
            /\ ~BlocksAhead => \A b \in Wanted(d) : replaced[b.id] = pass.doc
NoticePassInv ==
    pass # Updates!NoPass =>
        \A d \in Documents : d.seq = pass.doc =>
            /\ NoticesAhead /\ pass.step # "renameNotices" =>
                /\ pass.notices = {Updates!AsNotice(d, n) : n \in Shown(d)}
                /\ pass.withdrawn = {n.id : n \in Ours(d) \ Shown(d)}
            /\ pass.step = "renameNotices" => {Updates!AsNotice(d, n) : n \in Shown(d)} \subseteq pass.notices
            /\ ~NoticesAhead => \A n \in Ours(d) : announced[n.id] = pass.doc

\* The last document to write a block is in force, but where the next one is to write it.
Rewritten(id) == \E d \in Documents : d.seq = pass.doc /\ \E b \in Wanted(d) : b.id = id
StoreInv ==
    "blocks" \notin losses =>
        \A d \in Documents : \A b \in d.blocks :
            replaced[b.id] = d.seq /\ now < Updates!AsBlock(d, b).until =>
                IF pass.step = "renameBlocks" THEN Updates!AsBlock(d, b) \in pass.blocks \/ Rewritten(b.id)
                ELSE Updates!AsBlock(d, b) \in blocks

\* So is the last one to write a notice.
Reannounced(id) == \E d \in Documents : d.seq = pass.doc /\ \E n \in Ours(d) : n.id = id
NoticeStoreInv ==
    "notices" \notin losses =>
        \A d \in Documents : \A n \in Ours(d) :
            announced[n.id] = d.seq /\ now < Updates!AsNotice(d, n).until =>
                IF pass.step = "renameNotices" THEN Updates!AsNotice(d, n) \in pass.notices \/ Reannounced(n.id)
                ELSE Updates!AsNotice(d, n) \in notices

\* The last word on what a document asked for is its own or, unless the acceptance state
\* was lost, that of a later one.
Said(d, last) == last >= d.seq \/ ("accepted" \in losses /\ last # 0)
SaidInv ==
    \A d \in Documents : d.seq \in committed =>
        /\ \A b \in d.blocks : now < Updates!AsBlock(d, b).until => Said(d, replaced[b.id])
        /\ \A n \in Ours(d) : now < Updates!AsNotice(d, n).until => Said(d, announced[n.id])

\* What is shown, or about to be, is what the store holds.
IsCurrent(ns) ==
    \/ pass.step = "renameNotices" \/ "notices" \in losses
    \/ Updates!Retained(ns, now) = Updates!Retained(notices, now)
WindowInv ==
    /\ \A r, s \in replies : r.current /\ s.current => r = s
    /\ \A r \in replies : r.current => IsCurrent(r.notices)
    /\ (\E r \in replies : r.current) \/ IsCurrent(shown)

UiInv ==
    /\ Updates!BlockedIsNotTaken
    /\ ui.step \in {"list", "record", "wait"} => toasts[ui.version] < MaxToasts
    /\ ~Updates!Quiet("check") => ui.step = "wait"

\* A center keeps what was told, and the marks.
Told(c) == \A v \in Versions : toasts[v] <= 1 /\ (toasts[v] = 1 => c[v] # "none")
Marked(c) == \A v \in marked : c[v] = "read"

\* What a writer is to put in place keeps them; in its place it is what it wrote.
CenterInv ==
    ~crossed /\ ~centerLost =>
        /\ Updates!Quiet("check") \/ Updates!Quiet("main")
        /\ (\A w \in Updates!Writers : writer[w].step # "rename") => Told(center) /\ Marked(center)
        /\ \A w \in Updates!Writers : writer[w].step \in {"remove", "rename"} => temp = writer[w].content
        /\ ~Updates!Quiet("main") => Told(writer["main"].content)
        /\ ~Updates!Quiet("check") =>
            /\ Told(writer["check"].content) /\ Marked(writer["check"].content)
            /\ writer["check"].content[ui.version] # "none"
        /\ ui.step \in {"record", "wait"} /\ ~ui.existed => toasts[ui.version] = 0

NoticesInv == NoticePassInv /\ NoticeStoreInv
DocumentsInv ==
    DocumentsShape /\ PassInv /\ StoreInv /\ NoticesInv /\ SaidInv /\ Updates!AcceptedIsLatest /\ WindowInv
UpdaterInv == CenterShape /\ UiInv /\ CenterInv
UpdatesInv == DocumentsInv /\ UpdaterInv
=====================================================================================
