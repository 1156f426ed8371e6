------------------------------- MODULE Connections -------------------------------
(***************************************************************************)
(* The Codex connection of the Desktop: connector_host.rs, its commands    *)
(* and the thread that restores the connection at the start; the connector *)
(* host it spawns, one per project (desktop-connector-host.ts); and what   *)
(* the host stores for the project: whether Codex should be connected, and *)
(* the usage its measurements observe.                                     *)
(*                                                                         *)
(* Commands run one after the other on the main thread.  A mutex lets one  *)
(* request at a time reach the host; the project of a request is looked up *)
(* before that, and a request that fails costs the host its life.          *)
(***************************************************************************)
EXTENDS Naturals, FiniteSets, Sequences

CONSTANTS
    Scopes, NoScope,     \* the projects, and none
    MaxSwitches,         \* bound on changes of the active project
    MaxChoices,          \* bound on the commands that connect or disconnect
    MaxMeasures,         \* bound on measurements
    MaxTokens,           \* bound on the usage of a measurement
    MaxFaults            \* bound on failures and deaths

\* Assumed by Desktop.
ScopesAssumption == NoScope \notin Scopes
ConnectionBounds ==
    {MaxSwitches, MaxChoices, MaxMeasures, MaxTokens, MaxFaults} \subseteq Nat

VARIABLES
    shims,      \* executables that are reached through a shim, and cannot be pinned
    measurable, \* whether Codex ever answers a measurement
    active,     \* the active project
    intent,     \* p |-> connections/codex.json
    oldIntent,  \* the same file of an older version, which had no projects
    host,       \* the connector host
    call,       \* what the main thread and the restoring thread are doing
    log,        \* p |-> diagnostic-events.jsonl
    measured,   \* p |-> measurement-state.json
    spent,      \* t |-> the usage of measurement t, as Codex counts it
    switches, choices, faults,
    purpose,    \* t |-> the project that measurement t was made for (for the properties)
    chosen,     \* p |-> what its user chose last (likewise)
    overwritten \* the projects whose choice gave way to the older version's (likewise)

connectionVars == <<shims, measurable, active, intent, oldIntent, host, call, log, measured, spent,
                    switches, choices, faults, purpose, chosen, overwritten>>
history == <<chosen, overwritten>>

\* "custom" is the executable the user names, "default" the one found without.
Commands == {"default", "custom"}
NoCommand == "none"
Intent(desired, mode, command) == [desired |-> desired, mode |-> mode, command |-> command]
Off == Intent(FALSE, "auto", NoCommand)    \* also what a missing file reads as
Intents == {Off, Intent(TRUE, "manual", "custom")}
               \cup {Intent(TRUE, "auto", c) : c \in Commands \cup {NoCommand}}
NoIntent == Intent(FALSE, "absent", NoCommand)

\* The executable that a connection from this intent runs.
Launches(i) == IF i.command = NoCommand THEN "default" ELSE i.command

Measures == 1 .. MaxMeasures
NewHost(p) == [scope |-> p, dead |-> FALSE, open |-> FALSE, selected |-> NoCommand, mode |-> "auto",
               known |-> [t \in {} |-> 0],        \* the sequencer
               tagged |-> {},                     \* measurementProjectScopes
               completed |-> {},                  \* completedTurns
               queue |-> <<>>]                    \* appends that wait
NoHost == [NewHost(NoScope) EXCEPT !.dead = TRUE]

Callers == {"main", "restore"}
ChoiceRequests == {"connect", "connectTo", "disconnect"}      \* what the user chooses
DiagnosticsRequests == {"diagnostics", "measure"}              \* what is asked of the measurements
Requests == {"inspect"} \cup ChoiceRequests \cup DiagnosticsRequests
Finished == [op |-> "none", step |-> "next", scope |-> NoScope, draft |-> NoIntent]

Holds(c) == call[c].op \in Requests /\ call[c].step \notin {"next", "scoped"}
Free == \A c \in Callers : ~Holds(c)

Put(c, r) == call' = [call EXCEPT ![c] = r]
Step(c, step) == Put(c, [call[c] EXCEPT !.step = step])
Over(c) == Put(c, Finished)

KeepFiles == UNCHANGED <<intent, oldIntent, log, measured>>
KeepWorld == UNCHANGED <<shims, measurable, active, spent, switches, choices, faults, purpose>>

\* The host is killed, wherever it is; an append it is at may be cut short, and
\* so may a write of the measurement state, which is in place.
Torn == [log EXCEPT ![host.scope].torn = TRUE]
Cut ==
    {measured} \cup IF \E c \in Callers : ~host.dead /\ Holds(c) /\ call[c].op \in DiagnosticsRequests
                    THEN {[measured EXCEPT ![host.scope] = "torn"]} ELSE {}
Kill ==
    /\ host' = NoHost
    /\ log' \in {log} \cup IF ~host.dead /\ host.queue # <<>> THEN {Torn} ELSE {}

\* An error of a request reaches connector_host as an error of the host.
Refused(c) == Kill /\ Over(c)

--------------------------------------------------------------------------------
(* A request reaches the host of its project.                               *)

Command(op) ==
    /\ call["main"] = Finished
    /\ Put("main", [Finished EXCEPT !.op = op])
    /\ choices' = IF op \in ChoiceRequests THEN choices + 1 ELSE choices
    /\ choices' <= MaxChoices
    /\ KeepFiles /\ UNCHANGED <<shims, measurable, active, spent, switches, faults, purpose>> /\ UNCHANGED <<host, history>>

Scope(c) ==
    /\ call[c].op \in Requests \cup {"migrate"} /\ call[c].step = "next"
    /\ IF active = NoScope THEN Over(c)
       ELSE Put(c, [call[c] EXCEPT !.step = "scoped", !.scope = active])
    /\ KeepFiles /\ KeepWorld /\ UNCHANGED <<host, history>>

\* The host of another project goes first.
Enter(c) ==
    /\ call[c].op \in Requests /\ call[c].step = "scoped" /\ Free
    /\ IF host.scope \in {NoScope, call[c].scope} THEN UNCHANGED <<host, log>> ELSE Kill
    /\ Step(c, IF host.scope = call[c].scope THEN "serve" ELSE "intent")
    /\ KeepWorld /\ UNCHANGED <<intent, oldIntent, measured, history>>

\* project_codex_intent_path: the restoring thread does this without the mutex,
\* and a host that is spawned with it.
Migrates(c) == (call[c].op = "migrate" /\ call[c].step = "scoped") \/ call[c].step = "intent"
Migrated(c) ==
    IF call[c].op = "migrate" THEN Step(c, "desired") /\ UNCHANGED host
    ELSE Step(c, "serve") /\ host' = NewHost(call[c].scope)

Migrate(c) ==
    /\ Migrates(c)
    /\ IF intent[call[c].scope] # NoIntent \/ oldIntent = NoIntent THEN Migrated(c)
       ELSE Put(c, [call[c] EXCEPT !.step = "claim", !.draft = oldIntent]) /\ UNCHANGED host
    /\ KeepFiles /\ KeepWorld /\ UNCHANGED history

\* The other caller may have claimed the file first.
Claim(c) ==
    /\ call[c].step = "claim"
    /\ IF oldIntent = NoIntent THEN Over(c) ELSE Step(c, "place")
    /\ oldIntent' = NoIntent
    /\ KeepWorld /\ UNCHANGED <<host, intent, log, measured, history>>

Place(c) ==
    LET p == call[c].scope IN
    /\ call[c].step = "place"
    /\ intent' = [intent EXCEPT ![p] = call[c].draft]
    /\ overwritten' = IF intent[p] = NoIntent THEN overwritten ELSE overwritten \cup {p}
    /\ Migrated(c)
    /\ KeepWorld /\ UNCHANGED <<oldIntent, log, measured, chosen>>

\* What was claimed returns, unless that fails as well.
PlaceFails(c) ==
    /\ call[c].step = "place" /\ faults < MaxFaults /\ faults' = faults + 1
    /\ oldIntent' \in {call[c].draft, oldIntent}
    /\ Over(c)
    /\ UNCHANGED <<shims, measurable, active, intent, host, log, measured, spent, switches, choices, purpose, history>>

\* The restoring thread asks its project's host only if a connection is desired.
Desired ==
    /\ call["restore"].step = "desired"
    /\ Put("restore", [Finished EXCEPT !.op = IF intent[call["restore"].scope].desired THEN "inspect" ELSE "none"])
    /\ KeepFiles /\ KeepWorld /\ UNCHANGED <<host, history>>

--------------------------------------------------------------------------------
(* The host: connections.                                                   *)

Serves(c, method) == call[c].op = method /\ call[c].step = "serve" /\ ~host.dead

\* What a session knew is of no use without it.
Closed(h) == [NewHost(h.scope) EXCEPT !.queue = h.queue]

\* connectSession: the executable may be missing, or its handshake may fail.
Connected(mode, command) ==
    host' = [Closed(host) EXCEPT !.open = TRUE, !.selected = command, !.mode = mode]

\* The preference that a connection is to leave.
Saves(c, mode, command) ==
    Put(c, [call[c] EXCEPT !.step = "save", !.draft = Intent(TRUE, mode,
                IF mode = "auto" /\ command \in shims THEN NoCommand ELSE command)])

\* restoreDesiredConnection: an old intent that names no executable is pinned.
Inspect(c) ==
    LET i == intent[host.scope]
        pins == i.mode = "auto" /\ i.command = NoCommand /\ "default" \notin shims IN
    /\ Serves(c, "inspect")
    /\ IF host.open \/ ~i.desired THEN UNCHANGED host /\ Over(c)
       ELSE \/ Connected(i.mode, Launches(i)) /\ IF pins THEN Saves(c, "auto", "default") ELSE Over(c)
            \/ host' = Closed(host) /\ Over(c)
    /\ KeepFiles /\ KeepWorld /\ UNCHANGED history

\* A session that is open serves a connection to no executable in particular.
Connect(c, command) ==
    LET mode == IF command = "custom" THEN "manual" ELSE "auto" IN
    /\ Serves(c, IF command = "custom" THEN "connectTo" ELSE "connect")
    /\ \/ /\ IF host.open /\ mode = "auto" THEN UNCHANGED host ELSE Connected(mode, command)
          /\ Saves(c, mode, IF host.open /\ mode = "auto" THEN host.selected ELSE command)
          /\ UNCHANGED log
       \/ ~(host.open /\ mode = "auto") /\ Refused(c)
    /\ KeepWorld /\ UNCHANGED <<intent, oldIntent, measured, history>>

\* writeConnectionIntent.
Save(c) ==
    LET p == host.scope IN
    /\ call[c].step = "save" /\ ~host.dead
    /\ intent' = [intent EXCEPT ![p] = call[c].draft]
    /\ chosen' = IF call[c].op = "inspect" THEN chosen ELSE [chosen EXCEPT ![p] = call[c].draft]
    /\ overwritten' = IF call[c].op = "inspect" THEN overwritten ELSE overwritten \ {p}
    /\ Over(c)
    /\ KeepWorld /\ UNCHANGED <<oldIntent, host, log, measured>>

\* Without its preference, the connection does not stay either.
SaveFails(c) ==
    /\ (call[c].step = "save" /\ ~host.dead) \/ Serves(c, "disconnect")
    /\ faults < MaxFaults /\ faults' = faults + 1
    /\ IF call[c].op = "inspect" THEN host' = Closed(host) /\ Over(c) /\ UNCHANGED log
                               ELSE Refused(c)
    /\ UNCHANGED <<shims, measurable, active, intent, oldIntent, measured, spent, switches, choices, purpose, history>>

\* The session goes, and the choice stays as it was.
BugDisconnect(c) ==
    /\ Serves(c, "disconnect")
    /\ Step(c, "close")
    /\ KeepFiles /\ KeepWorld /\ UNCHANGED overwritten
    /\ chosen' = [chosen EXCEPT ![host.scope] = Off] /\ UNCHANGED host

\* disconnectByUser
Disconnect(c) ==
    /\ Serves(c, "disconnect")
    /\ intent' = [intent EXCEPT ![host.scope] = Off] /\ chosen' = [chosen EXCEPT ![host.scope] = Off]
    /\ overwritten' = overwritten \ {host.scope}
    /\ Step(c, "close")
    /\ KeepWorld /\ UNCHANGED <<oldIntent, host, log, measured>>

Close(c) ==
    /\ call[c].step = "close" /\ ~host.dead
    /\ host' = Closed(host) /\ Over(c)
    /\ KeepFiles /\ KeepWorld /\ UNCHANGED history

\* Codex ends or is ended: what the session knew stays until the next one.
Hangup ==
    /\ host.open
    /\ host' = [host EXCEPT !.open = FALSE]
    /\ KeepFiles /\ KeepWorld /\ UNCHANGED <<call, history>>

--------------------------------------------------------------------------------
(* The host: usage.                                                         *)

Started == {t \in Measures : purpose[t] # NoScope}

\* A measurement needs a session, a state it can read, and no success lately.
Measure(c) ==
    LET t == Cardinality(Started) + 1
        p == host.scope IN
    /\ Serves(c, "measure")
    /\ \/ /\ measurable /\ host.open /\ measured[p] = "no" /\ t \in Measures
          /\ host' = [host EXCEPT !.known = [u \in DOMAIN @ \cup {t} |-> IF u = t THEN 0 ELSE @[u]],
                                  !.tagged = @ \cup {t}]
          /\ purpose' = [purpose EXCEPT ![t] = active]
          /\ Step(c, "turn") /\ UNCHANGED log
       \/ Refused(c) /\ UNCHANGED purpose
    /\ UNCHANGED <<shims, measurable, active, intent, oldIntent, measured, spent, switches, choices, faults, history>>

\* Codex tells the total of a thread, whenever it wants: what is new is appended
\* to the project's log, for the project as long as the measurement goes on.
Notify(t) ==
    LET total == spent[t] + 1
        delta == [thread |-> t, amount |-> total - host.known[t], tagged |-> t \in host.tagged] IN
    /\ host.open /\ t \in DOMAIN host.known /\ total <= MaxTokens
    /\ spent' = [spent EXCEPT ![t] = total]
    /\ host' = [host EXCEPT !.known[t] = total, !.queue = Append(@, delta)]
    /\ KeepFiles /\ UNCHANGED <<shims, measurable, active, call, switches, choices, faults, purpose, history>>

\* The attribution ends with the turn.
BugComplete(t) ==
    /\ host.open /\ t \in host.tagged /\ t \notin host.completed
    /\ host' = [host EXCEPT !.completed = @ \cup {t}, !.tagged = @ \ {t}]
    /\ KeepFiles /\ KeepWorld /\ UNCHANGED <<call, history>>

Complete(t) ==
    /\ host.open /\ t \in host.tagged /\ t \notin host.completed
    /\ host' = [host EXCEPT !.completed = @ \cup {t}]
    /\ KeepFiles /\ KeepWorld /\ UNCHANGED <<call, history>>

Appended(l, e) ==
    IF e.tagged THEN [l EXCEPT !.own[e.thread] = @ + e.amount] ELSE [l EXCEPT !.free[e.thread] = @ + e.amount]

\* A line after one that was cut short cannot be read either.
Append1 ==
    /\ ~host.dead /\ host.queue # <<>>
    /\ log' = [log EXCEPT ![host.scope] = IF @.torn THEN @ ELSE Appended(@, Head(host.queue))]
    /\ host' = [host EXCEPT !.queue = Tail(@)]
    /\ KeepWorld /\ UNCHANGED <<intent, oldIntent, call, measured, history>>

\* An append that fails ends the host; connector_host learns of it at its next
\* request, or at the one that it waits for.
AppendFails ==
    /\ ~host.dead /\ host.queue # <<>>
    /\ faults < MaxFaults /\ faults' = faults + 1
    /\ host' = [NewHost(host.scope) EXCEPT !.dead = TRUE]
    /\ log' \in {log, Torn} /\ measured' \in Cut
    /\ UNCHANGED <<shims, measurable, active, intent, oldIntent, call, spent, switches, choices, purpose, history>>

Gone(c) ==
    /\ Holds(c) /\ call[c].step \in {"serve", "save", "close", "turn", "answer"} /\ host.dead
    /\ Refused(c)
    /\ KeepWorld /\ UNCHANGED <<intent, oldIntent, measured, history>>

\* The measurement waits for its turn, then for the appends, and is recorded.
Record(c) ==
    LET t == Cardinality(Started) IN
    /\ call[c].op = "measure" /\ call[c].step = "turn" /\ ~host.dead
    /\ \/ /\ t \in host.completed /\ host.queue = <<>>
          /\ measured' = [measured EXCEPT ![host.scope] = "lately"]
          /\ Step(c, "answer") /\ UNCHANGED <<host, log>>
       \/ Refused(c) /\ UNCHANGED measured
    /\ KeepWorld /\ UNCHANGED <<intent, oldIntent, history>>

\* The diagnostics of the project, after a measurement or without one.
Diagnose(c) ==
    /\ Serves(c, "diagnostics") \/ call[c].step = "answer"
    /\ ~host.dead /\ host.queue = <<>>
    /\ IF log[host.scope].torn THEN Refused(c)
       ELSE /\ host' = [host EXCEPT !.tagged = {}, !.completed = {}] /\ Over(c)
            /\ UNCHANGED log
    /\ KeepWorld /\ UNCHANGED <<intent, oldIntent, measured, history>>

Cooled(p) ==
    /\ measured[p] = "lately" /\ measured' = [measured EXCEPT ![p] = "no"]
    /\ KeepWorld /\ UNCHANGED <<intent, oldIntent, host, call, log, history>>

--------------------------------------------------------------------------------

\* The main thread activates a project, or detaches the active one.
Switch(p) ==
    /\ call["main"] = Finished /\ p # active
    /\ switches < MaxSwitches /\ switches' = switches + 1 /\ active' = p
    /\ KeepFiles /\ UNCHANGED <<shims, measurable, host, call, spent, choices, faults, purpose, history>>

\* The whole Desktop dies, and starts again.
Dies ==
    /\ faults < MaxFaults /\ faults' = faults + 1
    /\ Kill /\ measured' \in Cut
    /\ call' = [c \in Callers |-> IF c = "restore" THEN [Finished EXCEPT !.op = "migrate"] ELSE Finished]
    /\ UNCHANGED <<shims, measurable, active, intent, oldIntent, spent, switches, choices, purpose, history>>

ConnectionsInit ==
    /\ active \in Scopes \cup {NoScope}
    /\ intent \in [Scopes -> {NoIntent, Intent(TRUE, "auto", NoCommand)}]
    /\ oldIntent \in {NoIntent, Intent(TRUE, "manual", "custom")}
    /\ shims \in {{}, Commands} /\ measurable \in BOOLEAN /\ host = NoHost
    /\ call = [c \in Callers |-> IF c = "restore" THEN [Finished EXCEPT !.op = "migrate"] ELSE Finished]
    /\ log = [p \in Scopes |-> [own |-> [t \in Measures |-> 0], free |-> [t \in Measures |-> 0], torn |-> FALSE]]
    /\ measured = [p \in Scopes |-> "no"] /\ spent = [t \in Measures |-> 0]
    /\ switches = 0 /\ choices \in 0 .. MaxChoices /\ faults = 0
    /\ purpose = [t \in Measures |-> NoScope] /\ chosen = [p \in Scopes |-> NoIntent] /\ overwritten = {}

Calls(c) ==
    \/ Scope(c) \/ Enter(c) \/ Migrate(c) \/ Claim(c) \/ Place(c) \/ PlaceFails(c)
    \/ Inspect(c) \/ Connect(c, "default") \/ Connect(c, "custom") \/ Save(c) \/ SaveFails(c)
    \/ Disconnect(c) \/ Close(c) \/ Measure(c) \/ Record(c) \/ Diagnose(c) \/ Gone(c)

ConnectionsNext ==
    \/ \E op \in Requests : Command(op)
    \/ \E c \in Callers : Calls(c)
    \/ Desired \/ Hangup \/ Append1 \/ AppendFails \/ Dies
    \/ \E t \in Measures : Notify(t) \/ Complete(t)
    \/ \E p \in Scopes : Cooled(p)
    \/ \E p \in Scopes \cup {NoScope} : Switch(p)

--------------------------------------------------------------------------------
(* Properties.                                                              *)

\* A request reaches only a host of its project; and what each part holds.
ConnectionsTypeOK ==
    /\ active \in Scopes \cup {NoScope}
    /\ \A p \in Scopes : intent[p] \in Intents \cup {NoIntent} /\ measured[p] \in {"no", "lately", "torn"}
    /\ oldIntent \in Intents \cup {NoIntent}
    /\ \A c \in Callers :
          /\ call[c].op \in Requests \cup {"none", "migrate"}
          /\ call[c].step \in {"next", "scoped", "intent", "claim", "place", "desired", "serve", "save", "close", "turn", "answer"}
          /\ call[c].step \in {"serve", "save", "close", "turn", "answer"} => host.scope = call[c].scope
    /\ host.open => ~host.dead /\ host.selected \in Commands
    /\ host.tagged \subseteq DOMAIN host.known /\ host.completed \subseteq host.tagged
    /\ \A c, d \in Callers : Holds(c) /\ Holds(d) => c = d

\* While no request is served, a session that is open is one its project's
\* stored choice asks for, and a restart would run the same executable: the two
\* are changed apart, and either change can fail (connect, disconnectByUser,
\* restoreDesiredConnection).  Except where the older version's choice displaced
\* the one just made, or an executable that cannot be pinned was named.
SessionIsDesired ==
    Free /\ host.open /\ host.scope \notin overwritten =>
        /\ intent[host.scope].desired
        /\ \/ Launches(intent[host.scope]) = host.selected
           \/ host.mode = "manual" /\ intent[host.scope].mode = "auto" /\ host.selected \in shims

\* The log of a project holds the usage of its own measurements only, and none of
\* it twice: the active project changes, and a host dies, between a measurement
\* and what Codex tells of it (desktop-connector-host.ts, CodexUsageSequencer).
UsageIsOfItsProject ==
    \A p \in Scopes : \A t \in Measures :
        /\ log[p].own[t] + log[p].free[t] > 0 => purpose[t] = p
        /\ log[p].own[t] + log[p].free[t] <= spent[t]

\* What Codex told of a measurement before it answers is its project's in the
\* log, or on its way there (measure, and the events that come in meanwhile).
\* (Codex tells of every token: each append that waits is of one.)
Waiting(t) == Cardinality({n \in DOMAIN host.queue : host.queue[n].thread = t /\ host.queue[n].tagged})
MeasuredIsLogged ==
    \A c \in Callers : call[c].step = "answer" /\ ~host.dead /\ ~log[host.scope].torn =>
        LET t == Cardinality(Started) IN log[host.scope].own[t] + Waiting(t) = host.known[t]

\* What the user chose for a project last is what is stored for it, whatever fails
\* and whichever thread brings the older version's choice in: except where that
\* displaced the choice (project_codex_intent_path, writeConnectionIntent).
ChoiceStands ==
    \A p \in Scopes \ overwritten : chosen[p] \in {NoIntent, intent[p]}
================================================================================
