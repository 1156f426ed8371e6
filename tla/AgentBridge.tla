------------------------------ MODULE AgentBridge ------------------------------
(***************************************************************************)
(* The MCP server: how an agent is told of a project, and what becomes of  *)
(* what it returns.                                                        *)
(*                                                                         *)
(* A host starts one server per process and sends it lines, which it       *)
(* handles one after the other.  A context is of the project of the        *)
(* agent's workspace; it is issued once it was built of documents that had *)
(* a receipt before and after they were read, and is good for one return.  *)
(* A return is checked against the project of the server: its context must *)
(* still be true when it comes, and stay true while a proposal is built of *)
(* its candidate.  Meanwhile anything may edit the documents.              *)
(*                                                                         *)
(* Projects are of schema 2.  Other findings of the doctor, and whatever   *)
(* else makes a tool fail, are the choice of ToolFails.                    *)
(***************************************************************************)
EXTENDS ProjectKnowledge, Sequences, FiniteSetsExt

CONSTANTS
    Threads,                \* threads of the agent
    MaxCalls,               \* bound on what the host sends, beyond the handshake
    MaxChanges              \* bound on what changes the documents, and on restarts

\* Assumed by Desktop.
BridgeAssumption == MaxCalls \in Nat /\ MaxChanges \in 0..MaxMoves

VARIABLES
    server,         \* its process, what the gate said, how far the handshake is, its project
    twins,          \* are the projects checkouts of one Project Brain?
    queue,          \* the lines that wait
    work,           \* the tool call under way
    issuances,      \* what the server remembers of the contexts it issued
    contexts,       \* the contexts the agent got
    observations,   \* of contexts, which bind sessions to projects (context-observations.jsonl)
    calls,
    returns,        \* the returns that were processed, in order
    candidates      \* the proposals that wait for an authorization

bridgeVars ==
    <<server, twins, queue, work, issuances, contexts, observations, calls, returns, candidates>>
agentVars == <<knowledgeVars, bridgeVars>>

\* The logical identity, which two checkouts may share.
Brain(p) == IF twins THEN server.home ELSE p

\* packetId is a digest of the baseline and of the thread (and of the provider,
\* the task and the session); the baseline is one of the content and the identity.
PacketIds == [brain : Scopes, content : Contents, thread : Threads]
NoPacketId == [brain |-> NoScope, content |-> NoContent, thread |-> "none"]

\* copy stands for what tells one issue from another (generatedAt); run and edits are
\* the process that issued it, and how often the documents changed while it was built.
Packets ==
    [id : PacketIds, project : Scopes, copy : 1..MaxCalls, run : 0..MaxMoves, edits : 0..MaxMoves]
NoPacket == [id |-> NoPacketId, project |-> NoScope, copy |-> 0, run |-> 0, edits |-> 0]

\* Lines that have no effect, answered or not, are left out: ping, tools/list, the
\* verification trace, what does not parse or is too long, and calls without an id.
NoLine == [kind |-> "none", thread |-> "none", project |-> NoScope, packet |-> NoPacket]
Handshake == <<[NoLine EXCEPT !.kind = "initialize"], [NoLine EXCEPT !.kind = "initialized"]>>

Tools == {"context", "snapshot", "proposal", "actionable"}
Idle == [step |-> "idle", purpose |-> "none", line |-> NoLine, content |-> NoContent, edits |-> 0]

BridgeTypeOK ==
    /\ server.run \in 0..MaxMoves /\ server.home \in Scopes
    /\ server.gate \in {"none", "held", "refused"}
    /\ server.life \in {"new", "initializing", "ready"}
    /\ Len(queue) <= MaxCalls + 2
    /\ work.step \in {"idle", "doctor", "capture", "recapture", "doctorAfter"}
    /\ work.purpose \in Tools \cup {"none"}
    /\ \A i \in issuances : i.id \in PacketIds /\ i.available \in BOOLEAN /\ i.thread \in Threads
    /\ contexts \subseteq Packets
    /\ observations \subseteq [thread : Threads, project : Scopes, brain : Scopes]
    /\ calls \in 0..MaxCalls

\* A host starts the server in a project, and greets it.
BridgeInit ==
    /\ \E p \in Scopes : server = [run |-> 0, home |-> p, gate |-> "none", life |-> "new"]
    /\ twins \in BOOLEAN
    /\ queue \in {Handshake, <<Handshake[1]>>}
    /\ work = Idle /\ issuances = {} /\ contexts = {} /\ observations = {}
    /\ calls = 0 /\ returns = <<>> /\ candidates = {}

--------------------------------------------------------------------------------
(* The documents, which change without the notice of the call under way.    *)

Changes == moves < MaxChanges

Edits(p) ==
    /\ Changes /\ Edit(p)
    /\ work' = IF work.step # "idle" /\ p = work.line.project
               THEN [work EXCEPT !.edits = @ + 1] ELSE work
    /\ UNCHANGED <<server, twins, queue, issuances, contexts, observations, calls, returns, candidates>>

\* Another command accepts the documents: its receipt, and perhaps later an Authority.
Accepts(p) ==
    /\ Changes /\ Moves /\ ~Recorded(p) /\ Record(p)
    /\ confirmed' = [confirmed EXCEPT ![p] = @ \cup {document[p]}]
    /\ UNCHANGED <<document, guarded, proven, tasks, scope, desk, slipped, bridgeVars>>

Protects(p) ==
    /\ Changes /\ Moves /\ Recorded(p) /\ ~Protected(p)
    /\ guarded' = [guarded EXCEPT ![p] = @ \cup {document[p]}]
    /\ UNCHANGED <<document, receipt, proven, tasks, scope, desk, confirmed, slipped, bridgeVars>>

--------------------------------------------------------------------------------
(* The host.                                                                *)

Send(line) ==
    /\ calls < MaxCalls /\ calls' = calls + 1
    /\ queue' = Append(queue, line)
    /\ UNCHANGED <<knowledgeVars, server, twins, work, issuances, contexts, observations, returns, candidates>>

\* The second half of a handshake; what was said before has no effect any more.
Greet == server.life = "initializing" /\ Send(Handshake[2])

AskContext(t, p) == Send([NoLine EXCEPT !.kind = "context", !.thread = t, !.project = p])

\* The agent returns a context it got, or again, because it heard nothing: in
\* whichever of its threads.
ReturnContext(t, packet) ==
    Send([kind |-> "return", thread |-> t, project |-> server.home, packet |-> packet])

\* The host starts a new process; what the old one had not answered is lost.
Restart ==
    /\ Changes /\ Moves
    /\ server' = [server EXCEPT !.run = @ + 1, !.gate = "none", !.life = "new"]
    /\ queue' = Handshake /\ work' = Idle /\ issuances' = {}
    /\ UNCHANGED <<brains, tasks, scope, desk, confirmed, slipped, twins, contexts, observations,
                   calls, returns, candidates>>

--------------------------------------------------------------------------------
(* The server takes a line.                                                 *)

\* requireProtectedCanonicalProject is awaited by the first line; its promise, kept
\* or broken, is what every later line awaits.
Gate ==
    /\ queue # <<>> /\ server.gate = "none"
    /\ server' = [server EXCEPT !.gate = IF Healthy(server.home) THEN "held" ELSE "refused"]
    /\ UNCHANGED <<knowledgeVars, twins, queue, work, issuances, contexts, observations, calls,
                   returns, candidates>>

\* Without a session a line is not answered.
TakeRefused ==
    /\ queue # <<>> /\ server.gate = "refused"
    /\ queue' = Tail(queue)
    /\ UNCHANGED <<knowledgeVars, server, twins, work, issuances, contexts, observations, calls,
                   returns, candidates>>

Line(kinds) ==
    /\ queue # <<>> /\ server.gate = "held" /\ work = Idle
    /\ Head(queue).kind \in kinds
    /\ queue' = Tail(queue)

TakeGreeting ==
    /\ Line({"initialize", "initialized"})
    /\ server' = [server EXCEPT !.life =
           IF Head(queue).kind = "initialize"
           THEN (IF @ = "new" THEN "initializing" ELSE @)
           ELSE (IF @ = "initializing" THEN "ready" ELSE @)]
    /\ UNCHANGED <<knowledgeVars, twins, work, issuances, contexts, observations, calls, returns, candidates>>

\* A tool before the handshake is over is refused.
TakeEarly ==
    /\ Line({"context", "return"}) /\ server.life # "ready"
    /\ UNCHANGED <<knowledgeVars, server, twins, work, issuances, contexts, observations, calls,
                   returns, candidates>>

StartsTool(line, purpose) == work' = [Idle EXCEPT !.step = "doctor", !.purpose = purpose, !.line = line]

\* (The observation that is made before a context is built names no Project Brain.)
TakeContext ==
    /\ Line({"context"}) /\ server.life = "ready"
    /\ StartsTool(Head(queue), "context")
    /\ UNCHANGED <<knowledgeVars, server, twins, issuances, contexts, observations, calls,
                   returns, candidates>>

NewestOf(id) == Max({c.copy : c \in {d \in contexts : d.id = id}})

\* What a return names is available, the exact copy, and of the same thread.
Usable(line) ==
    {i \in issuances : /\ i.id = line.packet.id /\ i.available
                       /\ i.copy = line.packet.copy /\ i.thread = line.thread}

\* A defect: the context is spent only where the return goes on to a review.
BugTakeReturn ==
    /\ Line({"return"}) /\ server.life = "ready"
    /\ LET line == Head(queue)
       IN  \E i \in Usable(line) :
           /\ returns' = Append(returns, [packet |-> line.packet, thread |-> line.thread,
                                          run |-> server.run, newest |-> NewestOf(line.packet.id)])
           /\ \/ UNCHANGED <<work, issuances>>
              \/ /\ issuances' = (issuances \ {i}) \cup {[i EXCEPT !.available = FALSE]}
                 /\ StartsTool(line, "snapshot")
    /\ UNCHANGED <<knowledgeVars, server, twins, contexts, observations, calls, candidates>>

\* The context is spent before the return is looked at, which may not correlate with it.
TakeReturn ==
    /\ Line({"return"}) /\ server.life = "ready"
    /\ LET line == Head(queue)
       IN  \E i \in Usable(line) :
           /\ issuances' = (issuances \ {i}) \cup {[i EXCEPT !.available = FALSE]}
           /\ returns' = Append(returns, [packet |-> line.packet, thread |-> line.thread,
                                          run |-> server.run, newest |-> NewestOf(line.packet.id)])
           /\ UNCHANGED work \/ StartsTool(line, "snapshot")
    /\ UNCHANGED <<knowledgeVars, server, twins, contexts, observations, calls, candidates>>

TakeUnusable ==
    /\ Line({"return"}) /\ server.life = "ready" /\ Usable(Head(queue)) = {}
    /\ UNCHANGED <<knowledgeVars, server, twins, work, issuances, contexts, observations, calls,
                   returns, candidates>>

--------------------------------------------------------------------------------
(* The tools: documents are read twice between two looks of the doctor,     *)
(* for a context, and three times over for a return.                        *)

Working(step) == work.step = step
Project == work.line.project

Stays == UNCHANGED <<knowledgeVars, server, twins, queue, calls, returns>>

Answered == work' = Idle

\* runDoctor, which asks for the receipt and for no Authority.
Doctor ==
    /\ Working("doctor")
    /\ IF Recorded(Project) THEN work' = [work EXCEPT !.step = "capture"] ELSE Answered
    /\ Stays /\ UNCHANGED <<issuances, contexts, observations, candidates>>

Capture ==
    /\ Working("capture")
    /\ work' = [work EXCEPT !.step = "recapture", !.content = document[Project]]
    /\ Stays /\ UNCHANGED <<issuances, contexts, observations, candidates>>

Recapture ==
    /\ Working("recapture")
    /\ IF document[Project] = work.content THEN work' = [work EXCEPT !.step = "doctorAfter"] ELSE Answered
    /\ Stays /\ UNCHANGED <<issuances, contexts, observations, candidates>>

Built(purpose) == Working("doctorAfter") /\ work.purpose = purpose /\ Recorded(Project)

NotBuilt ==
    /\ Working("doctorAfter") /\ ~Recorded(Project)
    /\ Answered
    /\ Stays /\ UNCHANGED <<issuances, contexts, observations, candidates>>

\* The context is ready, and replaces an earlier issue of its id; it is observed, or
\* the observation fails with a warning.
Issue ==
    /\ Built("context")
    /\ LET line == work.line
           packet == [id |-> [brain |-> Brain(Project), content |-> work.content, thread |-> line.thread],
                      project |-> Project, copy |-> Cardinality(contexts) + 1,
                      run |-> server.run, edits |-> work.edits]
       IN  /\ issuances' = {i \in issuances : i.id # packet.id}
                            \cup {[id |-> packet.id, copy |-> packet.copy, available |-> TRUE,
                                   thread |-> line.thread]}
           /\ contexts' = contexts \cup {packet}
           /\ observations' \in {observations, observations \cup
                  {[thread |-> line.thread, project |-> Project, brain |-> Brain(Project)]}}
    /\ Answered
    /\ Stays /\ UNCHANGED candidates

\* The material that was read is that of the context: its identity and its baseline.
OfContext ==
    /\ work.line.packet.id.brain = Brain(Project)
    /\ work.line.packet.id.content = work.content

Continues(purpose) == work' = [work EXCEPT !.step = "doctor", !.purpose = purpose]

\* processProviderReturn: the context is of another project, stale, or without a
\* candidate; or the candidate is reviewed.
Current ==
    /\ Built("snapshot")
    /\ \/ OfContext /\ Continues("proposal")
       \/ Answered
    /\ Stays /\ UNCHANGED <<issuances, contexts, observations, candidates>>

\* maintainSemanticProjectState: the review must be of what is expected.  A candidate
\* that the documents hold already is for a review only.
Reviewed ==
    /\ Built("proposal")
    /\ \/ OfContext /\ Continues("actionable")
       \/ Answered
    /\ Stays /\ UNCHANGED <<issuances, contexts, observations, candidates>>

\* The proposal is built again, and must be of the baseline of the review, which is
\* that of the context.
Prepares ==
    /\ Built("actionable")
    /\ candidates' = IF OfContext
                     THEN candidates \cup {[packet |-> work.line.packet, base |-> work.content,
                                            edits |-> work.edits]}
                     ELSE candidates
    /\ Answered
    /\ Stays /\ UNCHANGED <<issuances, contexts, observations>>

\* A read throws, or another finding blocks: the call is answered, and nothing else.
ToolFails ==
    /\ work # Idle
    /\ Answered
    /\ Stays /\ UNCHANGED <<issuances, contexts, observations, candidates>>

--------------------------------------------------------------------------------
BridgeNext ==
    \/ \E p \in Scopes : Edits(p) \/ Accepts(p) \/ Protects(p)
    \/ Greet
    \/ \E t \in Threads, p \in Scopes : AskContext(t, p)
    \/ \E t \in Threads, packet \in contexts : ReturnContext(t, packet)
    \/ Restart
    \/ Gate \/ TakeRefused \/ TakeGreeting \/ TakeEarly \/ TakeContext \/ TakeReturn \/ TakeUnusable
    \/ Doctor \/ Capture \/ Recapture \/ NotBuilt
    \/ Issue \/ Current \/ Reviewed \/ Prepares \/ ToolFails

BridgeSpec == KnowledgeInit /\ BridgeInit /\ [][BridgeNext]_agentVars

--------------------------------------------------------------------------------
(* Properties.                                                              *)

\* A context is of accepted documents, unless they changed and changed back while
\* it was built (buildProjectContextSnapshot).
ToldIsAccepted ==
    \A c \in contexts : c.id.content \in confirmed[c.project] \/ c.edits >= 2

\* However often the agent returns a context, in whichever thread and process, it is
\* processed once, where it was issued, and only the newest of its id.
ReturnedOnce ==
    \A m \in DOMAIN returns :
        LET r == returns[m]
        IN  /\ r.thread = r.packet.id.thread /\ r.run = r.packet.run
            /\ \A n \in 1..(m - 1) : returns[n].packet # r.packet
            /\ r.newest = r.packet.copy

\* A candidate that waits for an authorization was prepared of the very material its
\* context told, in the project of the server, and that was accepted there, unless
\* it came and went in each of the three times it was read.
CandidateStands ==
    \A c \in candidates :
        /\ c.base = c.packet.id.content /\ Brain(server.home) = c.packet.id.brain
        /\ c.base \in confirmed[server.home] \/ c.edits >= 6

\* An observation that names a Project Brain is of a context that was ready.
ObservedIsTold ==
    \A o \in observations :
        \E c \in contexts : c.id.thread = o.thread /\ c.project = o.project /\ c.id.brain = o.brain

--------------------------------------------------------------------------------
(* What the documents of the repository promise, and the server does not keep. *)

\* A context is of the project its server runs in, says docs/mcp-agent-bridge.md, and
\* what it tells was accepted, since no clean snapshot is returned where the documents
\* change while it is built, says docs/project-context-snapshot.md.  Each of the two
\* implies this, so that a context that breaks it refutes both: the server takes the
\* workspace the call names, and between the two looks of the doctor an edit may come
\* and go, and be what was read twice.
ContextIsPromised ==
    \A c \in contexts : c.project = server.home \/ c.id.content \in confirmed[c.project]
================================================================================
