--------------------------- MODULE DesktopProofs ---------------------------
(***************************************************************************)
(* What every part of the Desktop holds, from the invariants of all of     *)
(* them.                                                                   *)
(***************************************************************************)
EXTENDS DesktopProjectsProofs, DesktopKnowledgeProofs, DesktopProviderProofs

LEMMA UpdatesTyped ==
    ASSUME UpdatesInv
    PROVE  Updates!UpdatesTypeOK
<1>1. DocumentsShape /\ WindowInv /\ CenterShape
  BY DEF UpdatesInv, DocumentsInv, UpdaterInv
<1>2. Updates!Cardinality({r \in replies : r.current}) <= 1
  <2>1. \A S : Updates!Cardinality(S) = Cardinality(S)
    BY Zenon DEF Updates!Cardinality, Cardinality, Updates!IsFiniteSet, IsFiniteSet
  <2>2. CASE {r \in replies : r.current} = {}
    BY <2>1, <2>2, FS_EmptySet
  <2>3. CASE {r \in replies : r.current} # {}
    <3>1. PICK x \in replies : x.current
      BY <2>3
    <3>2. {r \in replies : r.current} = {x}
      BY <3>1, <1>1 DEF WindowInv
    <3>3. Cardinality({x}) = 1
      BY FS_Singleton
    <3>. QED  BY <2>1, <3>2, <3>3
  <2>. QED  BY <2>2, <2>3
<1>3. \A n \in notices \cup shown : n.until \in Nat /\ n.source \in {d.seq : d \in Documents}
  BY <1>1 DEF DocumentsShape, StoredNotices, Seqs
<1>4. pass = Updates!NoPass \/ pass.step \in {"blocks", "notices", "accept"} \cup DOMAIN Updates!Renaming
  BY <1>1 DEF DocumentsShape, Passes, PassSteps, Updates!Renaming
<1>5. Updates!BroadcastTypeOK
  BY <1>1, <1>2, <1>3, <1>4 DEF DocumentsShape, StoredBlocks, Seqs, Updates!BroadcastTypeOK
<1>6. ui.step \in {"idle", "check", "apply", "download", "list", "record", "wait"}
  BY <1>1 DEF CenterShape, Windows
<1>7. \A w \in Updates!Writers : writer[w].step \in {"idle", "write", "remove", "rename"}
  BY <1>1 DEF CenterShape, CenterWriters, Updates!Idle
<1>. QED  BY <1>1, <1>5, <1>6, <1>7 DEF CenterShape, Marks, Updates!UpdatesTypeOK

LEMMA ConnectionTyped ==
    ASSUME ConnectionInv
    PROVE  Connection!ConnectionsTypeOK
<1>1. ConnectionShape /\ CallInv /\ HostInv
  BY DEF ConnectionInv
<1>2. \A p \in Scopes :
        intent[p] \in Connection!Intents \cup {Connection!NoIntent} /\ measured[p] \in {"no", "lately", "torn"}
  BY <1>1 DEF ConnectionShape
<1>3. ASSUME NEW c \in Connection!Callers
      PROVE  /\ call[c].op \in Connection!Requests \cup {"none", "migrate"}
             /\ call[c].step \in CallSteps
             /\ call[c].step \in {"serve", "save", "close", "turn", "answer"} => host.scope = call[c].scope
  BY <1>1 DEF ConnectionShape, CallInv, Calls, Serving
<1>4. host.open => ~host.dead /\ host.selected \in Connection!Commands
  <2>1. host.dead => host = [Connection!NewHost(host.scope) EXCEPT !.dead = TRUE]
    BY <1>1 DEF HostInv
  <2>2. host.dead => ~host.open
    BY <2>1 DEF Connection!NewHost
  <2>. QED  BY <2>2, <1>1 DEF HostInv
<1>5. \A c, d \in Connection!Callers : Connection!Holds(c) /\ Connection!Holds(d) => c = d
  BY <1>1 DEF CallInv, Connection!Callers
<1>. QED  BY <1>1, <1>2, <1>3, <1>4, <1>5 DEF ConnectionShape, HostInv, CallSteps, Connection!ConnectionsTypeOK

\* In the agent's part too.
LEMMA KnowledgeTyped ==
    ASSUME KnowledgeShape, desk \in Desks
    PROVE  Knowledge!KnowledgeTypeOK /\ Agent!KnowledgeTypeOK
<1>1. ASSUME NEW t \in Tasks
      PROVE  /\ tasks[t].step \in Knowledge!Steps /\ tasks[t].purpose \in Knowledge!Purposes
             /\ tasks[t].project \in Scopes \cup {NoScope}
             /\ {tasks[t].turn, tasks[t].checked} \subseteq 0..MaxMoves
             /\ tasks[t].digest \in Knowledge!Digests /\ tasks[t].answer \in Knowledge!Answers
             /\ tasks[t].on \in Tasks \cup {NoTask}
  BY DEF KnowledgeShape, KnowledgeTasks
<1>2. /\ desk.turn \in 0..MaxMoves /\ desk.shown \in Knowledge!Digests /\ desk.protection \in Knowledge!Answers
      /\ desk.refreshing \in Tasks \cup {NoTask} /\ {desk.late, desk.activating} \subseteq BOOLEAN
  BY DEF Desks
<1>3. Knowledge!KnowledgeTypeOK
  BY <1>1, <1>2 DEF KnowledgeShape, Knowledge!KnowledgeTypeOK
<1>4. /\ Agent!Steps = Knowledge!Steps /\ Agent!Purposes = Knowledge!Purposes
      /\ Agent!Digests = Knowledge!Digests /\ Agent!Answers = Knowledge!Answers
  BY DEF Agent!Steps, Knowledge!Steps, Agent!Purposes, Knowledge!Purposes, Agent!Digests, Knowledge!Digests,
         Agent!Answers, Knowledge!Answers, Agent!Statuses, Knowledge!Statuses
<1>5. Agent!KnowledgeTypeOK
  BY <1>1, <1>2, <1>4 DEF KnowledgeShape, Agent!KnowledgeTypeOK
<1>. QED  BY <1>3, <1>5

LEMMA BridgeTyped ==
    ASSUME AgentInv
    PROVE  Agent!BridgeTypeOK
<1>1. AgentShape /\ QueueInv
  BY DEF AgentInv
<1>2. Len(queue) <= MaxCalls + 2
  <2>1. PICK h \in 0..2 : Len(queue) - h + Cardinality(contexts) + Busy <= calls
    BY <1>1 DEF QueueInv
  <2>2. Len(queue) \in Nat /\ Cardinality(contexts) \in Nat /\ Busy \in {0, 1} /\ calls \in 0..MaxCalls
    BY <1>1, FS_CardinalityType DEF AgentShape, Busy
  <2>3. MaxCalls \in Nat
    BY AgentBridgeAssumption DEF Agent!BridgeAssumption
  <2>. QED  BY <2>1, <2>2, <2>3
<1>3. /\ server.run \in 0..MaxMoves /\ server.home \in Scopes
      /\ server.gate \in {"none", "held", "refused"} /\ server.life \in {"new", "initializing", "ready"}
  BY <1>1 DEF AgentShape
<1>4. /\ work.step \in {"idle", "doctor", "capture", "recapture", "doctorAfter"}
      /\ work.purpose \in Agent!Tools \cup {"none"}
  BY <1>1 DEF AgentShape, Works
<1>5. \A i \in issuances : i.id \in Agent!PacketIds /\ i.available \in BOOLEAN /\ i.thread \in Threads
  BY <1>1 DEF AgentShape, Issuances
<1>. QED  BY <1>1, <1>2, <1>3, <1>4, <1>5 DEF AgentShape, Agent!BridgeTypeOK

\* In every part, whatever is done in it and whatever fails, each variable holds what the code
\* stores in it, and no two calls hold the mutex of the connection at once.
THEOREM TypeCorrect == Spec => []TypeOK
<1>1. ProjectsInv => Of("projects", Projects!TypeOK)
  BY DEF ProjectsInv, Of
<1>2. UpdatesInv => Of("updates", Updates!UpdatesTypeOK)
  BY UpdatesTyped DEF Of
<1>3. ConnectionInv => Of("connection", Connection!ConnectionsTypeOK)
  BY ConnectionTyped DEF Of
<1>4. ReviewInv => Of("review", Review!ReviewTypeOK)
  BY DEF ReviewInv, ReviewShape, Of
<1>5. (part = "knowledge" => KnowledgeInv) => Of("knowledge", Knowledge!KnowledgeTypeOK)
  BY KnowledgeTyped DEF KnowledgeInv, DeskFits, Of
<1>6. SessionsInv => Of("sessions", Sessions!SessionsTypeOK)
  BY DEF SessionsInv, SessionsShape, Of
<1>7. (part = "agent" => AgentInv) => Of("agent", Agent!KnowledgeTypeOK /\ Agent!BridgeTypeOK)
  BY KnowledgeTyped, BridgeTyped DEF AgentInv, AgentShape, Of
<1>8. /\ ProjectsInv /\ UpdatesInv /\ ConnectionInv /\ ReviewInv /\ SessionsInv
      /\ part = "knowledge" => KnowledgeInv
      /\ part = "agent" => AgentInv
      => TypeOK
  BY <1>1, <1>2, <1>3, <1>4, <1>5, <1>6, <1>7 DEF TypeOK
<1>. QED  BY <1>8, ProjectsInvariantHolds, UpdatesInvariantHolds, ConnectionInvariantHolds, ReviewInvariantHolds,
             SessionsInvariantHolds, KnowledgeInvariantHolds, AgentInvariantHolds, PTL
============================================================================
