--------------------------------- MODULE Desktop ---------------------------------
(***************************************************************************)
(* The process of the Desktop: its projects, its updates with the          *)
(* operator's documents, its connection to Codex, the review of the        *)
(* sources of a project, the knowledge of it that the user confirms, the   *)
(* sessions of AI providers that belong to it; and the server that tells   *)
(* an agent of it, in a process of its own.                                *)
(*                                                                         *)
(* These parts share no file and no lock, but for the last one, whose      *)
(* documents are those of the knowledge, and edited and accepted there by  *)
(* others: what one does is never seen by another, and every behaviour of  *)
(* the whole is an interleaving of theirs.  `part` is the one whose steps are  *)
(* looked at; the others stay at their beginning.  (All but the first two  *)
(* ask for the active project, which each of their models changes as it    *)
(* likes.)                                                                 *)
(***************************************************************************)
EXTENDS Naturals, FiniteSets

CONSTANTS
    Roots, LegacyRoot, NoRoot, NoRegistry,
    Workers, Adoptions, LegacySlot, MaxGeneration, MaxTrouble,
    Documents, MaxBlocks, MaxNotices, MaxNow, MaxReplies, MaxBroadcastTrouble,
    Versions, MaxToasts,
    Scopes, NoScope, MaxSwitches, MaxChoices, MaxMeasures, MaxTokens, MaxFaults,
    Linked, Paths, NoFile, Flows, MaxTurns, MaxMishaps,
    Contents, NoContent, Tasks, NoTask, MaxMoves,
    Depth, Observed, Refreshes, MaxDeeds,
    Threads, MaxCalls, MaxChanges

VARIABLES
    part,
    registry, backup, dir, legacy, stage, source, brain, main, runtime, job, trouble, torn,
    online, now, accepted, blocks, notices, pass, shown, replies, troubles, committed, replaced, announced, losses,
    installed, offer, ui, center, temp, writer, toasts, marked, crossed, centerLost,
    shims, measurable, active, intent, oldIntent, host, call, log, measured, spent,
    switches, choices, faults, purpose, chosen, overwritten,
    request, input, presentation, setup, flow, lock, session, window, turns, mishaps,
    overtaken, unfinished,
    document, receipt, guarded, proven, tasks, scope, desk, moves, confirmed, slipped,
    kind, catalog, spool, decisions, stored, scratch, registered, current, order, recons, view,
    deeds, decided, forgotten, strayed,
    server, twins, queue, work, issuances, contexts, observations, calls, returns, candidates

Projects == INSTANCE DesktopProjects
Updates == INSTANCE DesktopUpdater
Connection == INSTANCE Connections
Review == INSTANCE SourceReview
Knowledge == INSTANCE ProjectKnowledge
Sessions == INSTANCE ProviderSessions
Agent == INSTANCE AgentBridge

\* What the parts assume of their constants.
ASSUME ProjectsAssumption ==
    Projects!RootsAssumption /\ Projects!SlotAssumption /\ Projects!AdoptionsAssumption /\ Projects!BoundsAssumption
ASSUME UpdatesAssumption ==
    Updates!DocumentsAssumption /\ Updates!BroadcastBounds /\ Updates!VersionsAssumption
ASSUME ConnectionAssumption == Connection!ScopesAssumption /\ Connection!ConnectionBounds
ASSUME SourceReviewAssumption == Review!ReviewAssumption
ASSUME ProjectKnowledgeAssumption == Knowledge!KnowledgeAssumption
ASSUME ProviderSessionsAssumption == Sessions!SessionsAssumption
ASSUME AgentBridgeAssumption == Agent!BridgeAssumption

projectVars ==
    <<registry, backup, dir, legacy, stage, source, brain, main, runtime, job, trouble, torn>>
updateVars ==
    <<online, now, accepted, blocks, notices, pass, shown, replies, troubles, committed, replaced, announced, losses,
      installed, offer, ui, center, temp, writer, toasts, marked, crossed, centerLost>>
connectionVars ==
    <<shims, measurable, active, intent, oldIntent, host, call, log, measured, spent,
      switches, choices, faults, purpose, chosen, overwritten>>
reviewVars ==
    <<request, input, presentation, setup, flow, lock, session, window, turns, mishaps,
      overtaken, unfinished>>
knowledgeVars ==
    <<document, receipt, guarded, proven, tasks, scope, desk, moves, confirmed, slipped>>
sessionVars ==
    <<kind, catalog, spool, decisions, stored, scratch, registered, current, order, recons, view,
      deeds, decided, forgotten, strayed>>
bridgeVars ==
    <<server, twins, queue, work, issuances, contexts, observations, calls, returns, candidates>>
vars == <<part, projectVars, updateVars, connectionVars, reviewVars, knowledgeVars, sessionVars, bridgeVars>>

\* A checkout has a Project Brain to adopt, unless what was stored before is the
\* progress of a first run.  Of the connection's beginnings, one project is measured,
\* or the choice of an older version is found, which both leave fewer choices of
\* connections; the projects are alike, and it does not matter which is active first,
\* nor which of their checkouts is given.  An old choice meets projects that
\* have made theirs, or not, together.  The session of a provider is in the inner one
\* of two nested checkouts.  The agent's server was started in the same project
\* whichever it is.
Init ==
    /\ part \in {"projects", "updates", "connection", "review", "knowledge", "sessions", "agent"}
    /\ Projects!Init /\ Updates!UpdatesInit /\ Connection!ConnectionsInit
    /\ Review!ReviewInit /\ Knowledge!KnowledgeInit
    /\ IF part = "projects"
       THEN legacy = "progress" <=> source = [r \in Roots |-> "none"]
       ELSE legacy = "none" /\ source = [r \in Roots |-> "none"]
    /\ part # "updates" => ~online
    /\ IF part # "connection" \/ measurable
       THEN /\ active # NoScope /\ shims = {} /\ oldIntent = Connection!NoIntent
            /\ \A p \in Scopes : intent[p].desired = (p = active)
       ELSE (active = NoScope \/ shims = {}) <=> oldIntent # Connection!NoIntent
    /\ active \in {NoScope, CHOOSE p \in Scopes : TRUE}
    /\ oldIntent # Connection!NoIntent => \A p, q \in Scopes : intent[p] = intent[q]
    /\ part # "connection" => ~measurable
    /\ choices = IF measurable \/ oldIntent # Connection!NoIntent THEN MaxChoices - 1 ELSE 0
    /\ session.project = CHOOSE p \in Scopes : TRUE
    /\ \A p \in Scopes : input[p] # NoFile =>
           part = "review" /\ input[p].sources = CHOOSE s \in Linked : TRUE
    /\ scope.project = CHOOSE p \in Scopes : TRUE
    /\ \A p \in Scopes : document[p] = CHOOSE c \in Contents : TRUE
    /\ part \notin {"knowledge", "agent"} => \A p \in Scopes : receipt[p] = NoContent
    /\ Sessions!SessionsInit
    /\ current = CHOOSE p \in Scopes : TRUE
    /\ catalog = [cwd |-> IF kind = "codex" THEN Scopes ELSE {}, provider |-> {}, workspace |-> {}]
    /\ spool.seen = IF kind = "codex" THEN {} ELSE {Scopes}
    /\ decisions = IF kind = "codex" THEN "missing" ELSE CHOOSE p \in Scopes : p # current
    /\ part # "sessions" => kind = "codex"
    /\ Agent!BridgeInit
    /\ server.home = CHOOSE p \in Scopes : TRUE
    /\ ~Agent!Protected(server.home) \/ part # "agent" => ~twins
    /\ Agent!Protected(server.home) \/ part # "agent" => queue = Agent!Handshake

ProjectsStep == part = "projects" /\ Projects!Next /\ UNCHANGED <<part, updateVars, connectionVars, reviewVars, knowledgeVars, sessionVars, bridgeVars>>
UpdatesStep == part = "updates" /\ Updates!UpdatesNext /\ UNCHANGED <<part, projectVars, connectionVars, reviewVars, knowledgeVars, sessionVars, bridgeVars>>
ConnectionStep == part = "connection" /\ Connection!ConnectionsNext /\ UNCHANGED <<part, projectVars, updateVars, reviewVars, knowledgeVars, sessionVars, bridgeVars>>
ReviewStep == part = "review" /\ Review!ReviewNext /\ UNCHANGED <<part, projectVars, updateVars, connectionVars, knowledgeVars, sessionVars, bridgeVars>>
KnowledgeStep == part = "knowledge" /\ Knowledge!KnowledgeNext /\ UNCHANGED <<part, projectVars, updateVars, connectionVars, reviewVars, sessionVars, bridgeVars>>
SessionsStep == part = "sessions" /\ Sessions!SessionsNext /\ UNCHANGED <<part, projectVars, updateVars, connectionVars, reviewVars, knowledgeVars, bridgeVars>>
AgentStep == part = "agent" /\ Agent!BridgeNext /\ UNCHANGED <<part, projectVars, updateVars, connectionVars, reviewVars, sessionVars>>

Next == ProjectsStep \/ UpdatesStep \/ ConnectionStep \/ ReviewStep \/ KnowledgeStep \/ SessionsStep \/ AgentStep

Spec == Init /\ [][Next]_vars

----------------------------------------------------------------------------------
(* Properties.  Each is one of a part, where that part is looked at.              *)

Of(p, property) == part = p => property

\* What each part holds, at every moment of it.
TypeOK ==
    /\ Of("projects", Projects!TypeOK)
    /\ Of("updates", Updates!UpdatesTypeOK)
    /\ Of("connection", Connection!ConnectionsTypeOK)
    /\ Of("review", Review!ReviewTypeOK)
    /\ Of("knowledge", Knowledge!KnowledgeTypeOK)
    /\ Of("sessions", Sessions!SessionsTypeOK)
    /\ Of("agent", Agent!KnowledgeTypeOK /\ Agent!BridgeTypeOK)

\* Whatever file operation fails or death comes between two renames of the start,
\* the next start is able to go on, a registry that cannot be read has one of the
\* known causes, and the Project Brain of a checkout is never in neither place, and
\* never replaced by another (desktop_project_migration.rs, initialize;
\* write_registry; ensureDesktopProjectBrainStorage).
StartConverges ==
    Of("projects", Projects!StartConverges /\ Projects!UnreadableHasCause /\ Projects!BrainNeverLost)

\* The project that is active is registered, recorded as the last active one, and
\* has its Project Brain in place; and a worker's result lands only where its project
\* is still, or again, the session it was begun in (activate_at, detach_at,
\* persistence_scope_matches_runtime).
ActiveIsRecorded == Of("projects", Projects!ActiveIsRecorded /\ Projects!LandsOnlyIfCurrent)

\* A document whose sequence is committed has its blocks and its notices in force until
\* a later one says otherwise, what it blocks is neither offered nor downloaded, and no
\* document follows a later one, unless a store was lost in a replacement
\* (operator_broadcast_pipeline.rs, updater.rs).
DocumentsTakeEffect ==
    Of("updates", Updates!AcceptedTakesEffect /\ Updates!AcceptedIsLatest /\ Updates!BlockedIsNotTaken)

\* The window shows the notices of the store whatever order its reads are answered
\* in, and the center keeps what the user was told and what the user marked
\* (operator-live-notice.ts, notification_center.rs).
NoticesAreKept == Of("updates", Updates!ShownIsCurrent /\ Updates!CenterKeepsRecords)

\* A session is one its project's stored choice asks for, and the choice is the
\* user's last (connection-intent.ts, desktop-connector-host.ts).
ChoiceIsKept == Of("connection", Connection!SessionIsDesired /\ Connection!ChoiceStands)

\* What Codex told of a measurement is in the log of its project, once, and in no
\* other, whatever is switched, lost or killed in between (codex-usage.ts, store.ts).
UsageIsAttributed == Of("connection", Connection!UsageIsOfItsProject /\ Connection!MeasuredIsLogged)

\* What was seen of a project's sources stands beside those the user told, or a
\* worker or a mishap is to blame; and the window shows the sources of no project
\* but the active one (project_source_review_bridge.rs, project-source-review-bridge.ts).
ReviewIsOfItsProject ==
    Of("review", Review!ReviewFollowsSources /\ Review!RequestIsKept /\ Review!WindowShowsActive)

\* However the documents are edited and the projects switched while a command runs, no
\* content is protected that the user did not accept or ask for, and none is shown as
\* confirmed that is not, but for one that came between a check and a read
\* (desktop-project-knowledge.ts, project_knowledge_bridge.rs, main.ts).
KnowledgeIsConfirmed == Of("knowledge", Knowledge!ProtectedIsConfirmed /\ Knowledge!ShownIsConfirmed)

\* A session is bound to the project that the user decided, or its strongest evidence
\* agrees on; the decision outlives everything but a mishap in the middle of its
\* replacement; and no answer that was made of it tells, or stores, another, whatever
\* reconciliations share the temporary file (provider_session_reconciliation.rs,
\* provider-project-binding.ts).
SessionsFollowDecisions ==
    Of("sessions", Sessions!BindingsAgree /\ Sessions!DecisionsStand /\ Sessions!AnswersHonourDecisions)

\* An agent is told accepted documents, unless they changed and changed back meanwhile;
\* what it returns, however often, is processed once, and becomes a proposal only of
\* the very documents that it was told (mcp/server.ts, provider-return.ts,
\* semantic-maintenance.ts).  That is less than the documentation promises:
\* ContextIsPromised is false.
AgentsAreServed ==
    Of("agent", Agent!ToldIsAccepted /\ Agent!ObservedIsTold /\ Agent!ReturnedOnce /\ Agent!CandidateStands)
==================================================================================
