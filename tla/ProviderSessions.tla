----------------------------- MODULE ProviderSessions -----------------------------
(***************************************************************************)
(* Which project a session of an AI provider belongs to.                   *)
(*                                                                         *)
(* One session is looked at, of Codex, whose own catalog tells of it, or   *)
(* of a provider whose hooks do.  Every thirty seconds a thread of the     *)
(* Desktop binds it to a registered project by what was observed of it,    *)
(* and so does every refresh of the diagnostics window, on workers; each   *)
(* stores the bindings by the same two steps on the same temporary file.   *)
(* The user may decide for the session, on the main thread; the decisions  *)
(* are a file that is removed before its successor takes its place.        *)
(***************************************************************************)
EXTENDS Naturals, FiniteSets

CONSTANTS
    Scopes, NoScope,    \* projects
    Depth,              \* p |-> the length of its checkout's path
    Observed,           \* where sessions are seen, as the projects whose checkouts a place touches
    Refreshes,          \* reconciliations of the window under way
    MaxDeeds            \* bound on what the user and the providers do, failures of the main
                        \* thread's files and deaths of the process

\* Assumed by Desktop.
SessionsAssumption ==
    /\ IsFiniteSet(Scopes) /\ NoScope \notin Scopes
    /\ Scopes \cap {"automatic", "unassigned", "missing"} = {}
    /\ Depth \in [Scopes -> Nat] /\ Observed \subseteq SUBSET Scopes
    /\ "background" \notin Refreshes
    /\ MaxDeeds \in Nat

VARIABLES
    kind,           \* where the session is known from: Codex's catalog or hooks
    catalog,        \* what Codex tells of it
    spool,          \* what was observed of it, and whether every line can be read
    registered,     \* the registered projects that are available
    current,        \* the active project
    decisions,      \* what the file of decisions says of the session
    order,          \* the command of the main thread
    stored,         \* the file of bindings
    scratch,        \* its temporary file
    recons,         \* r |-> the reconciliation
    view,           \* what the window shows
    deeds,
    decided,        \* what the user last asked for and was told is done
    forgotten,      \* whether a mishap lost the decisions since
    strayed         \* whether another project was active than the user was shown

sessionFiles == <<spool, decisions, stored, scratch>>
sessionVars == <<kind, catalog, sessionFiles, registered, current, order, recons, view,
                 deeds, decided, forgotten, strayed>>

Runs == Refreshes \cup {"background"}

Places == SUBSET Scopes
Catalogs == [cwd : Places, provider : Places, workspace : Places]
Observations == [seen : SUBSET Places, sound : BOOLEAN]
Verdicts == Scopes \cup {"automatic", "unassigned"}
Attributions ==
    {"unlisted", "manual", "user-unassigned", "manual-project-unavailable",
     "provider-context", "provider-context-conflict", "provider-workspace",
     "provider-workspace-conflict", "provider-project", "provider-project-conflict",
     "cwd", "mixed-projects", "unattributed"}
Bindings == [project : Scopes \cup {NoScope}, why : Attributions]
\* fresh: the decisions it was made of are those in force.
Answers == [state : {"none", "ready", "unavailable"}, binding : Bindings, fresh : BOOLEAN]

Binding(p, why) == [project |-> p, why |-> why]
Unlisted == Binding(NoScope, "unlisted")
NoAnswer == [state |-> "none", binding |-> Unlisted, fresh |-> FALSE]
Unavailable == [NoAnswer EXCEPT !.state = "unavailable"]
Ready(b, fresh) == [state |-> "ready", binding |-> b, fresh |-> fresh]

Resting == [step |-> "idle", answer |-> NoAnswer]
NoOrder == [step |-> "idle", action |-> "none", shown |-> NoScope, verdict |-> "automatic"]
\* knows: the active project, as the window heard.
Closed(p) == [knows |-> p, project |-> NoScope, answer |-> NoAnswer]

RunSteps == {"idle", "answered", "written", "clear", "done"}
Actions == {"assign", "remove-manual", "block-auto", "allow-auto"}

SessionsTypeOK ==
    /\ kind \in {"codex", "hooks"}
    /\ catalog \in Catalogs
    /\ spool \in Observations
    /\ registered \subseteq Scopes /\ current \in Scopes
    /\ decisions \in Verdicts \cup {"missing"}
    /\ order \in [step : {"idle", "asked", "drafted", "removed"},
                  action : Actions \cup {"none"}, shown : Scopes \cup {NoScope}, verdict : Verdicts]
    /\ stored \in Answers /\ scratch \in Answers
    /\ \A r \in Runs :
        /\ recons[r].step \in RunSteps
        /\ recons[r].answer \in Answers
    /\ view \in [knows : Scopes, project : Scopes \cup {NoScope}, answer : Answers]
    /\ deeds \in 0..MaxDeeds
    /\ decided \in Verdicts /\ forgotten \in BOOLEAN /\ strayed \in BOOLEAN

-----------------------------------------------------------------------------------
(* Binding a session to a project.                                                *)

\* Of the checkouts that a directory is in, the one with the longest path.
Deepest(ps) == {p \in ps : \A q \in ps : Depth[q] <= Depth[p]}

The(ps) == CHOOSE p \in ps : TRUE

CwdBinding(cwd, of) ==
    LET nearest == Deepest(cwd \cap of)
    IN IF Cardinality(nearest) = 1 THEN Binding(The(nearest), "cwd") ELSE Binding(NoScope, "unattributed")

\* Evidence that touches one project binds to it, and that touches several to none.
Override(b, ps, why, conflict) ==
    CASE ps = {} -> b
      [] Cardinality(ps) = 1 -> Binding(The(ps), why)
      [] OTHER -> Binding(NoScope, conflict)

ByContext(b) == b.why \in {"provider-context", "provider-context-conflict"}

ProviderProjectBinding(b, roots, of) ==
    IF ByContext(b) THEN b
    ELSE Override(b, roots \cap of, "provider-project", "provider-project-conflict")

WorkspaceBinding(b, roots, of) ==
    IF ByContext(b) THEN b
    ELSE Override(b, roots \cap of, "provider-workspace", "provider-workspace-conflict")

ContextBinding(b, seen, of) ==
    Override(b, (UNION seen) \cap of, "provider-context", "provider-context-conflict")

\* A decision for a project that is not there is passed over.
BugManualBinding(b, verdict, of) ==
    CASE verdict = "unassigned" -> Binding(NoScope, "user-unassigned")
      [] verdict \in of -> Binding(verdict, "manual")
      [] OTHER -> b

ManualBinding(b, verdict, of) ==
    CASE verdict = "automatic" -> b
      [] verdict = "unassigned" -> Binding(NoScope, "user-unassigned")
      [] verdict \in of -> Binding(verdict, "manual")
      [] OTHER -> Binding(NoScope, "manual-project-unavailable")

\* What Codex knows is overridden by what is known of it, the user's word last.
CodexBinding(c, seen, verdict, of) ==
    LET byCwd == CwdBinding(c.cwd, of)
        byProject == ProviderProjectBinding(byCwd, c.provider, of)
        byWorkspace == WorkspaceBinding(byProject, c.workspace, of)
    IN ManualBinding(ContextBinding(byWorkspace, seen, of), verdict, of)

\* Every event of a session has to be in the same project.
HookEvents(seen, of) ==
    LET nearest == {Deepest(place \cap of) : place \in seen}
        matched == UNION {ps \in nearest : Cardinality(ps) = 1}
    IN IF Cardinality(matched) = 1 /\ \A ps \in nearest : Cardinality(ps) = 1
       THEN Binding(The(matched), "cwd")
       ELSE Binding(NoScope, IF Cardinality(matched) > 1 THEN "mixed-projects" ELSE "unattributed")

HookBinding(seen, verdict, of) == ManualBinding(HookEvents(seen, of), verdict, of)

-----------------------------------------------------------------------------------
(* Reconciliations.                                                               *)

SetRun(r, run) == recons' = [recons EXCEPT ![r] = run]
StepRun(r, step) == SetRun(r, [recons[r] EXCEPT !.step = step])
\* Nobody waits for what the background thread answers.
Tell(r, a) == SetRun(r, IF r = "background" THEN Resting ELSE [step |-> "done", answer |-> a])

\* A missing file is one without decisions.
ReadDecisions == IF decisions = "missing" THEN "automatic" ELSE decisions

CodexAnswer ==
    IF registered = {} THEN Unlisted
    ELSE CodexBinding(catalog, spool.seen, ReadDecisions, registered)

HookAnswer ==
    IF spool.seen = {} THEN Unlisted ELSE HookBinding(spool.seen, ReadDecisions, registered)

Sought == IF kind = "codex" THEN CodexAnswer ELSE HookAnswer

\* The registered projects, what was observed and the decisions are read and the binding
\* made of them.  (What comes between these reads and the answer finds nothing else than
\* what comes right after it.)  An answer without the session is not stored.
Reconcile(r) ==
    /\ recons[r].step = "idle" /\ spool.sound
    /\ LET a == Ready(Sought, order.step # "removed" /\ ~forgotten)
       IN IF Sought = Unlisted THEN Tell(r, a) ELSE SetRun(r, [step |-> "answered", answer |-> a])
    /\ UNCHANGED <<kind, catalog, sessionFiles, registered, current, order, view, deeds,
                   decided, forgotten, strayed>>

BackgroundReconciles == Reconcile("background")

\* With the diagnostics of a project, after a command, or every fifteen seconds.
WindowRefreshes(r) == Reconcile(r)

\* Codex is not there, or does not answer.
CodexUnavailable(r) ==
    /\ kind = "codex" /\ recons[r].step = "idle" /\ spool.sound /\ registered # {}
    /\ Tell(r, Unavailable)
    /\ UNCHANGED <<kind, catalog, sessionFiles, registered, current, order, view, deeds,
                   decided, forgotten, strayed>>

WriteScratch(r) ==
    /\ recons[r].step = "answered"
    /\ scratch' = recons[r].answer
    /\ StepRun(r, "written")
    /\ UNCHANGED <<kind, catalog, spool, decisions, stored, registered, current, order, view,
                   deeds, decided, forgotten, strayed>>

RemoveStored(r) ==
    /\ recons[r].step = "written"
    /\ stored' = NoAnswer
    /\ StepRun(r, "clear")
    /\ UNCHANGED <<kind, catalog, spool, decisions, scratch, registered, current, order, view,
                   deeds, decided, forgotten, strayed>>

\* Another reconciliation may have renamed the file, or this one rename the other's.
RenameScratch(r) ==
    /\ recons[r].step = "clear"
    /\ IF scratch = NoAnswer
       THEN SetRun(r, Resting) /\ UNCHANGED <<stored, scratch>>
       ELSE /\ Tell(r, recons[r].answer)
            /\ stored' = scratch /\ scratch' = NoAnswer
    /\ UNCHANGED <<kind, catalog, spool, decisions, registered, current, order, view,
                   deeds, decided, forgotten, strayed>>

\* The process that answers fails, or a file cannot be replaced, another reconciliation
\* having removed it since.  The window keeps what it had.
ReconcileFails(r) ==
    /\ recons[r].step \in {"answered", "written", "clear"}
    /\ SetRun(r, Resting)
    /\ UNCHANGED <<kind, catalog, sessionFiles, registered, current, order, view, deeds,
                   decided, forgotten, strayed>>

\* The window takes the answer whatever it came after.
Deliver(r) ==
    /\ recons[r].step = "done"
    /\ view' = [view EXCEPT !.answer = recons[r].answer]
    /\ SetRun(r, Resting)
    /\ UNCHANGED <<kind, catalog, sessionFiles, registered, current, order, deeds,
                   decided, forgotten, strayed>>

\* The diagnostics that the window loads are of the project that was active when they
\* were made; it takes none that it asked for before it heard of an activation.
WindowLoads ==
    /\ \E p \in {view.knows, current} : view' = [view EXCEPT !.project = p]
    /\ UNCHANGED <<kind, catalog, sessionFiles, registered, current, order, recons, deeds,
                   decided, forgotten, strayed>>

-----------------------------------------------------------------------------------
(* The user's decisions, on the main thread.                                      *)

\* What a row of the window offers.
Offered(b, p) ==
    LET primary == CASE b.project = p /\ b.why = "manual" -> {"remove-manual"}
                     [] b.project = p /\ b.why # "manual" -> {"block-auto"}
                     [] OTHER -> {"assign"}
        secondary == CASE b.why = "user-unassigned" -> {"allow-auto"}
                       [] b.project \notin {p, NoScope} /\ b.why = "manual" -> {"remove-manual"}
                       [] b.project \notin {p, NoScope} /\ b.why # "manual" -> {"block-auto"}
                       [] OTHER -> {}
    IN primary \cup secondary

Click(action) ==
    /\ order.step = "idle" /\ deeds < MaxDeeds
    /\ view.project # NoScope /\ view.answer.state = "ready" /\ view.answer.binding # Unlisted
    /\ action \in Offered(view.answer.binding, view.project)
    /\ order' = [NoOrder EXCEPT !.step = "asked", !.action = action, !.shown = view.project]
    /\ deeds' = deeds + 1
    /\ UNCHANGED <<kind, catalog, sessionFiles, registered, current, recons, view,
                   decided, forgotten, strayed>>

\* What the user asked for, of the project that was shown.
Meant == CASE order.action = "assign" -> order.shown
           [] order.action = "block-auto" -> "unassigned"
           [] OTHER -> "automatic"

\* No answer was made of the decisions that are in force from now on.
Aged(a) == [a EXCEPT !.fresh = FALSE]
AgeAll ==
    /\ recons' = [r \in Runs |-> [recons[r] EXCEPT !.answer = Aged(@)]]
    /\ view' = [view EXCEPT !.answer = Aged(@)]
    /\ stored' = Aged(stored) /\ scratch' = Aged(scratch)

\* The decisions are read, and written to a temporary file with the session's replaced.
Replaces(verdict) ==
    /\ order' = [order EXCEPT !.step = "drafted", !.verdict = verdict]
    /\ UNCHANGED decided

\* The session is assigned to the project that is active now.
AssignToActive ==
    /\ order.step = "asked" /\ order.action = "assign"
    /\ Replaces(current)
    /\ UNCHANGED <<kind, catalog, sessionFiles, registered, current, recons, view, deeds,
                   forgotten, strayed>>

BlockAutomatic ==
    /\ order.step = "asked" /\ order.action = "block-auto"
    /\ Replaces("unassigned")
    /\ UNCHANGED <<kind, catalog, sessionFiles, registered, current, recons, view, deeds,
                   forgotten, strayed>>

\* Without a decision there is nothing to clear.
ClearDecision ==
    /\ order.step = "asked" /\ order.action \in {"remove-manual", "allow-auto"}
    /\ IF ReadDecisions # "automatic" THEN Replaces("automatic")
       ELSE order' = NoOrder /\ decided' = "automatic"
    /\ UNCHANGED <<kind, catalog, sessionFiles, registered, current, recons, view, deeds,
                   forgotten, strayed>>

RemoveDecisions ==
    /\ order.step = "drafted"
    /\ decisions' = "missing"
    /\ order' = [order EXCEPT !.step = "removed"]
    /\ UNCHANGED <<kind, catalog, spool, stored, scratch, registered, current, recons, view,
                   deeds, decided, forgotten, strayed>>

CommitDecisions ==
    /\ order.step = "removed"
    /\ decisions' = order.verdict
    /\ decided' = Meant
    /\ forgotten' = FALSE
    /\ strayed' = (order.action = "assign" /\ order.verdict # order.shown)
    /\ AgeAll
    /\ order' = NoOrder
    /\ UNCHANGED <<kind, catalog, spool, registered, current, deeds>>

\* A failure before the removal leaves the decisions as they were; after it there are none.
DecisionFails ==
    /\ order.step # "idle" /\ deeds < MaxDeeds
    /\ deeds' = deeds + 1
    /\ IF order.step = "removed" THEN forgotten' = TRUE /\ AgeAll
       ELSE UNCHANGED <<forgotten, recons, view, stored, scratch>>
    /\ order' = NoOrder
    /\ UNCHANGED <<kind, catalog, spool, decisions, registered, current, decided, strayed>>

-----------------------------------------------------------------------------------
(* The world of a session.                                                        *)

Observe(place) ==
    /\ place \notin spool.seen /\ deeds < MaxDeeds
    /\ spool' = [spool EXCEPT !.seen = @ \cup {place}]
    /\ deeds' = deeds + 1
    /\ UNCHANGED <<kind, catalog, decisions, stored, scratch, registered, current, order, recons,
                   view, decided, forgotten, strayed>>

\* Codex asks for the context of a project, and tells the thread that asks.
ObserveContext(place) == kind = "codex" /\ Observe(place)

\* A provider calls the hook that was configured for it.
ObserveHook(place) == kind = "hooks" /\ Observe(place)

\* A line is cut short, or the file grows past what is read.
Spoil ==
    /\ spool.sound /\ deeds < MaxDeeds
    /\ spool' = [spool EXCEPT !.sound = FALSE]
    /\ deeds' = deeds + 1
    /\ UNCHANGED <<kind, catalog, decisions, stored, scratch, registered, current, order, recons,
                   view, decided, forgotten, strayed>>

\* The checkout of a project that is not active is gone, or back.
RegisterOrDrop(p) ==
    /\ p # current /\ deeds < MaxDeeds
    /\ registered' = IF p \in registered THEN registered \ {p} ELSE registered \cup {p}
    /\ deeds' = deeds + 1
    /\ UNCHANGED <<kind, catalog, sessionFiles, current, order, recons, view,
                   decided, forgotten, strayed>>

ActivateScope(p) ==
    /\ p \in registered \ {current} /\ deeds < MaxDeeds
    /\ current' = p
    /\ deeds' = deeds + 1
    /\ UNCHANGED <<kind, catalog, sessionFiles, registered, order, recons, view,
                   decided, forgotten, strayed>>

\* The window forgets what it shows.
HearOfActivation ==
    /\ view.knows # current
    /\ view' = Closed(current)
    /\ UNCHANGED <<kind, catalog, sessionFiles, registered, current, order, recons, deeds,
                   decided, forgotten, strayed>>

\* The temporary files are named by the process: the next one does not find them.
Death ==
    /\ deeds < MaxDeeds
    /\ deeds' = deeds + 1
    /\ forgotten' = (forgotten \/ order.step = "removed")
    /\ stored' = IF order.step = "removed" THEN Aged(stored) ELSE stored
    /\ order' = NoOrder /\ scratch' = NoAnswer /\ view' = Closed(current)
    /\ recons' = [r \in Runs |-> Resting]
    /\ UNCHANGED <<kind, catalog, spool, decisions, registered, current, decided, strayed>>

SessionsInit ==
    /\ kind \in {"codex", "hooks"}
    /\ catalog \in Catalogs
    /\ spool \in {o \in Observations : Cardinality(o.seen) <= 1 /\ o.sound}
    /\ registered = Scopes /\ current \in Scopes
    /\ decisions \in Verdicts \cup {"missing"} /\ decided = ReadDecisions /\ order = NoOrder
    /\ stored = NoAnswer /\ scratch = NoAnswer
    /\ recons = [r \in Runs |-> Resting] /\ view = Closed(current)
    /\ deeds = 0 /\ forgotten = FALSE /\ strayed = FALSE

SessionsNext ==
    \/ BackgroundReconciles \/ WindowLoads
    \/ \E r \in Refreshes : WindowRefreshes(r) \/ CodexUnavailable(r) \/ Deliver(r)
    \/ \E r \in Runs : WriteScratch(r) \/ RemoveStored(r) \/ RenameScratch(r) \/ ReconcileFails(r)
    \/ \E action \in Actions : Click(action)
    \/ AssignToActive \/ BlockAutomatic \/ ClearDecision
    \/ RemoveDecisions \/ CommitDecisions \/ DecisionFails
    \/ \E place \in Observed : ObserveContext(place) \/ ObserveHook(place)
    \/ Spoil
    \/ \E p \in Scopes : RegisterOrDrop(p) \/ ActivateScope(p)
    \/ HearOfActivation \/ Death

-----------------------------------------------------------------------------------
(* Properties, as conjuncts of Desktop's.                                         *)

\* The strongest evidence that touches a registered project decides alone: what the
\* session itself asked for, then where Codex runs it, then Codex's project; only where
\* none touches one, the nearest checkout around its directory.
Evidence(c, seen, of) ==
    LET told == <<(UNION seen) \cap of, c.workspace \cap of, c.provider \cap of>>
        strong == {i \in 1..3 : told[i] # {}}
    IN IF strong = {} THEN Deepest(c.cwd \cap of)
       ELSE told[CHOOSE i \in strong : \A j \in strong : i <= j]

Alone(ps) == IF Cardinality(ps) = 1 THEN The(ps) ELSE NoScope

Decided(verdict, of, attributed) ==
    CASE verdict = "automatic" -> attributed
      [] verdict \in of -> verdict
      [] OTHER -> NoScope

\* A session is bound to the project that the user decided, where it is registered, and
\* otherwise to the one that its evidence agrees on: Codex's by the strongest, that of
\* hooks by every event (codex-thread-reconciliation-cli.ts,
\* provider-hook-reconciliation-cli.ts).
BindingsAgree ==
    \A of \in SUBSET Scopes, seen \in SUBSET Places, verdict \in Verdicts :
        /\ \A c \in Catalogs :
            CodexBinding(c, seen, verdict, of).project =
                Decided(verdict, of, Alone(Evidence(c, seen, of)))
        /\ seen # {} =>
            HookBinding(seen, verdict, of).project =
                Decided(verdict, of, Alone({p \in of : \A place \in seen : Deepest(place \cap of) = {p}}))

\* The decisions are the user's last, but while they are replaced, or a mishap fell in
\* between, or the project the user was shown was no longer the active one
\* (write_manual_decisions, assign_provider_session_to_active_project).
DecisionsStand ==
    order.step # "removed" /\ ~forgotten /\ ~strayed => ReadDecisions = decided

\* No reconciliation whose decisions are those in force tells, or has stored, anything
\* that goes against them: whatever it was overtaken by, and whoever renamed its file.
Honours(a) ==
    a.fresh /\ a.state = "ready" /\ a.binding # Unlisted /\ ~strayed =>
        CASE decided = "automatic" -> a.binding.why \notin {"manual", "user-unassigned"}
          [] decided = "unassigned" -> a.binding.project = NoScope
          [] OTHER -> a.binding.project \in {decided, NoScope}
AnswersHonourDecisions ==
    /\ \A a \in {view.answer, stored} : Honours(a)
    /\ stored = NoAnswer \/ (stored.state = "ready" /\ stored.binding # Unlisted)
===================================================================================
