---------------------------- MODULE ProjectKnowledge ----------------------------
(***************************************************************************)
(* What the window shows of a project's Project Brain as confirmed, and    *)
(* how the user confirms it.                                               *)
(*                                                                         *)
(* A content of the documents is trusted where a local receipt is of it    *)
(* and a proof that an elevated process protects: a baseline that the user *)
(* accepted, or a completed change that the user was shown.  Each command  *)
(* runs a process for a project and compares the active project before and *)
(* after; the process reads the documents more than once, and anything may *)
(* edit them in between.  A digest is of a project and of a content.       *)
(***************************************************************************)
EXTENDS Naturals, FiniteSets

CONSTANTS
    Scopes, NoScope,        \* projects
    Contents, NoContent,    \* contents of the managed documents
    Tasks, NoTask,          \* commands of the window under way
    MaxMoves                \* bound on what the user and others do

\* Assumed by Desktop.
KnowledgeAssumption ==
    NoScope \notin Scopes /\ NoContent \notin Contents /\ NoTask \notin Tasks /\ MaxMoves \in Nat

VARIABLES
    document,       \* p |-> the content of its documents
    receipt,        \* p |-> the content that the local receipt is of
    guarded,        \* p |-> contents with an Authority of a baseline
    proven,         \* p |-> contents with a completed change's consumed Authority
    tasks,          \* t |-> the command
    scope,          \* the active project and its generation
    desk,           \* the window
    moves,
    confirmed,      \* p |-> contents that the user accepted or asked for
    slipped         \* p |-> contents that came between a check and a read

brains == <<document, receipt, guarded, proven>>
knowledgeVars == <<brains, tasks, scope, desk, moves, confirmed, slipped>>

\* The digest or proposal that a command is about, and what it learnt by now.
Purposes == {"none", "refresh", "prepare", "apply", "activate", "confirm"}
Steps == {"over", "called", "read", "reading", "answered", "status", "told", "failed", "waiting",
          "building", "built", "applying", "authorizing", "replacing", "verifying", "recording",
          "inspecting", "applied", "accepting", "checked", "confirming", "uac", "completing",
          "accepted", "ask", "learnt"}
Statuses == {"none", "missing", "mismatch", "unprotected", "match"}
NoDigest == [project |-> NoScope, content |-> NoContent]
NoProposal == [project |-> NoScope, base |-> NoContent, post |-> NoContent]
NoAnswer == [project |-> NoScope, content |-> NoContent, status |-> "none"]
Over == [step |-> "over", purpose |-> "none", turn |-> 0, project |-> NoScope, checked |-> 0,
         digest |-> NoDigest, proposal |-> NoProposal, answer |-> NoAnswer, on |-> NoTask]
NewDesk(turn) ==
    [turn |-> turn, shown |-> NoDigest, late |-> FALSE, protection |-> NoAnswer,
     proposal |-> NoProposal, refreshing |-> NoTask, activating |-> FALSE]

Digests == [project : Scopes \cup {NoScope}, content : Contents \cup {NoContent}]
Answers == [project : Scopes \cup {NoScope}, content : Contents \cup {NoContent}, status : Statuses]

KnowledgeTypeOK ==
    /\ document \in [Scopes -> Contents] /\ receipt \in [Scopes -> Contents \cup {NoContent}]
    /\ {guarded, proven, confirmed, slipped} \subseteq [Scopes -> SUBSET Contents]
    /\ \A t \in Tasks :
        /\ tasks[t].step \in Steps /\ tasks[t].purpose \in Purposes
        /\ tasks[t].project \in Scopes \cup {NoScope}
        /\ {tasks[t].turn, tasks[t].checked} \subseteq 0..MaxMoves
        /\ tasks[t].digest \in Digests /\ tasks[t].answer \in Answers
        /\ tasks[t].on \in Tasks \cup {NoTask}
    /\ scope.project \in Scopes /\ {scope.turn, desk.turn} \subseteq 0..MaxMoves
    /\ desk.shown \in Digests /\ desk.protection \in Answers
    /\ desk.refreshing \in Tasks \cup {NoTask}
    /\ {desk.late, desk.activating} \subseteq BOOLEAN
    /\ moves \in 0..MaxMoves

\* A new project, whose documents were never accepted, and one that is protected.
KnowledgeInit ==
    \E c \in Contents, S \in {{}, Scopes}, p \in Scopes :
        /\ document = [q \in Scopes |-> c]
        /\ receipt = [q \in Scopes |-> IF q \in S THEN c ELSE NoContent]
        /\ guarded = [q \in Scopes |-> IF q \in S THEN {c} ELSE {}]
        /\ proven = [q \in Scopes |-> {}]
        /\ confirmed = guarded /\ slipped = proven
        /\ tasks = [t \in Tasks |-> Over]
        /\ scope = [project |-> p, turn |-> 0] /\ desk = NewDesk(0) /\ moves = 0

Moves == moves < MaxMoves /\ moves' = moves + 1

--------------------------------------------------------------------------------
(* Integrity.                                                               *)

\* inspectProjectBrainIntegrity matches.
Recorded(p) == receipt[p] = document[p]

\* A completed semantic change whose consumed Authority is of these documents.
SemanticProof(p) == document[p] \in proven[p]

Protected(p) == document[p] \in guarded[p] \/ SemanticProof(p)

Status(p) ==
    IF receipt[p] = NoContent THEN "missing"
    ELSE IF ~Recorded(p) THEN "mismatch"
    ELSE IF Protected(p) THEN "match" ELSE "unprotected"

\* runProtectedDoctor finds nothing.
Healthy(p) == Status(p) = "match"

\* recordAcceptedProjectBrainState: whatever the documents are by now.
Record(p) == receipt' = [receipt EXCEPT ![p] = document[p]]

--------------------------------------------------------------------------------
(* The active project, and the documents.                                   *)

\* Another program edits the documents, or checks out others.
Edit(p) ==
    /\ Moves
    /\ \E c \in Contents \ {document[p]} : document' = [document EXCEPT ![p] = c]
    /\ UNCHANGED <<receipt, guarded, proven, tasks, scope, desk, confirmed, slipped>>

ActivateKnown(p) ==
    /\ Moves
    /\ scope' = [project |-> p, turn |-> scope.turn + 1]
    /\ UNCHANGED <<brains, tasks, desk, confirmed, slipped>>

Refreshing(t, purpose) == [Over EXCEPT !.step = "read", !.purpose = purpose]

\* The window is told: it forgets what it showed and which refresh was under way,
\* and starts another if it shows the knowledge.
KnowledgeTold ==
    /\ desk.turn # scope.turn
    /\ \/ /\ desk' = NewDesk(scope.turn) /\ UNCHANGED tasks
       \/ \E t \in Tasks :
           /\ tasks[t] = Over
           /\ desk' = [NewDesk(scope.turn) EXCEPT !.refreshing = t]
           /\ tasks' = [tasks EXCEPT ![t] = Refreshing(t, "refresh")]
    /\ UNCHANGED <<brains, scope, moves, confirmed, slipped>>

--------------------------------------------------------------------------------
(* What the user asks for.                                                  *)

Goes(t, step) == tasks' = [tasks EXCEPT ![t].step = step]
Ends(t) == tasks' = [tasks EXCEPT ![t] = Over]

Ask(t, purpose, digest, proposal) ==
    /\ tasks[t] = Over /\ Moves
    /\ tasks' = [tasks EXCEPT ![t] =
           [Over EXCEPT !.step = "called", !.purpose = purpose, !.digest = digest, !.proposal = proposal]]

\* The view is opened, or its button pressed.
Open(t) ==
    /\ desk.refreshing = NoTask
    /\ tasks[t] = Over /\ Moves
    /\ tasks' = [tasks EXCEPT ![t] = Refreshing(t, "refresh")]
    /\ desk' = [desk EXCEPT !.refreshing = t]
    /\ UNCHANGED <<brains, scope, confirmed, slipped>>

\* A value is told for an area.
Prepare(t) == Ask(t, "prepare", NoDigest, NoProposal) /\ UNCHANGED <<brains, scope, desk, confirmed, slipped>>

\* The proposal that the user reviewed is accepted.
AcceptReview(t) ==
    LET q == desk.proposal IN
    /\ q # NoProposal
    /\ \A u \in Tasks : tasks[u].purpose # "apply"
    /\ Ask(t, "apply", NoDigest, q)
    /\ confirmed' = [confirmed EXCEPT ![q.project] = @ \cup {q.post}]
    /\ UNCHANGED <<brains, scope, desk, slipped>>

\* What the card of the protection offers, if there is one.
Offers(a) ==
    CASE a.status \in {"missing", "unprotected"} -> "activate"
      [] a.status = "mismatch" -> "confirm"
      [] OTHER -> "none"

\* The documents are accepted as they were shown: for the first time...
Confirm(t, purpose) ==
    LET a == desk.protection
        d == [project |-> a.project, content |-> a.content] IN
    /\ Ask(t, purpose, d, NoProposal)
    /\ confirmed' = [confirmed EXCEPT ![d.project] = @ \cup {d.content}]
    /\ UNCHANGED <<brains, scope, slipped>>

Activation(t) ==
    /\ Offers(desk.protection) = "activate" /\ ~desk.activating
    /\ Confirm(t, "activate")
    /\ desk' = [desk EXCEPT !.activating = TRUE]

\* ...or, changed by another, after a review of the change.
AcceptUnexpected(t) ==
    /\ Offers(desk.protection) = "confirm"
    /\ Confirm(t, "confirm")
    /\ UNCHANGED desk

\* The command takes the active project first.
Begins(t) ==
    LET next == [prepare |-> "building", apply |-> "applying", activate |-> "accepting", confirm |-> "accepting"] IN
    /\ tasks[t].step = "called"
    /\ tasks' = [tasks EXCEPT ![t].step = next[tasks[t].purpose], ![t].turn = scope.turn]
    /\ UNCHANGED <<brains, scope, desk, moves, confirmed, slipped>>

--------------------------------------------------------------------------------
(* How a command ends.                                                      *)

\* run_project_knowledge and its commands: the project is still the active one.
InTurn(t) == tasks[t].turn = scope.turn

\* refreshProjectKnowledge, which awaits the one under way.
Afterwards(t) ==
    IF desk.refreshing = NoTask
    THEN /\ tasks' = [tasks EXCEPT ![t] = Refreshing(t, tasks[t].purpose)]
         /\ desk' = [desk EXCEPT !.refreshing = t]
    ELSE /\ tasks' = [tasks EXCEPT ![t] =
                [Over EXCEPT !.step = "waiting", !.purpose = tasks[t].purpose, !.on = desk.refreshing]]
         /\ UNCHANGED desk

\* What the window does about an error, by what it asked for.
Fails(t) ==
    CASE tasks[t].purpose = "prepare" -> Ends(t) /\ UNCHANGED desk
      [] tasks[t].purpose = "activate" ->
             tasks' = [tasks EXCEPT ![t] = [Over EXCEPT !.step = "ask", !.purpose = "activate"]] /\ UNCHANGED desk
      [] OTHER -> Afterwards(t)

\* The last step of a command of the user's.
Done(t, d) ==
    /\ Ends(t)
    /\ desk' = IF tasks[t].purpose = "activate" THEN [d EXCEPT !.activating = FALSE] ELSE d

Waited(t) ==
    /\ tasks[t].step = "waiting"
    /\ tasks[tasks[t].on].step \notin {"read", "reading", "answered", "status", "told", "failed"}
    /\ Done(t, desk)
    /\ UNCHANGED <<brains, scope, moves, confirmed, slipped>>

--------------------------------------------------------------------------------
(* A refresh, and the status of the protection.                             *)

\* readDesktopProjectKnowledge; a timeout of ten seconds is an error too.
ReadStarts(t) ==
    LET p == scope.project IN
    /\ tasks[t].step = "read"
    /\ \/ /\ Status(p) = "match"
          /\ tasks' = [tasks EXCEPT ![t].step = "reading", ![t].project = p, ![t].turn = scope.turn]
       \/ Goes(t, "status")
    /\ UNCHANGED <<brains, scope, desk, moves, confirmed, slipped>>

\* localProjectKnowledgeSnapshot reads the documents again.
Takes(t, step) ==
    LET p == tasks[t].project IN
    /\ tasks' = [tasks EXCEPT ![t].step = step, ![t].checked = scope.turn,
                              ![t].answer = [project |-> p, content |-> document[p], status |-> "match"]]
    /\ slipped' = IF Status(p) = "match" THEN slipped ELSE [slipped EXCEPT ![p] = @ \cup {document[p]}]

Reads(t) ==
    /\ tasks[t].step = "reading"
    /\ IF InTurn(t) THEN Takes(t, "answered") ELSE Goes(t, "status") /\ UNCHANGED slipped
    /\ UNCHANGED <<brains, scope, desk, moves, confirmed>>

\* project_knowledge_protection_status, of the project that is active by now.
StatusRead(t) ==
    LET p == scope.project
        then == [status |-> "told", ask |-> "learnt"] IN
    /\ tasks[t].step \in DOMAIN then
    /\ \/ tasks' = [tasks EXCEPT ![t].step = then[tasks[t].step],
                                 ![t].answer = [project |-> p, content |-> document[p], status |-> Status(p)]]
       \/ /\ tasks[t].step = "status" /\ Goes(t, "failed")
       \/ /\ tasks[t].step = "ask" /\ tasks' = [tasks EXCEPT ![t].step = "learnt"]
    /\ UNCHANGED <<brains, scope, desk, moves, confirmed, slipped>>

Shows(a) == [project |-> a.project, content |-> a.content]

\* The window takes the answer, whatever it was told in between, and forgets which
\* refresh is under way, its own or a later one.
RefreshEnds(t) ==
    LET c == tasks[t]
        d == [desk EXCEPT !.refreshing = NoTask, !.proposal = NoProposal] IN
    /\ \/ /\ c.step = "answered"
          /\ Done(t, [d EXCEPT !.shown = Shows(c.answer), !.late = c.checked # desk.turn, !.protection = NoAnswer])
       \/ /\ c.step = "told"
          /\ Done(t, [d EXCEPT !.shown = NoDigest, !.protection = c.answer])
       \/ /\ c.step = "failed"
          /\ Done(t, [d EXCEPT !.shown = NoDigest, !.protection = NoAnswer])
    /\ UNCHANGED <<brains, scope, moves, confirmed, slipped>>

\* After a failed activation only the status is taken, if there is one.
Learns(t) ==
    /\ tasks[t].step = "learnt"
    /\ Done(t, IF tasks[t].answer = NoAnswer THEN desk ELSE [desk EXCEPT !.protection = tasks[t].answer])
    /\ UNCHANGED <<brains, scope, moves, confirmed, slipped>>

--------------------------------------------------------------------------------
(* A proposal.                                                              *)

\* buildSemanticProposal: of the documents captured, which are those of the receipt
\* before and are the same afterwards, any other may be made.
Proposals(p) ==
    IF Recorded(p) THEN [project : {p}, base : {document[p]}, post : Contents \ {document[p]}] ELSE {}

\* prepareDesktopProjectKnowledgeProposal, of documents that are protected.
Builds(t) ==
    LET p == scope.project IN
    /\ tasks[t].step = "building"
    /\ \/ /\ Healthy(p) /\ InTurn(t)
          /\ \E q \in Proposals(p) : tasks' = [tasks EXCEPT ![t].step = "built", ![t].proposal = q]
          /\ UNCHANGED desk
       \/ Fails(t)
    /\ UNCHANGED <<brains, scope, moves, confirmed, slipped>>

Prepared(t) ==
    /\ tasks[t].step = "built"
    /\ desk' = [desk EXCEPT !.proposal = tasks[t].proposal]
    /\ Ends(t)
    /\ UNCHANGED <<brains, scope, moves, confirmed, slipped>>

\* applyDesktopProjectKnowledgeProposal, in the project that is active when its
\* process starts.
ApplyStarts(t) ==
    LET p == scope.project IN
    /\ tasks[t].step = "applying"
    /\ \/ /\ Healthy(p)
          /\ tasks' = [tasks EXCEPT ![t].step = "authorizing", ![t].project = p]
          /\ UNCHANGED desk
       \/ Fails(t)
    /\ UNCHANGED <<brains, scope, moves, confirmed, slipped>>

\* The proposal is of this project and of what its documents still are.
OfDocuments(q, p) == q.project = p /\ q.base = document[p]

\* authorizeActionableProposal, issueSemanticGuardianAuthority, which the user may
\* decline, and the checks of the apply.
Authorizes(t) ==
    LET c == tasks[t] IN
    /\ c.step = "authorizing"
    /\ \/ /\ OfDocuments(c.proposal, c.project)
          /\ Goes(t, "replacing") /\ UNCHANGED desk
       \/ Fails(t)
    /\ UNCHANGED <<brains, scope, moves, confirmed, slipped>>

\* The document is renamed over what is there by now, and the result verified.
Replaces(t) ==
    LET c == tasks[t] IN
    /\ c.step = "replacing"
    /\ document' = [document EXCEPT ![c.project] = c.proposal.post]
    /\ Goes(t, "verifying")
    /\ UNCHANGED <<receipt, guarded, proven, scope, desk, moves, confirmed, slipped>>

Verifies(t) ==
    LET c == tasks[t] IN
    /\ c.step = "verifying"
    /\ IF document[c.project] = c.proposal.post
       THEN proven' = [proven EXCEPT ![c.project] = @ \cup {c.proposal.post}] /\ Goes(t, "recording") /\ UNCHANGED desk
       ELSE Fails(t) /\ UNCHANGED proven
    /\ UNCHANGED <<document, receipt, guarded, scope, moves, confirmed, slipped>>

Records(t) ==
    /\ tasks[t].step = "recording"
    /\ Record(tasks[t].project)
    /\ Goes(t, "inspecting")
    /\ UNCHANGED <<document, guarded, proven, scope, desk, moves, confirmed, slipped>>

\* The trusted state after it, read and compared with what was asked for.
Inspects(t) ==
    LET c == tasks[t] IN
    /\ c.step = "inspecting"
    /\ IF Status(c.project) = "match" /\ document[c.project] = c.proposal.post /\ InTurn(t)
       THEN Takes(t, "applied") /\ UNCHANGED desk
       ELSE Fails(t) /\ UNCHANGED slipped
    /\ UNCHANGED <<brains, scope, moves, confirmed>>

Applied(t) ==
    LET c == tasks[t] IN
    /\ c.step = "applied"
    /\ desk' = [desk EXCEPT !.shown = Shows(c.answer), !.late = c.checked # desk.turn, !.proposal = NoProposal]
    /\ Ends(t)
    /\ UNCHANGED <<brains, scope, moves, confirmed, slipped>>

--------------------------------------------------------------------------------
(* An acceptance.                                                           *)

\* assertDesktopProjectKnowledgeIntegrityAcceptancePreconditions: what is protected
\* already is not compared with what the user confirmed, yet.
Acceptable(p, digest) ==
    Status(p) = "match" \/ digest = [project |-> p, content |-> document[p]]

AcceptStarts(t) ==
    LET p == scope.project IN
    /\ tasks[t].step = "accepting"
    /\ \/ /\ Acceptable(p, tasks[t].digest)
          /\ tasks' = [tasks EXCEPT ![t].step = "checked", ![t].project = p]
          /\ UNCHANGED desk
       \/ Fails(t)
    /\ UNCHANGED <<brains, scope, moves, confirmed, slipped>>

AcceptRecords(t) ==
    /\ tasks[t].step = "checked"
    /\ Record(tasks[t].project)
    /\ Goes(t, "confirming")
    /\ UNCHANGED <<document, guarded, proven, scope, desk, moves, confirmed, slipped>>

\* Defect: the digest is not compared again after the receipt was written.
BugConfirmed(t) == Recorded(tasks[t].project)

\* The receipt is of the documents, and these are what the user confirmed.
Confirmed(t) ==
    LET p == tasks[t].project IN
    Recorded(p) /\ tasks[t].digest = [project |-> p, content |-> document[p]]

\* prepareDesktopProjectKnowledgeIntegrityAuthority makes the request, and the
\* command looks at the active project before it asks Windows.
Requests(t) ==
    LET p == tasks[t].project IN
    /\ tasks[t].step = "confirming"
    /\ IF Confirmed(t) /\ InTurn(t)
       THEN tasks' = [tasks EXCEPT ![t].step = "uac",
                                   ![t].answer = [project |-> p, content |-> document[p], status |-> "none"]]
            /\ UNCHANGED desk
       ELSE Fails(t)
    /\ UNCHANGED <<brains, scope, moves, confirmed, slipped>>

\* The elevated process issues the Authority, or the user cancels; a failure to
\* remove the request is an error though it is issued.
Issues(t) ==
    LET a == tasks[t].answer IN
    /\ tasks[t].step = "uac"
    /\ \/ /\ guarded' = [guarded EXCEPT ![a.project] = @ \cup {a.content}]
          /\ \/ Goes(t, "completing") /\ UNCHANGED desk
             \/ Fails(t)
       \/ UNCHANGED guarded /\ Fails(t)
    /\ UNCHANGED <<document, receipt, proven, scope, moves, confirmed, slipped>>

\* completeDesktopProjectKnowledgeIntegrityAuthority, in the project that is active
\* by now, looks for the Authority of the very request.
Completes(t) ==
    LET p == scope.project
        a == tasks[t].answer IN
    /\ tasks[t].step = "completing"
    /\ IF /\ InTurn(t)
          /\ Recorded(p) /\ tasks[t].digest = [project |-> p, content |-> document[p]]
          /\ p = a.project /\ a.content \in guarded[p]
          /\ Status(p) = "match"
       THEN tasks' = [tasks EXCEPT ![t].step = "accepted", ![t].answer.status = "match"] /\ UNCHANGED desk
       ELSE Fails(t)
    /\ UNCHANGED <<brains, scope, moves, confirmed, slipped>>

\* The status is taken, and the knowledge read again.
Accepted(t) ==
    LET d == [desk EXCEPT !.protection = tasks[t].answer] IN
    /\ tasks[t].step = "accepted"
    /\ IF desk.refreshing = NoTask
       THEN /\ tasks' = [tasks EXCEPT ![t] = Refreshing(t, tasks[t].purpose)]
            /\ desk' = [d EXCEPT !.refreshing = t]
       ELSE /\ tasks' = [tasks EXCEPT ![t] =
                    [Over EXCEPT !.step = "waiting", !.purpose = tasks[t].purpose, !.on = desk.refreshing]]
            /\ desk' = d
    /\ UNCHANGED <<brains, scope, moves, confirmed, slipped>>

--------------------------------------------------------------------------------

KnowledgeTask(t) ==
    \/ Open(t) \/ Prepare(t) \/ AcceptReview(t) \/ Activation(t) \/ AcceptUnexpected(t)
    \/ Begins(t) \/ Waited(t)
    \/ ReadStarts(t) \/ Reads(t) \/ StatusRead(t) \/ RefreshEnds(t) \/ Learns(t)
    \/ Builds(t) \/ Prepared(t) \/ ApplyStarts(t) \/ Authorizes(t) \/ Replaces(t)
    \/ Verifies(t) \/ Records(t) \/ Inspects(t) \/ Applied(t)
    \/ AcceptStarts(t) \/ AcceptRecords(t) \/ Requests(t) \/ Issues(t) \/ Completes(t) \/ Accepted(t)

KnowledgeNext ==
    \/ \E p \in Scopes : Edit(p) \/ ActivateKnown(p)
    \/ KnowledgeTold
    \/ \E t \in Tasks : KnowledgeTask(t)

KnowledgeSpec == KnowledgeInit /\ [][KnowledgeNext]_knowledgeVars

--------------------------------------------------------------------------------
(* Properties.                                                              *)

\* Whatever is edited in between, no content is protected that the user did not
\* accept or ask for.
ProtectedIsConfirmed == \A p \in Scopes : guarded[p] \cup proven[p] \subseteq confirmed[p]

\* What the window shows as confirmed is so, unless it came between the check and
\* the read; and it is the active project's, unless the answer came after the window
\* was told of another project and was made before.
ShownIsConfirmed ==
    LET p == desk.shown.project IN
    p # NoScope =>
        /\ desk.shown.content \in confirmed[p] \cup slipped[p]
        /\ (desk.turn = scope.turn /\ ~desk.late) => p = scope.project
================================================================================
