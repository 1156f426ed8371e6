------------------------------ MODULE SourceReview ------------------------------
(***************************************************************************)
(* The first run of a project and the review of its sources.               *)
(*                                                                         *)
(* Three files of a project: the request, what the user told of it; the    *)
(* input, its sources as projected from the request, with what was seen of *)
(* them and the paths to be reviewed; the presentation, made of an input.  *)
(* The main thread changes the request and projects it; workers observe    *)
(* the sources, record the selection of a review and make the              *)
(* presentation, each of an input read without the registry's mutex.  Only *)
(* a replacement has the mutex, and it is two renames: between them the    *)
(* file is missing, and stays so if the process dies.                      *)
(***************************************************************************)
EXTENDS Naturals, FiniteSets

CONSTANTS
    Scopes, NoScope,    \* projects
    Linked,             \* states of a project's repositories, of which the primary one has a checkout
    Paths,              \* what the inventory of a checkout offers for a review
    NoFile,             \* a missing file, a repository not linked, nothing observed
    Flows,              \* calls of the window under way
    MaxTurns,           \* bound on what the user does and on mishaps
    MaxMishaps          \* bound on failed renames and deaths of the process

VARIABLES
    request, input, presentation,    \* p |-> the file
    setup,          \* the transition that the main thread makes
    flow,           \* f |-> the call
    lock,           \* the replacement under way
    session,        \* the active project
    window,         \* the project the window knows of, and the one it shows sources of
    turns, mishaps,
    overtaken,      \* projects whose input a worker replaced by one made of an older one
    unfinished      \* projects that a mishap left with one file and not the other

reviewFiles == <<request, input, presentation>>
reviewVars == <<reviewFiles, setup, flow, lock, session, window, turns, mishaps, overtaken, unfinished>>

\* The repositories told, those of a primary one without a checkout among them.
Sources == Linked \cup {"unlinked"}
\* renamed: whether the project was given another name since its sources were told.
Requests == [named : BOOLEAN, renamed : BOOLEAN, sources : Sources \cup {NoFile}]
Inputs == [sources : Linked, observed : Linked \cup {NoFile}, selected : SUBSET Paths]
Presentations == [sources : Linked, observed : Linked \cup {NoFile}]

\* Assumed by Desktop.
ReviewAssumption ==
    /\ NoScope \notin Scopes /\ {NoFile, "unlinked"} \cap Linked = {}
    /\ NoFile \notin Requests \cup Inputs \cup Presentations
    /\ {"setup", "none"} \cap Flows = {}
    /\ MaxTurns \in Nat /\ MaxMishaps \in Nat

Unset == [named |-> FALSE, renamed |-> FALSE, sources |-> NoFile]
NoSetup == [step |-> "idle", next |-> Unset]
Unlocked == [by |-> "none", old |-> NoFile]

Awaiting == {"start", "observe", "refresh", "shown", "fallback"}
Replacing == {"selecting", "observing", "presenting"}
FlowSteps == {"over", "inventory"} \cup Awaiting \cup Replacing
NoFlow == [step |-> "over", asked |-> 0, project |-> NoScope, turn |-> 0,
           copy |-> NoFile, selected |-> {}]

ReviewTypeOK ==
    /\ request \in [Scopes -> Requests \cup {NoFile}]
    /\ input \in [Scopes -> Inputs \cup {NoFile}]
    /\ presentation \in [Scopes -> Presentations \cup {NoFile}]
    /\ setup.step \in {"idle", "input", "request"} /\ setup.next \in Requests
    /\ \A f \in Flows :
        /\ flow[f].step \in FlowSteps
        /\ flow[f].project \in Scopes \cup {NoScope}
        /\ flow[f].copy \in Inputs \cup {NoFile}
        /\ flow[f].selected \subseteq Paths
        /\ {flow[f].asked, flow[f].turn} \subseteq 0..MaxTurns
    /\ lock.by \in Flows \cup {"setup", "none"}
    /\ lock.old \in Requests \cup Inputs \cup Presentations \cup {NoFile}
    /\ session \in [project : Scopes, turn : 0..MaxTurns]
    /\ window \in [turn : 0..MaxTurns, shown : Scopes \cup {NoScope}]
    /\ turns \in 0..MaxTurns /\ mishaps \in 0..MaxMishaps
    /\ overtaken \subseteq Scopes /\ unfinished \subseteq Scopes

--------------------------------------------------------------------------------
(* What the user tells.                                                     *)

\* projectSourceReviewConfigurationFromFirstRun accepts it.
Ready(q) ==
    /\ q # NoFile
    /\ q.named /\ ~q.renamed
    /\ q.sources \in Linked

\* Defect: what was seen of the sources before is kept.
BugProjected(old, q) ==
    [sources |-> q.sources, observed |-> IF old = NoFile THEN NoFile ELSE old.observed, selected |-> {}]

\* configuration_value: a new input, of which nothing is observed.  The request's
\* selection, which the projection passes on, is always empty.
Projected(old, q) == [sources |-> q.sources, observed |-> NoFile, selected |-> {}]

\* The review's questions and their answers leave the project and its sources as they are.
Answered(q) == {q}

\* A project that sources were told of may get another name.
Named(q) ==
    {[q EXCEPT !.named = TRUE, !.renamed = r] :
        r \in IF q.named /\ q.sources # NoFile THEN BOOLEAN ELSE {FALSE}}

\* The sources are told of a project that has a name.
Linking(q) == {[q EXCEPT !.renamed = FALSE, !.sources = s] : s \in IF q.named THEN Sources ELSE {}}

\* A repository, once there, changes, and does not lose its checkout any more.
Relinked(q) ==
    {[q EXCEPT !.sources = s] : s \in IF q.sources = NoFile THEN {}
                                     ELSE IF q.sources = "unlinked" THEN Sources ELSE Linked}

\* What the state q may become.
Told(q) == Answered(q) \cup Named(q) \cup Linking(q) \cup Relinked(q)

\* Initially a project was not told of, or is set up with the given checkout.
ReviewInit ==
    /\ \E S \in {{}, Scopes}, s \in Linked :
        /\ request = [p \in Scopes |->
               IF p \in S THEN [named |-> TRUE, renamed |-> FALSE, sources |-> s] ELSE NoFile]
        /\ input = [p \in Scopes |->
               IF p \in S THEN [sources |-> s, observed |-> NoFile, selected |-> {}] ELSE NoFile]
    /\ presentation = [p \in Scopes |-> NoFile]
    /\ setup = NoSetup /\ flow = [f \in Flows |-> NoFlow] /\ lock = Unlocked
    /\ \E p \in Scopes :
        /\ session = [project |-> p, turn |-> 0]
        /\ window = [turn |-> 0, shown |-> IF input[p] = NoFile THEN NoScope ELSE p]
    /\ turns = 0 /\ mishaps = 0 /\ overtaken = {} /\ unfinished = {}

UserDoes == turns + mishaps < MaxTurns /\ turns' = turns + 1

Idle == setup.step = "idle"
Free == lock = Unlocked

\* run_lifecycle_runtime: the request that is there, or a new one, changes.
Tell ==
    LET q == request[session.project] IN
    /\ Idle /\ UserDoes
    /\ \E next \in Told(IF q = NoFile THEN Unset ELSE q) :
        setup' = [step |-> IF Ready(next) THEN "input" ELSE "request", next |-> next]
    /\ UNCHANGED <<reviewFiles, flow, lock, session, window, mishaps, overtaken, unfinished>>

\* persist_first_run_project_state_for_scope writes the input first, then the
\* request; persist_progress_only, the request alone.
SetupLocks ==
    LET p == session.project IN
    /\ Free
    /\ \/ /\ setup.step = "input"
          /\ lock' = [by |-> "setup", old |-> input[p]]
          /\ input' = [input EXCEPT ![p] = NoFile] /\ UNCHANGED request
       \/ /\ setup.step = "request"
          /\ lock' = [by |-> "setup", old |-> request[p]]
          /\ request' = [request EXCEPT ![p] = NoFile] /\ UNCHANGED input
    /\ UNCHANGED <<presentation, setup, flow, session, window, turns, mishaps, overtaken, unfinished>>

SetupCommits ==
    LET p == session.project IN
    /\ lock.by = "setup"
    /\ lock' = Unlocked
    /\ \/ /\ setup.step = "input"
          /\ input' = [input EXCEPT ![p] = Projected(lock.old, setup.next)]
          /\ setup' = [setup EXCEPT !.step = "request"]
          /\ overtaken' = overtaken \ {p}
          /\ UNCHANGED <<request, unfinished>>
       \/ /\ setup.step = "request"
          /\ request' = [request EXCEPT ![p] = setup.next]
          /\ setup' = NoSetup
          /\ unfinished' = IF Ready(setup.next) THEN unfinished \ {p} ELSE unfinished
          /\ UNCHANGED <<input, overtaken>>
    /\ UNCHANGED <<presentation, flow, session, window, turns, mishaps>>

--------------------------------------------------------------------------------
(* The active project.                                                      *)

\* desktop_project_activate, a command of the main thread...
ActivateReviewed(p) ==
    /\ Idle /\ Free
    /\ UserDoes
    /\ session' = [project |-> p, turn |-> session.turn + 1]
    /\ UNCHANGED <<reviewFiles, setup, flow, lock, window, mishaps, overtaken, unfinished>>

\* ...of which the window is told afterwards: onDesktopProjectActivated.
ActivationTold ==
    /\ window.turn # session.turn
    /\ window' = [turn |-> session.turn, shown |-> NoScope]
    /\ UNCHANGED <<reviewFiles, setup, flow, lock, session, turns, mishaps, overtaken, unfinished>>

--------------------------------------------------------------------------------
(* The calls of the window.                                                 *)

End(f) == flow' = [flow EXCEPT ![f] = NoFlow]

\* The generation of the window that a call was made in.
Current(f) == flow[f].asked = window.turn

Show(p) == window' = [window EXCEPT !.shown = p]

\* An error: a window of the same project shows nothing, unless it was the start's.
EndIn(f, error) ==
    /\ End(f)
    /\ IF error /\ Current(f) /\ flow[f].step \notin {"start", "inventory", "selecting"}
       THEN Show(NoScope) ELSE UNCHANGED window

Call(f, step, chosen) ==
    /\ flow[f].step = "over" /\ UserDoes
    /\ flow' = [flow EXCEPT ![f] = [NoFlow EXCEPT !.step = step, !.asked = window.turn, !.selected = chosen]]
    /\ UNCHANGED <<reviewFiles, setup, lock, session, window, mishaps, overtaken, unfinished>>

\* startProjectSourceReview, with the paths the user chose.
StartReview(f) == window.shown # NoScope /\ \E S \in (SUBSET Paths) \ {{}} : Call(f, "start", S)

\* loadProjectSourceReviewPresentation: what the main thread reads for the project
\* that is active by now...
LoadPresentation(f) ==
    /\ Idle
    /\ flow[f].step = "over" /\ UserDoes
    /\ flow' = [flow EXCEPT ![f] = [NoFlow EXCEPT
           !.step = IF presentation[session.project] # NoFile THEN "shown" ELSE "fallback",
           !.asked = window.turn, !.project = session.project]]
    /\ UNCHANGED <<reviewFiles, setup, lock, session, window, mishaps, overtaken, unfinished>>

\* ...is shown; without a presentation, what the request tells of the sources.
Loaded(f) ==
    /\ \/ /\ flow[f].step = "shown"
          /\ IF Current(f) THEN Show(flow[f].project) ELSE UNCHANGED window
          /\ End(f)
       \/ /\ flow[f].step = "fallback"
          /\ IF Current(f)
             THEN LET q == request[session.project] IN
                  /\ Idle
                  /\ Show(NoScope)
                  /\ IF q # NoFile /\ q.sources # NoFile
                     THEN flow' = [flow EXCEPT ![f].step = "shown", ![f].project = session.project]
                     ELSE End(f)
             ELSE End(f) /\ UNCHANGED window
    /\ UNCHANGED <<reviewFiles, setup, lock, session, turns, mishaps, overtaken, unfinished>>

\* A worker takes its scope and reads the input: start_project_source_review,
\* observe_project_sources, refresh_project_source_review_presentation.
WorkerReads(f) ==
    LET p == session.project
        next == [start |-> "inventory", observe |-> "observing", refresh |-> "presenting"] IN
    /\ Free
    /\ flow[f].step \in DOMAIN next
    /\ IF input[p] = NoFile THEN EndIn(f, TRUE)
       ELSE /\ flow' = [flow EXCEPT ![f].step = next[flow[f].step], ![f].project = p,
                                    ![f].turn = session.turn, ![f].copy = input[p]]
            /\ UNCHANGED window
    /\ UNCHANGED <<reviewFiles, setup, lock, session, turns, mishaps, overtaken, unfinished>>

InScope(f) == flow[f].project = session.project /\ flow[f].turn = session.turn

\* The inventory is taken again, offers the paths chosen or not, and the input is
\* compared with what it was before: start_project_source_review_blocking.
Inventory(f) ==
    /\ flow[f].step = "inventory"
    /\ \/ /\ input[flow[f].project] = flow[f].copy /\ InScope(f)
          /\ flow' = [flow EXCEPT ![f].step = "selecting"]
       \/ End(f)
    /\ UNCHANGED <<reviewFiles, setup, lock, session, window, turns, mishaps, overtaken, unfinished>>

\* A program that a worker runs fails: Git, or Core.
ProgramFails(f) ==
    /\ flow[f].step \in {"observing", "presenting"} /\ lock.by # f
    /\ EndIn(f, TRUE)
    /\ UNCHANGED <<reviewFiles, setup, lock, session, turns, mishaps, overtaken, unfinished>>

\* with_project_persistence_scope_current, and the first rename.
WorkerLocks(f) ==
    LET p == flow[f].project IN
    /\ Free
    /\ flow[f].step \in Replacing
    /\ IF ~InScope(f) THEN EndIn(f, TRUE) /\ UNCHANGED <<lock, input, presentation, overtaken>>
       ELSE /\ IF flow[f].step = "presenting"
               THEN /\ lock' = [by |-> f, old |-> presentation[p]]
                    /\ presentation' = [presentation EXCEPT ![p] = NoFile]
                    /\ UNCHANGED <<input, overtaken>>
               ELSE /\ lock' = [by |-> f, old |-> input[p]]
                    /\ input' = [input EXCEPT ![p] = NoFile]
                    /\ overtaken' = IF input[p] # flow[f].copy THEN overtaken \cup {p} ELSE overtaken
                    /\ UNCHANGED presentation
            /\ UNCHANGED <<flow, window>>
    /\ UNCHANGED <<request, setup, session, turns, mishaps, unfinished>>

\* apply_selection, applyDesktopProjectSourceObservation, and the center made of a
\* copy by refreshDesktopProjectSourceReview.
Chosen(c) == [c.copy EXCEPT !.selected = c.selected]
Seen(c) == [c.copy EXCEPT !.observed = c.copy.sources]
Center(c) == [sources |-> c.copy.sources, observed |-> c.copy.observed]

\* The second rename.  The window calls the next worker as long as its project is
\* the one it was when the chain began: refreshProjectSourceReviewPresentation.
WorkerCommits(f) ==
    LET c == flow[f]
        p == c.project
        then(step) == IF Current(f) THEN flow' = [flow EXCEPT ![f] = [NoFlow EXCEPT !.step = step, !.asked = c.asked]]
                                    ELSE End(f) IN
    /\ lock.by = f
    /\ lock' = Unlocked
    /\ CASE c.step = "selecting" ->
                /\ input' = [input EXCEPT ![p] = Chosen(c)]
                /\ then("observe") /\ UNCHANGED presentation
         [] c.step = "observing" ->
                /\ input' = [input EXCEPT ![p] = Seen(c)]
                /\ then("refresh") /\ UNCHANGED presentation
         [] c.step = "presenting" ->
                /\ presentation' = [presentation EXCEPT ![p] = Center(c)]
                /\ flow' = [flow EXCEPT ![f] = [NoFlow EXCEPT !.step = "shown", !.asked = c.asked, !.project = p]]
                /\ UNCHANGED input
    /\ UNCHANGED <<request, setup, session, window, turns, mishaps, overtaken, unfinished>>

--------------------------------------------------------------------------------
(* What fails.                                                              *)

Mishap == mishaps < MaxMishaps /\ turns + mishaps < MaxTurns /\ mishaps' = mishaps + 1

\* What the replacement under way would leave, with v for the file.
Leaves(v) ==
    LET p == session.project
        ofInput == IF lock.by = "setup" THEN setup.step = "input" ELSE flow[lock.by].step # "presenting" IN
    CASE lock.by = "setup" /\ setup.step = "request" ->
             request' = [request EXCEPT ![p] = v] /\ UNCHANGED <<input, presentation>>
      [] ofInput -> input' = [input EXCEPT ![p] = v] /\ UNCHANGED <<request, presentation>>
      [] OTHER -> presentation' = [presentation EXCEPT ![p] = v] /\ UNCHANGED <<request, input>>

\* Projects that would then have one file of two, or a new input and an old request.
Halved(v) ==
    IF \/ lock.by # "none" /\ v = NoFile /\ lock.old # NoFile
       \/ setup.step = "request" /\ Ready(setup.next)
    THEN {session.project} ELSE {}

\* The second rename fails, and the file returns.
ReplacementFails ==
    /\ Mishap
    /\ lock.by # "none"
    /\ Leaves(lock.old)
    /\ lock' = Unlocked
    /\ unfinished' = unfinished \cup Halved(lock.old)
    /\ IF lock.by = "setup" THEN setup' = NoSetup /\ UNCHANGED <<flow, window>>
                            ELSE EndIn(lock.by, TRUE) /\ UNCHANGED setup
    /\ UNCHANGED <<session, turns, overtaken>>

\* The process dies and starts again, with the project that was active.
DieReviewing ==
    /\ Mishap
    /\ unfinished' = unfinished \cup Halved(NoFile)
    /\ setup' = NoSetup /\ flow' = [f \in Flows |-> NoFlow] /\ lock' = Unlocked
    /\ session' = [session EXCEPT !.turn = 0] /\ window' = [turn |-> 0, shown |-> NoScope]
    /\ UNCHANGED <<reviewFiles, turns, overtaken>>

Flowing(f) ==
    \/ StartReview(f) \/ LoadPresentation(f) \/ Loaded(f)
    \/ WorkerReads(f) \/ Inventory(f) \/ ProgramFails(f) \/ WorkerLocks(f) \/ WorkerCommits(f)

ReviewNext ==
    \/ Tell \/ SetupLocks \/ SetupCommits
    \/ \E p \in Scopes : ActivateReviewed(p)
    \/ ActivationTold
    \/ \E f \in Flows : Flowing(f)
    \/ ReplacementFails \/ DieReviewing

ReviewSpec == ReviewInit /\ [][ReviewNext]_reviewVars

--------------------------------------------------------------------------------
(* Properties.                                                              *)

\* What is observed is observed of the sources it stands beside, in the input and
\* in the presentation, which Core would refuse otherwise; and the sources are
\* those the user told, unless a worker overtook or a mishap came between the files.
ReviewFollowsSources ==
    /\ \A p \in Scopes : \A file \in {input[p], presentation[p]} :
        file # NoFile => file.observed \in {NoFile, file.sources}
    /\ (Idle /\ Free) => \A p \in Scopes \ (overtaken \cup unfinished) :
        Ready(request[p]) => input[p] # NoFile /\ input[p].sources = request[p].sources

\* What the user told is lost only by a death between two renames.
RequestIsKept ==
    (Idle /\ Free) => \A p \in Scopes \ unfinished : input[p] # NoFile => request[p] # NoFile

\* The window that knows of the active project shows the sources of no other,
\* however many calls of earlier projects are answered late.
WindowShowsActive ==
    window.turn = session.turn => window.shown \in {NoScope, session.project}
================================================================================
