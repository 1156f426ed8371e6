--------------------------- MODULE DesktopKnowledgeProofs ---------------------------
(***************************************************************************)
(* The knowledge of the projects, for every set of projects, contents,     *)
(* sources and calls and every bound: the review of a project's sources,   *)
(* the window's commands about its documents, and the server that tells an *)
(* agent of them.                                                          *)
(***************************************************************************)
EXTENDS DesktopInvariant, FiniteSetTheorems, SequenceTheorems, TLAPS

(***************************************************************************)
(* The review of sources.                                                  *)
(***************************************************************************)

LEMMA ReviewConstants ==
    /\ NoScope \notin Scopes /\ "setup" \notin Flows /\ "none" \notin Flows
    /\ NoFile \notin Linked /\ "unlinked" \notin Linked
    /\ NoFile \notin Review!Requests /\ NoFile \notin Review!Inputs /\ NoFile \notin Review!Presentations
    /\ MaxTurns \in Nat /\ MaxMishaps \in Nat
BY SourceReviewAssumption DEF Review!ReviewAssumption

--------------------------------------------------------------------------------------
(* The steps of a call that change no file.                                     *)

\* What the record of a call may be when its step is over.
CallFits(c) ==
    /\ c \in ReviewCalls
    /\ c.step \in {"inventory"} \cup Review!Replacing =>
        c.project \in Scopes /\ c.copy # NoFile /\ WholeInput(c.project) # NoFile
    /\ Coherent(c.copy)
    /\ c.asked <= window.turn
    /\ c.step = "shown" /\ c.asked = session.turn => c.project = session.project

\* A window that lags behind may show what is of an earlier project.
WindowFits ==
    \/ UNCHANGED window
    \/ \E p \in Scopes \cup {NoScope} :
        /\ window' = [window EXCEPT !.shown = p]
        /\ window.turn = session.turn => p \in {NoScope, session.project}

\* The call that replaces a file is the one that has the lock.
LEMMA LockOwner ==
    ASSUME ReviewInv, NEW f \in Flows, lock.by = f
    PROVE  flow[f].step \in Review!Replacing
BY ReviewConstants DEF ReviewInv, LockInv, LocksInput, LocksRequest, LocksPresentation, Review!Replacing

LEMMA CallKeeps ==
    ASSUME ReviewInv, NEW f \in Flows, lock.by # f, NEW c, CallFits(c),
           flow' = [flow EXCEPT ![f] = c],
           UNCHANGED <<request, input, presentation, setup, lock, session, mishaps, overtaken, unfinished>>,
           turns' \in 0..MaxTurns, turns' >= turns, turns' + mishaps <= MaxTurns,
           WindowFits
    PROVE  ReviewInv'
<1>1. /\ flow'[f] = c /\ \A g \in Flows \ {f} : flow'[g] = flow[g]
      /\ flow' \in [Flows -> ReviewCalls]
  BY DEF ReviewInv, ReviewShape, CallFits
<1>2. /\ window'.turn = window.turn /\ window'.shown \in Scopes \cup {NoScope}
      /\ \/ window'.shown = window.shown
         \/ window.turn = session.turn => window'.shown \in {NoScope, session.project}
      /\ window' \in [turn : 0..MaxTurns, shown : Scopes \cup {NoScope}]
  BY DEF ReviewInv, ReviewShape, WindowFits
<1>3. ReviewShape'
  <2>1. Review!ReviewTypeOK'
    BY <1>1, <1>2 DEF ReviewInv, ReviewShape, ReviewCalls, Review!ReviewTypeOK
  <2>. QED  BY <1>1, <2>1 DEF ReviewInv, ReviewShape, Review!ReviewTypeOK
<1>4. LocksInput' = LocksInput /\ LocksRequest' = LocksRequest /\ LocksPresentation' = LocksPresentation
  BY <1>1 DEF LocksInput, LocksRequest, LocksPresentation
<1>5. /\ \A p \in Scopes : WholeInput(p)' = WholeInput(p) /\ WholeRequest(p)' = WholeRequest(p)
      /\ \A p \in Scopes : Projecting(p)' <=> Projecting(p)
  BY <1>4 DEF WholeInput, WholeRequest, Projecting, Review!Ready
<1>6. LockInv'
  BY <1>1, <1>4 DEF ReviewInv, LockInv, Review!InScope
<1>7. ReadInv'
  BY <1>1, <1>5 DEF ReviewInv, ReadInv, CallFits, Review!Ready
<1>8. KeptInv' /\ CoherentInv' /\ FollowsInv'
  <2>1. KeptInv'
    BY <1>5 DEF ReviewInv, KeptInv
  <2>2. CoherentInv'
    BY <1>1, <1>4 DEF ReviewInv, CoherentInv, CallFits, Coherent
  <2>3. FollowsInv'
    BY <1>1, <1>4, <1>5 DEF ReviewInv, FollowsInv, OfRequest, Review!Ready
  <2>. QED  BY <2>1, <2>2, <2>3
<1>9. ShownInv'
  <2>1. (session.turn <= turns)' /\ (turns + mishaps <= MaxTurns)' /\ (window.turn <= session.turn)'
    <3>1. session.turn \in Nat /\ turns \in Nat /\ turns' \in Nat
      BY ReviewConstants DEF ReviewInv, ReviewShape, Review!ReviewTypeOK
    <3>. QED  BY <1>2, <3>1 DEF ReviewInv, ShownInv
  <2>2. ASSUME NEW g \in Flows
        PROVE  /\ flow'[g].asked <= window'.turn
               /\ flow'[g].step = "shown" /\ flow'[g].asked = session.turn => flow'[g].project = session.project
    BY <1>1, <1>2 DEF ReviewInv, ShownInv, CallFits
  <2>3. Review!WindowShowsActive'
    BY <1>2 DEF ReviewInv, ShownInv, Review!WindowShowsActive
  <2>. QED  BY <2>1, <2>2, <2>3 DEF ShownInv
<1>. QED  BY <1>3, <1>6, <1>7, <1>8, <1>9 DEF ReviewInv

LEMMA EmptyCallFits ==
    ASSUME ReviewInv
    PROVE  CallFits(Review!NoFlow)
BY ReviewConstants
DEF CallFits, ReviewInv, ReviewShape, ReviewCalls, ShownInv, Coherent, Review!NoFlow, Review!ReviewTypeOK,
   Review!FlowSteps, Review!Replacing, Review!Awaiting

LEMMA CallStarts ==
    ASSUME ReviewInv, NEW f \in Flows, NEW step \in {"start"}, NEW S \in SUBSET Paths, Review!Call(f, step, S)
    PROVE  ReviewInv'
<1> DEFINE c == [[[Review!NoFlow EXCEPT !.step = step] EXCEPT !.asked = window.turn] EXCEPT !.selected = S]
<1>0. Review!NoFlow \in ReviewCalls
  BY EmptyCallFits DEF CallFits
<1>1. /\ c \in ReviewCalls
      /\ c.step = step /\ c.asked = window.turn /\ c.copy = NoFile
  <2>1. window.turn \in 0..MaxTurns /\ step \in Review!FlowSteps
    BY DEF ReviewInv, ReviewShape, Review!FlowSteps, Review!Awaiting
  <2>2. Review!NoFlow.copy = NoFile
    BY DEF Review!NoFlow
  <2>. QED  BY <1>0, <2>1, <2>2 DEF ReviewCalls
<1>2. CallFits(c)
  BY <1>1, ReviewConstants DEF CallFits, ReviewInv, ReviewShape, ReviewCalls, ShownInv, Coherent, Review!ReviewTypeOK,
     Review!FlowSteps, Review!Replacing, Review!Awaiting
<1>3. lock.by # f
  BY LockOwner DEF Review!Call, Review!Replacing
<1>4. flow' = [flow EXCEPT ![f] = c]
  BY DEF Review!Call
<1>5. turns' \in 0..MaxTurns /\ turns' >= turns /\ turns' + mishaps <= MaxTurns
  BY ReviewConstants DEF Review!Call, Review!UserDoes, ReviewInv, ReviewShape, Review!ReviewTypeOK
<1> HIDE DEF c
<1>. QED  BY <1>2, <1>3, <1>4, <1>5, CallKeeps DEF Review!Call, WindowFits, Review!reviewFiles

LEMMA LoadPresentationKeeps ==
    ASSUME ReviewInv, NEW f \in Flows, Review!LoadPresentation(f)
    PROVE  ReviewInv'
<1>. PICK step \in {"shown", "fallback"} :
        flow' = [flow EXCEPT ![f] = [Review!NoFlow EXCEPT
            !.step = step, !.asked = window.turn, !.project = session.project]]
  BY DEF Review!LoadPresentation
<1> DEFINE c == [Review!NoFlow EXCEPT !.step = step, !.asked = window.turn, !.project = session.project]
<1>0. Review!NoFlow \in ReviewCalls
  BY EmptyCallFits DEF CallFits
<1>1. /\ c \in ReviewCalls
      /\ c.step = step /\ c.asked = window.turn /\ c.copy = NoFile /\ c.project = session.project
  <2>1. window.turn \in 0..MaxTurns /\ step \in Review!FlowSteps /\ session.project \in Scopes
    BY DEF ReviewInv, ReviewShape, Review!ReviewTypeOK, Review!FlowSteps, Review!Awaiting
  <2>2. Review!NoFlow.copy = NoFile
    BY DEF Review!NoFlow
  <2>. QED  BY <1>0, <2>1, <2>2 DEF ReviewCalls
<1>2. CallFits(c)
  BY <1>1, ReviewConstants DEF CallFits, ReviewInv, ReviewShape, ReviewCalls, ShownInv, Coherent, Review!ReviewTypeOK,
     Review!FlowSteps, Review!Replacing, Review!Awaiting
<1>3. lock.by # f
  BY LockOwner DEF Review!LoadPresentation, Review!Replacing
<1>5. turns' \in 0..MaxTurns /\ turns' >= turns /\ turns' + mishaps <= MaxTurns
  BY ReviewConstants DEF Review!LoadPresentation, Review!UserDoes, ReviewInv, ReviewShape, Review!ReviewTypeOK
<1>4. flow' = [flow EXCEPT ![f] = c]
  OBVIOUS
<1> HIDE DEF c
<1>. QED  BY <1>2, <1>3, <1>4, <1>5, CallKeeps DEF Review!LoadPresentation, WindowFits, Review!reviewFiles

\* What the steps that ask nothing of the user leave as it is.
LEMMA SilentCallKeeps ==
    ASSUME ReviewInv, NEW f \in Flows, lock.by # f, NEW c, CallFits(c),
           flow' = [flow EXCEPT ![f] = c],
           UNCHANGED <<request, input, presentation, setup, lock, session, turns, mishaps, overtaken, unfinished>>,
           WindowFits
    PROVE  ReviewInv'
<1>1. turns' \in 0..MaxTurns /\ turns' >= turns /\ turns' + mishaps <= MaxTurns
  BY ReviewConstants DEF ReviewInv, ReviewShape, ShownInv, Review!ReviewTypeOK
<1>. QED  BY <1>1, CallKeeps

LEMMA CallFails ==
    ASSUME ReviewInv, NEW f \in Flows, lock.by # f, NEW error \in BOOLEAN, Review!EndIn(f, error),
           UNCHANGED <<request, input, presentation, setup, lock, session, turns, mishaps, overtaken, unfinished>>
    PROVE  ReviewInv'
BY EmptyCallFits, SilentCallKeeps DEF Review!EndIn, Review!End, Review!Show, WindowFits

LEMMA LoadedKeeps ==
    ASSUME ReviewInv, NEW f \in Flows, Review!Loaded(f)
    PROVE  ReviewInv'
<1>1. lock.by # f
  BY LockOwner DEF Review!Loaded, Review!Replacing
<1>2. UNCHANGED <<request, input, presentation, setup, lock, session, turns, mishaps, overtaken, unfinished>>
  BY DEF Review!Loaded, Review!reviewFiles
<1>3. CASE flow[f].step = "shown"
  <2>1. /\ flow[f].project \in Scopes \cup {NoScope}
        /\ Review!Current(f) /\ window.turn = session.turn => flow[f].project = session.project
    BY <1>3 DEF ReviewInv, ReviewShape, ReviewCalls, ShownInv, Review!Current
  <2>2. WindowFits /\ flow' = [flow EXCEPT ![f] = Review!NoFlow]
    BY <1>3, <2>1 DEF Review!Loaded, Review!Show, Review!End, WindowFits
  <2>. QED  BY <1>1, <1>2, <2>2, EmptyCallFits, SilentCallKeeps
<1>4. CASE flow[f].step = "fallback"
  <2>1. CASE flow' = [flow EXCEPT ![f] = Review!NoFlow]
    <3>1. WindowFits
      BY <1>4, <2>1 DEF WindowFits, Review!Loaded, Review!Show
    <3>. QED  BY <1>1, <1>2, <2>1, <3>1, EmptyCallFits, SilentCallKeeps
  <2>2. CASE flow' = [flow EXCEPT ![f].step = "shown", ![f].project = session.project]
    <3> DEFINE c == [flow[f] EXCEPT !.step = "shown", !.project = session.project]
    <3>0. /\ c \in ReviewCalls /\ c.step = "shown" /\ c.project = session.project
          /\ c.copy = flow[f].copy /\ c.asked = flow[f].asked
      <4>1. flow[f] \in ReviewCalls /\ "shown" \in Review!FlowSteps /\ session.project \in Scopes
        BY DEF ReviewInv, ReviewShape, Review!ReviewTypeOK, Review!FlowSteps, Review!Awaiting
      <4>. QED  BY <4>1 DEF ReviewCalls
    <3>1. CallFits(c)
      BY <1>4, <3>0, ReviewConstants
      DEF CallFits, ReviewInv, ReviewShape, ReviewCalls, ShownInv, CoherentInv, Coherent,
          Review!ReviewTypeOK,
         Review!FlowSteps, Review!Replacing, Review!Awaiting
    <3>2. flow' = [flow EXCEPT ![f] = c]
      BY <2>2 DEF ReviewInv, ReviewShape, ReviewCalls
    <3>3. WindowFits
      BY <1>4, <2>2 DEF WindowFits, Review!Loaded, Review!Show
    <3> HIDE DEF c
    <3>. QED  BY <1>1, <1>2, <3>1, <3>2, <3>3, SilentCallKeeps
  <2>. QED  BY <1>4, <2>1, <2>2 DEF Review!Loaded, Review!End
<1>. QED  BY <1>3, <1>4 DEF Review!Loaded

LEMMA FreeFiles ==
    ASSUME ReviewInv, Review!Free
    PROVE  /\ ~LocksInput /\ ~LocksRequest /\ ~LocksPresentation
           /\ \A p \in Scopes : WholeInput(p) = input[p] /\ WholeRequest(p) = request[p]
BY ReviewConstants
DEF Review!Free, Review!Unlocked, LocksInput, LocksRequest, LocksPresentation, WholeInput, WholeRequest

LEMMA WorkerReadsKeeps ==
    ASSUME ReviewInv, NEW f \in Flows, Review!WorkerReads(f)
    PROVE  ReviewInv'
<1>1. flow[f].step \in {"start", "observe", "refresh"}
  BY DEF Review!WorkerReads
<1>2. lock.by # f
  BY <1>1, LockOwner DEF Review!Replacing
<1>3. UNCHANGED <<request, input, presentation, setup, lock, session, turns, mishaps, overtaken, unfinished>>
  BY DEF Review!WorkerReads, Review!reviewFiles
<1>4. CASE input[session.project] = NoFile
  BY <1>2, <1>3, <1>4, CallFails DEF Review!WorkerReads
<1>5. CASE input[session.project] # NoFile
  <2> DEFINE next == [start |-> "inventory", observe |-> "observing", refresh |-> "presenting"]
  <2>1. next[flow[f].step] \in {"inventory", "observing", "presenting"}
    BY <1>1
  <2>2. PICK step \in {"inventory", "observing", "presenting"} :
          flow' = [flow EXCEPT ![f].step = step, ![f].project = session.project,
                               ![f].turn = session.turn, ![f].copy = input[session.project]]
    <3>1. flow' = [flow EXCEPT ![f].step = next[flow[f].step], ![f].project = session.project,
                               ![f].turn = session.turn, ![f].copy = input[session.project]]
      BY <1>5 DEF Review!WorkerReads
    <3> HIDE DEF next
    <3>. QED  BY <2>1, <3>1
  <2> DEFINE c == [flow[f] EXCEPT !.step = step, !.project = session.project,
                                  !.turn = session.turn, !.copy = input[session.project]]
  <2>3. flow[f] \in ReviewCalls /\ session.project \in Scopes
    BY DEF ReviewInv, ReviewShape, Review!ReviewTypeOK
  <2>4. /\ c \in ReviewCalls /\ c.step = step /\ c.project = session.project
        /\ c.copy = input[session.project] /\ c.asked = flow[f].asked
    <3>1. /\ step \in Review!FlowSteps /\ session.turn \in 0..MaxTurns
          /\ input[session.project] \in Review!Inputs \cup {NoFile}
      BY <2>3 DEF ReviewInv, ReviewShape, Review!ReviewTypeOK, Review!FlowSteps, Review!Replacing
    <3>. QED  BY <2>3, <3>1 DEF ReviewCalls
  <2>5. WholeInput(session.project) = input[session.project] /\ Coherent(input[session.project])
    BY <2>3, FreeFiles DEF Review!WorkerReads, ReviewInv, CoherentInv
  <2>6. CallFits(c)
    BY <1>5, <2>3, <2>4, <2>5 DEF CallFits, ReviewInv, ShownInv
  <2>7. flow' = [flow EXCEPT ![f] = c]
    BY <2>2, <2>3 DEF ReviewInv, ReviewShape, ReviewCalls
  <2>8. WindowFits
    BY <1>5 DEF Review!WorkerReads, WindowFits
  <2> HIDE DEF c
  <2>. QED  BY <1>2, <1>3, <2>6, <2>7, <2>8, SilentCallKeeps
<1>. QED  BY <1>4, <1>5

LEMMA InventoryKeeps ==
    ASSUME ReviewInv, NEW f \in Flows, Review!Inventory(f)
    PROVE  ReviewInv'
<1>1. lock.by # f
  BY LockOwner DEF Review!Inventory, Review!Replacing
<1>2. UNCHANGED <<request, input, presentation, setup, lock, session, turns, mishaps, overtaken, unfinished>>
  BY DEF Review!Inventory, Review!reviewFiles
<1>3. WindowFits
  BY DEF Review!Inventory, WindowFits
<1>4. CASE flow' = [flow EXCEPT ![f].step = "selecting"]
  <2> DEFINE c == [flow[f] EXCEPT !.step = "selecting"]
  <2>1. flow[f] \in ReviewCalls
    BY DEF ReviewInv, ReviewShape
  <2>2. /\ c \in ReviewCalls /\ c.step = "selecting" /\ c.project = flow[f].project
        /\ c.copy = flow[f].copy /\ c.asked = flow[f].asked
    <3>1. "selecting" \in Review!FlowSteps
      BY DEF Review!FlowSteps, Review!Replacing
    <3>. QED  BY <2>1, <3>1 DEF ReviewCalls
  <2>3. CallFits(c)
    BY <2>2 DEF CallFits, ReviewInv, ReadInv, CoherentInv, ShownInv, Review!Inventory
  <2>4. flow' = [flow EXCEPT ![f] = c]
    BY <1>4, <2>1 DEF ReviewInv, ReviewShape, ReviewCalls
  <2> HIDE DEF c
  <2>. QED  BY <1>1, <1>2, <1>3, <2>3, <2>4, SilentCallKeeps
<1>5. CASE flow' = [flow EXCEPT ![f] = Review!NoFlow]
  BY <1>1, <1>2, <1>3, <1>5, EmptyCallFits, SilentCallKeeps
<1>. QED  BY <1>4, <1>5 DEF Review!Inventory, Review!End

LEMMA ProgramFailsKeeps ==
    ASSUME ReviewInv, NEW f \in Flows, Review!ProgramFails(f)
    PROVE  ReviewInv'
BY CallFails DEF Review!ProgramFails, Review!reviewFiles

--------------------------------------------------------------------------------------
(* Of the user, and of the window.                                              *)

\* What the user tells of a project makes a request.
LEMMA ToldIsRequest ==
    ASSUME NEW q \in Review!Requests, NEW next \in Review!Told(q)
    PROVE  next \in Review!Requests
<1>1. next \in Review!Answered(q) => next \in Review!Requests
  BY DEF Review!Answered
<1>2. next \in Review!Named(q) => next \in Review!Requests
  BY DEF Review!Named, Review!Requests
<1>3. next \in Review!Linking(q) => next \in Review!Requests
  BY DEF Review!Linking, Review!Requests, Review!Sources
<1>4. next \in Review!Relinked(q) => next \in Review!Requests
  BY DEF Review!Relinked, Review!Requests, Review!Sources
<1>. QED  BY <1>1, <1>2, <1>3, <1>4 DEF Review!Told

LEMMA TellKeeps ==
    ASSUME ReviewInv, Review!Tell
    PROVE  ReviewInv'
<1>1. PICK next \in Review!Requests :
        setup' = [step |-> IF Review!Ready(next) THEN "input" ELSE "request", next |-> next]
  <2>1. request[session.project] \in Review!Requests \cup {NoFile} /\ Review!Unset \in Review!Requests
    BY DEF ReviewInv, ReviewShape, Review!ReviewTypeOK, Review!Unset, Review!Requests
  <2>2. PICK q \in Review!Requests : \E next \in Review!Told(q) :
          setup' = [step |-> IF Review!Ready(next) THEN "input" ELSE "request", next |-> next]
    BY <2>1 DEF Review!Tell
  <2>. QED  BY <2>2, ToldIsRequest
<1>2. /\ setup.step = "idle" /\ turns + mishaps < MaxTurns /\ turns' = turns + 1
      /\ UNCHANGED <<request, input, presentation, flow, lock, session, window, mishaps, overtaken, unfinished>>
  BY DEF Review!Tell, Review!Idle, Review!UserDoes, Review!reviewFiles
<1>3. /\ setup'.step \in {"input", "request"} /\ setup'.next = next
      /\ setup'.step = "input" => Review!Ready(setup.next)'
      /\ setup'.step = "request" => ~Review!Ready(setup.next)'
  BY <1>1 DEF Review!Ready
<1>4. /\ LocksInput' = LocksInput /\ LocksRequest' = LocksRequest /\ LocksPresentation' = LocksPresentation
      /\ lock.by # "setup"
  BY <1>2, ReviewConstants DEF LocksInput, LocksRequest, LocksPresentation, ReviewInv, LockInv
<1>5. /\ \A p \in Scopes : WholeInput(p)' = WholeInput(p) /\ WholeRequest(p)' = WholeRequest(p)
      /\ \A p \in Scopes : ~Projecting(p) /\ ~Projecting(p)'
  BY <1>2, <1>3, <1>4 DEF WholeInput, WholeRequest, Projecting
<1>6. ReviewShape'
  <2>1. turns' \in 0..MaxTurns
    BY <1>2, ReviewConstants DEF ReviewInv, ReviewShape, Review!ReviewTypeOK
  <2>. QED  BY <1>1, <1>2, <2>1 DEF ReviewInv, ReviewShape, Review!ReviewTypeOK
<1>7. LockInv'
  BY <1>2, <1>4 DEF ReviewInv, LockInv, Review!InScope
<1>8. ReadInv'
  BY <1>2, <1>3, <1>5 DEF ReviewInv, ReadInv
<1>9. KeptInv' /\ FollowsInv'
  BY <1>2, <1>4, <1>5 DEF ReviewInv, KeptInv, FollowsInv, OfRequest, Review!Ready
<1>10. CoherentInv'
  BY <1>2, <1>4 DEF ReviewInv, CoherentInv, Coherent
<1>11. ShownInv'
  BY <1>2, ReviewConstants DEF ReviewInv, ShownInv, Review!WindowShowsActive, ReviewShape, Review!ReviewTypeOK
<1>. QED  BY <1>6, <1>7, <1>8, <1>9, <1>10, <1>11 DEF ReviewInv

\* A replacement keeps its project the active one.
LEMMA LockStays ==
    ASSUME ReviewInv, Review!Free
    PROVE  lock.by = "none" /\ lock.old = NoFile /\ lock.by \notin Flows
BY ReviewConstants DEF Review!Free, Review!Unlocked

LEMMA ActivateKeeps ==
    ASSUME ReviewInv, NEW p \in Scopes, Review!ActivateReviewed(p)
    PROVE  ReviewInv'
<1>1. /\ setup.step = "idle" /\ turns + mishaps < MaxTurns /\ turns' = turns + 1
      /\ session' = [project |-> p, turn |-> session.turn + 1]
      /\ UNCHANGED <<request, input, presentation, setup, flow, lock, window, mishaps, overtaken, unfinished>>
  BY DEF Review!ActivateReviewed, Review!Idle, Review!UserDoes, Review!reviewFiles
<1>2. lock.by = "none" /\ lock.old = NoFile
  BY LockStays DEF Review!ActivateReviewed
<1>3. /\ ~LocksInput /\ ~LocksRequest /\ ~LocksPresentation
      /\ ~LocksInput' /\ ~LocksRequest' /\ ~LocksPresentation'
  BY <1>1, <1>2, ReviewConstants DEF LocksInput, LocksRequest, LocksPresentation
<1>4. /\ \A q \in Scopes : WholeInput(q)' = WholeInput(q) /\ WholeRequest(q)' = WholeRequest(q)
      /\ \A q \in Scopes : ~Projecting(q) /\ ~Projecting(q)'
  BY <1>1, <1>3 DEF WholeInput, WholeRequest, Projecting
<1>5. /\ turns' \in 0..MaxTurns /\ session'.turn \in 0..MaxTurns /\ session'.turn = session.turn + 1
      /\ session'.turn <= turns' /\ turns' + mishaps' <= MaxTurns /\ session.turn \in Nat
  BY <1>1, ReviewConstants DEF ReviewInv, ReviewShape, ShownInv, Review!ReviewTypeOK
<1>6. ReviewShape'
  <2>1. session' \in [project : Scopes, turn : 0..MaxTurns]
    BY <1>1, <1>5
  <2>. QED  BY <1>1, <1>5, <2>1 DEF ReviewInv, ReviewShape, Review!ReviewTypeOK
<1>7. LockInv'
  BY <1>1, <1>2, <1>3, ReviewConstants DEF ReviewInv, LockInv
<1>8. ReadInv'
  BY <1>1, <1>4 DEF ReviewInv, ReadInv
<1>9. KeptInv' /\ FollowsInv'
  BY <1>1, <1>3, <1>4 DEF ReviewInv, KeptInv, FollowsInv, OfRequest, Review!Ready
<1>10. CoherentInv'
  BY <1>1, <1>3 DEF ReviewInv, CoherentInv, Coherent
<1>11. ShownInv'
  <2>1. window.turn \in Nat /\ window.turn < session'.turn
    BY <1>5 DEF ReviewInv, ReviewShape, ShownInv, Review!ReviewTypeOK
  <2>2. \A f \in Flows : flow[f].asked \in Nat /\ flow[f].asked <= window.turn /\ flow[f].asked < session'.turn
    <3>1. \A f \in Flows : flow[f].asked \in 0..MaxTurns /\ flow[f].asked <= window.turn
      BY DEF ReviewInv, ReviewShape, ReviewCalls, ShownInv
    <3>. QED  BY <1>5, <2>1, <3>1, ReviewConstants
  <2>. QED  BY <1>1, <1>5, <2>1, <2>2 DEF ShownInv, Review!WindowShowsActive
<1>. QED  BY <1>6, <1>7, <1>8, <1>9, <1>10, <1>11 DEF ReviewInv

LEMMA ActivationToldKeeps ==
    ASSUME ReviewInv, Review!ActivationTold
    PROVE  ReviewInv'
<1>1. /\ window' = [turn |-> session.turn, shown |-> NoScope]
      /\ UNCHANGED <<request, input, presentation, setup, flow, lock, session, turns, mishaps, overtaken, unfinished>>
  BY DEF Review!ActivationTold, Review!reviewFiles
<1>2. LocksInput' = LocksInput /\ LocksRequest' = LocksRequest /\ LocksPresentation' = LocksPresentation
  BY <1>1 DEF LocksInput, LocksRequest, LocksPresentation
<1>3. /\ \A p \in Scopes : WholeInput(p)' = WholeInput(p) /\ WholeRequest(p)' = WholeRequest(p)
      /\ \A p \in Scopes : Projecting(p)' <=> Projecting(p)
  BY <1>1, <1>2 DEF WholeInput, WholeRequest, Projecting, Review!Ready
<1>4. ReviewShape' /\ LockInv'
  BY <1>1, <1>2 DEF ReviewInv, ReviewShape, LockInv, Review!ReviewTypeOK, Review!InScope
<1>5. ReadInv' /\ KeptInv' /\ CoherentInv'
  <2>1. ReadInv' /\ KeptInv'
    BY <1>1, <1>3 DEF ReviewInv, ReadInv, KeptInv, Review!Ready
  <2>2. CoherentInv'
    BY <1>1, <1>2 DEF ReviewInv, CoherentInv, Coherent
  <2>. QED  BY <2>1, <2>2
<1>6. FollowsInv'
  BY <1>1, <1>2, <1>3 DEF ReviewInv, FollowsInv, OfRequest, Review!Ready
<1>7. ShownInv'
  <2>1. \A f \in Flows : flow[f].asked <= session.turn
    BY ReviewConstants DEF ReviewInv, ReviewShape, ReviewCalls, ShownInv, Review!ReviewTypeOK
  <2>. QED  BY <1>1, <2>1, ReviewConstants DEF ReviewInv, ReviewShape, ShownInv, Review!WindowShowsActive, Review!ReviewTypeOK
<1>. QED  BY <1>4, <1>5, <1>6, <1>7 DEF ReviewInv

--------------------------------------------------------------------------------------
(* The replacements.                                                            *)

LEMMA SetupLocksKeeps ==
    ASSUME ReviewInv, Review!SetupLocks
    PROVE  ReviewInv'
<1>. PICK p \in Scopes : p = session.project
  BY DEF ReviewInv, ReviewShape, Review!ReviewTypeOK
<1>1. /\ lock.by = "none" /\ lock.old = NoFile
      /\ ~LocksInput /\ ~LocksRequest /\ ~LocksPresentation
      /\ \A q \in Scopes : WholeInput(q) = input[q] /\ WholeRequest(q) = request[q]
  BY LockStays, FreeFiles DEF Review!SetupLocks
<1>2. /\ setup.step \in {"input", "request"}
      /\ UNCHANGED <<presentation, setup, flow, session, window, turns, mishaps, overtaken, unfinished>>
  BY DEF Review!SetupLocks
<1>3. /\ lock' = [by |-> "setup", old |-> IF setup.step = "input" THEN input[p] ELSE request[p]]
      /\ input' = IF setup.step = "input" THEN [input EXCEPT ![p] = NoFile] ELSE input
      /\ request' = IF setup.step = "request" THEN [request EXCEPT ![p] = NoFile] ELSE request
  BY DEF Review!SetupLocks
<1>4. /\ p \in Scopes /\ input[p] \in Review!Inputs \cup {NoFile} /\ request[p] \in Review!Requests \cup {NoFile}
  BY DEF ReviewInv, ReviewShape, Review!ReviewTypeOK
<1>5. /\ LocksInput' <=> setup.step = "input"
      /\ LocksRequest' <=> setup.step = "request"
      /\ ~LocksPresentation'
  BY <1>2, <1>3, ReviewConstants DEF LocksInput, LocksRequest, LocksPresentation
<1>6. /\ \A q \in Scopes : WholeInput(q)' = WholeInput(q) /\ WholeRequest(q)' = WholeRequest(q)
      /\ \A q \in Scopes : Projecting(q)' <=> Projecting(q)
  BY <1>1, <1>2, <1>3, <1>4, <1>5 DEF WholeInput, WholeRequest, Projecting, ReviewInv, ReviewShape,
     Review!ReviewTypeOK, Review!Ready
<1>7. ReviewShape'
  BY <1>2, <1>3, <1>4 DEF ReviewInv, ReviewShape, Review!ReviewTypeOK
<1>8. LockInv'
  BY <1>2, <1>3, <1>4, <1>5, ReviewConstants DEF LockInv, ReviewInv, ReviewShape, Review!ReviewTypeOK
<1>9. ReadInv' /\ KeptInv'
  BY <1>2, <1>6 DEF ReviewInv, ReadInv, KeptInv, Review!Ready
<1>10. CoherentInv'
  BY <1>2, <1>3, <1>4, <1>5 DEF ReviewInv, CoherentInv, Coherent, ReviewShape, Review!ReviewTypeOK
<1>11. FollowsInv'
  BY <1>2, <1>3, <1>6, ReviewConstants DEF ReviewInv, FollowsInv, OfRequest, Review!Ready
<1>12. ShownInv'
  BY <1>2 DEF ReviewInv, ShownInv, Review!WindowShowsActive
<1>. QED  BY <1>7, <1>8, <1>9, <1>10, <1>11, <1>12 DEF ReviewInv

LEMMA SetupCommitsKeeps ==
    ASSUME ReviewInv, Review!SetupCommits
    PROVE  ReviewInv'
<1>. PICK p \in Scopes : p = session.project
  BY DEF ReviewInv, ReviewShape, Review!ReviewTypeOK
<1>1. /\ lock.by = "setup" /\ lock' = Review!Unlocked
      /\ UNCHANGED <<presentation, flow, session, window, turns, mishaps>>
  BY DEF Review!SetupCommits
<1>2. /\ p \in Scopes /\ setup.next \in Review!Requests /\ setup.next # NoFile
      /\ setup \in [step : {"idle", "input", "request"}, next : Review!Requests]
  BY ReviewConstants DEF ReviewInv, ReviewShape, Review!ReviewTypeOK
<1>3. ~LocksInput' /\ ~LocksRequest' /\ ~LocksPresentation' /\ ~LocksPresentation
  BY <1>1, ReviewConstants DEF Review!Unlocked, LocksInput, LocksRequest, LocksPresentation
<1>4. \A q \in Scopes : WholeInput(q)' = input'[q] /\ WholeRequest(q)' = request'[q]
  BY <1>3 DEF WholeInput, WholeRequest
<1>5. \A q \in Scopes \ {p} : WholeInput(q) = input[q] /\ WholeRequest(q) = request[q]
  BY DEF WholeInput, WholeRequest
<1>6. LockInv' /\ ShownInv'
  BY <1>1, <1>3, ReviewConstants DEF ReviewInv, LockInv, ShownInv, Review!Unlocked, Review!WindowShowsActive
<1>7. CASE setup.step = "input"
  <2>1. PICK file \in Review!Inputs :
          /\ file.sources = setup.next.sources /\ file.observed = NoFile
          /\ input' = [input EXCEPT ![p] = file]
    <3>1. Review!Ready(setup.next)
      BY <1>7 DEF ReviewInv, ReadInv
    <3>2. Review!Projected(lock.old, setup.next) \in Review!Inputs
      BY <1>2, <3>1 DEF Review!Projected, Review!Inputs, Review!Ready
    <3>. QED  BY <1>7, <3>2 DEF Review!SetupCommits, Review!Projected
  <2>2. /\ setup' = [setup EXCEPT !.step = "request"] /\ overtaken' = overtaken \ {p}
        /\ UNCHANGED <<request, unfinished>>
    BY <1>7 DEF Review!SetupCommits
  <2>3. /\ setup'.step = "request" /\ setup'.next = setup.next
        /\ setup' \in [step : {"idle", "input", "request"}, next : Review!Requests]
    BY <1>2, <2>2
  <2>4. /\ input'[p] = file /\ file # NoFile
        /\ \A q \in Scopes \ {p} : input'[q] = input[q]
    BY <1>2, <2>1, ReviewConstants DEF ReviewInv, ReviewShape, Review!ReviewTypeOK
  <2>5. /\ Projecting(p)' /\ \A q \in Scopes \ {p} : ~Projecting(q)' /\ ~Projecting(q)
    BY <1>1, <1>7, <2>3 DEF ReviewInv, ReadInv, Projecting, Review!Ready
  <2>6. ReviewShape'
    BY <1>1, <1>2, <2>1, <2>2, <2>3 DEF ReviewInv, ReviewShape, Review!ReviewTypeOK, Review!Unlocked
  <2>7. ReadInv'
    BY <1>1, <1>4, <1>5, <2>3, <2>4 DEF ReviewInv, ReadInv
  <2>8. KeptInv'
    BY <1>4, <1>5, <2>2, <2>4, <2>5 DEF ReviewInv, KeptInv
  <2>9. CoherentInv'
    BY <1>1, <1>3, <2>1, <2>4 DEF ReviewInv, CoherentInv, Coherent
  <2>10. FollowsInv'
    <3>1. ASSUME NEW q \in Scopes \ {p}, q \notin overtaken', q \notin unfinished'
          PROVE  Review!Ready(WholeRequest(q)') => OfRequest(WholeInput(q), WholeRequest(q))'
      BY <1>4, <1>5, <2>2, <2>4, <2>5, <3>1 DEF ReviewInv, FollowsInv, OfRequest
    <3>2. OfRequest(WholeInput(p), setup.next)'
      BY <1>2, <1>4, <2>1, <2>3, <2>4 DEF OfRequest
    <3>3. ASSUME NEW q \in Scopes, Projecting(q)'
          PROVE  OfRequest(WholeInput(q), setup.next)'
      BY <2>5, <3>2, <3>3
    <3>. QED  BY <1>3, <2>5, <3>1, <3>3 DEF FollowsInv, Review!Ready
  <2>. QED  BY <1>6, <2>6, <2>7, <2>8, <2>9, <2>10 DEF ReviewInv
<1>8. CASE setup.step = "request"
  <2>1. /\ request' = [request EXCEPT ![p] = setup.next] /\ setup' = Review!NoSetup
        /\ unfinished' = IF Review!Ready(setup.next) THEN unfinished \ {p} ELSE unfinished
        /\ UNCHANGED <<input, overtaken>>
    BY <1>8 DEF Review!SetupCommits
  <2>2. LocksRequest /\ ~LocksInput
    BY <1>1, <1>8, ReviewConstants DEF LocksRequest, LocksInput
  <2>3. /\ setup'.step = "idle" /\ setup' \in [step : {"idle", "input", "request"}, next : Review!Requests]
    BY <2>1 DEF Review!NoSetup, Review!Unset, Review!Requests
  <2>4. /\ request'[p] = setup.next /\ \A q \in Scopes \ {p} : request'[q] = request[q]
    BY <1>2, <2>1 DEF ReviewInv, ReviewShape, Review!ReviewTypeOK
  <2>5. /\ \A q \in Scopes : ~Projecting(q)' /\ WholeInput(q)' = WholeInput(q) /\ WholeInput(q) = input[q]
        /\ \A q \in Scopes \ {p} : ~Projecting(q)
    BY <1>4, <2>1, <2>2, <2>3 DEF Projecting, WholeInput
  <2>6. ReviewShape'
    BY <1>1, <1>2, <2>1, <2>3 DEF ReviewInv, ReviewShape, Review!ReviewTypeOK, Review!Unlocked
  <2>7. ReadInv'
    BY <1>1, <2>3, <2>5 DEF ReviewInv, ReadInv
  <2>8. KeptInv'
    BY <1>2, <1>4, <1>5, <2>1, <2>4, <2>5 DEF ReviewInv, KeptInv
  <2>9. CoherentInv'
    BY <1>1, <1>3, <2>1 DEF ReviewInv, CoherentInv, Coherent
  <2>10. FollowsInv'
    <3>1. ASSUME NEW q \in Scopes \ {p}, q \notin overtaken', q \notin unfinished'
          PROVE  Review!Ready(WholeRequest(q)') => OfRequest(WholeInput(q), WholeRequest(q))'
      BY <1>4, <1>5, <2>1, <2>4, <2>5, <3>1 DEF ReviewInv, FollowsInv, OfRequest
    <3>2. ASSUME p \notin overtaken', Review!Ready(WholeRequest(p)')
          PROVE  OfRequest(WholeInput(p), WholeRequest(p))'
      BY <1>2, <1>4, <1>8, <2>1, <2>4, <2>5, <3>2 DEF ReviewInv, FollowsInv, OfRequest, Projecting
    <3>. QED  BY <1>3, <2>5, <3>1, <3>2 DEF FollowsInv, Review!Ready
  <2>. QED  BY <1>6, <2>6, <2>7, <2>8, <2>9, <2>10 DEF ReviewInv
<1>. QED  BY <1>7, <1>8 DEF Review!SetupCommits

LEMMA WorkerLocksKeeps ==
    ASSUME ReviewInv, NEW f \in Flows, Review!WorkerLocks(f)
    PROVE  ReviewInv'
<1>1. /\ lock.by = "none" /\ lock.old = NoFile
      /\ ~LocksInput /\ ~LocksRequest /\ ~LocksPresentation
      /\ \A q \in Scopes : WholeInput(q) = input[q] /\ WholeRequest(q) = request[q]
  BY LockStays, FreeFiles DEF Review!WorkerLocks
<1>2. CASE ~Review!InScope(f)
  <2>1. lock.by # f
    BY <1>1, ReviewConstants
  <2>. QED  BY <1>2, <2>1, CallFails DEF Review!WorkerLocks
<1>3. CASE Review!InScope(f)
  <2>. PICK p \in Scopes : p = session.project
    BY DEF ReviewInv, ReviewShape, Review!ReviewTypeOK
  <2>1. /\ flow[f].step \in Review!Replacing /\ flow[f].project = p
        /\ UNCHANGED <<request, setup, flow, session, window, turns, mishaps, unfinished>>
    BY <1>3 DEF Review!WorkerLocks, Review!InScope
  <2>2. CASE flow[f].step = "presenting"
    <3>1. /\ lock' = [by |-> f, old |-> presentation[p]]
          /\ presentation' = [presentation EXCEPT ![p] = NoFile]
          /\ UNCHANGED <<input, overtaken>>
      BY <1>3, <2>1, <2>2 DEF Review!WorkerLocks
    <3>2. ~LocksInput' /\ ~LocksRequest' /\ LocksPresentation'
      BY <2>1, <2>2, <3>1, ReviewConstants DEF LocksInput, LocksRequest, LocksPresentation
    <3>3. /\ \A q \in Scopes : WholeInput(q)' = WholeInput(q) /\ WholeRequest(q)' = WholeRequest(q)
          /\ \A q \in Scopes : Projecting(q)' <=> Projecting(q)
      BY <1>1, <2>1, <3>1, <3>2 DEF WholeInput, WholeRequest, Projecting, Review!Ready
    <3>4. presentation[p] \in Review!Presentations \cup {NoFile}
      BY DEF ReviewInv, ReviewShape, Review!ReviewTypeOK
    <3>5. ReviewShape'
      BY <2>1, <3>1, <3>4 DEF ReviewInv, ReviewShape, Review!ReviewTypeOK
    <3>6. LockInv'
      BY <1>3, <2>1, <3>1, <3>2, <3>4, ReviewConstants DEF LockInv, Review!InScope
    <3>7. ReadInv' /\ KeptInv'
      BY <2>1, <3>1, <3>3 DEF ReviewInv, ReadInv, KeptInv, Review!Ready
    <3>8. CoherentInv'
      BY <2>1, <3>1, <3>4 DEF ReviewInv, CoherentInv, Coherent, ReviewShape, Review!ReviewTypeOK
    <3>9. FollowsInv'
      BY <2>1, <3>1, <3>2, <3>3 DEF ReviewInv, FollowsInv, OfRequest, Review!Ready
    <3>10. ShownInv'
      BY <2>1 DEF ReviewInv, ShownInv, Review!WindowShowsActive
    <3>. QED  BY <3>5, <3>6, <3>7, <3>8, <3>9, <3>10 DEF ReviewInv
  <2>3. CASE flow[f].step # "presenting"
    <3>1. /\ lock' = [by |-> f, old |-> input[p]]
          /\ input' = [input EXCEPT ![p] = NoFile]
          /\ overtaken' = IF input[p] # flow[f].copy THEN overtaken \cup {p} ELSE overtaken
          /\ UNCHANGED presentation
          /\ flow[f].step \in {"selecting", "observing"}
      BY <1>3, <2>1, <2>3 DEF Review!WorkerLocks, Review!Replacing
    <3>2. LocksInput' /\ ~LocksRequest' /\ ~LocksPresentation'
      BY <2>1, <3>1, ReviewConstants DEF LocksInput, LocksRequest, LocksPresentation
    <3>3. /\ \A q \in Scopes : WholeInput(q)' = WholeInput(q) /\ WholeRequest(q)' = WholeRequest(q)
          /\ \A q \in Scopes : Projecting(q)' <=> Projecting(q)
      BY <1>1, <2>1, <3>1, <3>2 DEF WholeInput, WholeRequest, Projecting, Review!Ready, ReviewInv, ReviewShape,
         Review!ReviewTypeOK
    <3>4. input[p] \in Review!Inputs \cup {NoFile}
      BY DEF ReviewInv, ReviewShape, Review!ReviewTypeOK
    <3>5. ReviewShape'
      BY <2>1, <3>1, <3>4 DEF ReviewInv, ReviewShape, Review!ReviewTypeOK
    <3>6. LockInv'
      BY <1>3, <2>1, <3>1, <3>2, <3>4, ReviewConstants
      DEF LockInv, Review!InScope, ReviewInv, ReviewShape, Review!ReviewTypeOK
    <3>7. ReadInv' /\ KeptInv'
      BY <2>1, <3>1, <3>3 DEF ReviewInv, ReadInv, KeptInv, Review!Ready
    <3>8. CoherentInv'
      BY <2>1, <3>1, <3>4 DEF ReviewInv, CoherentInv, Coherent, ReviewShape, Review!ReviewTypeOK
    <3>9. FollowsInv'
      <4>1. overtaken \subseteq overtaken'
        BY <3>1
      <4>2. LocksInput' /\ lock'.by \in Flows /\ session'.project \notin overtaken' => lock'.old = flow'[lock'.by].copy
        BY <2>1, <3>1
      <4>. QED  BY <2>1, <3>3, <4>1, <4>2 DEF ReviewInv, FollowsInv, OfRequest, Review!Ready
    <3>10. ShownInv'
      BY <2>1 DEF ReviewInv, ShownInv, Review!WindowShowsActive
    <3>. QED  BY <3>5, <3>6, <3>7, <3>8, <3>9, <3>10 DEF ReviewInv
  <2>. QED  BY <2>2, <2>3
<1>. QED  BY <1>2, <1>3

\* The files that a worker makes of its copy.
LEMMA FilesMade ==
    ASSUME NEW c \in ReviewCalls, c.copy # NoFile, Coherent(c.copy)
    PROVE  /\ Review!Chosen(c) \in Review!Inputs /\ Review!Seen(c) \in Review!Inputs
           /\ Review!Center(c) \in Review!Presentations
           /\ Coherent(Review!Chosen(c)) /\ Coherent(Review!Seen(c)) /\ Coherent(Review!Center(c))
           /\ Review!Chosen(c).sources = c.copy.sources /\ Review!Seen(c).sources = c.copy.sources
<1>1. c.copy \in Review!Inputs /\ c.selected \in SUBSET Paths
  BY DEF ReviewCalls
<1>2. /\ Review!Chosen(c) \in Review!Inputs /\ Review!Chosen(c).sources = c.copy.sources
      /\ Review!Chosen(c).observed = c.copy.observed
  BY <1>1 DEF Review!Chosen, Review!Inputs
<1>3. /\ Review!Seen(c) \in Review!Inputs /\ Review!Seen(c).sources = c.copy.sources
      /\ Review!Seen(c).observed = c.copy.sources
  BY <1>1 DEF Review!Seen, Review!Inputs
<1>4. /\ Review!Center(c) \in Review!Presentations /\ Review!Center(c).sources = c.copy.sources
      /\ Review!Center(c).observed = c.copy.observed
  BY <1>1 DEF Review!Center, Review!Inputs, Review!Presentations
<1>. QED  BY <1>2, <1>3, <1>4 DEF Coherent

\* What becomes of a call when its replacement is done.
Settled(d, c, p) ==
    /\ d \in ReviewCalls
    /\ d.copy = NoFile /\ d.step \in {"over", "observe", "refresh", "shown"}
    /\ d.asked \in {0, c.asked}
    /\ d.step = "shown" => d.project = p

LEMMA CallSettles ==
    ASSUME ReviewInv, NEW f \in Flows, NEW p \in Scopes
    PROVE  /\ Settled(Review!NoFlow, flow[f], p)
           /\ \A step \in {"observe", "refresh"} :
               Settled([Review!NoFlow EXCEPT !.step = step, !.asked = flow[f].asked], flow[f], p)
           /\ Settled([Review!NoFlow EXCEPT !.step = "shown", !.asked = flow[f].asked, !.project = p], flow[f], p)
<1>1. /\ Review!NoFlow \in ReviewCalls /\ flow[f].asked \in 0..MaxTurns
      /\ {"observe", "refresh", "shown"} \subseteq Review!FlowSteps
  BY EmptyCallFits DEF CallFits, ReviewInv, ReviewShape, ReviewCalls, Review!FlowSteps, Review!Awaiting
<1>2. Review!NoFlow.copy = NoFile /\ Review!NoFlow.asked = 0 /\ Review!NoFlow.step = "over"
  BY DEF Review!NoFlow
<1>3. ASSUME NEW step \in {"observe", "refresh"}
      PROVE  Settled([Review!NoFlow EXCEPT !.step = step, !.asked = flow[f].asked], flow[f], p)
  <2> DEFINE d == [Review!NoFlow EXCEPT !.step = step, !.asked = flow[f].asked]
  <2>1. d \in ReviewCalls /\ d.copy = NoFile /\ d.step = step /\ d.asked = flow[f].asked
    BY <1>1, <1>2 DEF ReviewCalls
  <2> HIDE DEF d
  <2>2. Settled(d, flow[f], p)
    BY <2>1 DEF Settled
  <2>. QED  BY <2>2 DEF d
<1>4. Settled([Review!NoFlow EXCEPT !.step = "shown", !.asked = flow[f].asked, !.project = p], flow[f], p)
  <2> DEFINE d == [Review!NoFlow EXCEPT !.step = "shown", !.asked = flow[f].asked, !.project = p]
  <2>1. d \in ReviewCalls /\ d.copy = NoFile /\ d.asked = flow[f].asked /\ d.project = p /\ d.step = "shown"
    BY <1>1, <1>2 DEF ReviewCalls
  <2> HIDE DEF d
  <2>2. Settled(d, flow[f], p)
    BY <2>1 DEF Settled
  <2>. QED  BY <2>2 DEF d
<1>. QED  BY <1>1, <1>2, <1>3, <1>4 DEF Settled

\* A lock that is released with the call that had it, or without one.
LEMMA ReleaseShows ==
    ASSUME ReviewInv, NEW f \in Flows, NEW d, Settled(d, flow[f], session.project),
           flow' = [flow EXCEPT ![f] = d],
           UNCHANGED <<session, window, turns, mishaps>>
    PROVE  ShownInv'
<1>1. flow'[f] = d /\ \A g \in Flows \ {f} : flow'[g] = flow[g]
  BY DEF ReviewInv, ReviewShape
<1>2. flow[f].asked <= window.turn /\ 0 <= window.turn
  BY ReviewConstants DEF ReviewInv, ReviewShape, ShownInv
<1>. QED  BY <1>1, <1>2 DEF ReviewInv, ShownInv, Settled, Review!WindowShowsActive

LEMMA WorkerCommitsKeeps ==
    ASSUME ReviewInv, NEW f \in Flows, Review!WorkerCommits(f)
    PROVE  ReviewInv'
<1>. PICK p \in Scopes : p = session.project
  BY DEF ReviewInv, ReviewShape, Review!ReviewTypeOK
<1>1. /\ lock.by = f /\ lock' = Review!Unlocked
      /\ UNCHANGED <<request, setup, session, window, turns, mishaps, overtaken, unfinished>>
  BY DEF Review!WorkerCommits
<1>2. /\ flow[f].step \in Review!Replacing /\ flow[f].project = p /\ flow[f] \in ReviewCalls
      /\ flow[f].copy # NoFile /\ Coherent(flow[f].copy)
  BY <1>1, LockOwner DEF ReviewInv, ReviewShape, LockInv, ReadInv, CoherentInv, Review!InScope
<1>3. /\ ~LocksInput' /\ ~LocksRequest' /\ ~LocksPresentation' /\ ~LocksRequest
      /\ LocksInput <=> flow[f].step \in {"selecting", "observing"}
  BY <1>1, ReviewConstants DEF Review!Unlocked, LocksInput, LocksRequest, LocksPresentation
<1>4. /\ \A q \in Scopes : WholeInput(q)' = input'[q] /\ WholeRequest(q)' = request[q] /\ WholeRequest(q) = request[q]
      /\ \A q \in Scopes \ {p} : WholeInput(q) = input[q]
      /\ \A q \in Scopes : Projecting(q)' <=> Projecting(q)
  BY <1>1, <1>3 DEF WholeInput, WholeRequest, Projecting, Review!Ready
<1>5. /\ Review!Chosen(flow[f]) \in Review!Inputs /\ Review!Seen(flow[f]) \in Review!Inputs
      /\ Review!Center(flow[f]) \in Review!Presentations
      /\ Coherent(Review!Chosen(flow[f])) /\ Coherent(Review!Seen(flow[f])) /\ Coherent(Review!Center(flow[f]))
      /\ Review!Chosen(flow[f]).sources = flow[f].copy.sources /\ Review!Seen(flow[f]).sources = flow[f].copy.sources
  BY <1>2, FilesMade
<1>6. LockInv'
  BY <1>1, <1>3, ReviewConstants DEF LockInv, Review!Unlocked
<1>7. CASE flow[f].step \in {"selecting", "observing"}
  <2>1. PICK file \in Review!Inputs :
          /\ input' = [input EXCEPT ![p] = file] /\ UNCHANGED presentation
          /\ Coherent(file) /\ file.sources = flow[f].copy.sources
    BY <1>1, <1>2, <1>5, <1>7 DEF Review!WorkerCommits
  <2>2. PICK d : Settled(d, flow[f], p) /\ flow' = [flow EXCEPT ![f] = d]
    <3>1. PICK step \in {"observe", "refresh"} :
            \/ flow' = [flow EXCEPT ![f] = [Review!NoFlow EXCEPT !.step = step, !.asked = flow[f].asked]]
            \/ flow' = [flow EXCEPT ![f] = Review!NoFlow]
      BY <1>7 DEF Review!WorkerCommits, Review!End
    <3>. QED  BY <3>1, CallSettles
  <2>3. /\ input'[p] = file /\ file # NoFile /\ \A q \in Scopes \ {p} : input'[q] = input[q]
    BY <2>1, ReviewConstants DEF ReviewInv, ReviewShape, Review!ReviewTypeOK
  <2>4. /\ flow'[f] = d /\ \A g \in Flows \ {f} : flow'[g] = flow[g]
        /\ flow' \in [Flows -> ReviewCalls]
    BY <2>2 DEF ReviewInv, ReviewShape, Settled
  <2>5. ReviewShape'
    BY <1>1, <2>1, <2>4 DEF ReviewInv, ReviewShape, ReviewCalls, Review!ReviewTypeOK, Review!Unlocked
  <2>6. ReadInv'
    BY <1>1, <1>4, <2>2, <2>3, <2>4 DEF ReviewInv, ReadInv, Settled, Review!Replacing, Review!Ready
  <2>7. WholeInput(p) # NoFile
    BY <1>2 DEF ReviewInv, ReadInv
  <2>8. KeptInv'
    BY <1>1, <1>4, <2>3, <2>7 DEF ReviewInv, KeptInv
  <2>9. CoherentInv'
    BY <1>1, <1>3, <2>1, <2>2, <2>3, <2>4 DEF ReviewInv, CoherentInv, Coherent, Settled
  <2>10. FollowsInv'
    <3>1. p \notin overtaken => WholeInput(p) = flow[f].copy
      BY <1>1, <1>3, <1>7 DEF ReviewInv, FollowsInv, WholeInput
    <3>2. ASSUME NEW q \in Scopes, q \notin overtaken, NEW r
          PROVE  OfRequest(WholeInput(q), r) => OfRequest(input'[q], r)
      BY <1>4, <2>1, <2>3, <3>1, <3>2 DEF OfRequest
    <3>3. ASSUME NEW q \in Scopes, q \notin overtaken', q \notin unfinished', ~Projecting(q)', Review!Ready(WholeRequest(q)')
          PROVE  OfRequest(WholeInput(q), WholeRequest(q))'
      BY <1>1, <1>4, <3>2, <3>3 DEF ReviewInv, FollowsInv, OfRequest
    <3>4. ASSUME NEW q \in Scopes, q \notin overtaken', Projecting(q)'
          PROVE  OfRequest(WholeInput(q), setup.next)'
      BY <1>1, <1>4, <3>2, <3>4 DEF ReviewInv, FollowsInv, OfRequest
    <3>. QED  BY <1>3, <3>3, <3>4 DEF FollowsInv, Review!Ready
  <2>11. ShownInv'
    BY <1>1, <2>2, ReleaseShows
  <2>. QED  BY <1>6, <2>5, <2>6, <2>8, <2>9, <2>10, <2>11 DEF ReviewInv
<1>8. CASE flow[f].step = "presenting"
  <2>1. presentation' = [presentation EXCEPT ![p] = Review!Center(flow[f])] /\ UNCHANGED input
    BY <1>2, <1>8 DEF Review!WorkerCommits
  <2>2. PICK d : Settled(d, flow[f], p) /\ flow' = [flow EXCEPT ![f] = d]
    <3>1. flow' = [flow EXCEPT ![f] = [Review!NoFlow EXCEPT !.step = "shown", !.asked = flow[f].asked, !.project = p]]
      BY <1>2, <1>8 DEF Review!WorkerCommits
    <3>. QED  BY <3>1, CallSettles
  <2>3. /\ presentation'[p] = Review!Center(flow[f]) /\ \A q \in Scopes \ {p} : presentation'[q] = presentation[q]
    BY <2>1 DEF ReviewInv, ReviewShape, Review!ReviewTypeOK
  <2>4. /\ flow'[f] = d /\ \A g \in Flows \ {f} : flow'[g] = flow[g]
        /\ flow' \in [Flows -> ReviewCalls]
    BY <2>2 DEF ReviewInv, ReviewShape, Settled
  <2>5. \A q \in Scopes : WholeInput(q)' = WholeInput(q)
    BY <1>3, <1>4, <1>8, <2>1 DEF WholeInput
  <2>6. ReviewShape'
    BY <1>1, <1>5, <2>1, <2>4 DEF ReviewInv, ReviewShape, ReviewCalls, Review!ReviewTypeOK, Review!Unlocked
  <2>7. ReadInv'
    BY <1>1, <2>2, <2>4, <2>5 DEF ReviewInv, ReadInv, Settled, Review!Replacing, Review!Ready
  <2>8. KeptInv'
    BY <1>1, <1>4, <2>5 DEF ReviewInv, KeptInv
  <2>9. CoherentInv'
    BY <1>1, <1>3, <1>5, <2>1, <2>2, <2>3, <2>4 DEF ReviewInv, CoherentInv, Coherent, Settled
  <2>10. FollowsInv'
    BY <1>1, <1>3, <1>4, <2>5 DEF ReviewInv, FollowsInv, OfRequest, Review!Ready
  <2>11. ShownInv'
    BY <1>1, <2>2, ReleaseShows
  <2>. QED  BY <1>6, <2>6, <2>7, <2>8, <2>9, <2>10, <2>11 DEF ReviewInv
<1>. QED  BY <1>2, <1>7, <1>8 DEF Review!Replacing

--------------------------------------------------------------------------------------
(* What fails.                                                                  *)

\* A replacement that fails returns the file that was set aside.
LEMMA FilesReturn ==
    ASSUME ReviewInv, lock.by # "none", Review!Leaves(lock.old), lock' = Review!Unlocked
    PROVE  /\ request' \in [Scopes -> Review!Requests \cup {NoFile}]
           /\ input' \in [Scopes -> Review!Inputs \cup {NoFile}]
           /\ presentation' \in [Scopes -> Review!Presentations \cup {NoFile}]
           /\ \A q \in Scopes : WholeInput(q)' = WholeInput(q) /\ WholeRequest(q)' = WholeRequest(q)
           /\ \A q \in Scopes : Coherent(input[q])' /\ Coherent(presentation[q])'
           /\ ~LocksInput' /\ ~LocksRequest' /\ ~LocksPresentation'
<1>. PICK p \in Scopes : p = session.project
  BY DEF ReviewInv, ReviewShape, Review!ReviewTypeOK
<1>1. ~LocksInput' /\ ~LocksRequest' /\ ~LocksPresentation'
  BY ReviewConstants DEF Review!Unlocked, LocksInput, LocksRequest, LocksPresentation
<1>2. \A q \in Scopes : WholeInput(q)' = input'[q] /\ WholeRequest(q)' = request'[q]
  BY <1>1 DEF WholeInput, WholeRequest
<1>3. CASE LocksRequest
  <2>1. request' = [request EXCEPT ![p] = lock.old] /\ UNCHANGED <<input, presentation>>
    BY <1>3 DEF LocksRequest, Review!Leaves
  <2>2. ~LocksInput /\ lock.old \in Review!Requests \cup {NoFile}
    BY <1>3, ReviewConstants DEF LocksInput, LocksRequest, ReviewInv, LockInv
  <2>. QED  BY <1>1, <1>2, <1>3, <2>1, <2>2 DEF WholeInput, WholeRequest, ReviewInv, CoherentInv, Coherent, ReviewShape,
            Review!ReviewTypeOK
<1>4. CASE LocksInput
  <2>1. input' = [input EXCEPT ![p] = lock.old] /\ UNCHANGED <<request, presentation>>
    BY <1>4, ReviewConstants DEF LocksInput, Review!Leaves
  <2>2. ~LocksRequest /\ lock.old \in Review!Inputs \cup {NoFile} /\ Coherent(lock.old)
    BY <1>4, ReviewConstants DEF LocksInput, LocksRequest, ReviewInv, LockInv, CoherentInv
  <2>. QED  BY <1>1, <1>2, <1>4, <2>1, <2>2 DEF WholeInput, WholeRequest, ReviewInv, CoherentInv, Coherent, ReviewShape,
            Review!ReviewTypeOK
<1>5. CASE LocksPresentation
  <2>1. presentation' = [presentation EXCEPT ![p] = lock.old] /\ UNCHANGED <<request, input>>
    BY <1>5, ReviewConstants DEF LocksPresentation, Review!Leaves
  <2>2. ~LocksRequest /\ ~LocksInput /\ lock.old \in Review!Presentations \cup {NoFile} /\ Coherent(lock.old)
    BY <1>5, ReviewConstants DEF LocksInput, LocksRequest, LocksPresentation, ReviewInv, LockInv, CoherentInv
  <2>. QED  BY <1>1, <1>2, <1>5, <2>1, <2>2 DEF WholeInput, WholeRequest, ReviewInv, CoherentInv, Coherent, ReviewShape,
            Review!ReviewTypeOK
<1>. QED  BY <1>3, <1>4, <1>5 DEF ReviewInv, LockInv

LEMMA ReplacementFailsKeeps ==
    ASSUME ReviewInv, Review!ReplacementFails
    PROVE  ReviewInv'
<1>. PICK p \in Scopes : p = session.project
  BY DEF ReviewInv, ReviewShape, Review!ReviewTypeOK
<1>1. /\ lock.by # "none" /\ lock' = Review!Unlocked
      /\ mishaps < MaxMishaps /\ turns + mishaps < MaxTurns /\ mishaps' = mishaps + 1
      /\ UNCHANGED <<session, turns, overtaken>>
  BY DEF Review!ReplacementFails, Review!Mishap
<1>2. /\ request' \in [Scopes -> Review!Requests \cup {NoFile}]
      /\ input' \in [Scopes -> Review!Inputs \cup {NoFile}]
      /\ presentation' \in [Scopes -> Review!Presentations \cup {NoFile}]
      /\ \A q \in Scopes : WholeInput(q)' = WholeInput(q) /\ WholeRequest(q)' = WholeRequest(q)
      /\ \A q \in Scopes : Coherent(input[q])' /\ Coherent(presentation[q])'
      /\ ~LocksInput' /\ ~LocksRequest' /\ ~LocksPresentation'
  BY <1>1, FilesReturn DEF Review!ReplacementFails
<1>3. /\ unfinished' \in SUBSET Scopes /\ unfinished \subseteq unfinished'
      /\ Projecting(p) => p \in unfinished'
  BY DEF Review!ReplacementFails, Review!Halved, Projecting, ReviewInv, ReviewShape, Review!ReviewTypeOK
<1>4. /\ setup' \in [step : {"idle", "input", "request"}, next : Review!Requests]
      /\ setup'.step = "input" => Review!Ready(setup.next)'
      /\ \A q \in Scopes : Projecting(q)' => Projecting(q) /\ setup' = setup
  <2>1. CASE lock.by = "setup"
    <3>1. setup' = Review!NoSetup
      BY <2>1 DEF Review!ReplacementFails
    <3>. QED  BY <3>1 DEF Review!NoSetup, Review!Unset, Review!Requests, Projecting
  <2>2. CASE lock.by # "setup"
    <3>1. setup' = setup
      BY <2>2 DEF Review!ReplacementFails
    <3>. QED  BY <1>1, <3>1 DEF ReviewInv, ReviewShape, ReadInv, Projecting, Review!Ready
  <2>. QED  BY <2>1, <2>2
<1>5. /\ flow' \in [Flows -> ReviewCalls]
      /\ \A g \in Flows : flow'[g] = flow[g] \/ flow'[g] = Review!NoFlow
      /\ window'.turn = window.turn /\ window' \in [turn : 0..MaxTurns, shown : Scopes \cup {NoScope}]
      /\ window'.shown = window.shown \/ window'.shown = NoScope
  <2>1. CASE lock.by = "setup"
    BY <2>1 DEF Review!ReplacementFails, ReviewInv, ReviewShape
  <2>2. CASE lock.by # "setup"
    <3>1. lock.by \in Flows /\ Review!EndIn(lock.by, TRUE)
      BY <1>1, <2>2 DEF Review!ReplacementFails, ReviewInv, ReviewShape
    <3>. QED  BY <3>1, EmptyCallFits DEF CallFits, Review!EndIn, Review!End, Review!Show, ReviewInv, ReviewShape
  <2>. QED  BY <2>1, <2>2
<1>6. ReviewShape'
  <2>1. mishaps' \in 0..MaxMishaps
    BY <1>1, ReviewConstants DEF ReviewInv, ReviewShape, Review!ReviewTypeOK
  <2>. QED  BY <1>1, <1>2, <1>3, <1>4, <1>5, <2>1 DEF ReviewInv, ReviewShape, ReviewCalls, Review!ReviewTypeOK,
            Review!Unlocked
<1>7. LockInv'
  BY <1>1, <1>2, ReviewConstants DEF LockInv, Review!Unlocked
<1>8. ReadInv'
  BY <1>2, <1>4, <1>5 DEF ReviewInv, ReadInv, Review!NoFlow, Review!Replacing
<1>9. KeptInv'
  <2>1. ASSUME NEW q \in Scopes, q \notin unfinished', WholeInput(q)' # NoFile
        PROVE  WholeRequest(q)' # NoFile
    BY <1>2, <1>3, <2>1 DEF ReviewInv, KeptInv, Projecting
  <2>. QED  BY <2>1 DEF KeptInv
<1>10. CoherentInv'
  BY <1>2, <1>5 DEF ReviewInv, CoherentInv, Coherent, Review!NoFlow
<1>11. FollowsInv'
  <2>1. ASSUME NEW q \in Scopes, q \notin overtaken', q \notin unfinished', Review!Ready(WholeRequest(q)')
        PROVE  OfRequest(WholeInput(q), WholeRequest(q))'
    BY <1>1, <1>2, <1>3, <2>1 DEF ReviewInv, FollowsInv, Projecting, OfRequest
  <2>2. ASSUME NEW q \in Scopes, q \notin overtaken', Projecting(q)'
        PROVE  OfRequest(WholeInput(q), setup.next)'
    BY <1>1, <1>2, <1>4, <2>2 DEF ReviewInv, FollowsInv, OfRequest
  <2>. QED  BY <1>2, <2>1, <2>2 DEF FollowsInv, Review!Ready
<1>12. ShownInv'
  <2>1. (turns + mishaps <= MaxTurns)'
    BY <1>1, ReviewConstants DEF ReviewInv, ReviewShape, Review!ReviewTypeOK
  <2>2. 0 <= window.turn
    BY ReviewConstants DEF ReviewInv, ReviewShape
  <2>. QED  BY <1>1, <1>5, <2>1, <2>2 DEF ReviewInv, ShownInv, Review!NoFlow, Review!WindowShowsActive
<1>. QED  BY <1>6, <1>7, <1>8, <1>9, <1>10, <1>11, <1>12 DEF ReviewInv

LEMMA DieReviewingKeeps ==
    ASSUME ReviewInv, Review!DieReviewing
    PROVE  ReviewInv'
<1>. PICK p \in Scopes : p = session.project
  BY DEF ReviewInv, ReviewShape, Review!ReviewTypeOK
<1>1. /\ lock' = Review!Unlocked /\ setup' = Review!NoSetup /\ flow' = [f \in Flows |-> Review!NoFlow]
      /\ session' = [session EXCEPT !.turn = 0] /\ window' = [turn |-> 0, shown |-> NoScope]
      /\ mishaps < MaxMishaps /\ turns + mishaps < MaxTurns /\ mishaps' = mishaps + 1
      /\ UNCHANGED <<request, input, presentation, turns, overtaken>>
  BY DEF Review!DieReviewing, Review!Mishap, Review!reviewFiles
<1>2. /\ ~LocksInput' /\ ~LocksRequest' /\ ~LocksPresentation'
      /\ \A q \in Scopes : WholeInput(q)' = input[q] /\ WholeRequest(q)' = request[q]
      /\ \A q \in Scopes : ~Projecting(q)'
  BY <1>1, ReviewConstants DEF Review!Unlocked, LocksInput, LocksRequest, LocksPresentation, WholeInput, WholeRequest,
     Projecting, Review!NoSetup
<1>3. /\ unfinished' \in SUBSET Scopes /\ unfinished \subseteq unfinished'
      /\ Projecting(p) => p \in unfinished'
      /\ p \notin unfinished' => WholeInput(p) = input[p] /\ WholeRequest(p) = request[p]
  <2>1. unfinished' = unfinished \cup Review!Halved(NoFile) /\ Review!Halved(NoFile) \subseteq {p}
    BY DEF Review!DieReviewing, Review!Halved
  <2>2. p \notin Review!Halved(NoFile) => ~Projecting(p) /\ (lock.by # "none" => lock.old = NoFile)
    BY DEF Review!Halved, Projecting
  <2>3. lock.by = "none" => ~LocksInput /\ ~LocksRequest
    BY ReviewConstants DEF LocksInput, LocksRequest
  <2>4. p \notin Review!Halved(NoFile) => WholeInput(p) = input[p] /\ WholeRequest(p) = request[p]
    BY <2>2, <2>3 DEF ReviewInv, LockInv, WholeInput, WholeRequest
  <2>. QED  BY <2>1, <2>2, <2>4 DEF ReviewInv, ReviewShape, Review!ReviewTypeOK
<1>4. \A q \in Scopes \ {p} : WholeInput(q) = input[q] /\ WholeRequest(q) = request[q] /\ ~Projecting(q)
  BY DEF WholeInput, WholeRequest, Projecting
<1>5. ReviewShape'
  <2>1. mishaps' \in 0..MaxMishaps
    BY <1>1, ReviewConstants DEF ReviewInv, ReviewShape, Review!ReviewTypeOK
  <2>2. /\ setup' \in [step : {"idle", "input", "request"}, next : Review!Requests]
        /\ flow' \in [Flows -> ReviewCalls]
    BY <1>1, EmptyCallFits DEF CallFits, Review!NoSetup, Review!Unset, Review!Requests
  <2>. QED  BY <1>1, <1>3, <2>1, <2>2, ReviewConstants DEF ReviewInv, ReviewShape, ReviewCalls, Review!ReviewTypeOK,
            Review!Unlocked
<1>6. LockInv' /\ ReadInv'
  BY <1>1, <1>2, ReviewConstants
  DEF LockInv, ReadInv, Review!Unlocked, Review!NoSetup, Review!NoFlow, Review!Replacing
<1>7. KeptInv'
  <2>1. ASSUME NEW q \in Scopes, q \notin unfinished', input[q] # NoFile
        PROVE  request[q] # NoFile
    BY <1>3, <1>4, <2>1 DEF ReviewInv, KeptInv
  <2>. QED  BY <1>2, <2>1 DEF KeptInv
<1>8. CoherentInv'
  BY <1>1, <1>2 DEF ReviewInv, CoherentInv, Coherent, Review!NoFlow
<1>9. FollowsInv'
  <2>1. ASSUME NEW q \in Scopes, q \notin overtaken', q \notin unfinished', Review!Ready(request[q])
        PROVE  OfRequest(input[q], request[q])
    BY <1>1, <1>3, <1>4, <2>1 DEF ReviewInv, FollowsInv, OfRequest
  <2>. QED  BY <1>1, <1>2, <2>1 DEF FollowsInv, OfRequest, Review!Ready
<1>10. ShownInv'
  <2>1. session'.turn = 0 /\ turns \in Nat /\ mishaps \in Nat
    BY <1>1, ReviewConstants DEF ReviewInv, ReviewShape, Review!ReviewTypeOK
  <2>. QED  BY <1>1, <2>1, ReviewConstants DEF ShownInv, Review!NoFlow, Review!WindowShowsActive
<1>. QED  BY <1>5, <1>6, <1>7, <1>8, <1>9, <1>10 DEF ReviewInv

--------------------------------------------------------------------------------------
(* Every step.                                                                  *)

LEMMA ReviewBegins ==
    ASSUME Init
    PROVE  ReviewInv
<1>1. PICK S \in {{}, Scopes}, s \in Linked :
        /\ request = [p \in Scopes |->
               IF p \in S THEN [named |-> TRUE, renamed |-> FALSE, sources |-> s] ELSE NoFile]
        /\ input = [p \in Scopes |->
               IF p \in S THEN [sources |-> s, observed |-> NoFile, selected |-> {}] ELSE NoFile]
  BY DEF Init, Review!ReviewInit
<1>2. PICK p \in Scopes :
        /\ session = [project |-> p, turn |-> 0]
        /\ window = [turn |-> 0, shown |-> IF input[p] = NoFile THEN NoScope ELSE p]
  BY DEF Init, Review!ReviewInit
<1>3. /\ presentation = [q \in Scopes |-> NoFile]
      /\ setup = Review!NoSetup /\ flow = [f \in Flows |-> Review!NoFlow] /\ lock = Review!Unlocked
      /\ turns = 0 /\ mishaps = 0 /\ overtaken = {} /\ unfinished = {}
  BY DEF Init, Review!ReviewInit
<1>4. /\ ~LocksInput /\ ~LocksRequest /\ ~LocksPresentation
      /\ \A q \in Scopes : WholeInput(q) = input[q] /\ WholeRequest(q) = request[q] /\ ~Projecting(q)
  BY <1>3, ReviewConstants DEF Review!Unlocked, LocksInput, LocksRequest, LocksPresentation, WholeInput, WholeRequest,
     Projecting, Review!NoSetup
<1>5. ReviewShape
  <2>1. /\ [named |-> TRUE, renamed |-> FALSE, sources |-> s] \in Review!Requests
        /\ [sources |-> s, observed |-> NoFile, selected |-> {}] \in Review!Inputs
    BY DEF Review!Requests, Review!Inputs, Review!Sources
  <2>2. Review!NoFlow \in ReviewCalls /\ Review!NoSetup \in [step : {"idle", "input", "request"}, next : Review!Requests]
    BY ReviewConstants DEF ReviewCalls, Review!NoFlow, Review!NoSetup, Review!Unset, Review!Requests, Review!FlowSteps
  <2>3. /\ request \in [Scopes -> Review!Requests \cup {NoFile}]
        /\ input \in [Scopes -> Review!Inputs \cup {NoFile}]
        /\ presentation \in [Scopes -> Review!Presentations \cup {NoFile}]
        /\ flow \in [Flows -> ReviewCalls]
    BY <1>1, <1>3, <2>1, <2>2
  <2>4. session \in [project : Scopes, turn : 0..MaxTurns] /\ window \in [turn : 0..MaxTurns, shown : Scopes \cup {NoScope}]
    BY <1>2, ReviewConstants
  <2>. QED  BY <1>3, <2>2, <2>3, <2>4, ReviewConstants DEF ReviewShape, Review!ReviewTypeOK, ReviewCalls, Review!Unlocked
<1>6. LockInv /\ ReadInv
  BY <1>3, <1>4, ReviewConstants
  DEF LockInv, ReadInv, Review!Unlocked, Review!NoSetup, Review!NoFlow, Review!Replacing
<1>7. KeptInv
  <2>1. [named |-> TRUE, renamed |-> FALSE, sources |-> s] # NoFile
    <3>1. [named |-> TRUE, renamed |-> FALSE, sources |-> s] \in Review!Requests
      BY DEF Review!Requests, Review!Sources
    <3>. QED  BY <3>1, ReviewConstants
  <2>. QED  BY <1>1, <1>4, <2>1 DEF KeptInv
<1>8. CoherentInv
  BY <1>1, <1>3, <1>4 DEF CoherentInv, Coherent, Review!NoFlow
<1>9. FollowsInv
  BY <1>1, <1>4, ReviewConstants DEF FollowsInv, OfRequest, Review!Ready, Review!Inputs
<1>10. ShownInv
  BY <1>2, <1>3, ReviewConstants DEF ShownInv, Review!NoFlow, Review!WindowShowsActive
<1>. QED  BY <1>5, <1>6, <1>7, <1>8, <1>9, <1>10 DEF ReviewInv

LEMMA ReviewStays ==
    ASSUME ReviewInv, UNCHANGED reviewVars
    PROVE  ReviewInv'
<1>. USE DEF reviewVars
<1>1. LocksInput' = LocksInput /\ LocksRequest' = LocksRequest /\ LocksPresentation' = LocksPresentation
  BY DEF LocksInput, LocksRequest, LocksPresentation
<1>2. /\ \A p \in Scopes : WholeInput(p)' = WholeInput(p) /\ WholeRequest(p)' = WholeRequest(p)
      /\ \A p \in Scopes : Projecting(p)' <=> Projecting(p)
  BY <1>1 DEF WholeInput, WholeRequest, Projecting, Review!Ready
<1>3. ReviewShape' /\ LockInv'
  BY <1>1 DEF ReviewInv, ReviewShape, LockInv, Review!ReviewTypeOK, Review!InScope
<1>4. ReadInv' /\ KeptInv' /\ ShownInv'
  BY <1>2 DEF ReviewInv, ReadInv, KeptInv, ShownInv, Review!Ready, Review!WindowShowsActive
<1>5. CoherentInv' /\ FollowsInv'
  BY <1>1, <1>2 DEF ReviewInv, CoherentInv, FollowsInv, Coherent, OfRequest, Review!Ready
<1>. QED  BY <1>3, <1>4, <1>5 DEF ReviewInv

LEMMA ReviewNextKeeps ==
    ASSUME ReviewInv, Review!ReviewNext
    PROVE  ReviewInv'
<1>1. ASSUME NEW f \in Flows, Review!Flowing(f)
      PROVE  ReviewInv'
  <2>1. ASSUME Review!StartReview(f) PROVE ReviewInv'
    BY <2>1, CallStarts DEF Review!StartReview
  <2>. QED  BY <1>1, <2>1, LoadPresentationKeeps, LoadedKeeps, WorkerReadsKeeps, InventoryKeeps, ProgramFailsKeeps,
            WorkerLocksKeeps, WorkerCommitsKeeps DEF Review!Flowing
<1>. QED  BY <1>1, TellKeeps, SetupLocksKeeps, SetupCommitsKeeps, ActivateKeeps, ActivationToldKeeps,
          ReplacementFailsKeeps, DieReviewingKeeps DEF Review!ReviewNext

\* The invariant holds in every state of the Desktop, whichever part of it is looked at.
THEOREM ReviewInvariantHolds == Spec => []ReviewInv
<1>1. Init => ReviewInv
  BY ReviewBegins
<1>2. ReviewInv /\ [Next]_vars => ReviewInv'
  <2>. SUFFICES ASSUME ReviewInv, [Next]_vars PROVE ReviewInv'
    OBVIOUS
  <2>1. CASE ReviewStep
    BY <2>1, ReviewNextKeeps DEF ReviewStep
  <2>2. CASE UNCHANGED reviewVars
    BY <2>2, ReviewStays
  <2>. QED  BY <2>1, <2>2 DEF Next, ProjectsStep, UpdatesStep, ConnectionStep, KnowledgeStep, SessionsStep, AgentStep, vars
<1>. QED  BY <1>1, <1>2, PTL DEF Spec

\* What was seen of a project's sources stands beside those the user told, every input
\* is of a request, and the window shows the sources of no project but the active one
\* (project_source_review_bridge.rs, project-source-review-bridge.ts), however many
\* projects, calls, workers and mishaps there are.
THEOREM ReviewHolds == Spec => []ReviewIsOfItsProject
<1>1. ReviewInv => ReviewIsOfItsProject
  <2>. SUFFICES ASSUME ReviewInv PROVE Review!ReviewFollowsSources /\ Review!RequestIsKept /\ Review!WindowShowsActive
    BY DEF ReviewIsOfItsProject, Of
  <2>1. ASSUME Review!Idle, Review!Free, NEW p \in Scopes
        PROVE  WholeInput(p) = input[p] /\ WholeRequest(p) = request[p] /\ ~Projecting(p)
    BY <2>1, FreeFiles DEF Review!Idle, Projecting
  <2>2. Review!ReviewFollowsSources
    BY <2>1 DEF ReviewInv, CoherentInv, Coherent, FollowsInv, OfRequest, Review!ReviewFollowsSources
  <2>3. Review!RequestIsKept
    BY <2>1 DEF ReviewInv, KeptInv, Review!RequestIsKept
  <2>. QED  BY <2>2, <2>3 DEF ReviewInv, ShownInv
<1>. QED  BY <1>1, ReviewInvariantHolds, PTL

(***************************************************************************)
(* The commands about the documents.                                       *)
(***************************************************************************)

LEMMA KnowledgeConstants ==
    NoScope \notin Scopes /\ NoContent \notin Contents /\ NoTask \notin Tasks /\ MaxMoves \in Nat
BY ProjectKnowledgeAssumption DEF Knowledge!KnowledgeAssumption

--------------------------------------------------------------------------------------
(* What a step of a command has to show.                                        *)

\* What was accepted stays accepted, and what slipped in is remembered.
Grows ==
    /\ \A p \in Scopes : confirmed[p] \subseteq confirmed'[p] /\ slipped[p] \subseteq slipped'[p]
    /\ UNCHANGED scope

Brains ==
    /\ document \in [Scopes -> Contents] /\ receipt \in [Scopes -> Contents \cup {NoContent}]
    /\ {guarded, proven, confirmed, slipped} \subseteq [Scopes -> SUBSET Contents]

LEMMA FitsStay ==
    ASSUME Grows
    PROVE  /\ \A c : TaskFits(c) => TaskFits(c)'
           /\ \A d : DeskFits(d) => DeskFits(d)'
           /\ \A d : IsConfirmed(d) => IsConfirmed(d)'
<1>1. ASSUME NEW d
      PROVE  (IsConfirmed(d) => IsConfirmed(d)') /\ (IsSlipped(d) => IsSlipped(d)')
  BY DEF Grows, IsConfirmed, IsSlipped
<1>2. ASSUME NEW c, TaskFits(c)
      PROVE  TaskFits(c)'
  <2>1. c.purpose = "apply" /\ c.proposal \in Reviewable => c.proposal.post \in confirmed'[c.proposal.project]
    BY <1>2 DEF TaskFits, Grows, Reviewable
  <2>. QED  BY <1>1, <1>2, <2>1 DEF TaskFits, Grows
<1>3. ASSUME NEW d, DeskFits(d)
      PROVE  DeskFits(d)'
  BY <1>1, <1>3 DEF DeskFits, Grows
<1>. QED  BY <1>1, <1>2, <1>3

LEMMA KnowledgeCommandKeeps ==
    ASSUME KnowledgeInv, NEW t \in Tasks, NEW c, TaskFits(c)',
           tasks' = [tasks EXCEPT ![t] = c],
           DeskFits(desk)', Brains', Grows, Knowledge!ProtectedIsConfirmed',
           moves' \in {moves} \/ Knowledge!Moves
    PROVE  KnowledgeInv'
<1>1. \A u \in Tasks : TaskFits(tasks[u])'
  BY FitsStay DEF KnowledgeInv, KnowledgeShape
<1>2. KnowledgeShape'
  <2>1. tasks' \in [Tasks -> KnowledgeTasks]
    BY DEF KnowledgeInv, KnowledgeShape, TaskFits
  <2>2. moves' \in 0..MaxMoves /\ scope'.turn <= moves'
    BY KnowledgeConstants DEF KnowledgeInv, KnowledgeShape, Knowledge!Moves, Grows
  <2>. QED  BY <2>1, <2>2 DEF KnowledgeInv, KnowledgeShape, Brains, Grows
<1>. QED  BY <1>1, <1>2 DEF KnowledgeInv

\* A step of a command and of the window, which changes nothing else.
LEMMA QuietCommandKeeps ==
    ASSUME KnowledgeInv, NEW t \in Tasks, NEW c, TaskFits(c),
           tasks' = [tasks EXCEPT ![t] = c], DeskFits(desk'),
           UNCHANGED <<document, receipt, guarded, proven, scope, confirmed, slipped>>,
           moves' \in {moves} \/ Knowledge!Moves
    PROVE  KnowledgeInv'
<1>1. Grows /\ Brains' /\ Knowledge!ProtectedIsConfirmed'
  BY DEF Grows, Brains, KnowledgeInv, KnowledgeShape, Knowledge!ProtectedIsConfirmed
<1>2. TaskFits(c)'
  BY <1>1, FitsStay
<1>3. DeskFits(desk)'
  <2>1. \A d : DeskFits(d) => DeskFits(d)'
    BY <1>1, FitsStay
  <2>. QED  BY <2>1 DEF DeskFits, IsConfirmed, IsSlipped
<1>. QED  BY <1>1, <1>2, <1>3, KnowledgeCommandKeeps

--------------------------------------------------------------------------------------
(* The records that commands begin and end with.                                *)

LEMMA OverFits ==
    ASSUME KnowledgeInv
    PROVE  /\ TaskFits(Knowledge!Over)
           /\ \A step \in {"read", "ask"}, why \in Knowledge!Purposes :
               TaskFits([Knowledge!Over EXCEPT !.step = step, !.purpose = why])
           /\ \A why \in Knowledge!Purposes, u \in Tasks \cup {NoTask} :
               TaskFits([Knowledge!Over EXCEPT !.step = "waiting", !.purpose = why, !.on = u])
<1>1. /\ Knowledge!NoDigest \in Knowledge!Digests /\ Knowledge!NoAnswer \in Knowledge!Answers
      /\ Whole(Knowledge!NoDigest) /\ Whole(Knowledge!NoAnswer)
      /\ Knowledge!NoDigest.project \notin Scopes /\ Knowledge!NoProposal \notin Reviewable
  BY KnowledgeConstants DEF Knowledge!NoDigest, Knowledge!NoAnswer, Knowledge!Digests, Knowledge!Answers,
     Knowledge!Statuses, Whole, Knowledge!NoProposal, Reviewable
<1>2. scope.turn \in Nat
  BY KnowledgeConstants DEF KnowledgeInv, KnowledgeShape
<1>3. ASSUME NEW step \in {"over", "read", "waiting", "ask"}, NEW why \in Knowledge!Purposes,
             NEW c \in KnowledgeTasks, c.step = step, c.purpose = why, c.turn = 0, c.checked = 0,
             c.digest = Knowledge!NoDigest, c.proposal = Knowledge!NoProposal, c.answer = Knowledge!NoAnswer
      PROVE  TaskFits(c)
  BY <1>1, <1>2, <1>3 DEF TaskFits, PurposeFits, Applying, Accepting
<1>4. Knowledge!Over \in KnowledgeTasks
  BY <1>1, KnowledgeConstants DEF Knowledge!Over, KnowledgeTasks, Knowledge!Steps, Knowledge!Purposes
<1>5. /\ Knowledge!Over.step = "over" /\ Knowledge!Over.purpose = "none" /\ Knowledge!Over.turn = 0
      /\ Knowledge!Over.checked = 0 /\ Knowledge!Over.digest = Knowledge!NoDigest
      /\ Knowledge!Over.proposal = Knowledge!NoProposal /\ Knowledge!Over.answer = Knowledge!NoAnswer
  BY DEF Knowledge!Over
<1>6. "none" \in Knowledge!Purposes
  BY DEF Knowledge!Purposes
<1>7. TaskFits(Knowledge!Over)
  BY <1>3, <1>4, <1>5, <1>6
<1>8. ASSUME NEW step \in {"read", "ask"}, NEW why \in Knowledge!Purposes
      PROVE  TaskFits([Knowledge!Over EXCEPT !.step = step, !.purpose = why])
  <2> DEFINE c == [Knowledge!Over EXCEPT !.step = step, !.purpose = why]
  <2>1. step \in Knowledge!Steps
    BY DEF Knowledge!Steps
  <2>2. /\ c \in KnowledgeTasks /\ c.step = step /\ c.purpose = why /\ c.turn = 0 /\ c.checked = 0
        /\ c.digest = Knowledge!NoDigest /\ c.proposal = Knowledge!NoProposal /\ c.answer = Knowledge!NoAnswer
    BY <1>4, <1>5, <2>1 DEF KnowledgeTasks
  <2> HIDE DEF c
  <2>3. TaskFits(c)
    BY <1>3, <2>2
  <2>. QED  BY <2>3 DEF c
<1>9. ASSUME NEW why \in Knowledge!Purposes, NEW u \in Tasks \cup {NoTask}
      PROVE  TaskFits([Knowledge!Over EXCEPT !.step = "waiting", !.purpose = why, !.on = u])
  <2> DEFINE c == [Knowledge!Over EXCEPT !.step = "waiting", !.purpose = why, !.on = u]
  <2>1. "waiting" \in Knowledge!Steps
    BY DEF Knowledge!Steps
  <2>2. /\ c \in KnowledgeTasks /\ c.step = "waiting" /\ c.purpose = why /\ c.turn = 0 /\ c.checked = 0
        /\ c.digest = Knowledge!NoDigest /\ c.proposal = Knowledge!NoProposal /\ c.answer = Knowledge!NoAnswer
    BY <1>4, <1>5, <2>1 DEF KnowledgeTasks
  <2> HIDE DEF c
  <2>3. TaskFits(c)
    BY <1>3, <2>2
  <2>. QED  BY <2>3 DEF c
<1>. QED  BY <1>7, <1>8, <1>9

\* A desk that shows no other knowledge, or none.
LEMMA DeskStays ==
    ASSUME DeskFits(desk), NEW d \in Desks,
           d.turn = desk.turn,
           d.protection = desk.protection \/ Whole(d.protection),
           \/ d.shown = desk.shown /\ d.late = desk.late
           \/ d.shown.project = NoScope
    PROVE  DeskFits(d)
BY DEF DeskFits

LEMMA RefreshingDesk ==
    ASSUME KnowledgeInv, NEW r \in Tasks \cup {NoTask}
    PROVE  DeskFits([desk EXCEPT !.refreshing = r])
<1> DEFINE d == [desk EXCEPT !.refreshing = r]
<1>1. desk \in Desks
  BY DEF KnowledgeInv, DeskFits
<1>2. /\ d \in Desks /\ d.turn = desk.turn /\ d.protection = desk.protection
      /\ d.shown = desk.shown /\ d.late = desk.late
  BY <1>1 DEF Desks
<1> HIDE DEF d
<1>3. DeskFits(d)
  BY <1>2, DeskStays DEF KnowledgeInv
<1>. QED  BY <1>3 DEF d

LEMMA CommandEnds ==
    ASSUME KnowledgeInv, NEW t \in Tasks, Knowledge!Afterwards(t) \/ Knowledge!Fails(t)
    PROVE  /\ \E c : TaskFits(c) /\ tasks' = [tasks EXCEPT ![t] = c]
           /\ DeskFits(desk')
<1>1. tasks[t].purpose \in Knowledge!Purposes /\ desk.refreshing \in Tasks \cup {NoTask} /\ DeskFits(desk)
  BY DEF KnowledgeInv, KnowledgeShape, KnowledgeTasks, DeskFits, Desks
<1>2. ASSUME Knowledge!Afterwards(t)
      PROVE  /\ \E c : TaskFits(c) /\ tasks' = [tasks EXCEPT ![t] = c]
             /\ DeskFits(desk')
  <2>1. CASE desk.refreshing = NoTask
    <3>1. /\ tasks' = [tasks EXCEPT ![t] = Knowledge!Refreshing(t, tasks[t].purpose)]
          /\ desk' = [desk EXCEPT !.refreshing = t]
      BY <1>2, <2>1 DEF Knowledge!Afterwards
    <3>2. TaskFits(Knowledge!Refreshing(t, tasks[t].purpose))
      BY <1>1, OverFits DEF Knowledge!Refreshing
    <3>. QED  BY <3>1, <3>2, RefreshingDesk
  <2>2. CASE desk.refreshing # NoTask
    <3>1. /\ tasks' = [tasks EXCEPT ![t] =
                [Knowledge!Over EXCEPT !.step = "waiting", !.purpose = tasks[t].purpose, !.on = desk.refreshing]]
          /\ desk' = desk
      BY <1>2, <2>2 DEF Knowledge!Afterwards
    <3>. QED  BY <1>1, <3>1, OverFits
  <2>. QED  BY <2>1, <2>2
<1>3. ASSUME Knowledge!Fails(t)
      PROVE  /\ \E c : TaskFits(c) /\ tasks' = [tasks EXCEPT ![t] = c]
             /\ DeskFits(desk')
  <2>1. CASE tasks[t].purpose = "prepare"
    BY <1>1, <1>3, <2>1, OverFits DEF Knowledge!Fails, Knowledge!Ends
  <2>2. CASE tasks[t].purpose = "activate"
    <3>1. tasks' = [tasks EXCEPT ![t] = [Knowledge!Over EXCEPT !.step = "ask", !.purpose = "activate"]] /\ desk' = desk
      BY <1>3, <2>2 DEF Knowledge!Fails
    <3>. QED  BY <1>1, <2>2, <3>1, OverFits
  <2>3. CASE tasks[t].purpose \notin {"prepare", "activate"}
    BY <1>2, <1>3, <2>3 DEF Knowledge!Fails
  <2>. QED  BY <2>1, <2>2, <2>3
<1>. QED  BY <1>2, <1>3

LEMMA QuietEnd ==
    ASSUME KnowledgeInv, NEW t \in Tasks, Knowledge!Afterwards(t) \/ Knowledge!Fails(t),
           UNCHANGED <<document, receipt, guarded, proven, scope, moves, confirmed, slipped>>
    PROVE  KnowledgeInv'
BY CommandEnds, QuietCommandKeeps

--------------------------------------------------------------------------------------
(* The active project, the documents and the window.                            *)

LEMMA EditKeeps ==
    ASSUME KnowledgeInv, NEW p \in Scopes, Knowledge!Edit(p)
    PROVE  KnowledgeInv'
<1>1. Grows /\ Brains' /\ Knowledge!ProtectedIsConfirmed' /\ Knowledge!Moves /\ UNCHANGED <<tasks, desk>>
  BY DEF Grows, Brains, KnowledgeInv, KnowledgeShape, Knowledge!ProtectedIsConfirmed, Knowledge!Edit
<1>2. /\ \A t \in Tasks : TaskFits(tasks[t])'
      /\ DeskFits(desk)'
  <2>1. \A t \in Tasks : TaskFits(tasks[t])'
    BY <1>1, FitsStay DEF KnowledgeInv
  <2>2. \A d : DeskFits(d) => DeskFits(d)'
    BY <1>1, FitsStay
  <2>. QED  BY <1>1, <2>1, <2>2 DEF KnowledgeInv
<1>3. KnowledgeShape'
  BY <1>1, KnowledgeConstants DEF KnowledgeInv, KnowledgeShape, Brains, Knowledge!Moves, Grows
<1>. QED  BY <1>1, <1>2, <1>3 DEF KnowledgeInv

LEMMA ActivateKnownKeeps ==
    ASSUME KnowledgeInv, NEW p \in Scopes, Knowledge!ActivateKnown(p)
    PROVE  KnowledgeInv'
<1>1. /\ scope' = [project |-> p, turn |-> scope.turn + 1] /\ moves < MaxMoves /\ moves' = moves + 1
      /\ UNCHANGED <<document, receipt, guarded, proven, tasks, desk, confirmed, slipped>>
  BY DEF Knowledge!ActivateKnown, Knowledge!Moves, Knowledge!brains
<1>2. /\ scope'.turn = scope.turn + 1 /\ scope'.project = p /\ scope.turn \in Nat
      /\ scope' \in [project : Scopes, turn : 0..MaxMoves]
  BY <1>1, KnowledgeConstants DEF KnowledgeInv, KnowledgeShape
<1>3. ASSUME NEW t \in Tasks
      PROVE  TaskFits(tasks[t])'
  <2> DEFINE c == tasks[t]
  <2>1. TaskFits(c) /\ c.turn \in Nat /\ c.checked \in Nat
    BY KnowledgeConstants DEF KnowledgeInv, KnowledgeShape, KnowledgeTasks
  <2>2. /\ c.turn <= scope'.turn /\ c.checked <= scope'.turn /\ c.turn # scope'.turn /\ c.checked # scope'.turn
    BY <1>2, <2>1 DEF TaskFits
  <2>. QED  BY <1>1, <2>1, <2>2 DEF TaskFits, IsConfirmed, IsSlipped
<1>4. DeskFits(desk)'
  <2>1. DeskFits(desk) /\ desk.turn \in Nat
    BY KnowledgeConstants DEF KnowledgeInv, DeskFits, Desks
  <2>2. desk.turn <= scope'.turn /\ desk.turn # scope'.turn
    BY <1>2, <2>1 DEF DeskFits
  <2>. QED  BY <1>1, <2>1, <2>2 DEF DeskFits, IsConfirmed, IsSlipped
<1>5. KnowledgeShape' /\ Knowledge!ProtectedIsConfirmed'
  BY <1>1, <1>2, KnowledgeConstants DEF KnowledgeInv, KnowledgeShape, Knowledge!ProtectedIsConfirmed
<1>. QED  BY <1>3, <1>4, <1>5 DEF KnowledgeInv

\* A window that forgets what it showed.
LEMMA NewDeskFits ==
    ASSUME KnowledgeInv, NEW r \in Tasks \cup {NoTask}
    PROVE  /\ DeskFits(Knowledge!NewDesk(scope.turn))
           /\ DeskFits([Knowledge!NewDesk(scope.turn) EXCEPT !.refreshing = r])
<1> DEFINE d == [Knowledge!NewDesk(scope.turn) EXCEPT !.refreshing = r]
<1>1. /\ Knowledge!NoDigest \in Knowledge!Digests /\ Knowledge!NoAnswer \in Knowledge!Answers
      /\ Whole(Knowledge!NoAnswer) /\ Knowledge!NoDigest.project = NoScope
      /\ scope.turn \in 0..MaxMoves /\ scope.turn <= scope.turn
  BY KnowledgeConstants DEF Knowledge!NoDigest, Knowledge!NoAnswer, Knowledge!Digests, Knowledge!Answers,
     Knowledge!Statuses, Whole, KnowledgeInv, KnowledgeShape
<1>2. ASSUME NEW e \in Desks, e.turn = scope.turn, e.shown = Knowledge!NoDigest, e.protection = Knowledge!NoAnswer
      PROVE  DeskFits(e)
  BY <1>1, <1>2 DEF DeskFits
<1>3. /\ Knowledge!NewDesk(scope.turn) \in Desks
      /\ Knowledge!NewDesk(scope.turn).turn = scope.turn /\ Knowledge!NewDesk(scope.turn).shown = Knowledge!NoDigest
      /\ Knowledge!NewDesk(scope.turn).protection = Knowledge!NoAnswer
  BY <1>1 DEF Knowledge!NewDesk, Desks
<1>4. d \in Desks /\ d.turn = scope.turn /\ d.shown = Knowledge!NoDigest /\ d.protection = Knowledge!NoAnswer
  BY <1>3 DEF Desks
<1> HIDE DEF d
<1>5. DeskFits(Knowledge!NewDesk(scope.turn)) /\ DeskFits(d)
  BY <1>2, <1>3, <1>4
<1>. QED  BY <1>5 DEF d

LEMMA KnowledgeToldKeeps ==
    ASSUME KnowledgeInv, Knowledge!KnowledgeTold
    PROVE  KnowledgeInv'
<1>1. UNCHANGED <<document, receipt, guarded, proven, scope, moves, confirmed, slipped>>
  BY DEF Knowledge!KnowledgeTold, Knowledge!brains
<1>2. CASE desk' = Knowledge!NewDesk(scope.turn) /\ tasks' = tasks
  <2>1. DeskFits(desk')
    BY <1>2, NewDeskFits
  <2>2. /\ DeskFits(desk)' /\ \A t \in Tasks : TaskFits(tasks[t])'
    BY <1>1, <1>2, <2>1 DEF KnowledgeInv, DeskFits, TaskFits, IsConfirmed, IsSlipped
  <2>. QED  BY <1>1, <1>2, <2>2 DEF KnowledgeInv, KnowledgeShape, Knowledge!ProtectedIsConfirmed
<1>3. ASSUME NEW t \in Tasks,
             desk' = [Knowledge!NewDesk(scope.turn) EXCEPT !.refreshing = t],
             tasks' = [tasks EXCEPT ![t] = Knowledge!Refreshing(t, "refresh")]
      PROVE  KnowledgeInv'
  <2>1. TaskFits(Knowledge!Refreshing(t, "refresh"))
    BY OverFits DEF Knowledge!Refreshing, Knowledge!Purposes
  <2>. QED  BY <1>1, <1>3, <2>1, NewDeskFits, QuietCommandKeeps
<1>. QED  BY <1>2, <1>3 DEF Knowledge!KnowledgeTold

--------------------------------------------------------------------------------------
(* What the user asks for.                                                      *)

\* A command is about what the user has accepted by asking for it.
LEMMA AskKeeps ==
    ASSUME KnowledgeInv, NEW t \in Tasks,
           NEW why \in {"prepare", "apply", "activate", "confirm"},
           NEW digest \in Knowledge!Digests, NEW proposal \in Reviewable \cup {Knowledge!NoProposal},
           Knowledge!Ask(t, why, digest, proposal),
           Whole(digest), digest.project \in Scopes => IsConfirmed(digest)',
           why = "apply" /\ proposal \in Reviewable => proposal.post \in confirmed'[proposal.project],
           confirmed' \in [Scopes -> SUBSET Contents],
           \A p \in Scopes : confirmed[p] \subseteq confirmed'[p],
           UNCHANGED <<document, receipt, guarded, proven, scope, slipped>>,
           DeskFits(desk)
    PROVE  /\ \E c : TaskFits(c)' /\ tasks' = [tasks EXCEPT ![t] = c]
           /\ Grows /\ Brains' /\ Knowledge!ProtectedIsConfirmed' /\ Knowledge!Moves
<1> DEFINE c == [Knowledge!Over EXCEPT !.step = "called", !.purpose = why, !.digest = digest, !.proposal = proposal]
<1>1. Knowledge!Over \in KnowledgeTasks /\ Whole(Knowledge!Over.answer)
  BY OverFits DEF TaskFits
<1>2. "called" \in Knowledge!Steps /\ why \in Knowledge!Purposes
  BY DEF Knowledge!Steps, Knowledge!Purposes
<1>3. Knowledge!Over.turn = 0 /\ Knowledge!Over.checked = 0
  BY DEF Knowledge!Over
<1>4. /\ c \in KnowledgeTasks /\ c.step = "called" /\ c.purpose = why /\ c.digest = digest /\ c.proposal = proposal
      /\ c.turn = 0 /\ c.checked = 0 /\ c.answer = Knowledge!Over.answer
  BY <1>1, <1>2, <1>3 DEF KnowledgeTasks
<1>5. tasks' = [tasks EXCEPT ![t] = c] /\ Knowledge!Moves
  BY DEF Knowledge!Ask
<1>6. 0 <= scope.turn
  BY KnowledgeConstants DEF KnowledgeInv, KnowledgeShape
<1> HIDE DEF c
<1>7. TaskFits(c)'
  BY <1>1, <1>4, <1>6 DEF TaskFits, PurposeFits, Applying, Accepting, Whole
<1>8. Grows /\ Brains' /\ Knowledge!ProtectedIsConfirmed'
  BY DEF Grows, Brains, KnowledgeInv, KnowledgeShape, Knowledge!ProtectedIsConfirmed
<1>. QED  BY <1>5, <1>7, <1>8

LEMMA NoneFits ==
    /\ Knowledge!NoDigest \in Knowledge!Digests /\ Whole(Knowledge!NoDigest)
    /\ Knowledge!NoDigest.project \notin Scopes /\ Knowledge!NoDigest.project = NoScope
    /\ Knowledge!NoAnswer \in Knowledge!Answers /\ Whole(Knowledge!NoAnswer)
    /\ Knowledge!NoProposal \notin Reviewable
BY KnowledgeConstants DEF Knowledge!NoDigest, Knowledge!NoAnswer, Knowledge!Digests, Knowledge!Answers,
   Knowledge!Statuses, Whole, Knowledge!NoProposal, Reviewable

LEMMA OpenKeeps ==
    ASSUME KnowledgeInv, NEW t \in Tasks, Knowledge!Open(t)
    PROVE  KnowledgeInv'
<1>1. TaskFits(Knowledge!Refreshing(t, "refresh"))
  BY OverFits DEF Knowledge!Refreshing, Knowledge!Purposes
<1>2. /\ tasks' = [tasks EXCEPT ![t] = Knowledge!Refreshing(t, "refresh")] /\ desk' = [desk EXCEPT !.refreshing = t]
      /\ UNCHANGED <<document, receipt, guarded, proven, scope, confirmed, slipped>> /\ Knowledge!Moves
  BY DEF Knowledge!Open, Knowledge!brains
<1>. QED  BY <1>1, <1>2, RefreshingDesk, QuietCommandKeeps

LEMMA PrepareKeeps ==
    ASSUME KnowledgeInv, NEW t \in Tasks, Knowledge!Prepare(t)
    PROVE  KnowledgeInv'
<1>1. /\ Knowledge!Ask(t, "prepare", Knowledge!NoDigest, Knowledge!NoProposal)
      /\ UNCHANGED <<document, receipt, guarded, proven, scope, desk, confirmed, slipped>>
  BY DEF Knowledge!Prepare, Knowledge!brains
<1>2. DeskFits(desk) /\ confirmed \in [Scopes -> SUBSET Contents]
  BY DEF KnowledgeInv, KnowledgeShape
<1>3. /\ \E c : TaskFits(c)' /\ tasks' = [tasks EXCEPT ![t] = c]
      /\ Grows /\ Brains' /\ Knowledge!ProtectedIsConfirmed' /\ Knowledge!Moves
  BY <1>1, <1>2, NoneFits, AskKeeps
<1>4. DeskFits(desk)'
  BY <1>1, <1>2 DEF DeskFits, IsConfirmed, IsSlipped
<1>. QED  BY <1>3, <1>4, KnowledgeCommandKeeps

LEMMA AcceptReviewKeeps ==
    ASSUME KnowledgeInv, NEW t \in Tasks, Knowledge!AcceptReview(t)
    PROVE  KnowledgeInv'
<1> DEFINE q == desk.proposal
<1>1. /\ q \in Reviewable /\ DeskFits(desk) /\ confirmed \in [Scopes -> SUBSET Contents]
      /\ q.project \in Scopes /\ q.post \in Contents
  BY DEF Knowledge!AcceptReview, KnowledgeInv, KnowledgeShape, DeskFits, Desks, Reviewable
<1>2. /\ Knowledge!Ask(t, "apply", Knowledge!NoDigest, q)
      /\ confirmed' = [confirmed EXCEPT ![q.project] = @ \cup {q.post}]
      /\ UNCHANGED <<document, receipt, guarded, proven, scope, desk, slipped>>
  BY DEF Knowledge!AcceptReview, Knowledge!brains
<1>3. /\ confirmed' \in [Scopes -> SUBSET Contents] /\ q.post \in confirmed'[q.project]
      /\ \A p \in Scopes : confirmed[p] \subseteq confirmed'[p]
  BY <1>1, <1>2
<1>4. /\ \E c : TaskFits(c)' /\ tasks' = [tasks EXCEPT ![t] = c]
      /\ Grows /\ Brains' /\ Knowledge!ProtectedIsConfirmed' /\ Knowledge!Moves
  BY <1>1, <1>2, <1>3, NoneFits, AskKeeps
<1>5. DeskFits(desk)'
  <2>1. \A d : DeskFits(d) => DeskFits(d)'
    BY <1>4, FitsStay
  <2>. QED  BY <1>1, <1>2, <2>1
<1>. QED  BY <1>4, <1>5, KnowledgeCommandKeeps

LEMMA ConfirmKeeps ==
    ASSUME KnowledgeInv, NEW t \in Tasks, NEW why \in {"activate", "confirm"}, Knowledge!Confirm(t, why),
           desk' = desk \/ desk' = [desk EXCEPT !.activating = TRUE]
    PROVE  KnowledgeInv'
<1>1. /\ DeskFits(desk) /\ desk \in Desks /\ confirmed \in [Scopes -> SUBSET Contents]
  BY DEF KnowledgeInv, KnowledgeShape, DeskFits
<1>2. PICK d \in Knowledge!Digests :
        Whole(d) /\ d = [project |-> desk.protection.project, content |-> desk.protection.content]
  BY <1>1 DEF DeskFits, Desks, Knowledge!Digests, Knowledge!Answers, Whole
<1>3. /\ Knowledge!Ask(t, why, d, Knowledge!NoProposal)
      /\ confirmed' = [confirmed EXCEPT ![d.project] = @ \cup {d.content}]
      /\ UNCHANGED <<document, receipt, guarded, proven, scope, slipped>>
  BY <1>2 DEF Knowledge!Confirm, Knowledge!brains
<1>4. /\ confirmed' \in [Scopes -> SUBSET Contents]
      /\ d.project \in Scopes => IsConfirmed(d)'
      /\ \A p \in Scopes : confirmed[p] \subseteq confirmed'[p]
  <2>1. CASE d.project \in Scopes
    BY <1>1, <1>2, <1>3, <2>1 DEF Whole, IsConfirmed
  <2>2. CASE d.project \notin Scopes
    <3>1. confirmed' = confirmed
      BY <1>1, <1>3, <2>2
    <3>. QED  BY <1>1, <2>2, <3>1
  <2>. QED  BY <2>1, <2>2
<1>5. /\ \E c : TaskFits(c)' /\ tasks' = [tasks EXCEPT ![t] = c]
      /\ Grows /\ Brains' /\ Knowledge!ProtectedIsConfirmed' /\ Knowledge!Moves
  <2>1. Whole(d) /\ DeskFits(desk)
    BY <1>1, <1>2
  <2>2. Knowledge!NoProposal \in Reviewable \cup {Knowledge!NoProposal} /\ Knowledge!NoProposal \notin Reviewable
    BY NoneFits
  <2>. QED  BY <1>3, <1>4, <2>1, <2>2, AskKeeps
<1>6. DeskFits(desk)'
  <2>1. DeskFits([desk EXCEPT !.activating = TRUE])
    <3> DEFINE e == [desk EXCEPT !.activating = TRUE]
    <3>1. /\ e \in Desks /\ e.turn = desk.turn /\ e.protection = desk.protection
          /\ e.shown = desk.shown /\ e.late = desk.late
      BY <1>1 DEF Desks
    <3> HIDE DEF e
    <3>2. DeskFits(e)
      BY <1>1, <3>1, DeskStays
    <3>. QED  BY <3>2 DEF e
  <2>2. \A e : DeskFits(e) => DeskFits(e)'
    BY <1>5, FitsStay
  <2>3. DeskFits(desk')
    BY <1>1, <2>1
  <2>. QED  BY <1>1, <2>1, <2>2, <1>3, <2>3 DEF DeskFits, IsConfirmed, IsSlipped
<1>. QED  BY <1>5, <1>6, KnowledgeCommandKeeps

--------------------------------------------------------------------------------------
(* A refresh, and the status of the protection.                                 *)

LEMMA BeginsKeeps ==
    ASSUME KnowledgeInv, NEW t \in Tasks, Knowledge!Begins(t)
    PROVE  KnowledgeInv'
<1> DEFINE next == [prepare |-> "building", apply |-> "applying", activate |-> "accepting", confirm |-> "accepting"]
           c == [tasks[t] EXCEPT !.step = next[tasks[t].purpose], !.turn = scope.turn]
<1>1. tasks[t] \in KnowledgeTasks /\ TaskFits(tasks[t]) /\ scope.turn \in 0..MaxMoves /\ scope.turn <= scope.turn
  BY KnowledgeConstants DEF KnowledgeInv, KnowledgeShape
<1>2. /\ next[tasks[t].purpose] \in {"building", "applying", "accepting"}
      /\ next[tasks[t].purpose] = "applying" => tasks[t].purpose = "apply"
      /\ next[tasks[t].purpose] = "building" => tasks[t].purpose = "prepare"
      /\ next[tasks[t].purpose] = "accepting" => tasks[t].purpose \in {"activate", "confirm"}
      /\ next[tasks[t].purpose] \in Knowledge!Steps
  BY <1>1 DEF TaskFits, PurposeFits, Knowledge!Begins, Knowledge!Steps
<1>3. /\ c \in KnowledgeTasks /\ c.step = next[tasks[t].purpose] /\ c.turn = scope.turn
      /\ c.purpose = tasks[t].purpose /\ c.checked = tasks[t].checked /\ c.digest = tasks[t].digest
      /\ c.proposal = tasks[t].proposal /\ c.answer = tasks[t].answer
  <2> HIDE DEF next
  <2>. QED  BY <1>1, <1>2 DEF KnowledgeTasks
<1>4. /\ UNCHANGED <<document, receipt, guarded, proven, scope, desk, moves, confirmed, slipped>>
      /\ tasks' = [tasks EXCEPT ![t] = c]
  <2>1. /\ UNCHANGED <<document, receipt, guarded, proven, scope, desk, moves, confirmed, slipped>>
        /\ tasks' = [tasks EXCEPT ![t].step = next[tasks[t].purpose], ![t].turn = scope.turn]
    BY DEF Knowledge!Begins, Knowledge!brains
  <2> HIDE DEF next
  <2>. QED  BY <1>1, <2>1 DEF KnowledgeInv, KnowledgeShape, KnowledgeTasks
<1> HIDE DEF c, next
<1>5. TaskFits(c)
  BY <1>1, <1>2, <1>3 DEF TaskFits, PurposeFits, Applying, Accepting
<1>. QED  BY <1>4, <1>5, QuietCommandKeeps DEF KnowledgeInv

\* The last step of a command.
LEMMA DoneKeeps ==
    ASSUME KnowledgeInv, NEW t \in Tasks, NEW d, Knowledge!Done(t, d), DeskFits(d),
           UNCHANGED <<document, receipt, guarded, proven, scope, moves, confirmed, slipped>>
    PROVE  KnowledgeInv'
<1>1. tasks' = [tasks EXCEPT ![t] = Knowledge!Over] /\ TaskFits(Knowledge!Over)
  BY OverFits DEF Knowledge!Done, Knowledge!Ends
<1>2. DeskFits([d EXCEPT !.activating = FALSE])
  <2> DEFINE e == [d EXCEPT !.activating = FALSE]
  <2>1. d \in Desks
    BY DEF DeskFits
  <2>2. /\ e \in Desks /\ e.turn = d.turn /\ e.protection = d.protection /\ e.shown = d.shown /\ e.late = d.late
    BY <2>1 DEF Desks
  <2> HIDE DEF e
  <2>3. DeskFits(e)
    BY <2>2 DEF DeskFits
  <2>. QED  BY <2>3 DEF e
<1>3. DeskFits(desk')
  BY <1>2 DEF Knowledge!Done
<1>. QED  BY <1>1, <1>3, QuietCommandKeeps

LEMMA WaitedKeeps ==
    ASSUME KnowledgeInv, NEW t \in Tasks, Knowledge!Waited(t)
    PROVE  KnowledgeInv'
BY DoneKeeps DEF KnowledgeInv, Knowledge!Waited, Knowledge!brains

\* A step at which nothing is relied upon.
LEMMA KnowledgePlainStep ==
    ASSUME KnowledgeInv, NEW t \in Tasks, NEW step \in {"status", "failed", "learnt"}, Knowledge!Goes(t, step),
           UNCHANGED <<document, receipt, guarded, proven, scope, desk, moves, confirmed, slipped>>
    PROVE  KnowledgeInv'
<1> DEFINE c == [tasks[t] EXCEPT !.step = step]
<1>1. tasks[t] \in KnowledgeTasks /\ TaskFits(tasks[t]) /\ step \in Knowledge!Steps
  BY DEF KnowledgeInv, KnowledgeShape, Knowledge!Steps
<1>2. /\ c \in KnowledgeTasks /\ c.step = step /\ c.turn = tasks[t].turn
      /\ c.purpose = tasks[t].purpose /\ c.checked = tasks[t].checked /\ c.digest = tasks[t].digest
      /\ c.proposal = tasks[t].proposal /\ c.answer = tasks[t].answer
  BY <1>1 DEF KnowledgeTasks
<1>3. tasks' = [tasks EXCEPT ![t] = c]
  BY <1>1 DEF Knowledge!Goes, KnowledgeInv, KnowledgeShape, KnowledgeTasks
<1> HIDE DEF c
<1>4. TaskFits(c)
  BY <1>1, <1>2 DEF TaskFits, PurposeFits, Applying, Accepting
<1>. QED  BY <1>3, <1>4, QuietCommandKeeps DEF KnowledgeInv

LEMMA ReadStartsKeeps ==
    ASSUME KnowledgeInv, NEW t \in Tasks, Knowledge!ReadStarts(t)
    PROVE  KnowledgeInv'
<1>1. UNCHANGED <<document, receipt, guarded, proven, scope, desk, moves, confirmed, slipped>>
  BY DEF Knowledge!ReadStarts, Knowledge!brains
<1>2. CASE tasks' = [tasks EXCEPT ![t].step = "reading", ![t].project = scope.project, ![t].turn = scope.turn]
  <2> DEFINE c == [tasks[t] EXCEPT !.step = "reading", !.project = scope.project, !.turn = scope.turn]
  <2>1. /\ tasks[t] \in KnowledgeTasks /\ TaskFits(tasks[t]) /\ "reading" \in Knowledge!Steps
        /\ scope.project \in Scopes /\ scope.turn \in 0..MaxMoves /\ scope.turn <= scope.turn
    BY KnowledgeConstants DEF KnowledgeInv, KnowledgeShape, Knowledge!Steps
  <2>2. /\ c \in KnowledgeTasks /\ c.step = "reading" /\ c.turn = scope.turn /\ c.project = scope.project
        /\ c.purpose = tasks[t].purpose /\ c.checked = tasks[t].checked /\ c.digest = tasks[t].digest
        /\ c.proposal = tasks[t].proposal /\ c.answer = tasks[t].answer
    BY <2>1 DEF KnowledgeTasks
  <2>3. tasks' = [tasks EXCEPT ![t] = c]
    BY <1>2, <2>1 DEF KnowledgeInv, KnowledgeShape, KnowledgeTasks
  <2> HIDE DEF c
  <2>4. TaskFits(c)
    BY <2>1, <2>2 DEF TaskFits, PurposeFits, Applying, Accepting
  <2>. QED  BY <1>1, <2>3, <2>4, QuietCommandKeeps DEF KnowledgeInv
<1>3. CASE Knowledge!Goes(t, "status")
  BY <1>1, <1>3, KnowledgePlainStep
<1>. QED  BY <1>2, <1>3 DEF Knowledge!ReadStarts

\* What is read is trusted, or remembered as having slipped in.
LEMMA TakesKeeps ==
    ASSUME KnowledgeInv, NEW t \in Tasks, NEW step \in {"answered", "applied"}, Knowledge!Takes(t, step),
           step = "applied" => tasks[t].purpose = "apply",
           tasks[t].step \in {"reading"} \cup Applying, Knowledge!InTurn(t),
           UNCHANGED <<document, receipt, guarded, proven, scope, desk, moves, confirmed>>
    PROVE  KnowledgeInv'
<1>. PICK p \in Scopes : p = tasks[t].project
  BY DEF KnowledgeInv, TaskFits
<1>. PICK a : a = [project |-> p, content |-> document[p], status |-> "match"]
  OBVIOUS
<1>. PICK c : c = [tasks[t] EXCEPT !.step = step, !.checked = scope.turn, !.answer = a]
  OBVIOUS
<1>1. /\ tasks[t] \in KnowledgeTasks /\ TaskFits(tasks[t]) /\ step \in Knowledge!Steps
      /\ document[p] \in Contents /\ scope.turn \in 0..MaxMoves /\ scope.turn <= scope.turn
  BY KnowledgeConstants DEF KnowledgeInv, KnowledgeShape, Knowledge!Steps
<1>2. a \in Knowledge!Answers /\ Whole(a) /\ a.project = p /\ a.content = document[p]
  BY <1>1 DEF Knowledge!Answers, Knowledge!Statuses, Whole
<1>3. /\ c \in KnowledgeTasks /\ c.step = step /\ c.turn = tasks[t].turn /\ c.project = tasks[t].project
      /\ c.purpose = tasks[t].purpose /\ c.checked = scope.turn /\ c.digest = tasks[t].digest
      /\ c.proposal = tasks[t].proposal /\ c.answer = a
  BY <1>1, <1>2 DEF KnowledgeTasks
<1>4. tasks' = [tasks EXCEPT ![t] = c]
  BY <1>1 DEF Knowledge!Takes, KnowledgeInv, KnowledgeShape, KnowledgeTasks
<1>5. slipped' = IF Knowledge!Status(p) = "match" THEN slipped ELSE [slipped EXCEPT ![p] = @ \cup {document[p]}]
  BY DEF Knowledge!Takes
<1>6. Grows /\ Brains' /\ Knowledge!ProtectedIsConfirmed'
  <2>1. slipped' \in [Scopes -> SUBSET Contents] /\ \A q \in Scopes : slipped[q] \subseteq slipped'[q]
    BY <1>1, <1>5 DEF KnowledgeInv, KnowledgeShape
  <2>. QED  BY <2>1 DEF Grows, Brains, KnowledgeInv, KnowledgeShape, Knowledge!ProtectedIsConfirmed
<1>7. IsConfirmed(a)' \/ IsSlipped(a)'
  <2>1. CASE Knowledge!Status(p) = "match"
    <3>1. document[p] \in guarded[p] \cup proven[p]
      BY <2>1 DEF Knowledge!Status, Knowledge!Protected, Knowledge!SemanticProof
    <3>. QED  BY <1>2, <3>1 DEF KnowledgeInv, Knowledge!ProtectedIsConfirmed, IsConfirmed
  <2>2. CASE Knowledge!Status(p) # "match"
    BY <1>2, <1>5, <2>2 DEF KnowledgeInv, KnowledgeShape, IsSlipped
  <2>. QED  BY <2>1, <2>2
<1>8. TaskFits(c)'
  <2>1. c.proposal \in Reviewable /\ c.purpose = "apply" => c.proposal.post \in confirmed[c.proposal.project]
    BY <1>1, <1>3 DEF TaskFits
  <2>2. c.digest.project \in Scopes => IsConfirmed(c.digest)'
    BY <1>1, <1>3 DEF TaskFits, IsConfirmed
  <2>3. a.project = scope.project
    BY <1>1, <1>2 DEF TaskFits, Knowledge!InTurn
  <2>. QED  BY <1>1, <1>2, <1>3, <1>7, <2>1, <2>2, <2>3 DEF TaskFits, PurposeFits, Applying, Accepting
<1>9. DeskFits(desk)'
  <2>1. \A d : DeskFits(d) => DeskFits(d)'
    BY <1>6, FitsStay
  <2>. QED  BY <2>1 DEF KnowledgeInv, DeskFits, IsConfirmed, IsSlipped
<1>. QED  BY <1>4, <1>6, <1>8, <1>9, KnowledgeCommandKeeps

LEMMA ReadsKeeps ==
    ASSUME KnowledgeInv, NEW t \in Tasks, Knowledge!Reads(t)
    PROVE  KnowledgeInv'
<1>1. tasks[t].step = "reading" /\ UNCHANGED <<document, receipt, guarded, proven, scope, desk, moves, confirmed>>
  BY DEF Knowledge!Reads, Knowledge!brains
<1>2. CASE Knowledge!InTurn(t)
  BY <1>1, <1>2, TakesKeeps DEF Knowledge!Reads
<1>3. CASE ~Knowledge!InTurn(t)
  BY <1>1, <1>3, KnowledgePlainStep DEF Knowledge!Reads
<1>. QED  BY <1>2, <1>3

LEMMA StatusReadKeeps ==
    ASSUME KnowledgeInv, NEW t \in Tasks, Knowledge!StatusRead(t)
    PROVE  KnowledgeInv'
<1>1. /\ UNCHANGED <<document, receipt, guarded, proven, scope, desk, moves, confirmed, slipped>>
      /\ tasks[t].step \in {"status", "ask"}
  BY DEF Knowledge!StatusRead, Knowledge!brains
<1>2. PICK p \in Scopes : p = scope.project
  BY DEF KnowledgeInv, KnowledgeShape
<1>3. CASE Knowledge!Goes(t, "failed") \/ Knowledge!Goes(t, "learnt")
  BY <1>1, <1>3, KnowledgePlainStep
<1>4. ASSUME NEW step \in {"told", "learnt"},
             tasks' = [tasks EXCEPT ![t].step = step,
                 ![t].answer = [project |-> p, content |-> document[p], status |-> Knowledge!Status(p)]]
      PROVE  KnowledgeInv'
  <2>. PICK a : a = [project |-> p, content |-> document[p], status |-> Knowledge!Status(p)]
    OBVIOUS
  <2> DEFINE c == [tasks[t] EXCEPT !.step = step, !.answer = a]
  <2>1. tasks[t] \in KnowledgeTasks /\ TaskFits(tasks[t]) /\ step \in Knowledge!Steps
    BY DEF KnowledgeInv, KnowledgeShape, Knowledge!Steps
  <2>2. a \in Knowledge!Answers /\ Whole(a)
    BY <1>2 DEF Knowledge!Answers, Knowledge!Statuses, Knowledge!Status, Whole, KnowledgeInv, KnowledgeShape
  <2>3. /\ c \in KnowledgeTasks /\ c.step = step /\ c.turn = tasks[t].turn
        /\ c.purpose = tasks[t].purpose /\ c.checked = tasks[t].checked /\ c.digest = tasks[t].digest
        /\ c.proposal = tasks[t].proposal /\ c.answer = a
    BY <2>1, <2>2 DEF KnowledgeTasks
  <2>4. tasks' = [tasks EXCEPT ![t] = c]
    BY <1>4, <2>1 DEF KnowledgeInv, KnowledgeShape, KnowledgeTasks
  <2> HIDE DEF c
  <2>5. TaskFits(c)
    BY <2>1, <2>2, <2>3 DEF TaskFits, PurposeFits, Applying, Accepting
  <2>. QED  BY <1>1, <2>4, <2>5, QuietCommandKeeps DEF KnowledgeInv
<1>5. CASE tasks' = [tasks EXCEPT ![t].step = "learnt"]
  BY <1>1, <1>5, KnowledgePlainStep DEF Knowledge!Goes
<1>6. CASE /\ tasks[t].step = "status"
           /\ tasks' = [tasks EXCEPT ![t].step = "told",
                 ![t].answer = [project |-> p, content |-> document[p], status |-> Knowledge!Status(p)]]
  BY <1>4, <1>6
<1>7. CASE /\ tasks[t].step = "ask"
           /\ tasks' = [tasks EXCEPT ![t].step = "learnt",
                 ![t].answer = [project |-> p, content |-> document[p], status |-> Knowledge!Status(p)]]
  BY <1>4, <1>7
<1>. QED  BY <1>1, <1>2, <1>3, <1>5, <1>6, <1>7 DEF Knowledge!StatusRead

\* A desk that takes a confirmed answer.
LEMMA ShowingDesk ==
    ASSUME KnowledgeInv, NEW t \in Tasks, tasks[t].step \in {"answered", "applied"}, NEW d \in Desks,
           d.turn = desk.turn, d.shown = Knowledge!Shows(tasks[t].answer), d.late = (tasks[t].checked # desk.turn),
           d.protection = desk.protection \/ d.protection = Knowledge!NoAnswer
    PROVE  DeskFits(d)
<1>1. /\ d.shown.project = tasks[t].answer.project /\ d.shown.content = tasks[t].answer.content
  BY DEF Knowledge!Shows
<1>2. IsConfirmed(d.shown) \/ IsSlipped(d.shown)
  BY <1>1 DEF KnowledgeInv, TaskFits, IsConfirmed, IsSlipped
<1>. QED  BY <1>1, <1>2, NoneFits DEF KnowledgeInv, TaskFits, DeskFits

LEMMA RefreshEndsKeeps ==
    ASSUME KnowledgeInv, NEW t \in Tasks, Knowledge!RefreshEnds(t)
    PROVE  KnowledgeInv'
<1> DEFINE d == [desk EXCEPT !.refreshing = NoTask, !.proposal = Knowledge!NoProposal]
           a == tasks[t].answer
<1>1. /\ UNCHANGED <<document, receipt, guarded, proven, scope, moves, confirmed, slipped>>
      /\ desk \in Desks /\ DeskFits(desk) /\ tasks[t] \in KnowledgeTasks /\ TaskFits(tasks[t])
  BY DEF Knowledge!RefreshEnds, Knowledge!brains, KnowledgeInv, KnowledgeShape, DeskFits
<1>2. d \in Desks /\ d.turn = desk.turn /\ d.protection = desk.protection
  BY <1>1 DEF Desks
<1>3. a \in Knowledge!Answers /\ Whole(a) /\ Knowledge!Shows(a) \in Knowledge!Digests
  BY <1>1 DEF KnowledgeTasks, TaskFits, Knowledge!Shows, Knowledge!Answers, Knowledge!Digests
<1>4. CASE /\ tasks[t].step = "answered"
           /\ Knowledge!Done(t, [d EXCEPT !.shown = Knowledge!Shows(a), !.late = tasks[t].checked # desk.turn,
                                          !.protection = Knowledge!NoAnswer])
  <2> DEFINE e == [d EXCEPT !.shown = Knowledge!Shows(a), !.late = tasks[t].checked # desk.turn,
                            !.protection = Knowledge!NoAnswer]
  <2> HIDE DEF d, a
  <2>1. /\ e \in Desks /\ e.turn = desk.turn /\ e.shown = Knowledge!Shows(a) /\ e.late = (tasks[t].checked # desk.turn)
        /\ e.protection = Knowledge!NoAnswer
    BY <1>2, <1>3, NoneFits DEF Desks
  <2>2. Knowledge!Done(t, e)
    BY <1>4 DEF d, a
  <2> HIDE DEF e
  <2>3. DeskFits(e)
    BY <1>4, <2>1, ShowingDesk DEF a
  <2>. QED  BY <1>1, <2>2, <2>3, DoneKeeps
<1>5. CASE /\ tasks[t].step = "told"
           /\ Knowledge!Done(t, [d EXCEPT !.shown = Knowledge!NoDigest, !.protection = a])
  <2> DEFINE e == [d EXCEPT !.shown = Knowledge!NoDigest, !.protection = a]
  <2> HIDE DEF d, a
  <2>1. e \in Desks /\ e.turn = desk.turn /\ e.shown = Knowledge!NoDigest /\ e.protection = a
    BY <1>2, <1>3, NoneFits DEF Desks
  <2>2. Knowledge!Done(t, e)
    BY <1>5 DEF d, a
  <2> HIDE DEF e
  <2>3. DeskFits(e)
    BY <1>1, <1>3, <2>1, NoneFits, DeskStays
  <2>. QED  BY <1>1, <2>2, <2>3, DoneKeeps
<1>6. CASE /\ tasks[t].step = "failed"
           /\ Knowledge!Done(t, [d EXCEPT !.shown = Knowledge!NoDigest, !.protection = Knowledge!NoAnswer])
  <2> DEFINE e == [d EXCEPT !.shown = Knowledge!NoDigest, !.protection = Knowledge!NoAnswer]
  <2> HIDE DEF d, a
  <2>1. e \in Desks /\ e.turn = desk.turn /\ e.shown = Knowledge!NoDigest /\ e.protection = Knowledge!NoAnswer
    BY <1>2, NoneFits DEF Desks
  <2>2. Knowledge!Done(t, e)
    BY <1>6 DEF d
  <2> HIDE DEF e
  <2>3. DeskFits(e)
    BY <1>1, <2>1, NoneFits, DeskStays
  <2>. QED  BY <1>1, <2>2, <2>3, DoneKeeps
<1>. QED  BY <1>4, <1>5, <1>6 DEF Knowledge!RefreshEnds

LEMMA LearnsKeeps ==
    ASSUME KnowledgeInv, NEW t \in Tasks, Knowledge!Learns(t)
    PROVE  KnowledgeInv'
<1> DEFINE a == tasks[t].answer
           e == [desk EXCEPT !.protection = a]
<1>1. /\ UNCHANGED <<document, receipt, guarded, proven, scope, moves, confirmed, slipped>>
      /\ desk \in Desks /\ DeskFits(desk) /\ a \in Knowledge!Answers /\ Whole(a)
  BY DEF Knowledge!Learns, Knowledge!brains, KnowledgeInv, KnowledgeShape, KnowledgeTasks, TaskFits, DeskFits
<1>2. Knowledge!Done(t, desk) \/ Knowledge!Done(t, e)
  BY DEF Knowledge!Learns
<1> HIDE DEF a
<1>3. e \in Desks /\ e.turn = desk.turn /\ e.shown = desk.shown /\ e.late = desk.late /\ e.protection = a
  BY <1>1 DEF Desks
<1> HIDE DEF e
<1>4. DeskFits(e)
  BY <1>1, <1>3, DeskStays
<1>. QED  BY <1>1, <1>2, <1>4, DoneKeeps

--------------------------------------------------------------------------------------
(* A proposal.                                                                  *)

\* A command that goes to another step keeps what it knows.
LEMMA GoesRecord ==
    ASSUME KnowledgeInv, NEW t \in Tasks, NEW step \in Knowledge!Steps, Knowledge!Goes(t, step)
    PROVE  \E c \in KnowledgeTasks :
              /\ c.step = step /\ c.purpose = tasks[t].purpose /\ c.turn = tasks[t].turn
              /\ c.project = tasks[t].project /\ c.checked = tasks[t].checked /\ c.digest = tasks[t].digest
              /\ c.proposal = tasks[t].proposal /\ c.answer = tasks[t].answer
              /\ tasks' = [tasks EXCEPT ![t] = c]
<1> DEFINE c == [tasks[t] EXCEPT !.step = step]
<1>1. tasks[t] \in KnowledgeTasks
  BY DEF KnowledgeInv, KnowledgeShape
<1>2. /\ c \in KnowledgeTasks /\ c.step = step /\ c.purpose = tasks[t].purpose /\ c.turn = tasks[t].turn
      /\ c.project = tasks[t].project /\ c.checked = tasks[t].checked /\ c.digest = tasks[t].digest
      /\ c.proposal = tasks[t].proposal /\ c.answer = tasks[t].answer
  BY <1>1 DEF KnowledgeTasks
<1>3. tasks' = [tasks EXCEPT ![t] = c]
  BY <1>1 DEF Knowledge!Goes, KnowledgeInv, KnowledgeShape, KnowledgeTasks
<1> HIDE DEF c
<1>. QED  BY <1>2, <1>3

LEMMA BuildsKeeps ==
    ASSUME KnowledgeInv, NEW t \in Tasks, Knowledge!Builds(t)
    PROVE  KnowledgeInv'
<1>1. UNCHANGED <<document, receipt, guarded, proven, scope, moves, confirmed, slipped>>
  BY DEF Knowledge!Builds, Knowledge!brains
<1>2. CASE Knowledge!Fails(t)
  BY <1>1, <1>2, QuietEnd
<1>3. ASSUME NEW q \in Knowledge!Proposals(scope.project),
             tasks' = [tasks EXCEPT ![t].step = "built", ![t].proposal = q], UNCHANGED desk,
             tasks[t].step = "building"
      PROVE  KnowledgeInv'
  <2> DEFINE c == [tasks[t] EXCEPT !.step = "built", !.proposal = q]
  <2>1. tasks[t] \in KnowledgeTasks /\ TaskFits(tasks[t]) /\ "built" \in Knowledge!Steps
    BY DEF KnowledgeInv, KnowledgeShape, Knowledge!Steps
  <2>2. q \in Reviewable
    BY DEF Knowledge!Proposals, Reviewable, KnowledgeInv, KnowledgeShape
  <2>3. /\ c \in KnowledgeTasks /\ c.step = "built" /\ c.turn = tasks[t].turn
        /\ c.purpose = tasks[t].purpose /\ c.checked = tasks[t].checked /\ c.digest = tasks[t].digest
        /\ c.proposal = q /\ c.answer = tasks[t].answer
    BY <2>1, <2>2 DEF KnowledgeTasks
  <2>4. tasks' = [tasks EXCEPT ![t] = c]
    BY <1>3, <2>1 DEF KnowledgeInv, KnowledgeShape, KnowledgeTasks
  <2> HIDE DEF c
  <2>5. c.purpose = "prepare"
    BY <1>3, <2>1, <2>3 DEF TaskFits, PurposeFits
  <2>6. TaskFits(c)
    BY <2>1, <2>2, <2>3, <2>5 DEF TaskFits, PurposeFits, Applying, Accepting
  <2>. QED  BY <1>1, <1>3, <2>4, <2>6, QuietCommandKeeps DEF KnowledgeInv
<1>. QED  BY <1>2, <1>3 DEF Knowledge!Builds

LEMMA PreparedKeeps ==
    ASSUME KnowledgeInv, NEW t \in Tasks, Knowledge!Prepared(t)
    PROVE  KnowledgeInv'
<1> DEFINE e == [desk EXCEPT !.proposal = tasks[t].proposal]
<1>1. /\ UNCHANGED <<document, receipt, guarded, proven, scope, moves, confirmed, slipped>>
      /\ desk \in Desks /\ DeskFits(desk) /\ tasks[t].proposal \in Reviewable \cup {Knowledge!NoProposal}
      /\ tasks' = [tasks EXCEPT ![t] = Knowledge!Over]
  BY DEF Knowledge!Prepared, Knowledge!Ends, Knowledge!brains, KnowledgeInv, KnowledgeShape,
         KnowledgeTasks, DeskFits
<1>2. desk' = e
  BY DEF Knowledge!Prepared
<1>3. e \in Desks /\ e.turn = desk.turn /\ e.shown = desk.shown /\ e.late = desk.late /\ e.protection = desk.protection
  BY <1>1 DEF Desks
<1> HIDE DEF e
<1>4. DeskFits(e)
  BY <1>1, <1>3, DeskStays
<1>. QED  BY <1>1, <1>2, <1>4, OverFits, QuietCommandKeeps

LEMMA ApplyStartsKeeps ==
    ASSUME KnowledgeInv, NEW t \in Tasks, Knowledge!ApplyStarts(t)
    PROVE  KnowledgeInv'
<1>1. UNCHANGED <<document, receipt, guarded, proven, scope, moves, confirmed, slipped>>
  BY DEF Knowledge!ApplyStarts, Knowledge!brains
<1>2. CASE Knowledge!Fails(t)
  BY <1>1, <1>2, QuietEnd
<1>3. CASE /\ tasks' = [tasks EXCEPT ![t].step = "authorizing", ![t].project = scope.project]
           /\ UNCHANGED desk
  <2> DEFINE c == [tasks[t] EXCEPT !.step = "authorizing", !.project = scope.project]
  <2>1. tasks[t] \in KnowledgeTasks /\ TaskFits(tasks[t]) /\ "authorizing" \in Knowledge!Steps /\ scope.project \in Scopes
    BY DEF KnowledgeInv, KnowledgeShape, Knowledge!Steps
  <2>2. /\ c \in KnowledgeTasks /\ c.step = "authorizing" /\ c.turn = tasks[t].turn /\ c.project = scope.project
        /\ c.purpose = tasks[t].purpose /\ c.checked = tasks[t].checked /\ c.digest = tasks[t].digest
        /\ c.proposal = tasks[t].proposal /\ c.answer = tasks[t].answer
    BY <2>1 DEF KnowledgeTasks
  <2>3. tasks' = [tasks EXCEPT ![t] = c]
    BY <1>3, <2>1 DEF KnowledgeInv, KnowledgeShape, KnowledgeTasks
  <2> HIDE DEF c
  <2>4. c.purpose = "apply"
    BY <2>1, <2>2 DEF TaskFits, PurposeFits, Knowledge!ApplyStarts
  <2>5. TaskFits(c)
    BY <2>1, <2>2, <2>4 DEF TaskFits, PurposeFits, Applying, Accepting
  <2>. QED  BY <1>1, <1>3, <2>3, <2>5, QuietCommandKeeps DEF KnowledgeInv
<1>. QED  BY <1>2, <1>3 DEF Knowledge!ApplyStarts

LEMMA AuthorizesKeeps ==
    ASSUME KnowledgeInv, NEW t \in Tasks, Knowledge!Authorizes(t)
    PROVE  KnowledgeInv'
<1>1. /\ UNCHANGED <<document, receipt, guarded, proven, scope, moves, confirmed, slipped>>
      /\ tasks[t].step = "authorizing"
  BY DEF Knowledge!Authorizes, Knowledge!brains
<1>2. CASE Knowledge!Fails(t)
  BY <1>1, <1>2, QuietEnd
<1>3. CASE Knowledge!OfDocuments(tasks[t].proposal, tasks[t].project) /\ Knowledge!Goes(t, "replacing") /\ UNCHANGED desk
  <2>1. "replacing" \in Knowledge!Steps
    BY DEF Knowledge!Steps
  <2>2. PICK c \in KnowledgeTasks :
              /\ c.step = "replacing" /\ c.purpose = tasks[t].purpose /\ c.turn = tasks[t].turn
              /\ c.project = tasks[t].project /\ c.checked = tasks[t].checked /\ c.digest = tasks[t].digest
              /\ c.proposal = tasks[t].proposal /\ c.answer = tasks[t].answer
              /\ tasks' = [tasks EXCEPT ![t] = c]
    BY <1>3, <2>1, GoesRecord
  <2>3. TaskFits(tasks[t]) /\ tasks[t].project \in Scopes
    BY <1>1 DEF KnowledgeInv, TaskFits, Applying
  <2>4. c.proposal \in Reviewable /\ c.proposal.project = c.project
    BY <1>3, <2>2, <2>3, KnowledgeConstants DEF Knowledge!OfDocuments, KnowledgeTasks, Knowledge!NoProposal
  <2>5. TaskFits(c)
    BY <1>1, <2>2, <2>3, <2>4 DEF TaskFits, PurposeFits, Applying, Accepting
  <2>. QED  BY <1>1, <1>3, <2>2, <2>5, QuietCommandKeeps DEF KnowledgeInv
<1>. QED  BY <1>2, <1>3 DEF Knowledge!Authorizes

\* A command that applies goes on, and nothing that was confirmed is touched.
LEMMA ApplyGoes ==
    ASSUME KnowledgeInv, NEW t \in Tasks, tasks[t].step \in Applying \ {"authorizing"},
           NEW step \in Applying \ {"authorizing"}, Knowledge!Goes(t, step),
           Brains', Grows, Knowledge!ProtectedIsConfirmed', UNCHANGED <<desk, moves>>
    PROVE  KnowledgeInv'
<1>1. step \in Knowledge!Steps
  BY DEF Applying, Knowledge!Steps
<1>2. PICK c \in KnowledgeTasks :
            /\ c.step = step /\ c.purpose = tasks[t].purpose /\ c.turn = tasks[t].turn
            /\ c.project = tasks[t].project /\ c.checked = tasks[t].checked /\ c.digest = tasks[t].digest
            /\ c.proposal = tasks[t].proposal /\ c.answer = tasks[t].answer
            /\ tasks' = [tasks EXCEPT ![t] = c]
  BY <1>1, GoesRecord
<1>3. TaskFits(c)
  BY <1>2 DEF KnowledgeInv, TaskFits, PurposeFits, Applying, Accepting
<1>4. TaskFits(c)' /\ \A d : DeskFits(d) => DeskFits(d)'
  BY <1>3, FitsStay
<1>5. DeskFits(desk)'
  BY <1>4 DEF KnowledgeInv
<1>. QED  BY <1>2, <1>4, <1>5, KnowledgeCommandKeeps

LEMMA ReplacesKeeps ==
    ASSUME KnowledgeInv, NEW t \in Tasks, Knowledge!Replaces(t)
    PROVE  KnowledgeInv'
<1>1. /\ tasks[t].step = "replacing" /\ Knowledge!Goes(t, "verifying")
      /\ document' = [document EXCEPT ![tasks[t].project] = tasks[t].proposal.post]
      /\ UNCHANGED <<receipt, guarded, proven, scope, desk, moves, confirmed, slipped>>
  BY DEF Knowledge!Replaces
<1>2. tasks[t].proposal.post \in Contents
  BY <1>1 DEF KnowledgeInv, TaskFits, Applying, Reviewable
<1>3. Brains' /\ Grows /\ Knowledge!ProtectedIsConfirmed'
  BY <1>1, <1>2 DEF Brains, Grows, KnowledgeInv, KnowledgeShape, Knowledge!ProtectedIsConfirmed
<1>. QED  BY <1>1, <1>3, ApplyGoes DEF Applying

LEMMA VerifiesKeeps ==
    ASSUME KnowledgeInv, NEW t \in Tasks, Knowledge!Verifies(t)
    PROVE  KnowledgeInv'
<1> DEFINE c == tasks[t]
<1>1. /\ c.step = "verifying"
      /\ UNCHANGED <<document, receipt, guarded, scope, moves, confirmed, slipped>>
  BY DEF Knowledge!Verifies
<1>2. CASE document[c.project] = c.proposal.post
  <2>1. /\ proven' = [proven EXCEPT ![c.project] = @ \cup {c.proposal.post}]
        /\ Knowledge!Goes(t, "recording") /\ UNCHANGED desk
    BY <1>2 DEF Knowledge!Verifies
  <2>2. /\ c.project \in Scopes /\ c.proposal.post \in Contents
        /\ c.proposal.post \in confirmed[c.project]
    BY <1>1 DEF KnowledgeInv, TaskFits, PurposeFits, Applying, Reviewable
  <2>3. Brains' /\ Grows /\ Knowledge!ProtectedIsConfirmed'
    BY <1>1, <2>1, <2>2 DEF Brains, Grows, KnowledgeInv, KnowledgeShape, Knowledge!ProtectedIsConfirmed
  <2>. QED  BY <1>1, <2>1, <2>3, ApplyGoes DEF Applying
<1>3. CASE document[c.project] # c.proposal.post
  BY <1>1, <1>3, QuietEnd DEF Knowledge!Verifies
<1>. QED  BY <1>2, <1>3

\* A receipt is of the documents as they are.
LEMMA RecordFits ==
    ASSUME KnowledgeInv, NEW p \in Scopes, Knowledge!Record(p),
           UNCHANGED <<document, guarded, proven, scope, confirmed, slipped>>
    PROVE  Brains' /\ Grows /\ Knowledge!ProtectedIsConfirmed'
BY DEF Knowledge!Record, Brains, Grows, KnowledgeInv, KnowledgeShape, Knowledge!ProtectedIsConfirmed

LEMMA RecordsKeeps ==
    ASSUME KnowledgeInv, NEW t \in Tasks, Knowledge!Records(t)
    PROVE  KnowledgeInv'
<1>1. /\ tasks[t].step = "recording" /\ Knowledge!Goes(t, "inspecting") /\ Knowledge!Record(tasks[t].project)
      /\ UNCHANGED <<document, guarded, proven, scope, desk, moves, confirmed, slipped>>
  BY DEF Knowledge!Records
<1>2. tasks[t].project \in Scopes
  BY <1>1 DEF KnowledgeInv, TaskFits, Applying
<1>3. Brains' /\ Grows /\ Knowledge!ProtectedIsConfirmed'
  BY <1>1, <1>2, RecordFits
<1>. QED  BY <1>1, <1>3, ApplyGoes DEF Applying

LEMMA InspectsKeeps ==
    ASSUME KnowledgeInv, NEW t \in Tasks, Knowledge!Inspects(t)
    PROVE  KnowledgeInv'
<1>1. /\ tasks[t].step = "inspecting" /\ tasks[t].purpose = "apply"
      /\ UNCHANGED <<document, receipt, guarded, proven, scope, moves, confirmed>>
  BY DEF Knowledge!Inspects, Knowledge!brains, KnowledgeInv, TaskFits, PurposeFits, Applying
<1>2. CASE Knowledge!InTurn(t) /\ Knowledge!Takes(t, "applied") /\ UNCHANGED desk
  BY <1>1, <1>2, TakesKeeps DEF Applying
<1>3. CASE Knowledge!Fails(t) /\ UNCHANGED slipped
  BY <1>1, <1>3, QuietEnd
<1>. QED  BY <1>2, <1>3 DEF Knowledge!Inspects

LEMMA AppliedKeeps ==
    ASSUME KnowledgeInv, NEW t \in Tasks, Knowledge!Applied(t)
    PROVE  KnowledgeInv'
<1> DEFINE e == [desk EXCEPT !.shown = Knowledge!Shows(tasks[t].answer), !.late = tasks[t].checked # desk.turn,
                             !.proposal = Knowledge!NoProposal]
<1>1. /\ UNCHANGED <<document, receipt, guarded, proven, scope, moves, confirmed, slipped>>
      /\ desk \in Desks /\ tasks[t].step = "applied" /\ Knowledge!Shows(tasks[t].answer) \in Knowledge!Digests
      /\ tasks' = [tasks EXCEPT ![t] = Knowledge!Over]
  BY DEF Knowledge!Applied, Knowledge!Ends, Knowledge!brains, KnowledgeInv, KnowledgeShape, KnowledgeTasks,
         DeskFits,
     Knowledge!Shows, Knowledge!Answers, Knowledge!Digests
<1>2. desk' = e
  BY DEF Knowledge!Applied
<1>3. /\ e \in Desks /\ e.turn = desk.turn /\ e.shown = Knowledge!Shows(tasks[t].answer)
      /\ e.late = (tasks[t].checked # desk.turn) /\ e.protection = desk.protection
  BY <1>1 DEF Desks
<1> HIDE DEF e
<1>4. DeskFits(e)
  BY <1>1, <1>3, ShowingDesk
<1>. QED  BY <1>1, <1>2, <1>4, OverFits, QuietCommandKeeps

--------------------------------------------------------------------------------------
(* An acceptance.                                                               *)

LEMMA AcceptStartsKeeps ==
    ASSUME KnowledgeInv, NEW t \in Tasks, Knowledge!AcceptStarts(t)
    PROVE  KnowledgeInv'
<1>1. UNCHANGED <<document, receipt, guarded, proven, scope, moves, confirmed, slipped>>
  BY DEF Knowledge!AcceptStarts, Knowledge!brains
<1>2. CASE Knowledge!Fails(t)
  BY <1>1, <1>2, QuietEnd
<1>3. CASE /\ tasks' = [tasks EXCEPT ![t].step = "checked", ![t].project = scope.project]
           /\ UNCHANGED desk
  <2> DEFINE c == [tasks[t] EXCEPT !.step = "checked", !.project = scope.project]
  <2>1. tasks[t] \in KnowledgeTasks /\ TaskFits(tasks[t]) /\ "checked" \in Knowledge!Steps /\ scope.project \in Scopes
    BY DEF KnowledgeInv, KnowledgeShape, Knowledge!Steps
  <2>2. /\ c \in KnowledgeTasks /\ c.step = "checked" /\ c.turn = tasks[t].turn /\ c.project = scope.project
        /\ c.purpose = tasks[t].purpose /\ c.checked = tasks[t].checked /\ c.digest = tasks[t].digest
        /\ c.proposal = tasks[t].proposal /\ c.answer = tasks[t].answer
    BY <2>1 DEF KnowledgeTasks
  <2>3. tasks' = [tasks EXCEPT ![t] = c]
    BY <1>3, <2>1 DEF KnowledgeInv, KnowledgeShape, KnowledgeTasks
  <2> HIDE DEF c
  <2>4. c.purpose \in {"activate", "confirm"}
    BY <2>1, <2>2 DEF TaskFits, PurposeFits, Knowledge!AcceptStarts
  <2>5. TaskFits(c)
    BY <2>1, <2>2, <2>4 DEF TaskFits, PurposeFits, Applying, Accepting
  <2>. QED  BY <1>1, <1>3, <2>3, <2>5, QuietCommandKeeps DEF KnowledgeInv
<1>. QED  BY <1>2, <1>3 DEF Knowledge!AcceptStarts

LEMMA AcceptRecordsKeeps ==
    ASSUME KnowledgeInv, NEW t \in Tasks, Knowledge!AcceptRecords(t)
    PROVE  KnowledgeInv'
<1>1. /\ tasks[t].step = "checked" /\ Knowledge!Goes(t, "confirming") /\ Knowledge!Record(tasks[t].project)
      /\ UNCHANGED <<document, guarded, proven, scope, desk, moves, confirmed, slipped>>
  BY DEF Knowledge!AcceptRecords
<1>2. tasks[t].project \in Scopes /\ "confirming" \in Knowledge!Steps
  BY <1>1 DEF KnowledgeInv, TaskFits, Accepting, Knowledge!Steps
<1>3. Brains' /\ Grows /\ Knowledge!ProtectedIsConfirmed'
  BY <1>1, <1>2, RecordFits
<1>4. PICK c \in KnowledgeTasks :
            /\ c.step = "confirming" /\ c.purpose = tasks[t].purpose /\ c.turn = tasks[t].turn
            /\ c.project = tasks[t].project /\ c.checked = tasks[t].checked /\ c.digest = tasks[t].digest
            /\ c.proposal = tasks[t].proposal /\ c.answer = tasks[t].answer
            /\ tasks' = [tasks EXCEPT ![t] = c]
  BY <1>1, <1>2, GoesRecord
<1>5. TaskFits(c)
  BY <1>1, <1>4 DEF KnowledgeInv, TaskFits, PurposeFits, Applying, Accepting
<1>6. TaskFits(c)' /\ \A d : DeskFits(d) => DeskFits(d)'
  BY <1>3, <1>5, FitsStay
<1>7. DeskFits(desk)'
  BY <1>1, <1>6 DEF KnowledgeInv
<1>. QED  BY <1>1, <1>3, <1>4, <1>6, <1>7, KnowledgeCommandKeeps

LEMMA RequestsKeeps ==
    ASSUME KnowledgeInv, NEW t \in Tasks, Knowledge!Requests(t)
    PROVE  KnowledgeInv'
<1>1. /\ UNCHANGED <<document, receipt, guarded, proven, scope, moves, confirmed, slipped>>
      /\ tasks[t].step = "confirming"
  BY DEF Knowledge!Requests, Knowledge!brains
<1>2. CASE ~(Knowledge!Confirmed(t) /\ Knowledge!InTurn(t))
  BY <1>1, <1>2, QuietEnd DEF Knowledge!Requests
<1>3. CASE Knowledge!Confirmed(t) /\ Knowledge!InTurn(t)
  <2>. PICK p \in Scopes : p = tasks[t].project
    BY <1>1 DEF KnowledgeInv, TaskFits, Accepting
  <2>. PICK a : a = [project |-> p, content |-> document[p], status |-> "none"]
    OBVIOUS
  <2> DEFINE c == [tasks[t] EXCEPT !.step = "uac", !.answer = a]
  <2>1. tasks[t] \in KnowledgeTasks /\ TaskFits(tasks[t]) /\ "uac" \in Knowledge!Steps
    BY DEF KnowledgeInv, KnowledgeShape, Knowledge!Steps
  <2>2. a \in Knowledge!Answers /\ Whole(a) /\ a.project = p /\ a.content = document[p]
    BY DEF Knowledge!Answers, Knowledge!Statuses, Whole, KnowledgeInv, KnowledgeShape
  <2>3. IsConfirmed(a)
    <3>1. tasks[t].digest.project = p /\ tasks[t].digest.content = document[p]
      BY <1>3 DEF Knowledge!Confirmed
    <3>. QED  BY <2>1, <2>2, <3>1 DEF TaskFits, IsConfirmed
  <2>4. /\ c \in KnowledgeTasks /\ c.step = "uac" /\ c.turn = tasks[t].turn
        /\ c.purpose = tasks[t].purpose /\ c.checked = tasks[t].checked /\ c.digest = tasks[t].digest
        /\ c.proposal = tasks[t].proposal /\ c.answer = a
    BY <2>1, <2>2 DEF KnowledgeTasks
  <2>5. tasks' = [tasks EXCEPT ![t] = c] /\ desk' = desk
    <3>1. /\ tasks' = [tasks EXCEPT ![t].step = "uac", ![t].answer = a]
          /\ desk' = desk
      BY <1>3 DEF Knowledge!Requests
    <3>. QED  BY <2>1, <3>1 DEF KnowledgeInv, KnowledgeShape, KnowledgeTasks
  <2> HIDE DEF c
  <2>6. TaskFits(c)
    BY <1>1, <2>1, <2>2, <2>3, <2>4 DEF TaskFits, PurposeFits, Applying, Accepting
  <2>. QED  BY <1>1, <2>5, <2>6, QuietCommandKeeps DEF KnowledgeInv
<1>. QED  BY <1>2, <1>3

\* The elevated process protects what the request is of.
LEMMA IssuesKeeps ==
    ASSUME KnowledgeInv, NEW t \in Tasks, Knowledge!Issues(t)
    PROVE  KnowledgeInv'
<1> DEFINE a == tasks[t].answer
<1>1. /\ UNCHANGED <<document, receipt, proven, scope, moves, confirmed, slipped>>
      /\ tasks[t].step = "uac" /\ IsConfirmed(a) /\ Whole(a)
  BY DEF Knowledge!Issues, KnowledgeInv, TaskFits
<1>2. guarded' = guarded \/ guarded' = [guarded EXCEPT ![a.project] = @ \cup {a.content}]
  BY DEF Knowledge!Issues
<1>3. Brains' /\ Grows /\ Knowledge!ProtectedIsConfirmed'
  BY <1>1, <1>2
  DEF Brains, Grows, KnowledgeInv, KnowledgeShape, Knowledge!ProtectedIsConfirmed, IsConfirmed, Whole
<1>4. \E c : TaskFits(c) /\ DeskFits(desk') /\ tasks' = [tasks EXCEPT ![t] = c]
  <2>1. CASE Knowledge!Goes(t, "completing") /\ UNCHANGED desk
    <3>1. "completing" \in Knowledge!Steps
      BY DEF Knowledge!Steps
    <3>2. PICK c \in KnowledgeTasks :
                /\ c.step = "completing" /\ c.purpose = tasks[t].purpose /\ c.turn = tasks[t].turn
                /\ c.project = tasks[t].project /\ c.checked = tasks[t].checked /\ c.digest = tasks[t].digest
                /\ c.proposal = tasks[t].proposal /\ c.answer = tasks[t].answer
                /\ tasks' = [tasks EXCEPT ![t] = c]
      BY <2>1, <3>1, GoesRecord
    <3>3. TaskFits(c)
      BY <1>1, <3>2 DEF KnowledgeInv, TaskFits, PurposeFits, Applying, Accepting
    <3>. QED  BY <2>1, <3>2, <3>3 DEF KnowledgeInv
  <2>2. CASE Knowledge!Fails(t)
    BY <2>2, CommandEnds
  <2>. QED  BY <2>1, <2>2 DEF Knowledge!Issues
<1>5. PICK c : TaskFits(c) /\ DeskFits(desk') /\ tasks' = [tasks EXCEPT ![t] = c]
  BY <1>4
<1>6. TaskFits(c)' /\ \A d : DeskFits(d) => DeskFits(d)'
  BY <1>3, <1>5, FitsStay
<1>7. DeskFits(desk)'
  BY <1>1, <1>5 DEF DeskFits, IsConfirmed, IsSlipped
<1>. QED  BY <1>1, <1>3, <1>5, <1>6, <1>7, KnowledgeCommandKeeps

LEMMA CompletesKeeps ==
    ASSUME KnowledgeInv, NEW t \in Tasks, Knowledge!Completes(t)
    PROVE  KnowledgeInv'
<1>1. /\ UNCHANGED <<document, receipt, guarded, proven, scope, moves, confirmed, slipped>>
      /\ tasks[t].step = "completing"
  BY DEF Knowledge!Completes, Knowledge!brains
<1>2. CASE Knowledge!Fails(t)
  BY <1>1, <1>2, QuietEnd
<1>3. CASE tasks' = [tasks EXCEPT ![t].step = "accepted", ![t].answer.status = "match"] /\ UNCHANGED desk
  <2> DEFINE a == [tasks[t].answer EXCEPT !.status = "match"]
             c == [tasks[t] EXCEPT !.step = "accepted", !.answer = a]
  <2>1. tasks[t] \in KnowledgeTasks /\ TaskFits(tasks[t]) /\ "accepted" \in Knowledge!Steps
    BY DEF KnowledgeInv, KnowledgeShape, Knowledge!Steps
  <2>2. a \in Knowledge!Answers /\ a.project = tasks[t].answer.project /\ a.content = tasks[t].answer.content
    BY <2>1 DEF KnowledgeTasks, Knowledge!Answers, Knowledge!Statuses
  <2>3. Whole(a)
    BY <2>1, <2>2 DEF TaskFits, Whole
  <2>4. tasks' = [tasks EXCEPT ![t] = c]
    BY <1>3, <2>1 DEF KnowledgeInv, KnowledgeShape, KnowledgeTasks, Knowledge!Answers
  <2> HIDE DEF a
  <2>5. /\ c \in KnowledgeTasks /\ c.step = "accepted" /\ c.turn = tasks[t].turn
        /\ c.purpose = tasks[t].purpose /\ c.checked = tasks[t].checked /\ c.digest = tasks[t].digest
        /\ c.proposal = tasks[t].proposal /\ c.answer = a
    BY <2>1, <2>2 DEF KnowledgeTasks
  <2> HIDE DEF c
  <2>6. TaskFits(c)
    BY <1>1, <2>1, <2>3, <2>5 DEF TaskFits, PurposeFits, Applying, Accepting
  <2>. QED  BY <1>1, <1>3, <2>4, <2>6, QuietCommandKeeps DEF KnowledgeInv
<1>. QED  BY <1>2, <1>3 DEF Knowledge!Completes

LEMMA AcceptedKeeps ==
    ASSUME KnowledgeInv, NEW t \in Tasks, Knowledge!Accepted(t)
    PROVE  KnowledgeInv'
<1> DEFINE d == [desk EXCEPT !.protection = tasks[t].answer]
           e == [d EXCEPT !.refreshing = t]
<1>1. /\ UNCHANGED <<document, receipt, guarded, proven, scope, moves, confirmed, slipped>>
      /\ desk \in Desks /\ DeskFits(desk) /\ tasks[t].answer \in Knowledge!Answers /\ Whole(tasks[t].answer)
      /\ tasks[t].purpose \in Knowledge!Purposes /\ desk.refreshing \in Tasks \cup {NoTask}
  BY DEF Knowledge!Accepted, Knowledge!brains, KnowledgeInv, KnowledgeShape, KnowledgeTasks, TaskFits,
         DeskFits, Desks
<1>2. /\ d \in Desks /\ d.turn = desk.turn /\ d.shown = desk.shown /\ d.late = desk.late
      /\ d.protection = tasks[t].answer
  BY <1>1 DEF Desks
<1>3. CASE desk.refreshing = NoTask
  <2>1. /\ tasks' = [tasks EXCEPT ![t] = Knowledge!Refreshing(t, tasks[t].purpose)] /\ desk' = e
    BY <1>3 DEF Knowledge!Accepted
  <2> HIDE DEF d
  <2>2. /\ e \in Desks /\ e.turn = desk.turn /\ e.shown = desk.shown /\ e.late = desk.late
        /\ e.protection = tasks[t].answer
    BY <1>2 DEF Desks
  <2> HIDE DEF e
  <2>3. DeskFits(e)
    BY <1>1, <2>2, DeskStays
  <2>4. TaskFits(Knowledge!Refreshing(t, tasks[t].purpose))
    BY <1>1, OverFits DEF Knowledge!Refreshing
  <2>. QED  BY <1>1, <2>1, <2>3, <2>4, QuietCommandKeeps
<1>4. CASE desk.refreshing # NoTask
  <2>1. /\ tasks' = [tasks EXCEPT ![t] =
              [Knowledge!Over EXCEPT !.step = "waiting", !.purpose = tasks[t].purpose, !.on = desk.refreshing]]
        /\ desk' = d
    BY <1>4 DEF Knowledge!Accepted
  <2> HIDE DEF d
  <2>2. DeskFits(d)
    BY <1>1, <1>2, DeskStays
  <2>3. TaskFits([Knowledge!Over EXCEPT !.step = "waiting", !.purpose = tasks[t].purpose, !.on = desk.refreshing])
    BY <1>1, OverFits
  <2>. QED  BY <1>1, <2>1, <2>2, <2>3, QuietCommandKeeps
<1>. QED  BY <1>3, <1>4

LEMMA ActivationKeeps ==
    ASSUME KnowledgeInv, NEW t \in Tasks, Knowledge!Activation(t) \/ Knowledge!AcceptUnexpected(t)
    PROVE  KnowledgeInv'
<1>1. CASE Knowledge!Activation(t)
  BY <1>1, ConfirmKeeps DEF Knowledge!Activation
<1>2. CASE Knowledge!AcceptUnexpected(t)
  BY <1>2, ConfirmKeeps DEF Knowledge!AcceptUnexpected
<1>. QED  BY <1>1, <1>2

--------------------------------------------------------------------------------------
(* The whole.                                                                   *)

LEMMA KnowledgeBegins ==
    ASSUME Knowledge!KnowledgeInit
    PROVE  KnowledgeInv
<1>1. PICK c \in Contents, S \in {{}, Scopes}, p \in Scopes :
        /\ document = [q \in Scopes |-> c]
        /\ receipt = [q \in Scopes |-> IF q \in S THEN c ELSE NoContent]
        /\ guarded = [q \in Scopes |-> IF q \in S THEN {c} ELSE {}]
        /\ proven = [q \in Scopes |-> {}]
        /\ confirmed = guarded /\ slipped = proven
        /\ tasks = [t \in Tasks |-> Knowledge!Over]
        /\ scope = [project |-> p, turn |-> 0] /\ desk = Knowledge!NewDesk(0) /\ moves = 0
  BY DEF Knowledge!KnowledgeInit
<1>2. /\ Knowledge!Over.step = "over" /\ Knowledge!Over.purpose = "none" /\ Knowledge!Over.turn = 0
      /\ Knowledge!Over.checked = 0 /\ Knowledge!Over.digest = Knowledge!NoDigest
      /\ Knowledge!Over.proposal = Knowledge!NoProposal /\ Knowledge!Over.answer = Knowledge!NoAnswer
      /\ Knowledge!Over \in KnowledgeTasks
  BY NoneFits, KnowledgeConstants DEF Knowledge!Over, KnowledgeTasks, Knowledge!Steps, Knowledge!Purposes
<1>3. scope.turn = 0 /\ scope.project = p
  BY <1>1
<1>4. TaskFits(Knowledge!Over)
  BY <1>2, <1>3, NoneFits DEF TaskFits, PurposeFits, Applying, Accepting
<1>5. /\ Knowledge!NewDesk(0) \in Desks /\ Knowledge!NewDesk(0).turn = 0
      /\ Knowledge!NewDesk(0).shown = Knowledge!NoDigest /\ Knowledge!NewDesk(0).protection = Knowledge!NoAnswer
  BY NoneFits, KnowledgeConstants DEF Knowledge!NewDesk, Desks
<1>6. DeskFits(Knowledge!NewDesk(0))
  BY <1>3, <1>5, NoneFits DEF DeskFits
<1>7. tasks \in [Tasks -> KnowledgeTasks]
  BY <1>1, <1>2
<1>8. /\ document \in [Scopes -> Contents] /\ receipt \in [Scopes -> Contents \cup {NoContent}]
      /\ guarded \in [Scopes -> SUBSET Contents] /\ proven \in [Scopes -> SUBSET Contents]
      /\ confirmed \in [Scopes -> SUBSET Contents] /\ slipped \in [Scopes -> SUBSET Contents]
  BY <1>1
<1>9. KnowledgeShape
  BY <1>1, <1>3, <1>7, <1>8, KnowledgeConstants DEF KnowledgeShape
<1>10. Knowledge!ProtectedIsConfirmed
  BY <1>1 DEF Knowledge!ProtectedIsConfirmed
<1>. QED  BY <1>1, <1>4, <1>6, <1>9, <1>10 DEF KnowledgeInv

LEMMA KnowledgeStays ==
    ASSUME KnowledgeInv, UNCHANGED knowledgeVars
    PROVE  KnowledgeInv'
BY DEF knowledgeVars, KnowledgeInv, KnowledgeShape, TaskFits, PurposeFits, DeskFits, IsConfirmed, IsSlipped,
   Knowledge!ProtectedIsConfirmed

LEMMA KnowledgeNextKeeps ==
    ASSUME KnowledgeInv, Knowledge!KnowledgeNext
    PROVE  KnowledgeInv'
<1>1. ASSUME NEW p \in Scopes, Knowledge!Edit(p) \/ Knowledge!ActivateKnown(p)
      PROVE  KnowledgeInv'
  BY <1>1, EditKeeps, ActivateKnownKeeps
<1>2. CASE Knowledge!KnowledgeTold
  BY <1>2, KnowledgeToldKeeps
<1>3. ASSUME NEW t \in Tasks, Knowledge!KnowledgeTask(t)
      PROVE  KnowledgeInv'
  BY <1>3, OpenKeeps, PrepareKeeps, AcceptReviewKeeps, ActivationKeeps, BeginsKeeps, WaitedKeeps,
     ReadStartsKeeps, ReadsKeeps, StatusReadKeeps, RefreshEndsKeeps, LearnsKeeps,
     BuildsKeeps, PreparedKeeps, ApplyStartsKeeps, AuthorizesKeeps, ReplacesKeeps, VerifiesKeeps,
     RecordsKeeps, InspectsKeeps, AppliedKeeps, AcceptStartsKeeps, AcceptRecordsKeeps, RequestsKeeps,
     IssuesKeeps, CompletesKeeps, AcceptedKeeps DEF Knowledge!KnowledgeTask
<1>. QED  BY <1>1, <1>2, <1>3 DEF Knowledge!KnowledgeNext

\* Where the knowledge is looked at, its invariant holds (the agent's part edits the
\* documents and protects them on its own).
THEOREM KnowledgeInvariantHolds == Spec => [](part = "knowledge" => KnowledgeInv)
<1>1. Init => (part = "knowledge" => KnowledgeInv)
  BY KnowledgeBegins DEF Init
<1>2. (part = "knowledge" => KnowledgeInv) /\ [Next]_vars => (part = "knowledge" => KnowledgeInv)'
  <2>. SUFFICES ASSUME part = "knowledge" => KnowledgeInv, [Next]_vars, part' = "knowledge"
                PROVE  KnowledgeInv'
    OBVIOUS
  <2>1. part' = part /\ KnowledgeInv
    BY DEF Next, vars, ProjectsStep, UpdatesStep, ConnectionStep, ReviewStep, KnowledgeStep, SessionsStep,
           AgentStep
  <2>2. CASE KnowledgeStep
    BY <2>1, <2>2, KnowledgeNextKeeps DEF KnowledgeStep
  <2>3. CASE UNCHANGED knowledgeVars
    BY <2>1, <2>3, KnowledgeStays
  <2>. QED  BY <2>1, <2>2, <2>3 DEF Next, vars, ProjectsStep, UpdatesStep, ConnectionStep, ReviewStep, SessionsStep, AgentStep
<1>. QED  BY <1>1, <1>2, PTL DEF Spec

\* However the documents are edited and the projects switched while a command runs, no
\* content is protected that the user did not accept or ask for, and none is shown as
\* confirmed that is not, but for one that came between a check and a read
\* (desktop-project-knowledge.ts, project_knowledge_bridge.rs, main.ts).
THEOREM KnowledgeHolds == Spec => []KnowledgeIsConfirmed
<1>1. KnowledgeInv => Knowledge!ProtectedIsConfirmed /\ Knowledge!ShownIsConfirmed
  <2>1. KnowledgeInv => Knowledge!ShownIsConfirmed
    BY KnowledgeConstants DEF KnowledgeInv, DeskFits, IsConfirmed, IsSlipped, Knowledge!ShownIsConfirmed
  <2>. QED  BY <2>1 DEF KnowledgeInv
<1>2. (part = "knowledge" => KnowledgeInv) => KnowledgeIsConfirmed
  BY <1>1 DEF KnowledgeIsConfirmed, Of
<1>. QED  BY <1>2, KnowledgeInvariantHolds, PTL

--------------------------------------------------------------------------------------
(* The agent.                                                                   *)

LEMMA AgentConstants ==
    /\ NoScope \notin Scopes /\ NoContent \notin Contents /\ MaxMoves \in Nat
    /\ MaxCalls \in Nat /\ MaxChanges \in Nat /\ MaxChanges <= MaxMoves
BY ProjectKnowledgeAssumption, AgentBridgeAssumption
   DEF Agent!KnowledgeAssumption, Knowledge!KnowledgeAssumption, Agent!BridgeAssumption

LEMMA CardinalityIsSame == \A S : Agent!Cardinality(S) = Cardinality(S)
BY Zenon DEF Agent!Cardinality, Cardinality

LEMMA IdleFits ==
    /\ Agent!Idle \in Works /\ Agent!Idle.step = "idle" /\ Agent!Idle.purpose = "none" /\ Agent!Idle.edits = 0
    /\ Agent!NoLine \in Lines
BY AgentConstants DEF Agent!Idle, Agent!NoLine, Works, Lines

--------------------------------------------------------------------------------------
(* What a step of the server has to show.                                       *)

\* A step that issues nothing and returns nothing.
LEMMA ServedKeeps ==
    ASSUME AgentInv, UNCHANGED knowledgeVars,
           UNCHANGED <<twins, issuances, contexts, observations, returns>>,
           candidates' = candidates \/ Agent!CandidateStands',
           server' \in [run : {server.run}, home : {server.home}, gate : {"none", "held", "refused"},
                        life : {"new", "initializing", "ready"}],
           queue' \in Seq(Lines), QueueInv', calls' \in 0..MaxCalls,
           work' \in Works, work'.edits <= moves, WorkInv'
    PROVE  AgentInv'
<1>1. server'.run = server.run /\ server'.home = server.home
  OBVIOUS
<1>2. KnowledgeShape' /\ desk' \in Desks
  BY DEF AgentInv, AgentShape, KnowledgeShape, knowledgeVars
<1>3. AgentShape'
  <2>1. /\ server' \in [run : 0..MaxMoves, home : Scopes, gate : {"none", "held", "refused"},
                        life : {"new", "initializing", "ready"}]
        /\ server'.run <= moves'
    BY <1>1 DEF AgentInv, AgentShape, knowledgeVars
  <2>2. moves' = moves
    BY DEF knowledgeVars
  <2>. QED  BY <1>2, <2>1, <2>2 DEF AgentInv, AgentShape
<1>4. IssuedInv' /\ RecordedIsConfirmed'
  BY <1>1 DEF AgentInv, IssuedInv, RecordedIsConfirmed, knowledgeVars
<1>5. Agent!ToldIsAccepted' /\ Agent!ObservedIsTold' /\ Agent!ReturnedOnce'
  BY DEF AgentInv, Agent!ToldIsAccepted, Agent!ObservedIsTold, Agent!ReturnedOnce, knowledgeVars
<1>6. Agent!CandidateStands'
  BY <1>1 DEF AgentInv, Agent!CandidateStands, Agent!Brain, knowledgeVars
<1>. QED  BY <1>3, <1>4, <1>5, <1>6 DEF AgentInv

\* A work that waits for nothing.
LEMMA IdleWorks ==
    ASSUME AgentInv, work' = Agent!Idle
    PROVE  work' \in Works /\ work'.edits <= moves /\ WorkInv' /\ Busy' = 0 /\ Busy \in {0, 1}
<1>1. 0 <= moves
  BY AgentConstants DEF AgentInv, AgentShape, KnowledgeShape
<1>2. WorkInv'
  BY IdleFits DEF WorkInv
<1>. QED  BY <1>1, <1>2, IdleFits DEF Busy

LEMMA QueueStays ==
    ASSUME AgentInv, queue' = queue, Busy' \in {0, Busy}, UNCHANGED <<contexts, calls>>, server'.home = server.home
    PROVE  QueueInv'
<1>1. \A line : LineFits(line)' <=> LineFits(line)
  BY DEF LineFits
<1>2. Cardinality(contexts) \in Nat /\ Len(queue) \in Nat /\ calls \in Nat /\ Busy \in {0, 1}
  BY FS_CardinalityType, AgentConstants DEF AgentInv, AgentShape, Busy
<1>3. PICK h \in 0..2 :
        /\ h <= Len(queue) /\ \A n \in 1..h : Greeting(queue[n])
        /\ Len(queue) - h + Cardinality(contexts) + Busy <= calls
  BY DEF AgentInv, QueueInv
<1>4. Len(queue) - h + Cardinality(contexts) + Busy' <= calls
  BY <1>2, <1>3
<1>. QED  BY <1>1, <1>3, <1>4 DEF AgentInv, QueueInv

\* A tool that is answered, or goes on.
LEMMA ToolKeeps ==
    ASSUME AgentInv, Agent!Stays, UNCHANGED <<issuances, contexts, observations, candidates>>,
           work' \in Works, work'.edits <= moves, WorkInv', Busy' \in {0, Busy}
    PROVE  AgentInv'
<1>1. UNCHANGED knowledgeVars /\ UNCHANGED <<twins, server, queue, calls, returns>>
  BY DEF Agent!Stays, Agent!knowledgeVars, Agent!brains, knowledgeVars
<1>2. QueueInv'
  BY <1>1, QueueStays
<1>3. server' \in [run : {server.run}, home : {server.home}, gate : {"none", "held", "refused"},
                        life : {"new", "initializing", "ready"}]
  BY <1>1 DEF AgentInv, AgentShape
<1>. QED  BY <1>1, <1>2, <1>3, ServedKeeps DEF AgentInv, AgentShape

LEMMA AnsweredKeeps ==
    ASSUME AgentInv, Agent!Stays, Agent!Answered, UNCHANGED <<issuances, contexts, observations, candidates>>
    PROVE  AgentInv'
BY IdleWorks, ToolKeeps DEF Agent!Answered

--------------------------------------------------------------------------------------
(* A tool, from read to read.                                                   *)

LEMMA WorkFacts ==
    ASSUME AgentInv, work.step # "idle"
    PROVE  /\ work \in Works /\ work.purpose \in Agent!Tools /\ LineFits(work.line)
           /\ work.line.project \in Scopes /\ work.edits \in Nat
           /\ work.purpose = "context" => work.line.thread \in Threads
           /\ work.purpose # "context" =>
               work.line.project = server.home /\ work.line.packet \in contexts
           /\ document[work.line.project] \in Contents
           /\ \A x \in Contents \ confirmed[work.line.project] : work.edits >= Base(x) + Seen(x)
<1>1. /\ work \in Works /\ work.purpose \in Agent!Tools /\ LineFits(work.line) /\ server.home \in Scopes
      /\ work.line.kind = IF work.purpose = "context" THEN "context" ELSE "return"
      /\ \A x \in Contents \ confirmed[work.line.project] : work.edits >= Base(x) + Seen(x)
  BY DEF AgentInv, AgentShape, WorkInv
<1>2. /\ work.line.project \in Scopes
      /\ work.purpose = "context" => work.line.thread \in Threads
      /\ work.purpose # "context" => work.line.project = server.home /\ work.line.packet \in contexts
  BY <1>1 DEF LineFits
<1>3. work.edits \in Nat
  BY <1>1, AgentConstants DEF Works
<1>4. document[work.line.project] \in Contents
  BY <1>2 DEF AgentInv, AgentShape, KnowledgeShape
<1>. QED  BY <1>1, <1>2, <1>3, <1>4

LEMMA GoesOnKeeps ==
    ASSUME AgentInv, Agent!Stays, UNCHANGED <<issuances, contexts, observations, candidates>>,
           work.step # "idle", NEW w \in Works, work' = w, w.step # "idle",
           w.line = work.line, w.edits = work.edits, w.purpose \in Agent!Tools,
           (w.purpose = "context") <=> (work.purpose = "context"),
           w.step \in {"recapture", "doctorAfter"} => w.content \in Contents,
           \A x \in Contents \ confirmed[work.line.project] : work.edits >= Base(x)' + Seen(x)'
    PROVE  AgentInv'
<1>1. UNCHANGED <<document, confirmed, server, moves>>
  BY DEF Agent!Stays, Agent!knowledgeVars, Agent!brains
<1>2. LineFits(work.line)' /\ work'.line.kind = work.line.kind
  BY <1>1, WorkFacts DEF LineFits
<1>3. WorkInv'
  <2>1. work'.line.kind = IF work'.purpose = "context" THEN "context" ELSE "return"
    BY <1>2 DEF AgentInv, WorkInv
  <2>2. work.line = work'.line /\ work.edits = work'.edits /\ confirmed' = confirmed
    BY <1>1
  <2>3. \A x \in (Contents \ confirmed[work.line.project])' : work'.edits >= Base(x)' + Seen(x)'
    BY <2>2
  <2>. QED  BY <1>2, <2>1, <2>3 DEF WorkInv
<1>4. Busy' \in {0, Busy} /\ work'.edits <= moves
  BY DEF Busy, AgentInv, AgentShape
<1>. QED  BY <1>3, <1>4, ToolKeeps

\* What has a receipt is accepted.
LEMMA RecordedFacts ==
    ASSUME AgentInv, NEW p \in Scopes, Agent!Recorded(p)
    PROVE  document[p] \in confirmed[p]
BY AgentConstants DEF AgentInv, AgentShape, KnowledgeShape, RecordedIsConfirmed, Agent!Recorded

LEMMA DoctorKeeps ==
    ASSUME AgentInv, Agent!Doctor
    PROVE  AgentInv'
<1>1. work.step = "doctor" /\ Agent!Stays /\ UNCHANGED <<issuances, contexts, observations, candidates>>
  BY DEF Agent!Doctor, Agent!Working
<1>2. CASE Agent!Recorded(Agent!Project)
  <2> DEFINE w == [work EXCEPT !.step = "capture"]
  <2>1. work' = w
    BY <1>2 DEF Agent!Doctor
  <2>2. /\ w \in Works /\ w.step = "capture" /\ w.purpose = work.purpose /\ w.line = work.line
        /\ w.content = work.content /\ w.edits = work.edits
    BY <1>1, WorkFacts DEF Works
  <2> HIDE DEF w
  <2>3. document[work.line.project] \in confirmed[work.line.project]
    BY <1>1, <1>2, WorkFacts, RecordedFacts DEF Agent!Project
  <2>4. ASSUME NEW x \in Contents \ confirmed[work.line.project]
        PROVE  work.edits >= Base(x)' + Seen(x)'
    <3>1. work.edits >= Base(x) + Seen(x) /\ document' = document
      BY <1>1, WorkFacts DEF Agent!Stays, Agent!knowledgeVars, Agent!brains
    <3>2. Seen(x) = 0 /\ Seen(x)' = 0 /\ Base(x)' = Base(x)
      BY <1>1, <2>1, <2>2, <2>3, <3>1 DEF Seen, Base
    <3>. QED  BY <3>1, <3>2
  <2>. QED  BY <1>1, <2>1, <2>2, <2>4, WorkFacts, GoesOnKeeps
<1>3. CASE ~Agent!Recorded(Agent!Project)
  BY <1>1, <1>3, AnsweredKeeps DEF Agent!Doctor
<1>. QED  BY <1>2, <1>3

LEMMA CaptureKeeps ==
    ASSUME AgentInv, Agent!Capture
    PROVE  AgentInv'
<1>1. work.step = "capture" /\ Agent!Stays /\ UNCHANGED <<issuances, contexts, observations, candidates>>
  BY DEF Agent!Capture, Agent!Working
<1> DEFINE w == [work EXCEPT !.step = "recapture", !.content = document[work.line.project]]
<1>2. work' = w
  BY DEF Agent!Capture, Agent!Project
<1>3. /\ w \in Works /\ w.step = "recapture" /\ w.purpose = work.purpose /\ w.line = work.line
      /\ w.content = document[work.line.project] /\ w.edits = work.edits
  BY <1>1, WorkFacts DEF Works
<1> HIDE DEF w
<1>4. ASSUME NEW x \in Contents \ confirmed[work.line.project]
      PROVE  work.edits >= Base(x)' + Seen(x)'
  <2>1. work.edits >= Base(x) + Seen(x) /\ document' = document
    BY <1>1, WorkFacts DEF Agent!Stays, Agent!knowledgeVars, Agent!brains
  <2>2. Base(x)' = Base(x)
    BY <1>2, <1>3 DEF Base
  <2>3. Seen(x)' = Seen(x)
    BY <1>1, <1>2, <1>3, <2>1 DEF Seen
  <2>. QED  BY <2>1, <2>2, <2>3
<1>. QED  BY <1>1, <1>2, <1>3, <1>4, WorkFacts, GoesOnKeeps

LEMMA RecaptureKeeps ==
    ASSUME AgentInv, Agent!Recapture
    PROVE  AgentInv'
<1>1. work.step = "recapture" /\ Agent!Stays /\ UNCHANGED <<issuances, contexts, observations, candidates>>
  BY DEF Agent!Recapture, Agent!Working
<1>2. CASE work' = [work EXCEPT !.step = "doctorAfter"]
  <2> DEFINE w == [work EXCEPT !.step = "doctorAfter"]
  <2>1. /\ w \in Works /\ w.step = "doctorAfter" /\ w.purpose = work.purpose /\ w.line = work.line
        /\ w.content = work.content /\ w.edits = work.edits
    BY <1>1, WorkFacts DEF Works
  <2>2. work' = w
    BY <1>2
  <2> HIDE DEF w
  <2>3. ASSUME NEW x \in Contents \ confirmed[work.line.project]
        PROVE  work.edits >= Base(x)' + Seen(x)'
    <3>1. work.edits >= Base(x) + Seen(x) /\ document' = document
      BY <1>1, WorkFacts DEF Agent!Stays, Agent!knowledgeVars, Agent!brains
    <3>2. Base(x)' = Base(x)
      BY <2>1, <2>2 DEF Base
    <3>3. Seen(x)' = Seen(x)
      BY <1>1, <2>1, <2>2, <3>1 DEF Seen
    <3>. QED  BY <3>1, <3>2, <3>3
  <2>4. work.content \in Contents
    BY <1>1 DEF AgentInv, WorkInv
  <2>. QED  BY <1>1, <2>1, <2>2, <2>3, <2>4, WorkFacts, GoesOnKeeps
<1>3. CASE Agent!Answered
  BY <1>1, <1>3, AnsweredKeeps
<1>. QED  BY <1>2, <1>3 DEF Agent!Recapture

LEMMA NotBuiltKeeps ==
    ASSUME AgentInv, Agent!NotBuilt \/ Agent!ToolFails
    PROVE  AgentInv'
BY AnsweredKeeps DEF Agent!NotBuilt, Agent!ToolFails

\* A read that is over has seen what was accepted, or one more edit back and forth.
LEMMA BuiltFacts ==
    ASSUME AgentInv, NEW why \in Agent!Tools, Agent!Built(why)
    PROVE  /\ work.step = "doctorAfter" /\ work.purpose = why /\ work.content \in Contents
           /\ work.content \in confirmed[work.line.project] \/ work.edits >= Base(work.content) + 2
<1>1. work.step = "doctorAfter" /\ work.purpose = why /\ Agent!Recorded(work.line.project)
  BY DEF Agent!Built, Agent!Working, Agent!Project
<1>2. work.content \in Contents
  BY <1>1 DEF AgentInv, WorkInv
<1>3. document[work.line.project] \in confirmed[work.line.project]
  BY <1>1, WorkFacts, RecordedFacts
<1>4. CASE work.content \notin confirmed[work.line.project]
  <2>1. work.edits >= Base(work.content) + Seen(work.content)
    BY <1>1, <1>2, <1>4, WorkFacts
  <2>2. Seen(work.content) = 2
    BY <1>1, <1>3, <1>4 DEF Seen
  <2>. QED  BY <1>1, <1>2, <2>1, <2>2
<1>. QED  BY <1>1, <1>2, <1>4

\* The next tool of a return begins where the context's material was read again.
LEMMA ContinuesKeeps ==
    ASSUME AgentInv, NEW why \in {"snapshot", "proposal"}, NEW after, Agent!Built(why),
           after = (IF why = "snapshot" THEN "proposal" ELSE "actionable"),
           Agent!OfContext, Agent!Continues(after),
           Agent!Stays, UNCHANGED <<issuances, contexts, observations, candidates>>
    PROVE  AgentInv'
<1> DEFINE w == [work EXCEPT !.step = "doctor", !.purpose = after]
<1>1. /\ work.step = "doctorAfter" /\ work.purpose = why /\ work.content \in Contents
      /\ work.content \in confirmed[work.line.project] \/ work.edits >= Base(work.content) + 2
  BY BuiltFacts DEF Agent!Tools
<1>2. work' = w /\ after \in Agent!Tools /\ after # "context"
  BY DEF Agent!Continues, Agent!Tools
<1>3. /\ w \in Works /\ w.step = "doctor" /\ w.purpose = after /\ w.line = work.line
      /\ w.content = work.content /\ w.edits = work.edits
  BY <1>1, <1>2, WorkFacts DEF Works
<1> HIDE DEF w
<1>4. work.line.packet.id.content = work.content
  BY DEF Agent!OfContext
<1>5. ASSUME NEW x \in Contents \ confirmed[work.line.project]
      PROVE  work.edits >= Base(x)' + Seen(x)'
  <2>1. Seen(x)' = 0
    BY <1>2, <1>3 DEF Seen
  <2>2. CASE x = work.content
    <3>1. work.edits >= Base(x) + 2
      BY <1>1, <2>2
    <3>2. Base(x)' = Base(x) + 2 /\ Base(x) \in {0, 2}
      BY <1>1, <1>2, <1>3, <1>4, <2>2 DEF Base
    <3>. QED  BY <2>1, <3>1, <3>2
  <2>3. CASE x # work.content
    <3>1. Base(x)' = 0
      BY <1>2, <1>3, <1>4, <2>3 DEF Base
    <3>. QED  BY <1>1, <2>1, <3>1, WorkFacts
  <2>. QED  BY <2>2, <2>3
<1>. QED  BY <1>1, <1>2, <1>3, <1>5, GoesOnKeeps

LEMMA CurrentKeeps ==
    ASSUME AgentInv, Agent!Current
    PROVE  AgentInv'
BY ContinuesKeeps, AnsweredKeeps DEF Agent!Current

LEMMA ReviewedKeeps ==
    ASSUME AgentInv, Agent!Reviewed
    PROVE  AgentInv'
BY ContinuesKeeps, AnsweredKeeps DEF Agent!Reviewed

\* The proposal is of what the context told, in the server's project.
LEMMA PreparesKeeps ==
    ASSUME AgentInv, Agent!Prepares
    PROVE  AgentInv'
<1>1. /\ Agent!Built("actionable") /\ Agent!Answered /\ Agent!Stays /\ UNCHANGED <<issuances, contexts, observations>>
      /\ "actionable" \in Agent!Tools
  BY DEF Agent!Prepares, Agent!Tools
<1>2. CASE ~Agent!OfContext
  BY <1>1, <1>2, AnsweredKeeps DEF Agent!Prepares
<1>3. CASE Agent!OfContext
  <2> DEFINE new == [packet |-> work.line.packet, base |-> work.content, edits |-> work.edits]
  <2>1. candidates' = candidates \cup {new}
    BY <1>3 DEF Agent!Prepares
  <2>2. /\ work.step = "doctorAfter" /\ work.purpose = "actionable" /\ work.content \in Contents
        /\ work.content \in confirmed[work.line.project] \/ work.edits >= Base(work.content) + 2
    BY <1>1, BuiltFacts
  <2>3. work.line.project = server.home /\ work.edits \in Nat
    BY <2>2, WorkFacts
  <2>4. /\ work.content = work.line.packet.id.content
        /\ Agent!Brain(server.home) = work.line.packet.id.brain
    BY <1>3, <2>3 DEF Agent!OfContext, Agent!Project
  <2>5. Base(work.content) = 4
    BY <2>2, <2>4 DEF Base
  <2>6. new.base \in confirmed[server.home] \/ new.edits >= 6
    BY <2>2, <2>3, <2>5
  <2>7. UNCHANGED <<confirmed, server, twins>>
    BY <1>1 DEF Agent!Stays, Agent!knowledgeVars
  <2>8. Agent!CandidateStands'
    <3>1. /\ new.base = new.packet.id.content /\ Agent!Brain(server.home) = new.packet.id.brain
      BY <2>4
    <3> HIDE DEF new
    <3>. QED  BY <2>1, <2>6, <2>7, <3>1 DEF AgentInv, Agent!CandidateStands, Agent!Brain
  <2>9. UNCHANGED knowledgeVars /\ UNCHANGED <<twins, server, queue, calls, returns>>
    BY <1>1 DEF Agent!Stays, Agent!knowledgeVars, Agent!brains, knowledgeVars
  <2>10. work' \in Works /\ work'.edits <= moves /\ WorkInv' /\ Busy' = 0
    BY <1>1, IdleWorks DEF Agent!Answered
  <2>11. QueueInv'
    BY <1>1, <2>9, <2>10, QueueStays
  <2>12. server' \in [run : {server.run}, home : {server.home}, gate : {"none", "held", "refused"},
                        life : {"new", "initializing", "ready"}]
    BY <2>9 DEF AgentInv, AgentShape
  <2>. QED  BY <1>1, <2>8, <2>9, <2>10, <2>11, <2>12, ServedKeeps DEF AgentInv, AgentShape
<1>. QED  BY <1>2, <1>3

\* The new context is the newest of all, there is room for it, and it was accepted or
\* changed and changed back.
LEMMA IssueFacts ==
    ASSUME AgentInv, Agent!Built("context"), NEW packet,
           packet = [id |-> [brain |-> Agent!Brain(work.line.project), content |-> work.content,
                             thread |-> work.line.thread],
                     project |-> work.line.project, copy |-> Cardinality(contexts) + 1,
                     run |-> server.run, edits |-> work.edits]
    PROVE  /\ packet \in Agent!Packets /\ packet \notin contexts
           /\ packet.id.brain \in Scopes
           /\ \A c \in contexts : c.copy # packet.copy /\ c.copy <= packet.copy
           /\ Cardinality(contexts) \in Nat /\ IsFiniteSet(contexts \cup {packet})
           /\ Cardinality(contexts \cup {packet}) = packet.copy
           /\ packet.id.content \in confirmed[packet.project] \/ packet.edits >= 2
<1>1. /\ work.step = "doctorAfter" /\ work.purpose = "context" /\ work.content \in Contents
      /\ work.content \in confirmed[work.line.project] \/ work.edits >= Base(work.content) + 2
  BY BuiltFacts DEF Agent!Tools
<1>2. /\ work.line.project \in Scopes /\ work.line.thread \in Threads /\ work \in Works
      /\ server.run \in 0..MaxMoves /\ server.home \in Scopes
  BY <1>1, WorkFacts DEF AgentInv, AgentShape
<1>3. Cardinality(contexts) \in Nat /\ Cardinality(contexts) + 1 <= MaxCalls
  <2>1. Cardinality(contexts) \in Nat /\ Len(queue) \in Nat /\ calls \in 0..MaxCalls /\ Busy = 1
    BY <1>1, FS_CardinalityType DEF AgentInv, AgentShape, Busy
  <2>2. PICK h \in 0..2 : h <= Len(queue) /\ Len(queue) - h + Cardinality(contexts) + Busy <= calls
    BY DEF AgentInv, QueueInv
  <2>. QED  BY <2>1, <2>2, AgentConstants
<1>4. Agent!Brain(work.line.project) \in Scopes
  BY <1>2 DEF Agent!Brain
<1>5. packet \in Agent!Packets
  BY <1>1, <1>2, <1>3, <1>4 DEF Agent!Packets, Agent!PacketIds, Works
<1>6. \A c \in contexts : c.copy \in Nat /\ c.copy <= Cardinality(contexts)
  BY AgentConstants DEF AgentInv, AgentShape, IssuedInv, Agent!Packets
<1>7. \A c \in contexts : c.copy # packet.copy /\ c.copy <= packet.copy
  BY <1>3, <1>6
<1>8. packet \notin contexts
  BY <1>7
<1>9. IsFiniteSet(contexts \cup {packet}) /\ Cardinality(contexts \cup {packet}) = packet.copy
  BY <1>8, FS_AddElement DEF AgentInv, AgentShape
<1>10. packet.id.content \in confirmed[packet.project] \/ packet.edits >= 2
  <2>1. Base(work.content) = 0
    BY <1>1 DEF Base
  <2>. QED  BY <1>1, <2>1
<1>. QED  BY <1>3, <1>4, <1>5, <1>7, <1>8, <1>9, <1>10

LEMMA IssueKeeps ==
    ASSUME AgentInv, Agent!Issue
    PROVE  AgentInv'
<1>1. PICK packet :
        /\ packet = [id |-> [brain |-> Agent!Brain(work.line.project), content |-> work.content,
                             thread |-> work.line.thread],
                     project |-> work.line.project, copy |-> Cardinality(contexts) + 1,
                     run |-> server.run, edits |-> work.edits]
  OBVIOUS
<1>2. PICK new : new = [id |-> packet.id, copy |-> packet.copy, available |-> TRUE, thread |-> packet.id.thread]
  OBVIOUS
<1>3. PICK seen : seen = [thread |-> packet.id.thread, project |-> packet.project, brain |-> packet.id.brain]
  OBVIOUS
<1>4. /\ Agent!Built("context") /\ Agent!Answered /\ Agent!Stays /\ UNCHANGED candidates
      /\ issuances' = {i \in issuances : i.id # packet.id} \cup {new}
      /\ contexts' = contexts \cup {packet}
      /\ observations' \in {observations, observations \cup {seen}}
  <2>1. /\ packet.id.thread = work.line.thread /\ packet.project = work.line.project
        /\ packet.id.brain = Agent!Brain(work.line.project)
    BY <1>1
  <2>2. /\ new = [id |-> packet.id, copy |-> packet.copy, available |-> TRUE, thread |-> work.line.thread]
        /\ seen = [thread |-> work.line.thread, project |-> work.line.project, brain |-> Agent!Brain(work.line.project)]
    BY <1>2, <1>3, <2>1
  <2>3. /\ issuances' = {i \in issuances : i.id # packet.id} \cup {new}
        /\ contexts' = contexts \cup {packet}
    <3> DEFINE P == [id |-> [brain |-> Agent!Brain(work.line.project), content |-> work.content,
                             thread |-> work.line.thread],
                     project |-> work.line.project, copy |-> Cardinality(contexts) + 1,
                     run |-> server.run, edits |-> work.edits]
    <3>1. /\ issuances' = {i \in issuances : i.id # P.id}
                            \cup {[id |-> P.id, copy |-> P.copy, available |-> TRUE, thread |-> work.line.thread]}
          /\ contexts' = contexts \cup {P}
      BY CardinalityIsSame DEF Agent!Issue, Agent!Project
    <3>2. packet = P
      BY <1>1
    <3> HIDE DEF P
    <3>. QED  BY <2>2, <3>1, <3>2
  <2>4. observations' \in {observations, observations \cup {seen}}
    BY <2>2 DEF Agent!Issue, Agent!Project
  <2>. QED  BY <2>3, <2>4 DEF Agent!Issue
<1>5. /\ packet \in Agent!Packets /\ packet \notin contexts
      /\ packet.id.brain \in Scopes
      /\ \A c \in contexts : c.copy # packet.copy /\ c.copy <= packet.copy
      /\ Cardinality(contexts) \in Nat /\ IsFiniteSet(contexts \cup {packet})
      /\ Cardinality(contexts \cup {packet}) = packet.copy
      /\ packet.id.content \in confirmed[packet.project] \/ packet.edits >= 2
  BY <1>1, <1>4, IssueFacts
<1>6. /\ UNCHANGED knowledgeVars /\ UNCHANGED <<twins, server, queue, calls, returns>>
  BY <1>4 DEF Agent!Stays, Agent!knowledgeVars, Agent!brains, knowledgeVars
<1>7. work' \in Works /\ work'.edits <= moves /\ WorkInv' /\ Busy' = 0
  BY <1>4, IdleWorks DEF Agent!Answered
<1>8. packet.run = server.run /\ packet.copy = Cardinality(contexts) + 1
  BY <1>1
<1>9. packet.id \in Agent!PacketIds /\ packet.id.thread \in Threads /\ packet.project \in Scopes /\ packet.copy \in 1..MaxCalls
  BY <1>5 DEF Agent!Packets, Agent!PacketIds
<1>10. AgentShape'
  <2>1. KnowledgeShape' /\ desk' \in Desks /\ moves' = moves
    BY <1>6 DEF AgentInv, AgentShape, KnowledgeShape, knowledgeVars
  <2>2. new \in Issuances /\ seen \in [thread : Threads, project : Scopes, brain : Scopes]
    BY <1>2, <1>3, <1>5, <1>9 DEF Issuances
  <2>. QED  BY <1>4, <1>5, <1>6, <1>7, <2>1, <2>2 DEF AgentInv, AgentShape
<1>11. QueueInv'
  <2>1. \A line : LineFits(line) => LineFits(line)'
    BY <1>4, <1>6 DEF LineFits
  <2>2. PICK h \in 0..2 :
          /\ h <= Len(queue) /\ \A n \in 1..h : Greeting(queue[n])
          /\ Len(queue) - h + Cardinality(contexts) + Busy <= calls
    BY DEF AgentInv, QueueInv
  <2>3. Busy = 1
    <3>1. work.purpose = "context"
      BY <1>4 DEF Agent!Built
    <3>. QED  BY <3>1 DEF Busy
  <2>4. Len(queue) - h + Cardinality(contexts)' + Busy' <= calls
    <3>1. Cardinality(contexts)' = Cardinality(contexts) + 1
      BY <1>4, <1>5, <1>8
    <3>2. Len(queue) \in Nat /\ calls \in Nat
      BY AgentConstants DEF AgentInv, AgentShape
    <3>. QED  BY <1>5, <1>7, <2>2, <2>3, <3>1, <3>2
  <2>. QED  BY <1>6, <2>1, <2>2, <2>4 DEF AgentInv, QueueInv
<1>12. IssuedInv'
  <2>1. \A c \in contexts' : c.copy <= Cardinality(contexts)'
    <3>1. \A c \in contexts : c.copy \in Nat
      BY AgentConstants DEF AgentInv, AgentShape, Agent!Packets
    <3>. QED  BY <1>4, <1>5, <1>9
  <2>2. \A c, d \in contexts' : c.copy = d.copy => c = d
    BY <1>4, <1>5 DEF AgentInv, IssuedInv
  <2>3. \A n \in 1..Len(returns) : returns[n].packet \in contexts
    BY DEF AgentInv, IssuedInv
  <2>4. ASSUME NEW i \in issuances, i.id # packet.id
        PROVE  /\ i.thread = i.id.thread
               /\ \E c \in contexts' : c.id = i.id /\ c.copy = i.copy /\ c.run = server.run
               /\ \A c \in contexts' : c.id = i.id => c.copy <= i.copy
               /\ i.available => \A n \in 1..Len(returns) : returns[n].packet.copy # i.copy
    BY <1>4, <2>4 DEF AgentInv, IssuedInv
  <2>5. /\ new.thread = new.id.thread /\ new.copy = packet.copy /\ new.id = packet.id
        /\ packet \in contexts'
    BY <1>2, <1>4
  <2>6. \A c \in contexts' : c.copy <= new.copy
    BY <1>4, <1>5, <1>9, <2>5
  <2>7. \A n \in 1..Len(returns) : returns[n].packet.copy # new.copy
    BY <1>5, <2>3, <2>5
  <2>8. \A i \in issuances' :
          /\ i.thread = i.id.thread
          /\ \E c \in contexts' : c.id = i.id /\ c.copy = i.copy /\ c.run = server.run
          /\ \A c \in contexts' : c.id = i.id => c.copy <= i.copy
          /\ i.available => \A n \in 1..Len(returns) : returns[n].packet.copy # i.copy
    BY <1>4, <1>8, <2>4, <2>5, <2>6, <2>7
  <2>9. \A n \in 1..Len(returns) : returns[n].packet \in contexts'
    BY <1>4, <2>3
  <2>. QED  BY <1>6, <2>1, <2>2, <2>8, <2>9 DEF IssuedInv
<1>13. RecordedIsConfirmed' /\ Agent!ReturnedOnce' /\ Agent!CandidateStands'
  BY <1>4, <1>6
  DEF AgentInv, RecordedIsConfirmed, Agent!ReturnedOnce, Agent!CandidateStands, Agent!Brain, knowledgeVars
<1>14. Agent!ToldIsAccepted'
  BY <1>4, <1>5, <1>6 DEF AgentInv, Agent!ToldIsAccepted, knowledgeVars
<1>15. Agent!ObservedIsTold'
  <2>1. /\ packet.id.thread = seen.thread /\ packet.project = seen.project /\ packet.id.brain = seen.brain
    BY <1>3
  <2>. QED  BY <1>4, <2>1 DEF AgentInv, Agent!ObservedIsTold
<1>. QED  BY <1>7, <1>10, <1>11, <1>12, <1>13, <1>14, <1>15 DEF AgentInv

--------------------------------------------------------------------------------------
(* The host's lines.                                                            *)

LEMMA HeadFits ==
    ASSUME AgentInv, queue # <<>>
    PROVE  /\ Head(queue) \in Lines /\ LineFits(Head(queue))
           /\ Tail(queue) \in Seq(Lines) /\ Len(Tail(queue)) = Len(queue) - 1 /\ Len(queue) \in Nat \ {0}
           /\ \A n \in 1..Len(Tail(queue)) : Tail(queue)[n] = queue[n + 1] /\ n + 1 \in 1..Len(queue)
<1>1. queue \in Seq(Lines)
  BY DEF AgentInv, AgentShape
<1>2. Len(queue) \in Nat \ {0} /\ Head(queue) = queue[1]
  BY <1>1, EmptySeq, HeadTailProperties
<1>3. Head(queue) \in Lines /\ LineFits(Head(queue))
  BY <1>1, <1>2, HeadTailProperties DEF AgentInv, QueueInv
<1>4. /\ Tail(queue) \in Seq(Lines) /\ Len(Tail(queue)) = Len(queue) - 1
      /\ \A n \in 1..Len(Tail(queue)) : Tail(queue)[n] = queue[n + 1]
  BY <1>1, HeadTailProperties
<1>. QED  BY <1>2, <1>3, <1>4

\* A line is taken: a context is asked for with one that is not of a greeting.
LEMMA TakenQueue ==
    ASSUME AgentInv, queue # <<>>, queue' = Tail(queue), UNCHANGED <<contexts, calls>>, server'.home = server.home,
           \/ Busy' \in {0, Busy}
           \/ Head(queue).kind = "context" /\ Busy = 0 /\ Busy' = 1
    PROVE  QueueInv' /\ queue' \in Seq(Lines)
<1>1. \A line : LineFits(line)' <=> LineFits(line)
  BY DEF LineFits
<1>2. /\ queue' \in Seq(Lines) /\ Len(queue') = Len(queue) - 1 /\ Len(queue) \in Nat \ {0}
      /\ \A n \in 1..Len(queue') : queue'[n] = queue[n + 1] /\ n + 1 \in 1..Len(queue)
  BY HeadFits
<1>3. \A n \in 1..Len(queue') : LineFits(queue'[n])
  BY <1>2 DEF AgentInv, QueueInv
<1>4. PICK h \in 0..2 :
        /\ h <= Len(queue) /\ \A n \in 1..h : Greeting(queue[n])
        /\ Len(queue) - h + Cardinality(contexts) + Busy <= calls
  BY DEF AgentInv, QueueInv
<1>5. Cardinality(contexts) \in Nat /\ calls \in Nat /\ Busy \in {0, 1}
  BY FS_CardinalityType, AgentConstants DEF AgentInv, AgentShape, Busy
<1>6. \E g \in 0..2 :
        /\ g <= Len(queue') /\ \A n \in 1..g : Greeting(queue'[n])
        /\ Len(queue') - g + Cardinality(contexts) + Busy' <= calls
  <2>1. CASE h = 0
    <3>1. Busy' <= Busy + 1 /\ Busy' \in {0, 1}
      BY <1>5
    <3>2. Len(queue') + Cardinality(contexts) + Busy' <= calls
      BY <1>2, <1>4, <1>5, <2>1, <3>1
    <3>3. 0 <= Len(queue') /\ \A n \in 1..0 : Greeting(queue'[n])
      BY <1>2
    <3>4. Len(queue') - 0 + Cardinality(contexts) + Busy' <= calls
      BY <1>2, <1>5, <3>1, <3>2
    <3>. QED  BY <3>3, <3>4
  <2>2. CASE h \in 1..2
    <3>1. Greeting(queue[1]) /\ Head(queue) = queue[1]
      BY <1>4, <2>2, HeadTailProperties DEF AgentInv, AgentShape
    <3>2. Busy' \in {0, Busy}
      BY <3>1 DEF Greeting
    <3>3. h - 1 \in 0..2 /\ h - 1 <= Len(queue') /\ Len(queue') - (h - 1) + Cardinality(contexts) + Busy' <= calls
      BY <1>2, <1>4, <1>5, <2>2, <3>2
    <3>4. \A n \in 1..(h - 1) : n \in 1..Len(queue') /\ n + 1 \in 1..h
      BY <1>2, <2>2, <3>3
    <3>5. \A n \in 1..(h - 1) : Greeting(queue'[n])
      BY <1>2, <1>4, <3>4
    <3>. QED  BY <3>3, <3>5
  <2>. QED  BY <1>4, <2>1, <2>2
<1>. QED  BY <1>1, <1>2, <1>3, <1>6 DEF QueueInv

\* A line that no tool is called with.
LEMMA TakenKeeps ==
    ASSUME AgentInv, queue # <<>>, queue' = Tail(queue), UNCHANGED knowledgeVars,
           UNCHANGED <<twins, work, issuances, contexts, observations, calls, returns, candidates>>,
           server' \in [run : {server.run}, home : {server.home}, gate : {"none", "held", "refused"},
                        life : {"new", "initializing", "ready"}]
    PROVE  AgentInv'
<1>1. server'.home = server.home
  OBVIOUS
<1>2. QueueInv' /\ queue' \in Seq(Lines)
  BY <1>1, TakenQueue DEF Busy
<1>3. WorkInv'
  <2>1. \A line : LineFits(line)' <=> LineFits(line)
    BY <1>1 DEF LineFits
  <2>2. \A x : Base(x)' = Base(x) /\ Seen(x)' = Seen(x)
    BY DEF Base, Seen, knowledgeVars
  <2>3. UNCHANGED confirmed
    BY DEF knowledgeVars
  <2>. QED  BY <2>1, <2>2, <2>3 DEF AgentInv, WorkInv
<1>. QED  BY <1>2, <1>3, ServedKeeps DEF AgentInv, AgentShape

LEMMA ServerStays ==
    ASSUME AgentInv, server' = server
    PROVE  server' \in [run : {server.run}, home : {server.home}, gate : {"none", "held", "refused"},
                        life : {"new", "initializing", "ready"}]
BY DEF AgentInv, AgentShape

LEMMA GateKeeps ==
    ASSUME AgentInv, Agent!Gate
    PROVE  AgentInv'
<1>1. /\ UNCHANGED knowledgeVars /\ UNCHANGED <<twins, queue, work, issuances, contexts, observations, calls, returns, candidates>>
  BY DEF Agent!Gate, Agent!knowledgeVars, Agent!brains, knowledgeVars
<1>2. PICK gate \in {"held", "refused"} : server' = [server EXCEPT !.gate = gate]
  BY DEF Agent!Gate
<1>3. server' \in [run : {server.run}, home : {server.home}, gate : {"none", "held", "refused"},
                        life : {"new", "initializing", "ready"}]
  BY <1>2 DEF AgentInv, AgentShape
<1>4. server'.home = server.home
  BY <1>3
<1>5. QueueInv'
  BY <1>1, <1>4, QueueStays DEF Busy
<1>6. WorkInv'
  <2>1. \A line : LineFits(line)' <=> LineFits(line)
    BY <1>1, <1>4 DEF LineFits
  <2>2. \A x : Base(x)' = Base(x) /\ Seen(x)' = Seen(x)
    BY <1>1 DEF Base, Seen, knowledgeVars
  <2>3. UNCHANGED confirmed
    BY <1>1 DEF knowledgeVars
  <2>. QED  BY <1>1, <2>1, <2>2, <2>3 DEF AgentInv, WorkInv
<1>. QED  BY <1>1, <1>3, <1>5, <1>6, ServedKeeps DEF AgentInv, AgentShape

LEMMA TakeLineKeeps ==
    ASSUME AgentInv, Agent!TakeRefused \/ Agent!TakeGreeting \/ Agent!TakeEarly \/ Agent!TakeUnusable
    PROVE  AgentInv'
<1>1. /\ queue # <<>> /\ queue' = Tail(queue) /\ UNCHANGED knowledgeVars
      /\ UNCHANGED <<twins, work, issuances, contexts, observations, calls, returns, candidates>>
  BY DEF Agent!TakeRefused, Agent!TakeGreeting, Agent!TakeEarly, Agent!TakeUnusable, Agent!Line,
     Agent!knowledgeVars, Agent!brains, knowledgeVars
<1>2. CASE Agent!TakeGreeting
  <2>1. PICK life \in {"new", "initializing", "ready"} : server' = [server EXCEPT !.life = life]
    BY <1>2 DEF Agent!TakeGreeting, AgentInv, AgentShape
  <2>2. server' \in [run : {server.run}, home : {server.home}, gate : {"none", "held", "refused"},
                        life : {"new", "initializing", "ready"}]
    BY <2>1 DEF AgentInv, AgentShape
  <2>. QED  BY <1>1, <2>2, TakenKeeps
<1>3. CASE server' = server
  BY <1>1, <1>3, ServerStays, TakenKeeps
<1>. QED  BY <1>2, <1>3 DEF Agent!TakeRefused, Agent!TakeEarly, Agent!TakeUnusable

\* What a tool that is called begins with.
LEMMA StartsFits ==
    ASSUME AgentInv, queue # <<>>, NEW why \in {"context", "snapshot"},
           Head(queue).kind = IF why = "context" THEN "context" ELSE "return",
           Agent!StartsTool(Head(queue), why), UNCHANGED <<contexts, server>>
    PROVE  work' \in Works /\ work'.edits <= moves /\ WorkInv' /\ work'.purpose = why
<1> DEFINE w == [Agent!Idle EXCEPT !.step = "doctor", !.purpose = why, !.line = Head(queue)]
<1>1. work' = w /\ Head(queue) \in Lines /\ LineFits(Head(queue)) /\ why \in Agent!Tools
  BY HeadFits DEF Agent!StartsTool, Agent!Tools
<1>2. w \in Works /\ w.step = "doctor" /\ w.purpose = why /\ w.line = Head(queue) /\ w.edits = 0
  BY <1>1, IdleFits DEF Works
<1> HIDE DEF w
<1>3. 0 <= moves
  BY AgentConstants DEF AgentInv, AgentShape, KnowledgeShape
<1>4. \A x : Base(x)' = 0 /\ Seen(x)' = 0
  BY <1>1, <1>2 DEF Base, Seen
<1>5. LineFits(work.line)' /\ work'.line.kind = IF work'.purpose = "context" THEN "context" ELSE "return"
  BY <1>1, <1>2 DEF LineFits
<1>6. \A x : work'.edits >= Base(x)' + Seen(x)'
  BY <1>1, <1>2, <1>4
<1>. QED  BY <1>1, <1>2, <1>3, <1>5, <1>6 DEF WorkInv

LEMMA TakeContextKeeps ==
    ASSUME AgentInv, Agent!TakeContext
    PROVE  AgentInv'
<1>1. /\ queue # <<>> /\ queue' = Tail(queue) /\ UNCHANGED knowledgeVars
      /\ UNCHANGED <<server, twins, issuances, contexts, observations, calls, returns, candidates>>
      /\ Head(queue).kind = "context" /\ work = Agent!Idle /\ Agent!StartsTool(Head(queue), "context")
  BY DEF Agent!TakeContext, Agent!Line, Agent!knowledgeVars, Agent!brains, knowledgeVars
<1>2. work' \in Works /\ work'.edits <= moves /\ WorkInv' /\ work'.purpose = "context"
  BY <1>1, StartsFits
<1>3. Busy = 0 /\ Busy' = 1
  BY <1>1, <1>2, IdleFits DEF Busy
<1>4. QueueInv' /\ queue' \in Seq(Lines)
  BY <1>1, <1>3, TakenQueue
<1>. QED  BY <1>1, <1>2, <1>4, ServerStays, ServedKeeps DEF AgentInv, AgentShape

LEMMA MaxIs ==
    ASSUME NEW S \in SUBSET Nat, NEW k \in S, \A y \in S : y <= k
    PROVE  Agent!Max(S) = k
<1>1. \A y \in S : k >= y
  OBVIOUS
<1>2. /\ Agent!Max(S) \in S
      /\ \A y \in S : Agent!Max(S) >= y
  BY <1>1 DEF Agent!Max
<1>3. Agent!Max(S) >= k /\ Agent!Max(S) <= k /\ Agent!Max(S) \in Nat /\ k \in Nat
  BY <1>2
<1>. QED  BY <1>3

\* What a usable return names is the newest context of its id, of this process, and was
\* not returned before.
LEMMA UsableFacts ==
    ASSUME AgentInv, NEW line, LineFits(line), line.kind = "return", NEW i \in Agent!Usable(line)
    PROVE  /\ i \in issuances /\ i.id = line.packet.id /\ i.available /\ i.copy = line.packet.copy
           /\ line.thread = line.packet.id.thread /\ line.packet \in contexts /\ line.thread \in Threads
           /\ line.packet.run = server.run
           /\ Agent!NewestOf(line.packet.id) = line.packet.copy
           /\ \A n \in 1..Len(returns) : returns[n].packet.copy # line.packet.copy
<1>1. /\ i \in issuances /\ i.id = line.packet.id /\ i.available /\ i.copy = line.packet.copy /\ i.thread = line.thread
      /\ line.packet \in contexts /\ line.thread \in Threads
  BY DEF Agent!Usable, LineFits
<1>2. /\ i.thread = i.id.thread
      /\ \E c \in contexts : c.id = i.id /\ c.copy = i.copy /\ c.run = server.run
      /\ \A c \in contexts : c.id = i.id => c.copy <= i.copy
      /\ \A n \in 1..Len(returns) : returns[n].packet.copy # i.copy
      /\ \A c, d \in contexts : c.copy = d.copy => c = d
  BY <1>1 DEF AgentInv, IssuedInv
<1>3. line.packet.run = server.run
  BY <1>1, <1>2
<1>4. Agent!NewestOf(line.packet.id) = line.packet.copy
  <2> DEFINE S == {c.copy : c \in {d \in contexts : d.id = line.packet.id}}
  <2>1. S \in SUBSET Nat
    BY AgentConstants DEF AgentInv, AgentShape, Agent!Packets
  <2>2. line.packet.copy \in S /\ \A y \in S : y <= line.packet.copy
    BY <1>1, <1>2
  <2>3. Agent!NewestOf(line.packet.id) = Agent!Max(S)
    BY DEF Agent!NewestOf
  <2> HIDE DEF S
  <2>. QED  BY <2>1, <2>2, <2>3, MaxIs
<1>. QED  BY <1>1, <1>2, <1>3, <1>4

LEMMA TakeReturnKeeps ==
    ASSUME AgentInv, Agent!TakeReturn
    PROVE  AgentInv'
<1>1. /\ queue # <<>> /\ queue' = Tail(queue) /\ UNCHANGED knowledgeVars
      /\ UNCHANGED <<server, twins, contexts, observations, calls, candidates>>
      /\ Head(queue).kind = "return" /\ work = Agent!Idle
  BY DEF Agent!TakeReturn, Agent!Line, Agent!knowledgeVars, Agent!brains, knowledgeVars
<1>2. PICK line : line = Head(queue)
  OBVIOUS
<1>3. PICK i \in Agent!Usable(line) :
           /\ issuances' = (issuances \ {i}) \cup {[i EXCEPT !.available = FALSE]}
           /\ returns' = Append(returns, [packet |-> line.packet, thread |-> line.thread,
                                          run |-> server.run, newest |-> Agent!NewestOf(line.packet.id)])
           /\ work' = work \/ Agent!StartsTool(line, "snapshot")
  BY <1>2 DEF Agent!TakeReturn
<1>4. /\ i \in issuances /\ i.id = line.packet.id /\ i.available /\ i.copy = line.packet.copy
      /\ line.thread = line.packet.id.thread /\ line.packet \in contexts /\ line.thread \in Threads
      /\ line.packet.run = server.run
      /\ Agent!NewestOf(line.packet.id) = line.packet.copy
      /\ \A n \in 1..Len(returns) : returns[n].packet.copy # line.packet.copy
  BY <1>1, <1>2, <1>3, HeadFits, UsableFacts
<1>5. PICK used : used = [i EXCEPT !.available = FALSE]
  OBVIOUS
<1>6. used \in Issuances /\ used.id = i.id /\ used.copy = i.copy /\ used.thread = i.thread /\ ~used.available
  BY <1>4, <1>5 DEF AgentInv, AgentShape, Issuances
<1>7. PICK r : r = [packet |-> line.packet, thread |-> line.thread, run |-> server.run, newest |-> line.packet.copy]
  OBVIOUS
<1>8. /\ r \in Returns /\ r.packet = line.packet /\ r.thread = line.thread /\ r.run = server.run
      /\ r.newest = line.packet.copy
  BY <1>4, <1>7 DEF Returns, AgentInv, AgentShape, Agent!Packets
<1>9. /\ returns' \in Seq(Returns) /\ Len(returns') = Len(returns) + 1 /\ Len(returns) \in Nat
      /\ returns'[Len(returns) + 1] = r
      /\ \A n \in 1..Len(returns) : returns'[n] = returns[n]
  BY <1>3, <1>4, <1>7, <1>8, AppendProperties DEF AgentInv, AgentShape
<1>10. work' \in Works /\ work'.edits <= moves /\ WorkInv' /\ Busy' = 0
  <2>1. CASE work' = work
    BY <1>1, <2>1, IdleWorks
  <2>2. CASE Agent!StartsTool(line, "snapshot")
    BY <1>1, <1>2, <2>2, StartsFits DEF Busy
  <2>. QED  BY <1>3, <2>1, <2>2
<1>11. QueueInv' /\ queue' \in Seq(Lines)
  BY <1>1, <1>10, TakenQueue
<1>12. AgentShape'
  <2>1. KnowledgeShape' /\ desk' \in Desks /\ moves' = moves
    BY <1>1 DEF AgentInv, AgentShape, KnowledgeShape, knowledgeVars
  <2>2. issuances' \subseteq Issuances
    BY <1>3, <1>5, <1>6 DEF AgentInv, AgentShape
  <2>. QED  BY <1>1, <1>9, <1>10, <1>11, <2>1, <2>2 DEF AgentInv, AgentShape
<1>13. IssuedInv'
  <2>1. ASSUME NEW j \in issuances, j # i, j.available
        PROVE  j.copy # i.copy
    <3>1. j.copy = i.copy => j.id = i.id /\ j.thread = i.thread
      BY <1>4 DEF AgentInv, IssuedInv
    <3>2. j \in Issuances /\ i \in Issuances /\ j.available = TRUE /\ i.available = TRUE
      BY <1>4, <2>1 DEF AgentInv, AgentShape, Issuances
    <3>3. j.copy = i.copy => j = i
      BY <3>1, <3>2 DEF Issuances
    <3>. QED  BY <2>1, <3>3
  <2>2. ASSUME NEW j \in issuances', j.available, NEW n \in 1..Len(returns')
        PROVE  returns'[n].packet.copy # j.copy
    <3>1. j \in issuances /\ j # i
      BY <1>3, <1>5, <1>6, <2>2
    <3>2. CASE n \in 1..Len(returns)
      BY <1>9, <2>2, <3>1, <3>2 DEF AgentInv, IssuedInv
    <3>3. CASE n = Len(returns) + 1
      BY <1>4, <1>8, <1>9, <2>1, <2>2, <3>1, <3>3
    <3>. QED  BY <1>9, <3>2, <3>3
  <2>3. ASSUME NEW j \in issuances'
        PROVE  /\ j.thread = j.id.thread
               /\ \E c \in contexts : c.id = j.id /\ c.copy = j.copy /\ c.run = server.run
               /\ \A c \in contexts : c.id = j.id => c.copy <= j.copy
    <3>1. \E k \in issuances : j.id = k.id /\ j.copy = k.copy /\ j.thread = k.thread
      BY <1>3, <1>4, <1>5, <1>6
    <3>. QED  BY <3>1 DEF AgentInv, IssuedInv
  <2>4. \A n \in 1..Len(returns') : returns'[n].packet \in contexts
    BY <1>4, <1>8, <1>9 DEF AgentInv, IssuedInv
  <2>. QED  BY <1>1, <2>2, <2>3, <2>4 DEF AgentInv, IssuedInv
<1>14. Agent!ReturnedOnce'
  <2>1. DOMAIN returns = 1..Len(returns) /\ DOMAIN returns' = 1..(Len(returns) + 1)
    BY <1>9 DEF AgentInv, AgentShape
  <2>2. ASSUME NEW m \in 1..(Len(returns) + 1)
        PROVE  /\ returns'[m].thread = returns'[m].packet.id.thread /\ returns'[m].run = returns'[m].packet.run
               /\ \A n \in 1..(m - 1) : returns'[n].packet # returns'[m].packet
               /\ returns'[m].newest = returns'[m].packet.copy
    <3>1. CASE m \in 1..Len(returns)
      <4>1. \A n \in 1..(m - 1) : returns'[n] = returns[n]
        BY <1>9, <3>1
      <4>. QED  BY <1>9, <2>1, <3>1, <4>1 DEF AgentInv, Agent!ReturnedOnce
    <3>2. CASE m = Len(returns) + 1
      <4>1. \A n \in 1..(m - 1) : n \in 1..Len(returns)
        BY <1>9, <3>2
      <4>2. \A n \in 1..(m - 1) : returns'[n].packet # r.packet
        BY <1>4, <1>8, <1>9, <4>1
      <4>. QED  BY <1>4, <1>8, <1>9, <3>2, <4>2
    <3>. QED  BY <1>9, <3>1, <3>2
  <2>. QED  BY <2>1, <2>2 DEF Agent!ReturnedOnce
<1>15. RecordedIsConfirmed' /\ Agent!ToldIsAccepted' /\ Agent!ObservedIsTold' /\ Agent!CandidateStands'
  BY <1>1 DEF AgentInv, RecordedIsConfirmed, Agent!ToldIsAccepted, Agent!ObservedIsTold, Agent!CandidateStands,
     Agent!Brain, knowledgeVars
<1>. QED  BY <1>10, <1>11, <1>12, <1>13, <1>14, <1>15 DEF AgentInv

LEMMA SendKeeps ==
    ASSUME AgentInv, NEW line \in Lines, LineFits(line), Agent!Send(line)
    PROVE  AgentInv'
<1>1. /\ UNCHANGED knowledgeVars /\ calls < MaxCalls /\ calls' = calls + 1 /\ queue' = Append(queue, line)
      /\ UNCHANGED <<server, twins, work, issuances, contexts, observations, returns, candidates>>
  BY DEF Agent!Send, Agent!knowledgeVars, Agent!brains, knowledgeVars
<1>2. \A l : LineFits(l)' <=> LineFits(l)
  BY <1>1 DEF LineFits
<1>3. /\ queue' \in Seq(Lines) /\ Len(queue') = Len(queue) + 1 /\ Len(queue) \in Nat
      /\ queue'[Len(queue) + 1] = line
      /\ \A n \in 1..Len(queue) : queue'[n] = queue[n]
  BY <1>1, AppendProperties DEF AgentInv, AgentShape
<1>4. QueueInv'
  <2>1. \A n \in 1..Len(queue') : LineFits(queue'[n])
    BY <1>3 DEF AgentInv, QueueInv
  <2>2. PICK h \in 0..2 :
          /\ h <= Len(queue) /\ \A n \in 1..h : Greeting(queue[n])
          /\ Len(queue) - h + Cardinality(contexts) + Busy <= calls
    BY DEF AgentInv, QueueInv
  <2>3. Cardinality(contexts) \in Nat /\ calls \in Nat /\ Busy \in {0, 1} /\ Busy' = Busy
    BY <1>1, FS_CardinalityType, AgentConstants DEF AgentInv, AgentShape, Busy
  <2>4. h <= Len(queue') /\ Len(queue') - h + Cardinality(contexts) + Busy' <= calls'
    BY <1>1, <1>3, <2>2, <2>3
  <2>5. \A n \in 1..h : Greeting(queue'[n])
    BY <1>3, <2>2
  <2>. QED  BY <1>1, <1>2, <2>1, <2>2, <2>4, <2>5 DEF QueueInv
<1>5. WorkInv'
  <2>1. \A x : Base(x)' = Base(x) /\ Seen(x)' = Seen(x)
    BY <1>1 DEF Base, Seen, knowledgeVars
  <2>2. UNCHANGED confirmed
    BY <1>1 DEF knowledgeVars
  <2>. QED  BY <1>1, <1>2, <2>1, <2>2 DEF AgentInv, WorkInv
<1>6. calls' \in 0..MaxCalls
  BY <1>1, AgentConstants DEF AgentInv, AgentShape
<1>. QED  BY <1>1, <1>3, <1>4, <1>5, <1>6, ServerStays, ServedKeeps DEF AgentInv, AgentShape

LEMMA HandshakeFits ==
    /\ Agent!Handshake \in Seq(Lines) /\ Len(Agent!Handshake) = 2
    /\ \A n \in 1..2 : Agent!Handshake[n] \in Lines /\ Greeting(Agent!Handshake[n]) /\ LineFits(Agent!Handshake[n])
<1> DEFINE a == [Agent!NoLine EXCEPT !.kind = "initialize"]
           b == [Agent!NoLine EXCEPT !.kind = "initialized"]
<1>1. a \in Lines /\ b \in Lines /\ a.kind = "initialize" /\ b.kind = "initialized"
  BY IdleFits DEF Lines
<1>2. Agent!Handshake = <<a, b>>
  BY DEF Agent!Handshake
<1> HIDE DEF a, b
<1>3. Greeting(a) /\ Greeting(b) /\ LineFits(a) /\ LineFits(b)
  BY <1>1 DEF Greeting, LineFits
<1>. QED  BY <1>1, <1>2, <1>3

LEMMA HostKeeps ==
    ASSUME AgentInv,
           \/ Agent!Greet
           \/ \E t \in Threads, p \in Scopes : Agent!AskContext(t, p)
           \/ \E t \in Threads, packet \in contexts : Agent!ReturnContext(t, packet)
    PROVE  AgentInv'
<1>1. CASE Agent!Greet
  BY <1>1, HandshakeFits, SendKeeps DEF Agent!Greet
<1>2. ASSUME NEW t \in Threads, NEW p \in Scopes, Agent!AskContext(t, p)
      PROVE  AgentInv'
  <2> DEFINE line == [Agent!NoLine EXCEPT !.kind = "context", !.thread = t, !.project = p]
  <2>1. line \in Lines /\ line.kind = "context" /\ line.thread = t /\ line.project = p
    BY IdleFits DEF Lines
  <2>2. Agent!Send(line)
    BY <1>2 DEF Agent!AskContext
  <2> HIDE DEF line
  <2>3. LineFits(line)
    BY <2>1 DEF LineFits
  <2>. QED  BY <2>1, <2>2, <2>3, SendKeeps
<1>3. ASSUME NEW t \in Threads, NEW packet \in contexts, Agent!ReturnContext(t, packet)
      PROVE  AgentInv'
  <2> DEFINE line == [kind |-> "return", thread |-> t, project |-> server.home, packet |-> packet]
  <2>1. line \in Lines /\ line.kind = "return" /\ line.thread = t /\ line.project = server.home /\ line.packet = packet
    BY DEF Lines, AgentInv, AgentShape
  <2>2. Agent!Send(line)
    BY <1>3 DEF Agent!ReturnContext
  <2> HIDE DEF line
  <2>3. LineFits(line)
    BY <2>1 DEF LineFits
  <2>. QED  BY <2>1, <2>2, <2>3, SendKeeps
<1>. QED  BY <1>1, <1>2, <1>3

\* A new process remembers no issue; what was issued and returned stays so.
LEMMA RestartKeeps ==
    ASSUME AgentInv, Agent!Restart
    PROVE  AgentInv'
<1>1. /\ moves < MaxChanges /\ moves' = moves + 1
      /\ server' = [server EXCEPT !.run = @ + 1, !.gate = "none", !.life = "new"]
      /\ queue' = Agent!Handshake /\ work' = Agent!Idle /\ issuances' = {}
      /\ UNCHANGED <<document, receipt, guarded, proven, tasks, scope, desk, confirmed, slipped,
                     twins, contexts, observations, calls, returns, candidates>>
  BY DEF Agent!Restart, Agent!Changes, Agent!Moves, Agent!brains
<1>2. moves \in 0..MaxMoves /\ server.run \in 0..MaxMoves /\ server.run <= moves /\ moves' \in 0..MaxMoves /\ moves <= moves'
  BY <1>1, AgentConstants DEF AgentInv, AgentShape, KnowledgeShape
<1>3. /\ server' \in [run : 0..MaxMoves, home : Scopes, gate : {"none", "held", "refused"},
                      life : {"new", "initializing", "ready"}]
      /\ server'.run <= moves' /\ server'.home = server.home
  <2>1. PICK next \in 0..MaxMoves : next = server.run + 1 /\ next <= moves'
    BY <1>1, <1>2, AgentConstants
  <2>2. server' = [server EXCEPT !.run = next, !.gate = "none", !.life = "new"]
    BY <1>1, <2>1 DEF AgentInv, AgentShape
  <2>. QED  BY <2>1, <2>2 DEF AgentInv, AgentShape
<1>4. KnowledgeShape' /\ desk' \in Desks
  <2>1. scope' = scope /\ scope.turn <= moves' /\ scope.turn \in 0..MaxMoves
    BY <1>1, <1>2, AgentConstants DEF AgentInv, AgentShape, KnowledgeShape
  <2>. QED  BY <1>1, <1>2, <2>1 DEF AgentInv, AgentShape, KnowledgeShape
<1>5. work' \in Works /\ work'.edits <= moves' /\ WorkInv' /\ Busy' = 0
  BY <1>1, <1>2, IdleFits, IdleWorks
<1>6. AgentShape'
  BY <1>1, <1>2, <1>3, <1>4, <1>5, HandshakeFits DEF AgentInv, AgentShape
<1>7. QueueInv'
  <2>1. \A n \in 1..2 : Greeting(Agent!Handshake[n]) /\ LineFits(Agent!Handshake[n])'
    BY <1>1, <1>3, HandshakeFits DEF LineFits, Greeting
  <2>2. Len(Agent!Handshake) - 2 + Cardinality(contexts) + 0 <= calls
    <3>1. PICK h \in 0..2 : h <= Len(queue) /\ Len(queue) - h + Cardinality(contexts) + Busy <= calls
      BY DEF AgentInv, QueueInv
    <3>2. Cardinality(contexts) \in Nat /\ calls \in Nat /\ Busy \in {0, 1} /\ Len(queue) \in Nat
      BY FS_CardinalityType, AgentConstants DEF AgentInv, AgentShape, Busy
    <3>. QED  BY <3>1, <3>2, HandshakeFits
  <2>3. /\ 2 \in 0..2 /\ 2 <= Len(queue')
        /\ \A n \in 1..2 : Greeting(queue'[n])
        /\ Len(queue') - 2 + Cardinality(contexts') + Busy' <= calls'
    BY <1>1, <1>5, <2>1, <2>2, HandshakeFits
  <2>4. \A n \in 1..Len(queue') : LineFits(queue[n])'
    BY <1>1, <2>1, HandshakeFits
  <2>. QED  BY <2>3, <2>4 DEF QueueInv
<1>8. IssuedInv' /\ RecordedIsConfirmed'
  BY <1>1 DEF AgentInv, IssuedInv, RecordedIsConfirmed
<1>9. Agent!ToldIsAccepted' /\ Agent!ObservedIsTold' /\ Agent!ReturnedOnce'
  BY <1>1 DEF AgentInv, Agent!ToldIsAccepted, Agent!ObservedIsTold, Agent!ReturnedOnce
<1>10. Agent!CandidateStands'
  BY <1>1, <1>3 DEF AgentInv, Agent!CandidateStands, Agent!Brain
<1>. QED  BY <1>5, <1>6, <1>7, <1>8, <1>9, <1>10 DEF AgentInv

--------------------------------------------------------------------------------------
(* The documents change while a tool reads them.                                *)

\* An edit makes one more content worth one edit more, and is counted itself.
LEMMA EditsKeep ==
    ASSUME AgentInv, NEW p \in Scopes, Agent!Edits(p)
    PROVE  AgentInv'
<1>1. PICK c \in Contents : document' = [document EXCEPT ![p] = c]
  BY DEF Agent!Edits, Agent!Edit
<1>2. /\ moves < MaxChanges /\ moves' = moves + 1
      /\ work' = IF work.step # "idle" /\ p = work.line.project THEN [work EXCEPT !.edits = @ + 1] ELSE work
      /\ UNCHANGED <<receipt, guarded, proven, tasks, scope, desk, confirmed, slipped,
                     server, twins, queue, issuances, contexts, observations, calls, returns, candidates>>
  BY DEF Agent!Edits, Agent!Edit, Agent!Changes, Agent!Moves
<1>3. moves \in 0..MaxMoves /\ moves' \in 0..MaxMoves /\ moves <= moves' /\ work.edits \in Nat /\ work.edits <= moves
  BY <1>2, AgentConstants DEF AgentInv, AgentShape, KnowledgeShape, Works
<1>4. /\ work' \in Works /\ work'.edits <= moves' /\ work'.step = work.step /\ work'.purpose = work.purpose
      /\ work'.line = work.line /\ work'.content = work.content
      /\ work'.edits = IF work.step # "idle" /\ p = work.line.project THEN work.edits + 1 ELSE work.edits
  <2>1. CASE work.step # "idle" /\ p = work.line.project
    <3>1. PICK next \in 0..MaxMoves : next = work.edits + 1 /\ next <= moves'
      BY <1>2, <1>3, AgentConstants
    <3>2. work' = [work EXCEPT !.edits = next]
      BY <1>2, <2>1, <3>1 DEF AgentInv, AgentShape, Works
    <3>. QED  BY <2>1, <3>1, <3>2 DEF AgentInv, AgentShape, Works
  <2>2. CASE ~(work.step # "idle" /\ p = work.line.project)
    BY <1>2, <1>3, <2>2 DEF AgentInv, AgentShape
  <2>. QED  BY <2>1, <2>2
<1>5. KnowledgeShape' /\ desk' \in Desks
  <2>1. scope' = scope /\ scope.turn <= moves' /\ scope.turn \in 0..MaxMoves
    BY <1>2, <1>3, AgentConstants DEF AgentInv, AgentShape, KnowledgeShape
  <2>2. document' \in [Scopes -> Contents]
    BY <1>1 DEF AgentInv, AgentShape, KnowledgeShape
  <2>. QED  BY <1>2, <1>3, <2>1, <2>2 DEF AgentInv, AgentShape, KnowledgeShape
<1>6. AgentShape'
  <2>1. server.run \in Nat /\ server.run <= moves
    BY AgentConstants DEF AgentInv, AgentShape
  <2>2. server.run <= moves'
    BY <1>3, <2>1
  <2>. QED  BY <1>2, <1>4, <1>5, <2>2 DEF AgentInv, AgentShape
<1>7. QueueInv'
  BY <1>2, <1>4, QueueStays DEF Busy
<1>8. WorkInv'
  <2>1. \A line : LineFits(line)' <=> LineFits(line)
    BY <1>2 DEF LineFits
  <2>2. work.step = "idle" => work' = Agent!Idle
    BY <1>2 DEF AgentInv, WorkInv
  <2>3. ASSUME work.step # "idle", NEW x \in Contents \ confirmed[work.line.project]
        PROVE  work'.edits >= Base(x)' + Seen(x)'
    <3>1. work.edits >= Base(x) + Seen(x) /\ Base(x)' = Base(x)
      BY <1>4, <2>3, WorkFacts DEF Base
    <3>2. CASE p = work.line.project
      <4>1. work'.edits = work.edits + 1
        BY <1>4, <2>3, <3>2
      <4>2. Seen(x)' <= Seen(x) + 1 /\ Seen(x)' \in {0, 1, 2} /\ Seen(x) \in {0, 1, 2}
        BY <1>4 DEF Seen
      <4>3. Base(x) \in {0, 2, 4}
        BY DEF Base
      <4>. QED  BY <1>3, <3>1, <4>1, <4>2, <4>3
    <3>3. CASE p # work.line.project
      <4>1. work.line.project \in Scopes
        BY <2>3, WorkFacts
      <4>2. document'[work.line.project] = document[work.line.project]
        BY <1>1, <3>3, <4>1 DEF AgentInv, AgentShape, KnowledgeShape
      <4>3. Seen(x)' = Seen(x)
        BY <1>4, <4>2 DEF Seen
      <4>. QED  BY <1>4, <3>1, <3>3, <4>3
    <3>. QED  BY <3>2, <3>3
  <2>. QED  BY <1>2, <1>4, <2>1, <2>2, <2>3 DEF AgentInv, WorkInv
<1>9. IssuedInv' /\ RecordedIsConfirmed'
  BY <1>2 DEF AgentInv, IssuedInv, RecordedIsConfirmed
<1>10. Agent!ToldIsAccepted' /\ Agent!ObservedIsTold' /\ Agent!ReturnedOnce' /\ Agent!CandidateStands'
  BY <1>2
  DEF AgentInv, Agent!ToldIsAccepted, Agent!ObservedIsTold, Agent!ReturnedOnce, Agent!CandidateStands,
      Agent!Brain
<1>. QED  BY <1>6, <1>7, <1>8, <1>9, <1>10 DEF AgentInv

\* Another command accepts, or protects.
LEMMA OthersKeep ==
    ASSUME AgentInv, NEW p \in Scopes, Agent!Accepts(p) \/ Agent!Protects(p)
    PROVE  AgentInv'
<1>1. /\ moves < MaxChanges /\ moves' = moves + 1
      /\ UNCHANGED <<document, proven, tasks, scope, desk, slipped,
                     server, twins, queue, work, issuances, contexts, observations, calls, returns, candidates>>
  BY DEF Agent!Accepts, Agent!Protects, Agent!Changes, Agent!Moves, Agent!bridgeVars
<1>2. /\ receipt' \in [Scopes -> Contents \cup {NoContent}] /\ guarded' \in [Scopes -> SUBSET Contents]
      /\ confirmed' \in [Scopes -> SUBSET Contents]
      /\ \A q \in Scopes : confirmed[q] \subseteq confirmed'[q]
      /\ RecordedIsConfirmed'
  <2>1. document[p] \in Contents
    BY DEF AgentInv, AgentShape, KnowledgeShape
  <2>2. CASE Agent!Accepts(p)
    <3>1. /\ receipt' = [receipt EXCEPT ![p] = document[p]] /\ guarded' = guarded
          /\ confirmed' = [confirmed EXCEPT ![p] = @ \cup {document[p]}]
      BY <2>2 DEF Agent!Accepts, Agent!Record
    <3>. QED  BY <2>1, <3>1 DEF AgentInv, AgentShape, KnowledgeShape, RecordedIsConfirmed
  <2>3. CASE Agent!Protects(p)
    <3>1. /\ receipt' = receipt /\ confirmed' = confirmed
          /\ guarded' = [guarded EXCEPT ![p] = @ \cup {document[p]}]
      BY <2>3 DEF Agent!Protects
    <3>. QED  BY <2>1, <3>1 DEF AgentInv, AgentShape, KnowledgeShape, RecordedIsConfirmed
  <2>. QED  BY <2>2, <2>3
<1>3. moves \in 0..MaxMoves /\ moves' \in 0..MaxMoves /\ moves <= moves' /\ work.edits \in Nat /\ work.edits <= moves
      /\ server.run \in Nat /\ server.run <= moves /\ scope.turn \in Nat /\ scope.turn <= moves
  BY <1>1, AgentConstants DEF AgentInv, AgentShape, KnowledgeShape, Works
<1>4. work.edits <= moves' /\ server.run <= moves' /\ scope.turn <= moves'
  BY <1>3
<1>5. AgentShape'
  <2>1. KnowledgeShape' /\ desk' \in Desks
    BY <1>1, <1>2, <1>3, <1>4 DEF AgentInv, AgentShape, KnowledgeShape
  <2>. QED  BY <1>1, <1>4, <2>1 DEF AgentInv, AgentShape
<1>6. QueueInv'
  BY <1>1, QueueStays DEF Busy
<1>7. WorkInv'
  <2>1. \A line : LineFits(line)' <=> LineFits(line)
    BY <1>1 DEF LineFits
  <2>2. \A x : Base(x)' = Base(x) /\ Seen(x)' = Seen(x)
    BY <1>1 DEF Base, Seen
  <2>3. ASSUME work.step # "idle", NEW x \in Contents \ confirmed'[work.line.project]
        PROVE  work.edits >= Base(x)' + Seen(x)'
    BY <1>2, <2>2, <2>3, WorkFacts
  <2>. QED  BY <1>1, <2>1, <2>3 DEF AgentInv, WorkInv
<1>8. IssuedInv' /\ Agent!ObservedIsTold' /\ Agent!ReturnedOnce'
  BY <1>1 DEF AgentInv, IssuedInv, Agent!ObservedIsTold, Agent!ReturnedOnce
<1>9. Agent!ToldIsAccepted' /\ Agent!CandidateStands'
  <2>1. \A c \in contexts : c.project \in Scopes
    BY DEF AgentInv, AgentShape, Agent!Packets
  <2>2. server.home \in Scopes
    BY DEF AgentInv, AgentShape
  <2>3. Agent!ToldIsAccepted'
    BY <1>1, <1>2, <2>1 DEF AgentInv, Agent!ToldIsAccepted
  <2>4. Agent!CandidateStands'
    BY <1>1, <1>2, <2>2 DEF AgentInv, Agent!CandidateStands, Agent!Brain
  <2>. QED  BY <2>3, <2>4
<1>. QED  BY <1>2, <1>5, <1>6, <1>7, <1>8, <1>9 DEF AgentInv

--------------------------------------------------------------------------------------
(* The whole.                                                                   *)

LEMMA AgentStays ==
    ASSUME AgentInv, UNCHANGED <<knowledgeVars, bridgeVars>>
    PROVE  AgentInv'
<1>. USE DEF knowledgeVars, bridgeVars
<1>1. /\ \A line : LineFits(line)' <=> LineFits(line)
      /\ \A x : Base(x)' = Base(x) /\ Seen(x)' = Seen(x)
      /\ Busy' = Busy
  BY DEF LineFits, Base, Seen, Busy
<1>2. AgentShape'
  BY DEF AgentInv, AgentShape, KnowledgeShape
<1>3. QueueInv' /\ WorkInv'
  BY <1>1 DEF AgentInv, QueueInv, WorkInv
<1>4. IssuedInv' /\ RecordedIsConfirmed'
  BY DEF AgentInv, IssuedInv, RecordedIsConfirmed
<1>5. Agent!ToldIsAccepted' /\ Agent!ObservedIsTold' /\ Agent!ReturnedOnce' /\ Agent!CandidateStands'
  BY DEF AgentInv, Agent!ToldIsAccepted, Agent!ObservedIsTold, Agent!ReturnedOnce, Agent!CandidateStands,
         Agent!Brain
<1>. QED  BY <1>2, <1>3, <1>4, <1>5 DEF AgentInv

LEMMA BridgeNextKeeps ==
    ASSUME AgentInv, Agent!BridgeNext
    PROVE  AgentInv'
<1>1. ASSUME NEW p \in Scopes, Agent!Edits(p) \/ Agent!Accepts(p) \/ Agent!Protects(p)
      PROVE  AgentInv'
  BY <1>1, EditsKeep, OthersKeep
<1>. QED  BY <1>1, HostKeeps, RestartKeeps, GateKeeps, TakeLineKeeps, TakeContextKeeps, TakeReturnKeeps,
          DoctorKeeps, CaptureKeeps, RecaptureKeeps, NotBuiltKeeps, IssueKeeps, CurrentKeeps, ReviewedKeeps, PreparesKeeps
          DEF Agent!BridgeNext

LEMMA AgentBegins ==
    ASSUME Knowledge!KnowledgeInit, Agent!BridgeInit
    PROVE  AgentInv
<1>1. /\ KnowledgeShape /\ desk \in Desks
  BY KnowledgeBegins DEF KnowledgeInv, DeskFits
<1>2. /\ server.run = 0 /\ server.home \in Scopes
      /\ server \in [run : 0..MaxMoves, home : Scopes, gate : {"none", "held", "refused"},
                     life : {"new", "initializing", "ready"}]
  BY AgentConstants DEF Agent!BridgeInit
<1>3. /\ work = Agent!Idle /\ issuances = {} /\ contexts = {} /\ observations = {}
      /\ calls = 0 /\ returns = <<>> /\ candidates = {}
      /\ queue = Agent!Handshake \/ queue = <<Agent!Handshake[1]>>
  BY DEF Agent!BridgeInit
<1>4. /\ queue \in Seq(Lines) /\ Len(queue) \in 0..2
      /\ \A n \in 1..Len(queue) : Greeting(queue[n]) /\ LineFits(queue[n])
  BY <1>3, HandshakeFits
<1>5. Cardinality(contexts) = 0 /\ IsFiniteSet(contexts)
  BY <1>3, FS_EmptySet
<1>6. moves \in Nat
  BY <1>1, AgentConstants DEF KnowledgeShape
<1>7. AgentShape
  <2>1. server.run <= moves /\ work.edits <= moves
    BY <1>2, <1>3, <1>6, IdleFits
  <2>2. work \in Works /\ calls \in 0..MaxCalls /\ returns \in Seq(Returns)
    BY <1>3, IdleFits, AgentConstants
  <2>. QED  BY <1>1, <1>2, <1>3, <1>4, <1>5, <2>1, <2>2 DEF AgentShape
<1>8. QueueInv
  <2>1. Busy = 0
    BY <1>3, IdleFits DEF Busy
  <2>2. Len(queue) - Len(queue) + Cardinality(contexts) + Busy <= calls
    BY <1>3, <1>4, <1>5, <2>1
  <2>. QED  BY <1>4, <2>2 DEF QueueInv
<1>9. WorkInv
  BY <1>3, IdleFits DEF WorkInv
<1>10. IssuedInv /\ Agent!ToldIsAccepted /\ Agent!ObservedIsTold /\ Agent!ReturnedOnce /\ Agent!CandidateStands
  BY <1>3 DEF IssuedInv, Agent!ToldIsAccepted, Agent!ObservedIsTold, Agent!ReturnedOnce, Agent!CandidateStands
<1>11. RecordedIsConfirmed
  BY DEF Knowledge!KnowledgeInit, RecordedIsConfirmed
<1>. QED  BY <1>7, <1>8, <1>9, <1>10, <1>11 DEF AgentInv

\* Where the agent is looked at, its invariant holds (the window's commands, which
\* record whatever the documents are by then, are in another part).
THEOREM AgentInvariantHolds == Spec => [](part = "agent" => AgentInv)
<1>1. Init => (part = "agent" => AgentInv)
  BY AgentBegins DEF Init
<1>2. (part = "agent" => AgentInv) /\ [Next]_vars => (part = "agent" => AgentInv)'
  <2>. SUFFICES ASSUME part = "agent" => AgentInv, [Next]_vars, part' = "agent"
                PROVE  AgentInv'
    OBVIOUS
  <2>1. part' = part /\ AgentInv
    BY DEF Next, vars, ProjectsStep, UpdatesStep, ConnectionStep, ReviewStep, KnowledgeStep, SessionsStep,
           AgentStep
  <2>2. CASE AgentStep
    BY <2>1, <2>2, BridgeNextKeeps DEF AgentStep
  <2>3. CASE UNCHANGED <<knowledgeVars, bridgeVars>>
    BY <2>1, <2>3, AgentStays
  <2>. QED  BY <2>1, <2>2, <2>3 DEF Next, vars, ProjectsStep, UpdatesStep, ConnectionStep, ReviewStep, KnowledgeStep,
            SessionsStep
<1>. QED  BY <1>1, <1>2, PTL DEF Spec

\* An agent is told accepted documents, unless they changed and changed back meanwhile;
\* what it returns, however often, in whichever thread and process, is processed once,
\* and becomes a proposal only of the very documents that it was told (mcp/server.ts,
\* provider-return.ts, semantic-maintenance.ts).
THEOREM AgentHolds == Spec => []AgentsAreServed
<1>1. (part = "agent" => AgentInv) => AgentsAreServed
  BY DEF AgentInv, AgentsAreServed, Of
<1>. QED  BY <1>1, AgentInvariantHolds, PTL
=====================================================================================
