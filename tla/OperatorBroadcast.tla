---------------------------- MODULE OperatorBroadcast ----------------------------
(***************************************************************************)
(* Signed operator documents in the Desktop: the background thread of      *)
(* operator_broadcast_runtime fetches one every few minutes, and the       *)
(* pipeline records its update blocks, its live notices, and at last its   *)
(* sequence number.  The window shows the live notices.                    *)
(*                                                                         *)
(* Each of the three stores is replaced by removing it and renaming a      *)
(* complete file; a store that is missing reads as an empty one.           *)
(***************************************************************************)
EXTENDS Naturals, FiniteSets

CONSTANTS
    Documents,        \* what the operator signed, with the key this build pins
    MaxBlocks,        \* update blocks the store may hold
    MaxNotices,       \* live notices it may hold
    MaxNow,           \* bound on the clock
    MaxReplies,       \* bound on unanswered reads of the window
    MaxBroadcastTrouble   \* bound on failures of file operations and deaths

\* Assumed by Desktop.
DocumentsAssumption ==
    \A d, e \in Documents :
        /\ d.seq \in Nat \ {0} /\ {d.issued, d.expires} \subseteq Nat /\ d.issued < d.expires
        /\ \A b \in d.blocks : {b.from, b.until} \subseteq Nat
        /\ \A n \in d.notices : {n.from, n.until} \subseteq Nat
        /\ \A n, m \in d.notices : n.id = m.id => n = m    \* as are all directives of a document
        /\ d.seq = e.seq => d = e
BroadcastBounds ==
    {MaxBlocks, MaxNotices, MaxNow, MaxReplies, MaxBroadcastTrouble} \subseteq Nat /\ MaxNow # 0

VARIABLES
    online,       \* whether the endpoint of the documents is ever reached
    now,          \* the wall clock
    accepted,     \* acceptance-state.json: the highest sequence accepted, 0 if it is missing
    blocks,       \* update-blocks.json
    notices,      \* live-notices.json
    pass,         \* the document the thread is at, and its next step
    shown,        \* the live notices the window holds
    replies,      \* reads of them that the window has not been answered yet
    troubles,     \* failures and deaths
    committed,    \* documents whose sequence was ever committed (for the properties)
    replaced,     \* id |-> the document that last wrote the block of that id (likewise)
    announced,    \* id |-> the document that last wrote, or withdrew, the notice of that id (likewise)
    losses        \* stores that a failure or a death left missing (likewise)

broadcastVars == <<online, now, accepted, blocks, notices, pass, shown, replies, troubles, committed, replaced, announced, losses>>

Stores == {"blocks", "notices", "accepted"}
Ids == UNION {{b.id : b \in d.blocks} : d \in Documents}
NoticeIds == UNION {{n.id : n \in d.notices} : d \in Documents}
NoPass == [step |-> "sleep"]

Earlier(m, n) == IF m < n THEN m ELSE n

-----------------------------------------------------------------------------
(* What a document asks for.                                               *)

\* A directive that is not active yet makes the whole document wait, and so does
\* a notice for another platform or version, unless it is over.
Collectable(d) ==
    /\ \A b \in d.blocks : b.from <= now
    /\ \A n \in d.notices : n.from <= now /\ (n.ours \/ n.until <= now)

AsBlock(d, b) == [id |-> b.id, version |-> b.version, from |-> b.from, until |-> Earlier(b.until, d.expires)]
BlockInputs(d) == {AsBlock(d, b) : b \in {c \in d.blocks : now < c.until}}

AsNotice(d, n) == [id |-> n.id, until |-> Earlier(n.until, d.expires), source |-> d.seq]
NoticeInputs(d) == {AsNotice(d, n) : n \in {m \in d.notices : m.ours /\ now < m.until}}
Withdrawn(d) == {n.id : n \in {m \in d.notices : m.ours /\ m.until <= now}}

Fresh(d) == accepted < d.seq /\ d.issued <= now /\ now < d.expires

\* The clock is read once for a pass, whatever time its writes take.
Retained(store, at) == {r \in store : r.until > at}
Upsert(store, inputs) == {r \in store : \A i \in inputs : i.id # r.id} \cup inputs

NewBlocks == Upsert(Retained(blocks, pass.at), pass.blocks)
Noticed == Upsert(Retained(notices, pass.at), pass.notices)
NewNotices == {n \in Noticed : n.id \notin pass.withdrawn}
Full ==
    IF pass.step = "blocks" THEN Cardinality(NewBlocks) > MaxBlocks ELSE Cardinality(Noticed) > MaxNotices

-----------------------------------------------------------------------------
(* A pass of the thread.                                                   *)

KeepStores == UNCHANGED <<online, accepted, blocks, notices>>
KeepWindow == UNCHANGED <<shown, replies>>
KeepGhosts == UNCHANGED <<committed, replaced, announced, losses>>

Goto(step) == pass' = [pass EXCEPT !.step = step]

\* A defect: the sequence is committed before what the document asks for is written.
BugFetch(d) ==
    /\ online /\ pass = NoPass /\ Fresh(d) /\ Collectable(d)
    /\ pass' = [step |-> IF BlockInputs(d) # {} THEN "blocks" ELSE "notices",
                doc |-> d.seq, at |-> now, blocks |-> BlockInputs(d),
                notices |-> NoticeInputs(d), withdrawn |-> Withdrawn(d)]
    /\ accepted' = d.seq /\ committed' = committed \cup {d.seq}
    /\ UNCHANGED <<online, now, blocks, notices, troubles, replaced, announced, losses>> /\ KeepWindow

\* The endpoint may serve any signed document, older ones too.  A pass that is
\* refused, or that gets no signed document, leaves no trace.
Fetch(d) ==
    /\ online /\ pass = NoPass /\ Fresh(d) /\ Collectable(d)
    /\ pass' = [step |-> IF BlockInputs(d) # {} THEN "blocks" ELSE "notices",
                doc |-> d.seq, at |-> now, blocks |-> BlockInputs(d),
                notices |-> NoticeInputs(d), withdrawn |-> Withdrawn(d)]
    /\ UNCHANGED <<now, troubles>> /\ KeepStores /\ KeepWindow /\ KeepGhosts

Refuse ==
    /\ pass.step \in {"blocks", "notices"} /\ Full
    /\ pass' = NoPass
    /\ UNCHANGED <<now, troubles>> /\ KeepStores /\ KeepWindow /\ KeepGhosts

RemoveBlocks ==
    /\ pass.step = "blocks" /\ ~Full
    /\ pass' = [pass EXCEPT !.step = "renameBlocks", !.blocks = NewBlocks]
    /\ blocks' = {}
    /\ UNCHANGED <<online, now, accepted, notices, troubles>> /\ KeepWindow /\ KeepGhosts

RenameBlocks ==
    /\ pass.step = "renameBlocks"
    /\ Goto("notices") /\ blocks' = pass.blocks
    /\ replaced' = [i \in Ids |->
                       IF \E d \in Documents : d.seq = pass.doc /\ \E b \in d.blocks : b.id = i /\ pass.at < b.until
                       THEN pass.doc ELSE replaced[i]]
    /\ UNCHANGED <<online, now, accepted, notices, troubles, committed, announced, losses>> /\ KeepWindow

\* The notices of the document are those of the store, as they already were or from now on.
Announces ==
    announced' = [i \in NoticeIds |->
                     IF \E d \in Documents : d.seq = pass.doc /\ \E n \in d.notices : n.id = i /\ n.ours
                     THEN pass.doc ELSE announced[i]]

KeepNotices ==
    /\ pass.step = "notices" /\ ~Full /\ NewNotices = notices
    /\ Goto("accept") /\ Announces
    /\ UNCHANGED <<now, troubles, committed, replaced, losses>> /\ KeepStores /\ KeepWindow

RemoveNotices ==
    /\ pass.step = "notices" /\ ~Full /\ NewNotices # notices
    /\ pass' = [pass EXCEPT !.step = "renameNotices", !.notices = NewNotices]
    /\ notices' = {}
    /\ UNCHANGED <<online, now, accepted, blocks, troubles>> /\ KeepWindow /\ KeepGhosts

\* An answer is shown although a later read is under way.
BugAsked(store) == replies \cup {[notices |-> Retained(store, now), current |-> TRUE]}

\* The window reads the store when it is told of a change, when it opens, and when
\* a notice that it shows is over.  It forgets the reads it waits for.
Asked(store) == {[r EXCEPT !.current = FALSE] : r \in replies}
                    \cup {[notices |-> Retained(store, now), current |-> TRUE]}

RenameNotices ==
    /\ pass.step = "renameNotices"
    /\ Goto("accept") /\ notices' = pass.notices /\ replies' = Asked(pass.notices) /\ Announces
    /\ UNCHANGED <<online, now, accepted, blocks, shown, troubles, committed, replaced, losses>>

RemoveAccepted ==
    /\ pass.step = "accept"
    /\ Goto("renameAccepted") /\ accepted' = 0
    /\ UNCHANGED <<online, now, blocks, notices, troubles>> /\ KeepWindow /\ KeepGhosts

RenameAccepted ==
    /\ pass.step = "renameAccepted"
    /\ pass' = NoPass /\ accepted' = pass.doc /\ committed' = committed \cup {pass.doc}
    /\ UNCHANGED <<online, now, blocks, notices, troubles, replaced, announced, losses>> /\ KeepWindow

Renaming == [renameBlocks |-> "blocks", renameNotices |-> "notices", renameAccepted |-> "accepted"]
Lost == IF pass.step \in DOMAIN Renaming THEN losses \cup {Renaming[pass.step]} ELSE losses

\* A file operation of the pass fails.
PassFails ==
    /\ pass # NoPass /\ troubles < MaxBroadcastTrouble
    /\ pass' = NoPass /\ troubles' = troubles + 1 /\ losses' = Lost
    /\ UNCHANGED <<now, committed, replaced, announced>> /\ KeepStores /\ KeepWindow

-----------------------------------------------------------------------------
(* The window, the clock and the process.                                  *)

Listen ==
    /\ Cardinality(replies) < MaxReplies
    /\ replies' = Asked(notices)
    /\ UNCHANGED <<now, pass, shown, troubles>> /\ KeepStores /\ KeepGhosts

Deliver(r) ==
    /\ replies' = replies \ {r}
    /\ shown' = IF r.current THEN r.notices ELSE shown
    /\ UNCHANGED <<now, pass, troubles>> /\ KeepStores /\ KeepGhosts

Tick ==
    /\ now < MaxNow /\ now' = now + 1
    /\ UNCHANGED <<pass, troubles>> /\ KeepStores /\ KeepWindow /\ KeepGhosts

BroadcastInit ==
    /\ online \in BOOLEAN
    /\ now = 1 /\ accepted = 0 /\ blocks = {} /\ notices = {} /\ pass = NoPass
    /\ shown = {} /\ replies = {[notices |-> {}, current |-> TRUE]}
    /\ troubles = 0 /\ committed = {} /\ losses = {}
    /\ replaced = [i \in Ids |-> 0] /\ announced = [i \in NoticeIds |-> 0]

BroadcastNext ==
    \/ \E d \in Documents : Fetch(d)
    \/ Refuse \/ RemoveBlocks \/ RenameBlocks \/ KeepNotices \/ RemoveNotices \/ RenameNotices
    \/ RemoveAccepted \/ RenameAccepted \/ PassFails
    \/ Listen \/ (\E r \in replies : Deliver(r)) \/ Tick

\* The process dies, or restarts with another version.
Restart ==
    /\ pass' = NoPass /\ losses' = Lost
    /\ shown' = {} /\ replies' = {[notices |-> Retained(notices, now), current |-> TRUE]}
    /\ UNCHANGED <<now, committed, replaced, announced>> /\ KeepStores

-----------------------------------------------------------------------------
(* Properties.                                                             *)

BroadcastTypeOK ==
    /\ online \in BOOLEAN /\ now \in 1 .. MaxNow /\ accepted \in {0} \cup {d.seq : d \in Documents}
    /\ blocks \subseteq UNION {{AsBlock(d, b) : b \in d.blocks} : d \in Documents}
    /\ \A n \in notices \cup shown : n.until \in Nat /\ n.source \in {d.seq : d \in Documents}
    /\ pass = NoPass \/ pass.step \in {"blocks", "notices", "accept"} \cup DOMAIN Renaming
    /\ Cardinality({r \in replies : r.current}) <= 1
    /\ troubles \in 0 .. MaxBroadcastTrouble
    /\ committed \subseteq {d.seq : d \in Documents} /\ losses \subseteq Stores

\* Of what a document asked for, a later document has said otherwise: the last word on
\* it is not its own.  (An earlier document can follow only where the acceptance state
\* was lost.)
Overruled(d, last) == last > d.seq \/ ("accepted" \in losses /\ last \notin {0, d.seq})

\* The sequence is committed after everything the document asks for: once it is, each
\* of its blocks and notices is in the store for as long as it is valid, or a later
\* document wrote that id since, or the store is being replaced or was lost in that
\* (commit_acceptance_after_downstream).
AcceptedTakesEffect ==
    \A d \in Documents : d.seq \in committed =>
        /\ \A b \in d.blocks :
            now < AsBlock(d, b).until /\ ~Overruled(d, replaced[b.id]) =>
                AsBlock(d, b) \in blocks \/ pass.step = "renameBlocks" \/ "blocks" \in losses
        /\ \A n \in d.notices :
            n.ours /\ now < AsNotice(d, n).until /\ ~Overruled(d, announced[n.id]) =>
                AsNotice(d, n) \in notices \/ pass.step = "renameNotices" \/ "notices" \in losses

\* The sequence that is stored is the highest ever committed, so that no document
\* follows a later one or itself, unless a replacement of the acceptance state was
\* cut short: a missing one forgets every sequence.
AcceptedIsLatest ==
    \/ pass.step = "renameAccepted" \/ "accepted" \in losses
    \/ \A s \in committed : s <= accepted

\* The window shows the live notices of the store, whatever the order in which
\* its reads are answered, unless it still waits or the store is being replaced.
ShownIsCurrent ==
    \/ \E r \in replies : r.current
    \/ pass.step = "renameNotices" \/ "notices" \in losses
    \/ Retained(shown, now) = Retained(notices, now)

=============================================================================
