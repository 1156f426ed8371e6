------------------------------ MODULE DesktopUpdater ------------------------------
(***************************************************************************)
(* The updater of the Desktop and its notification center: the window      *)
(* checks for an update or installs one (updater-ui.ts, updater.rs), the   *)
(* worker of a check records a notification, and the main thread marks     *)
(* notifications as read.  OperatorBroadcast goes on beside them, and says *)
(* which versions may not be installed.                                    *)
(*                                                                         *)
(* Nothing locks the notification center, and its writers share the name   *)
(* of their temporary file.                                                *)
(***************************************************************************)
EXTENDS OperatorBroadcast

CONSTANTS
    Versions,     \* releases of the Desktop, as numbers
    MaxToasts     \* bound on checks that find a version, and on marks of it

\* Assumed by Desktop.
VersionsAssumption == Versions \subseteq Nat \ {0} /\ MaxToasts \in Nat

VARIABLES
    installed,    \* the version that runs
    offer,        \* the version the window offers to install, 0 if none
    ui,           \* the check or installation the window waits for
    center,       \* v |-> the notification of version v in center.json
    temp,         \* center.json.tmp
    writer,       \* the writers of the center
    toasts,       \* v |-> how many toasts told of version v
    marked,       \* versions the user marked as read (for the properties)
    crossed,      \* whether two writers ever overlapped (likewise)
    centerLost    \* whether a replacement of the center was cut short (likewise)

updaterVars == <<installed, offer, ui, center, temp, writer, toasts, marked, crossed, centerLost>>
updateVars == <<broadcastVars, updaterVars>>

Writers == {"check", "main"}
Empty == [v \in Versions |-> "none"]    \* also what a missing file reads as
NoCenter == [v \in {} |-> "none"]
Idle == [step |-> "idle"]

Quiet(w) == writer[w] = Idle
Begins(w, content) ==
    /\ writer' = [writer EXCEPT ![w] = [step |-> "write", content |-> content]]
    /\ crossed' = (crossed \/ \E x \in Writers \ {w} : ~Quiet(x))

KeepCenter == UNCHANGED <<center, temp, writer, toasts, marked, crossed, centerLost>>

-----------------------------------------------------------------------------
(* Checks and installations.  The window runs one at a time.               *)

Blocked(v) == \E b \in blocks : b.version = v /\ b.from <= now /\ now < b.until

\* What the documents themselves say, and whether the store may have lost it.
Ordered(v) ==
    \E d \in Documents : \E b \in d.blocks :
        /\ d.seq \in committed /\ ~Overruled(d, replaced[b.id])
        /\ b.version = v /\ b.from <= now /\ now < AsBlock(d, b).until
Gap == pass.step = "renameBlocks" \/ "blocks" \in losses

Check ==
    /\ ui = Idle /\ ui' = [step |-> "check"]
    /\ UNCHANGED <<broadcastVars, installed, offer>> /\ KeepCenter

Install ==
    /\ ui = Idle /\ offer # 0 /\ ui' = [step |-> "apply", version |-> offer]
    /\ UNCHANGED <<broadcastVars, installed, offer>> /\ KeepCenter

\* There is no update, the request fails, or it is blocked: the window offers none.
Ends ==
    /\ ui.step \in {"check", "apply", "download"}
    /\ ui' = Idle /\ offer' = 0
    /\ UNCHANGED <<broadcastVars, installed>> /\ KeepCenter

Passed(step, v) == [step |-> step, version |-> v, ordered |-> Ordered(v), gap |-> Gap]

Checked(v) ==
    /\ ui.step = "check" /\ v > installed /\ ~Blocked(v) /\ toasts[v] < MaxToasts
    /\ ui' = Passed("list", v)
    /\ UNCHANGED <<broadcastVars, installed, offer>> /\ KeepCenter

\* The update may have changed since it was offered (then Ends); the blocks are
\* looked at again, before the download and not after it.
Rechecked(v) ==
    /\ ui.step = "apply" /\ ui.version = v /\ v > installed /\ ~Blocked(v)
    /\ ui' = Passed("download", v)
    /\ UNCHANGED <<broadcastVars, installed, offer>> /\ KeepCenter

\* The installer replaces the program and starts it again.
Installed ==
    /\ ui.step = "download"
    /\ installed' = ui.version /\ ui' = Idle /\ offer' = 0
    /\ writer' = [w \in Writers |-> Idle]
    /\ centerLost' = (centerLost \/ \E w \in Writers : writer[w].step = "rename")
    /\ UNCHANGED <<center, temp, toasts, marked, crossed, troubles>> /\ Restart

-----------------------------------------------------------------------------
(* The notification center.                                                *)

KeepUpdater == UNCHANGED <<broadcastVars, installed, offer>>

\* check_for_update_with_notifications asks whether there is a record of this
\* version, then reads the center again to write one.
List ==
    /\ ui.step = "list"
    /\ ui' = [step |-> "record", version |-> ui.version, existed |-> center[ui.version] # "none"]
    /\ crossed' = (crossed \/ ~Quiet("main"))
    /\ KeepUpdater /\ UNCHANGED <<center, temp, writer, toasts, marked, centerLost>>

Record ==
    /\ ui.step = "record" /\ Quiet("check")
    /\ Begins("check", [center EXCEPT ![ui.version] = IF @ = "none" THEN "unread" ELSE @])
    /\ ui' = [ui EXCEPT !.step = "wait"]
    /\ KeepUpdater /\ UNCHANGED <<center, temp, toasts, marked, centerLost>>

\* Marking a notification needs its record; marking all of them needs none.  The
\* center and the stores of the documents share nothing: marks are explored
\* without documents.
Mark(v, as) ==
    /\ ~online /\ Quiet("main") /\ center[v] # "none" /\ center[v] # as
    /\ Begins("main", [center EXCEPT ![v] = as])
    /\ KeepUpdater /\ UNCHANGED <<ui, center, temp, toasts, marked, centerLost>>

MarkAll ==
    /\ ~online /\ Quiet("main")
    /\ Begins("main", [v \in Versions |-> IF center[v] = "unread" THEN "read" ELSE center[v]])
    /\ KeepUpdater /\ UNCHANGED <<ui, center, temp, toasts, marked, centerLost>>

Write(w) ==
    /\ writer[w].step = "write"
    /\ temp' = writer[w].content /\ writer' = [writer EXCEPT ![w].step = "remove"]
    /\ KeepUpdater /\ UNCHANGED <<ui, center, toasts, marked, crossed, centerLost>>

Remove(w) ==
    /\ writer[w].step = "remove"
    /\ center' = Empty /\ writer' = [writer EXCEPT ![w].step = "rename"]
    /\ KeepUpdater /\ UNCHANGED <<ui, temp, toasts, marked, crossed, centerLost>>

\* A check that has stored a record nobody had before tells of it.
Report(w, stored) ==
    IF w = "main"
    THEN /\ marked' = IF stored THEN {v \in Versions : writer["main"].content[v] = "read"} ELSE marked
         /\ UNCHANGED <<ui, offer, toasts>>
    ELSE /\ ui' = Idle /\ offer' = ui.version
         /\ toasts' = IF stored /\ ~ui.existed THEN [toasts EXCEPT ![ui.version] = @ + 1] ELSE toasts
         /\ UNCHANGED marked

\* The other writer may have taken the temporary file away.
Rename(w) ==
    /\ writer[w].step = "rename"
    /\ writer' = [writer EXCEPT ![w] = Idle]
    /\ IF temp = NoCenter THEN UNCHANGED <<center, temp>> ELSE center' = temp /\ temp' = NoCenter
    /\ Report(w, temp # NoCenter)
    /\ UNCHANGED <<broadcastVars, installed, crossed, centerLost>>

WriterFails(w) ==
    /\ ~Quiet(w) /\ troubles < MaxBroadcastTrouble
    /\ writer' = [writer EXCEPT ![w] = Idle] /\ Report(w, FALSE)
    /\ centerLost' = (centerLost \/ writer[w].step = "rename")
    /\ troubles' = troubles + 1
    /\ UNCHANGED <<now, pass, center, temp, installed, crossed>>
    /\ KeepStores /\ KeepWindow /\ KeepGhosts

Dies ==
    /\ troubles < MaxBroadcastTrouble /\ troubles' = troubles + 1
    /\ ui' = Idle /\ offer' = 0 /\ writer' = [w \in Writers |-> Idle]
    /\ centerLost' = (centerLost \/ \E w \in Writers : writer[w].step = "rename")
    /\ UNCHANGED <<installed, center, temp, toasts, marked, crossed>> /\ Restart

-----------------------------------------------------------------------------

UpdatesInit ==
    /\ BroadcastInit
    /\ installed = 0 /\ offer = 0 /\ ui = Idle
    /\ center = Empty /\ temp = NoCenter /\ writer = [w \in Writers |-> Idle]
    /\ toasts = [v \in Versions |-> 0] /\ marked = {} /\ crossed = FALSE /\ centerLost = FALSE

UpdatesNext ==
    \/ BroadcastNext /\ UNCHANGED updaterVars
    \/ Check \/ Install \/ Ends \/ Installed \/ List \/ Record \/ MarkAll \/ Dies
    \/ \E v \in Versions : Checked(v) \/ Rechecked(v) \/ Mark(v, "read") \/ Mark(v, "unread")
    \/ \E w \in Writers : Write(w) \/ Remove(w) \/ Rename(w) \/ WriterFails(w)

-----------------------------------------------------------------------------
(* Properties.                                                             *)

UpdatesTypeOK ==
    /\ BroadcastTypeOK
    /\ installed \in {0} \cup Versions /\ offer \in {0} \cup Versions
    /\ ui.step \in {"idle", "check", "apply", "download", "list", "record", "wait"}
    /\ center \in [Versions -> {"none", "unread", "read"}]
    /\ temp = NoCenter \/ temp \in [Versions -> {"none", "unread", "read"}]
    /\ \A w \in Writers : writer[w].step \in {"idle", "write", "remove", "rename"}
    /\ toasts \in [Versions -> 0 .. MaxToasts] /\ marked \subseteq Versions
    /\ crossed \in BOOLEAN /\ centerLost \in BOOLEAN

\* A version that an accepted document blocks is neither offered nor downloaded,
\* unless its store is being replaced at that moment, or was lost in one: the
\* decision reads a missing store as one that blocks nothing.
BlockedIsNotTaken == ui.step \in {"list", "download"} /\ ui.ordered => ui.gap

\* The user is told of a version once, its notification stays, and so does the
\* mark the user gave it, unless two writers overlapped or one was cut short.
CenterKeepsRecords ==
    \/ crossed \/ centerLost \/ \E w \in Writers : ~Quiet(w)
    \/ \A v \in Versions :
          /\ toasts[v] <= 1 /\ (toasts[v] = 1 => center[v] # "none")
          /\ v \in marked => center[v] = "read"
=============================================================================
