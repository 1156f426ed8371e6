---------------------------- MODULE GuardianInvariant ----------------------------
(***************************************************************************)
(* The inductive invariant behind the safety properties of GuardianRoot    *)
(* and GuardianAuthority, for any number of builds, privileged terminals,  *)
(* operations, calls, records, materials and troubles.                     *)
(***************************************************************************)
EXTENDS GuardianAuthority

-----------------------------------------------------------------------------
(* The root.                                                               *)

BootstrapSteps == {"bsConfirm", "bsMkdir", "bsRecords", "bsHelper", "bsVerify", "bsDescriptor"}
RecoverSteps == {"rcConfirm", "rcRevalidate", "rcNarrow", "rcValidate", "rcOpen"}
UpgradeSteps == {"ugBackupHelper", "ugBackupDescriptor", "ugTemps", "ugRemoveHelper",
                 "ugPlaceHelper", "ugRemoveDescriptor", "ugPlaceDescriptor", "ugVerify",
                 "ugDropHelper", "ugDropDescriptor"}
UndoSteps == {"rbHelper", "rbCopyHelper", "rbDescriptor", "rbCopyDescriptor", "rbDrop"}

\* A root that nobody has made holds nothing; a root that was made stays.
MadeFirst ==
    /\ ~root.dir => root.descriptor = "absent" /\ ~ready
    /\ \A a \in Admins : task[a] \notin {"idle", "bsConfirm", "bsMkdir"} => root.dir
    /\ \A a \in Admins : task[a] \in UpgradeSteps \cup UndoSteps => root.records

\* Unless two privileged operations have overlapped, one goes on at a time.
OneAtATime ==
    ~crossed => \A a, b \in Admins : task[a] = "idle" \/ task[b] = "idle" \/ a = b

\* What a recovery has found when it is about to open the files.
RecoveryChecked ==
    ~crossed => \A a \in Admins :
       /\ task[a] \in {"rcValidate", "rcOpen"} => root.dir /\ root.records
       /\ task[a] = "rcOpen" => Coherent

\* Nothing has happened that an upgrade does not undo.
Undoable == deaths = 0 /\ faults <= 1 /\ ~crossed /\ ~late

\* Both backups hold the release the upgrade found.
BackedUp(a) == backup[a].helper \in Builds /\ backup[a].descriptor = backup[a].helper

\* The pair during an upgrade and its undoing.
UpgradeKeepsPair(a) ==
    /\ task[a] \in UpgradeSteps =>
         /\ task[a] \notin {"ugPlaceHelper", "ugRemoveDescriptor", "ugPlaceDescriptor"} => Coherent
         /\ task[a] = "ugBackupDescriptor" => backup[a].helper = root.helper
         /\ task[a] \notin {"ugBackupHelper", "ugBackupDescriptor", "ugDropDescriptor"} => BackedUp(a)
         /\ task[a] \in {"ugPlaceHelper", "ugRemoveDescriptor"} => root.descriptor \in Builds
         /\ task[a] \in {"ugRemoveDescriptor", "ugPlaceDescriptor"} => root.helper = build[a]
         /\ task[a] \in {"ugVerify", "ugDropHelper", "ugDropDescriptor"} => root.acl = "ok"
    /\ task[a] \in UndoSteps \ {"rbDrop"} =>
         /\ faults = 1 /\ BackedUp(a)
         /\ task[a] \in {"rbDescriptor", "rbCopyDescriptor"} => root.helper = backup[a].helper
    /\ task[a] = "rbDrop" => Coherent

PairKept ==
    Undoable =>
      /\ ready /\ (\A a \in Admins : task[a] \in RecoverSteps \cup {"idle"}) => Coherent
      /\ \A a \in Admins :
           /\ task[a] \in BootstrapSteps => ~ready /\ root.descriptor = "absent"
           /\ UpgradeKeepsPair(a)

RootInv == RootTypeOK /\ MadeFirst /\ OneAtATime /\ RecoveryChecked /\ PairKept

-----------------------------------------------------------------------------
(* The calls.                                                              *)

\* A call that goes on has a material; its helper has what its step needs.
CallInv(c) ==
    /\ c.step \in {"new", "over"} => c = [NewCall EXCEPT !.step = c.step]
    /\ c.step \notin {"new", "over"} => c.material \in Materials
    /\ c.step \in Ended => c.helper \in HelperSteps
    /\ c.step \in {"find", "run"} => c.helper = "none"
    /\ c.step = "wait" => c.helper # "none"
    /\ c.step = "verify" => c.helper = "ok"
    /\ c.op = "consume" => c.material \notin Persistent /\ c.helper \notin {"ask", "write"}
    /\ c.op # "consume" => c.helper \notin {"read"} \cup Holding

\* A consumption from the choice of its record to its end, and that of its helper.
Selected(c) ==
    c.op = "consume" /\ (c.step \in {"run", "wait", "verify"} \/ c.helper \in HelperSteps)

\* The record that a consumption selected is a whole one of its material; the one
\* that an issuance is about to write is new, and confirmed for its material.
Works(c) ==
    /\ Selected(c) =>
         /\ c.record \in Records /\ records[c.record].material = c.material
         /\ records[c.record].state \in {"active", "consumed"}
    /\ c.helper \in Holding => c.draft = c.record
    /\ c.helper = "write" =>
         /\ c.draft \in Records /\ c.draft <= drawn
         /\ records[c.draft].state = "none" /\ confirmed[c.draft] = {c.material}

\* A record id is drawn by one issuance.
OwnDraft ==
    \A n, k \in Calls :
       call[n].helper = "write" /\ call[k].helper = "write" /\ call[n].draft = call[k].draft => n = k

Undrawn == \A r \in Records : r > drawn => records[r].state = "none" /\ confirmed[r] = {}

CallsInv == (\A n \in Calls : CallInv(call[n]) /\ Works(call[n])) /\ OwnDraft /\ Undrawn

-----------------------------------------------------------------------------
(* Uses of a record.                                                       *)

\* The helper of c has read r; it has consumed r, and the call was not told yet.
Holds(c, r) == c.helper \in Holding /\ c.record = r
Done(c, r) == c.op = "consume" /\ c.helper = "ok" /\ c.record = r

DoneIsConsumed ==
    \A n \in Calls, r \in Records : Done(call[n], r) => records[r].state = "consumed"

\* A record that no two helpers had read at a time has one user, which is about to
\* consume it, has consumed it, or was told so.
OneUser ==
    \A r \in Records \ raced :
       /\ spent[r] <= 1
       /\ \A n \in Calls : Holds(call[n], r) => records[r].state = "active"
       /\ \A n \in Calls : Done(call[n], r) => spent[r] = 0
       /\ \A n, k \in Calls : Holds(call[n], r) /\ Holds(call[k], r) => n = k
       /\ \A n, k \in Calls : Done(call[n], r) /\ Done(call[k], r) => n = k

UsesInv == ConfirmedGrants /\ DoneIsConsumed /\ OneUser

-----------------------------------------------------------------------------
(* Causes of a refusal.                                                    *)

\* What the clock says as long as nobody sets it back.
TimeInv(c) ==
    /\ c.at <= clock
    /\ c.helper \in Holding =>
         records[c.record].at <= c.at /\ c.at < records[c.record].at + Ttl

ClockForward ==
    backs = 0 => (\A r \in Records : records[r].at <= clock) /\ \A n \in Calls : TimeInv(call[n])

\* Without trouble every record is well formed and no temporary file stays.
RecordsWhole ==
    deaths = 0 /\ faults = 0 /\ backs = 0 =>
      /\ litter = {}
      /\ \A r \in Records : records[r].state # "none" => WellFormed(r)

\* Unless two issuances of m overlapped, one goes on at a time, and only as long as
\* there is no active record of m.
OneIssuance ==
    backs = 0 => \A m \in Materials \ overlapped :
      /\ \A r, s \in ActiveOf(m) : r = s
      /\ Pending(m) # {} => ActiveOf(m) = {}
      /\ \A n, k \in Pending(m) : n = k

CausesInv == ClockForward /\ RecordsWhole /\ OneIssuance

IInv == RootInv /\ TypeOK /\ CallsInv /\ UsesInv /\ CausesInv
=================================================================================
