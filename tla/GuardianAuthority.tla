---------------------------- MODULE GuardianAuthority ----------------------------
(***************************************************************************)
(* Guardian Authority: guardian/authority-client and authority-transitions *)
(* in the processes of ordinary users, guardian/protected-helper in the    *)
(* privileged helpers they start, and the records between them.            *)
(*                                                                         *)
(* A call is one issuance or consumption and the one helper it may start.  *)
(* The helper is a process of its own: it outlives a call that stops       *)
(* waiting for it.  Wall-clock time passes, and may be set back.           *)
(***************************************************************************)
EXTENDS GuardianRoot, FiniteSets

CONSTANTS
    MaxCalls,     \* bound on calls, numbered in the order in which they begin
    MaxBeside,    \* bound on calls and privileged operations when there are both
    MaxRecords,   \* bound on record ids, numbered in the order they are drawn
    Materials,    \* exact materials, each of one consumer
    NoMaterial,
    Consumer(_),  \* the consumer of a material: the directory of its records
    Persistent,   \* materials whose authority never expires
    Ttl,          \* validity of a one-shot, ten minutes
    MaxClock      \* bound on the wall clock

ASSUME CallsAssumption == MaxCalls \in Nat
ASSUME NoneAssumption == MaxRecords \in Nat /\ NoMaterial \notin Materials
ASSUME ClockAssumption == Ttl \in Nat \ {0} /\ MaxClock \in Nat

VARIABLES
    records,     \* r |-> the record file of that id
    dirs,        \* consumers that have a directory among the records
    litter,      \* consumers among whose records a helper left its temporary file
    clock,       \* the wall clock
    drawn,       \* how many record ids are in use
    call,        \* n |-> the n-th call and its helper
    confirmed,   \* r |-> the material a person confirmed for it (for the properties)
    spent,       \* r |-> how many calls were told that they consumed it (likewise)
    raced,       \* records that two consuming helpers had read at a time (likewise)
    overlapped   \* materials of which two issuances went on at a time (likewise)

authorityVars ==
    <<records, dirs, litter, clock, drawn, call, confirmed, spent, raced, overlapped>>
vars == <<rootVars, limits, authorityVars>>

Calls == 1..MaxCalls
Records == 1..MaxRecords
NoRecord == 0
Consumers == {Consumer(m) : m \in Materials}

-----------------------------------------------------------------------------
(* Records.                                                                *)

States == {"none", "torn", "active", "consumed"}

NoFile == [state |-> "none", material |-> NoMaterial, at |-> 0, used |-> 0]

\* A bug: the time of the consumption is not read.
BugWellFormed(r) == records[r].state \in {"active", "consumed"}

\* parseGuardianAuthorityRecord
WellFormed(r) ==
    /\ records[r].state \in {"active", "consumed"}
    /\ records[r].state = "consumed" =>
          records[r].at <= records[r].used /\ records[r].used < records[r].at + Ttl

Expired(r) == records[r].material \notin Persistent /\ records[r].at + Ttl <= clock

\* Consuming helpers whose temporary file is among the records.
Holding == {"compare", "rename"}

\* readConsumerRecords refuses any other, and any malformed, entry.
Readable(c) ==
    /\ c \notin litter
    /\ \A n \in Calls : call[n].helper \in Holding => Consumer(call[n].material) # c
    /\ \A r \in Records : records[r].state # "none" /\ Consumer(records[r].material) = c => WellFormed(r)

ActiveOf(m) ==
    {r \in Records : records[r].state = "active" /\ records[r].material = m /\ ~Expired(r)}

\* A bug: the first of several matching records is taken.
BugMatching(r, m) == Ready /\ Readable(Consumer(m)) /\ r \in ActiveOf(m)

\* findMatchingByState: none, exactly this one, or an exception.
NoMatch(m) == Ready /\ Readable(Consumer(m)) /\ ActiveOf(m) = {}
Matching(r, m) == Ready /\ Readable(Consumer(m)) /\ ActiveOf(m) = {r}

-----------------------------------------------------------------------------
(* Calls.                                                                  *)

\* "ensure" is an issuance that takes an active record when there is one.
Ops == {"issue", "ensure", "consume"}
ClientSteps == {"find", "run", "wait", "verify"}
HelperSteps == {"start", "ask", "write", "read"} \cup Holding
Ended == {"granted", "consumed", "refused"}

CallRecords == [
    op : Ops, material : Materials \cup {NoMaterial}, step : ClientSteps \cup Ended \cup {"new", "over"},
    record : Records \cup {NoRecord},     \* what it works on, or has issued
    request : BOOLEAN,                    \* its request file exists
    helper : HelperSteps \cup {"none", "ok", "failed"},
    draft : Records \cup {NoRecord},      \* the record its helper works on
    at : Nat,                             \* the time its helper took
    read : States]                        \* what its helper read of the record

NewCall == [op |-> "issue", material |-> NoMaterial, step |-> "new",
            record |-> NoRecord, request |-> FALSE, helper |-> "none",
            draft |-> NoRecord, at |-> 0, read |-> "none"]

TypeOK ==
    /\ RootTypeOK
    /\ records \in [Records -> [state : States, material : Materials \cup {NoMaterial}, at : Nat, used : Nat]]
    /\ \A r \in Records :
          /\ records[r].state = "none" <=> records[r].material = NoMaterial
          /\ records[r].state # "consumed" => records[r].used = 0
    /\ litter \subseteq dirs /\ dirs \subseteq Consumers
    /\ \A r \in Records : records[r].state # "none" => Consumer(records[r].material) \in dirs
    /\ clock \in 0..MaxClock /\ drawn \in 0..MaxRecords
    /\ call \in [Calls -> CallRecords]
    /\ confirmed \in [Records -> SUBSET Materials]
    /\ spent \in [Records -> Nat]
    /\ raced \subseteq Records /\ overlapped \subseteq Materials

\* A root that is ready may hold the record of an earlier call.
Init ==
    /\ RootInit
    /\ \E m \in Materials \cup {NoMaterial} :
          /\ m # NoMaterial => Ready /\ MaxRecords > 0
          /\ drawn = IF m = NoMaterial THEN 0 ELSE 1
          /\ records = [r \in Records |->
                          IF r <= drawn THEN [NoFile EXCEPT !.state = "active", !.material = m]
                          ELSE NoFile]
          /\ dirs = IF m = NoMaterial THEN {} ELSE {Consumer(m)}
          /\ confirmed = [r \in Records |-> IF r <= drawn THEN {m} ELSE {}]
    /\ litter = {} /\ clock = 0
    /\ call = [n \in Calls |-> NewCall]
    /\ spent = [r \in Records |-> 0]
    /\ raced = {} /\ overlapped = {}

Running(n) == call[n].helper \in HelperSteps

\* When a call and its helper are over nothing is left of them but the files.
Update(n, new) ==
    call' = [call EXCEPT ![n] =
               IF new.step \in Ended /\ new.helper \notin HelperSteps
               THEN [NewCall EXCEPT !.step = "over"] ELSE new]

\* Issuances that found no record of m and may yet write one.
Pending(m) == {n \in Calls : call[n].material = m /\ call[n].op # "consume"
                             /\ (call[n].step = "run" \/ Running(n))}

\* Steps of a client only read the files.
KeepFiles == UNCHANGED <<rootVars, limits, records, dirs, litter, clock, drawn, confirmed, raced>>

ClientTo(n, step, r) ==
    /\ Update(n, [call[n] EXCEPT !.step = step, !.record = r])
    /\ KeepFiles /\ UNCHANGED <<spent, overlapped>>

\* The call throws, and its temporary directory goes.
Throw(n) ==
    /\ Update(n, [call[n] EXCEPT !.step = "refused", !.request = FALSE])
    /\ KeepFiles /\ UNCHANGED <<spent, overlapped>>

\* Bounds together t privileged operations and k calls.
Room(t, k) == t = 0 \/ k = 0 \/ t + k <= MaxBeside

Begin(n) ==
    /\ call[n].step = "new" /\ \A k \in Calls : k < n => call[k].step # "new"
    /\ Room(tasks, n)
    /\ \E op \in Ops, m \in Materials :
          /\ op = "consume" => m \notin Persistent
          /\ Update(n, [call[n] EXCEPT !.op = op, !.material = m, !.step = "find"])
    /\ KeepFiles /\ UNCHANGED <<spent, overlapped>>

\* A bug: an issuance does not look for an active record.
BugFindNone(n) ==
    /\ call[n].step = "find" /\ call[n].op # "consume"
    /\ Update(n, [call[n] EXCEPT !.step = "run"])
    /\ overlapped' = IF Pending(call[n].material) = {} THEN overlapped
                     ELSE overlapped \cup {call[n].material}
    /\ KeepFiles /\ UNCHANGED spent

\* An issuance goes on when there is no active record of its material.
FindNone(n) ==
    /\ call[n].step = "find" /\ call[n].op # "consume"
    /\ NoMatch(call[n].material)
    /\ Update(n, [call[n] EXCEPT !.step = "run"])
    /\ overlapped' = IF Pending(call[n].material) = {} THEN overlapped
                     ELSE overlapped \cup {call[n].material}
    /\ KeepFiles /\ UNCHANGED spent

\* A consumption selects the one active record; "ensure" takes it as it is.
FindOne(n) ==
    /\ call[n].step = "find" /\ call[n].op # "issue"
    /\ \E r \in Records :
          /\ Matching(r, call[n].material)
          /\ ClientTo(n, IF call[n].op = "consume" THEN "run" ELSE "granted", r)

FindThrows(n) ==
    /\ call[n].step = "find"
    /\ call[n].op = "consume" \/ ~NoMatch(call[n].material)
    /\ call[n].op = "issue" \/ \A r \in Records : ~Matching(r, call[n].material)
    /\ Throw(n)

\* runPrivilegedGuardianHelper, with a request file or with arguments.  A
\* consumption looks at the expiry of its record once more before.
Run(n) ==
    /\ call[n].step = "run"
    /\ IF call[n].op = "consume" /\ Expired(call[n].record)
       THEN Throw(n)
       ELSE /\ Update(n, [call[n] EXCEPT !.step = "wait", !.helper = "start",
                                              !.request = call[n].op # "consume"])
            /\ KeepFiles /\ UNCHANGED <<spent, overlapped>>

Collect(n) ==
    /\ call[n].step = "wait"
    /\ \/ call[n].helper = "ok" /\ ClientTo(n, "verify", call[n].record)
       \/ call[n].helper = "failed" /\ Throw(n)

\* A bug: the wait for the helper has no limit.
BugTimeout(n) == FALSE /\ Throw(n)

\* spawnSync gives up after five minutes, on Windows; the helper goes on.
Timeout(n) == call[n].step = "wait" /\ Running(n) /\ Throw(n)

\* The new record is looked for by its material.
VerifyIssued(n) ==
    /\ call[n].step = "verify" /\ call[n].op # "consume"
    /\ \/ \E r \in Records :
             /\ Matching(r, call[n].material)
             /\ Update(n, [call[n] EXCEPT !.step = "granted", !.record = r,
                                               !.request = FALSE])
             /\ KeepFiles /\ UNCHANGED <<spent, overlapped>>
       \/ (\A r \in Records : ~Matching(r, call[n].material)) /\ Throw(n)

\* The consumed record is looked for by its id.
VerifyConsumed(n) ==
    /\ call[n].step = "verify" /\ call[n].op = "consume"
    /\ IF /\ Ready /\ Readable(Consumer(call[n].material))
          /\ records[call[n].record].state = "consumed"
       THEN /\ Update(n, [call[n] EXCEPT !.step = "consumed"])
            /\ spent' = [spent EXCEPT ![call[n].record] = @ + 1]
            /\ KeepFiles /\ UNCHANGED overlapped
       ELSE Throw(n)

Client(n) ==
    \/ FindNone(n) \/ FindOne(n) \/ FindThrows(n) \/ Run(n) \/ Collect(n) \/ Timeout(n)
    \/ VerifyIssued(n) \/ VerifyConsumed(n)

-----------------------------------------------------------------------------
(* The helper.                                                             *)

KeepClient == UNCHANGED <<rootVars, limits, clock, spent, overlapped>>
KeepIds == KeepClient /\ UNCHANGED drawn

HelperTo(n, step) == Update(n, [call[n] EXCEPT !.helper = step])

\* assertProtectedSelf; an issuance then reads its request file.
Start(n) ==
    /\ call[n].helper = "start"
    /\ HelperTo(n, IF ~Coherent \/ (call[n].op # "consume" /\ ~call[n].request) THEN "failed"
                   ELSE IF call[n].op = "consume" THEN "read" ELSE "ask")
    /\ KeepIds /\ UNCHANGED <<records, dirs, litter, confirmed, raced>>

\* The id of a new record, unlike any other (randomUUID), and the time of its issuance.
Draw(n) ==
    /\ drawn < MaxRecords
    /\ drawn' = drawn + 1
    /\ Update(n, [call[n] EXCEPT !.helper = "write", !.draft = drawn', !.at = clock])

\* A bug: a redirected terminal passes for a confirmation.
BugConfirm(n) ==
    /\ call[n].helper = "ask" /\ Draw(n)
    /\ KeepClient /\ UNCHANGED <<records, dirs, litter, confirmed, raced>>

\* A person confirms the exact material.
Confirm(n) ==
    /\ call[n].helper = "ask" /\ Draw(n)
    /\ confirmed' = [confirmed EXCEPT ![drawn'] = @ \cup {call[n].material}]
    /\ KeepClient /\ UNCHANGED <<records, dirs, litter, raced>>

\* A person declines, or a dialog closes itself after five minutes.
Deny(n) ==
    /\ call[n].helper = "ask" /\ HelperTo(n, "failed")
    /\ KeepIds /\ UNCHANGED <<records, dirs, litter, confirmed, raced>>

\* The directory of the consumer, then writeFile with the flag wx; a helper that fails or dies in it leaves a part.
Write(n) ==
    /\ call[n].helper = "write" /\ HelperTo(n, "ok")
    /\ records' = [records EXCEPT ![call[n].draft] =
                     [NoFile EXCEPT !.state = "active", !.material = call[n].material,
                                    !.at = call[n].at]]
    /\ dirs' = dirs \cup {Consumer(call[n].material)}
    /\ KeepIds /\ UNCHANGED <<litter, confirmed, raced>>

\* The checks of consumeAuthority on the record it reads.
Consumable(r, m) ==
    /\ WellFormed(r) /\ records[r].state = "active"
    /\ records[r].material = m /\ ~Expired(r)

\* consumedAt is drawn here, the bytes are kept for the comparison, and the
\* temporary file is written.
ReadRecord(n) ==
    /\ call[n].helper = "read"
    /\ LET r == call[n].record
       IN  IF Consumable(r, call[n].material)
           THEN /\ Update(n, [call[n] EXCEPT !.helper = "compare", !.draft = r, !.at = clock,
                                                  !.read = records[r].state])
                /\ raced' = IF \E k \in Calls : /\ call[k].draft = r
                                                /\ call[k].helper \in Holding
                            THEN raced \cup {r} ELSE raced
           ELSE HelperTo(n, "failed") /\ UNCHANGED raced
    /\ KeepIds /\ UNCHANGED <<records, dirs, litter, confirmed>>

\* The temporary file goes when the record is no longer the one that was read.
Compare(n) ==
    /\ call[n].helper = "compare"
    /\ HelperTo(n, IF records[call[n].draft].state = call[n].read THEN "rename" ELSE "failed")
    /\ KeepIds /\ UNCHANGED <<records, dirs, litter, confirmed, raced>>

\* A bug: the state it read is spread over the new one.
BugRename(n) ==
    /\ call[n].helper = "rename" /\ HelperTo(n, "ok")
    /\ records' = [records EXCEPT ![call[n].draft].used = call[n].at + 1]
    /\ KeepIds /\ UNCHANGED <<dirs, litter, confirmed, raced>>

Rename(n) ==
    /\ call[n].helper = "rename" /\ HelperTo(n, "ok")
    /\ records' = [records EXCEPT ![call[n].draft].state = "consumed",
                                  ![call[n].draft].used = call[n].at]
    /\ KeepIds /\ UNCHANGED <<dirs, litter, confirmed, raced>>

Helper(n) == Start(n) \/ Write(n) \/ ReadRecord(n) \/ Compare(n) \/ Rename(n)

-----------------------------------------------------------------------------
(* The environment.                                                        *)

\* What a helper leaves that does not get through its step: a part of a record,
\* the directory it made for it, or its temporary file.
LeaveRecord(n) ==
    /\ records' = [records EXCEPT ![call[n].draft] =
                     [NoFile EXCEPT !.state = "torn", !.material = call[n].material]]
    /\ dirs' = dirs \cup {Consumer(call[n].material)}
    /\ UNCHANGED litter
LeaveDirectory(n) == dirs' = dirs \cup {Consumer(call[n].material)} /\ UNCHANGED <<records, litter>>
LeaveTemp(n) == litter' = litter \cup {Consumer(call[n].material)} /\ UNCHANGED <<records, dirs>>
LeaveNothing == UNCHANGED <<records, dirs, litter>>

KeepWorld == UNCHANGED <<rootVars, clock, drawn, confirmed, spent, raced, overlapped>>

\* A file operation of the helper throws.  Only a temporary file that is whole
\* is removed: it is written outside the block that does so.
HelperFault(n) ==
    /\ call[n].helper \in {"write", "read"} \cup Holding /\ Trouble
    /\ HelperTo(n, "failed") /\ faults' = faults + 1
    /\ CASE call[n].helper = "write" -> LeaveRecord(n) \/ LeaveDirectory(n) \/ LeaveNothing
         [] call[n].helper = "read" -> LeaveTemp(n) \/ LeaveNothing
         [] OTHER -> LeaveNothing
    /\ KeepWorld /\ UNCHANGED <<deaths, backs>>

HelperDies(n) ==
    /\ Running(n) /\ Trouble
    /\ HelperTo(n, "failed") /\ deaths' = deaths + 1
    /\ CASE call[n].helper = "write" -> LeaveRecord(n) \/ LeaveDirectory(n) \/ LeaveNothing
         [] call[n].helper \in Holding -> LeaveTemp(n)
         [] OTHER -> LeaveNothing
    /\ KeepWorld /\ UNCHANGED <<faults, backs>>

\* The temporary directory of a client that dies stays, with its request.
ClientDies(n) ==
    /\ call[n].step \in ClientSteps /\ Trouble
    /\ Update(n, [call[n] EXCEPT !.step = "refused"]) /\ deaths' = deaths + 1
    /\ KeepWorld /\ LeaveNothing /\ UNCHANGED <<faults, backs>>

KeepAll == UNCHANGED <<rootVars, deaths, faults, records, dirs, litter, drawn, call, confirmed, spent,
                       raced, overlapped>>

Tick == clock < MaxClock /\ clock' = clock + 1 /\ KeepAll /\ UNCHANGED backs

SetBack == Trouble /\ clock > 0 /\ clock' = clock - 1 /\ backs' = backs + 1 /\ KeepAll

\* Bootstrap, recovery and upgrade of the root go on beside the calls.
Administer ==
    /\ RootNext(dirs = {})
    /\ tasks' # tasks => Room(tasks', Cardinality({n \in Calls : call[n].step # "new"}))
    /\ UNCHANGED authorityVars

Next ==
    \/ \E n \in Calls : Begin(n) \/ Client(n) \/ Helper(n) \/ Confirm(n) \/ Deny(n)
                        \/ HelperFault(n) \/ HelperDies(n) \/ ClientDies(n)
    \/ Tick \/ SetBack \/ Administer

\* A client goes on, and so does its wait; so does a helper.  Nobody has to
\* confirm, type a phrase, or begin anything, and the clock need not move.
Fairness == \A n \in Calls : WF_vars(Client(n)) /\ WF_vars(Helper(n))

Spec == Init /\ [][Next]_vars /\ Fairness

-----------------------------------------------------------------------------
(* Properties.                                                             *)

\* No authority without a person: every record, whatever became of it, is the
\* one record of a confirmation of exactly its material, and a call is told
\* that it consumed only such a record.
ConfirmedGrants ==
    \A r \in Records :
       /\ records[r].state # "none" => confirmed[r] = {records[r].material}
       /\ spent[r] > 0 => records[r].state = "consumed"

\* A one-shot record serves one call, unless two helpers had read it as active
\* at the same time: the comparison before the rename does not exclude them.
OneUsePerRecord == \A r \in Records : spent[r] > 1 => r \in raced

\* So a consumption stands for one confirmation by a person, and for one only, as
\* long as the helpers come one after the other (protected-helper.ts).
AuthorityIsEarned == ConfirmedGrants /\ OneUsePerRecord

\* The refusal of duplicates keeps the authority of a material unambiguous,
\* unless two issuances of it went on at a time (a call that gave up counts as
\* long as its helper lives), or the clock was set back over an expiry.
AmbiguityNeedsOverlap ==
    \A m \in Materials :
       (\E r, s \in ActiveOf(m) : r # s) => m \in overlapped \/ backs > 0

\* The records of a consumer stay readable: while no helper works on them, only
\* a helper that failed or died, or a clock that was set back between an issuance
\* and a consumption, leaves an entry that makes every later call refuse.
BlockedHasCause ==
    \A c \in Consumers :
       \/ Readable(c) \/ deaths > 0 \/ faults > 0 \/ backs > 0
       \/ \E n \in Calls : Running(n) /\ Consumer(call[n].material) = c

\* So a client that Guardian refuses for good, with an ambiguity or with a record
\* it cannot read, owes it to one of these causes (protected-helper.ts).
StuckHasCause == AmbiguityNeedsOverlap /\ BlockedHasCause

\* Every call returns, although nobody may ever answer the dialog of its helper: the
\* launcher of Windows waits five minutes.  That of Linux, sudo in the terminal of the
\* user, has no limit, and returns when the user answers or interrupts it.
CallsReturn == \A n \in Calls : call[n].step \in ClientSteps ~> call[n].step \in Ended \cup {"over"}

=============================================================================
