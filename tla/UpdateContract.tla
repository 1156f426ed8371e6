---------------------------- MODULE UpdateContract ----------------------------
(***************************************************************************)
(* What `livariant status` promises while a schema migration is attempted: *)
(* a project is shown as the source release, as the target release, or as  *)
(* blocked until it is diagnosed; the target is reached in one step, is    *)
(* never left, and no accepted document edit disappears on the way.        *)
(***************************************************************************)
EXTENDS Naturals

VARIABLES view, docs

Init == view = "source" /\ docs = 0

\* A migration opens its journal, or its rollback could not be finished.
Block == view = "source" /\ view' = "blocked" /\ UNCHANGED docs

\* A rollback or a recovery brought the source release back.
Restore == view = "blocked" /\ view' = "source" /\ UNCHANGED docs

Commit == view = "blocked" /\ view' = "target" /\ UNCHANGED docs

\* Documents change only in a project that is not blocked.
Edit == view \in {"source", "target"} /\ docs' = docs + 1 /\ UNCHANGED view

Next == Block \/ Restore \/ Commit \/ Edit

Spec == Init /\ [][Next]_<<view, docs>>

===============================================================================
