---- MODULE MCSemanticApply ----
(* Instance of SemanticApply for TLC: processes, ids and records are symmetric. *)
EXTENDS SemanticApply, TLC

CONSTANTS p1, p2, i1, i2, r1, r2

MCProcs == {p1, p2}
MCProc == {p1}
MCIds == {i1, i2}
MCId == {i1}
MCRecords == {r1, r2}
MCSymmetry ==
    Permutations(MCRecords) \cup Permutations(MCProcs) \cup Permutations(MCIds)
====
