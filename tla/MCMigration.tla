---- MODULE MCMigration ----
(* Instance of Migration for TLC: identities are model values, symmetric. *)
EXTENDS MigrationInvariant, TLC

CONSTANTS o1, o2, o3

MCOps == {o1, o2, o3}
NoCleanups == {}
DisplacedCleanup == {"rbDropDisplaced"}
CheckpointCleanup == {"rbDropCheckpoint"}
AllCleanups == LateCleanups
MCSymmetry == Permutations(MCOps)

\* Where liveness is checked, which excludes SYMMETRY: identities are drawn in this order.
InOrder == \A n \in 1..2 : <<o1, o2, o3>>[n + 1] \in used' => <<o1, o2, o3>>[n] \in used'
====
