---- MODULE MCProtectedUpdate ----
(* Instance of ProtectedUpdate for TLC: a release, a prerelease of the next one *)
(* and the next one, which has another schema.                                  *)
EXTENDS ProtectedUpdate

CONSTANTS one, rc, two

MCReleases == {one, rc, two}
MCNumber(v) ==
    [core |-> IF v = one THEN <<1, 0, 0>> ELSE <<2, 0, 0>>,
     prerelease |-> IF v = rc THEN <<[numeric |-> FALSE, rank |-> 2], [numeric |-> TRUE, rank |-> 1]>> ELSE <<>>]
MCSchema(v) == IF v = two THEN 2 ELSE 1
MCFrom(v) == {one, rc} \ {v}
====
