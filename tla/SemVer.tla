---------------------------------- MODULE SemVer ----------------------------------
(***************************************************************************)
(* The order of versions: compareSemver of lifecycle/update.               *)
(*                                                                         *)
(* An identifier of a prerelease is numeric, with its value as rank, or a  *)
(* word, with its place in the order of localeCompare as rank.  A version  *)
(* that is no prerelease has no identifier.                                *)
(***************************************************************************)
EXTENDS Integers, Sequences

Identifiers == [numeric : BOOLEAN, rank : Nat]
SemVers == [core : [1..3 -> Nat], prerelease : Seq(Identifiers)]

Sign(n) == IF n < 0 THEN -1 ELSE IF n > 0 THEN 1 ELSE 0

CompareIdentifiers(l, r) ==
    IF l.numeric = r.numeric THEN Sign(l.rank - r.rank)
    ELSE IF l.numeric THEN -1 ELSE 1

\* The first position where two sequences differ, one past the shorter if none.
FirstDifference(s, t) ==
    CHOOSE i \in 1 .. Len(s) + 1 :
        /\ \A j \in 1 .. i - 1 : j <= Len(t) /\ s[j] = t[j]
        /\ i > Len(s) \/ i > Len(t) \/ s[i] # t[i]

ComparePrerelease(l, r) ==
    LET i == FirstDifference(l, r)
    IN  IF l = r THEN 0
        ELSE IF l = <<>> THEN 1
        ELSE IF r = <<>> THEN -1
        ELSE IF i > Len(l) THEN -1
        ELSE IF i > Len(r) THEN 1
        ELSE CompareIdentifiers(l[i], r[i])

Compare(l, r) ==
    LET i == CHOOSE i \in 1..3 : l.core[i] # r.core[i] /\ \A j \in 1 .. i - 1 : l.core[j] = r.core[j]
    IN  IF l.core = r.core THEN ComparePrerelease(l.prerelease, r.prerelease)
        ELSE Sign(l.core[i] - r.core[i])
====
