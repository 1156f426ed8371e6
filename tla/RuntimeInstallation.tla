---------------------------- MODULE RuntimeInstallation ----------------------------
(***************************************************************************)
(* The runtimes of a project: distribution/runtime-installation, with the  *)
(* release authorizations and the runtime trust a Guardian keeps for them, *)
(* and the releases among which an update chooses (lifecycle/update).      *)
(*                                                                         *)
(* A release is identified by its version: an artifact with another digest *)
(* fails its verification, which is an exception like any other.           *)
(***************************************************************************)
EXTENDS SemVer, FiniteSets

CONSTANTS
    Releases,     \* releases a manifest may describe, the one in use among them
    NoRelease,
    Number(_),    \* the version of a release, a SemVer
    Schema(_),    \* the Project Brain schema of a release
    From(_)       \* the releases from which one may be updated to it

ASSUME ReleasesAssumption == NoRelease \notin Releases
ASSUME NumberAssumption == \A v \in Releases : Number(v).core \in [1..3 -> Nat]
ASSUME SchemaAssumption == \A v \in Releases : Schema(v) \in {1, 2}
ASSUME FromAssumption == \A v \in Releases : From(v) \subseteq Releases

VARIABLES
    release,      \* v |-> the tree .framework-runtime/releases/<v>
    pointer,      \* the release active.json names
    authorized,   \* releases with an active one-shot authorization
    trusted       \* releases whose installed tree the Guardian trusts

runtimeVars == <<release, pointer, authorized, trusted>>

\* A tree that is being removed is torn: it no longer agrees with its evidence.
Trees == {"absent", "whole", "torn"}

RuntimeTypeOK ==
    /\ release \in [Releases -> Trees]
    /\ pointer \in Releases \cup {NoRelease}
    /\ authorized \subseteq Releases /\ trusted \subseteq Releases

Whole(v) == release[v] = "whole"

\* readActiveRuntimePointer throws when the release it names is not whole.
PointerReadable == pointer = NoRelease \/ Whole(pointer)

-----------------------------------------------------------------------------
(* checkForUpdate.                                                         *)

Newer(v, w) == Compare(Number(v), Number(w)) > 0

Compatible(manifest, v) == {w \in manifest : Newer(w, v) /\ v \in From(w)}

\* The newest of them.
Candidates(manifest, v) ==
    {w \in Compatible(manifest, v) : \A u \in Compatible(manifest, v) : ~Newer(u, w)}
====
