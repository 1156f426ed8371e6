---------------------------- MODULE DesktopRegistry ----------------------------
(***************************************************************************)
(* The files of the Desktop project registry (desktop_project_registry.rs):*)
(* registry.json, its backup, and one state directory per project, which a *)
(* legacy import marks with a plan until it is complete.                   *)
(*                                                                         *)
(* A project is named by its checkout: the registry never holds a root     *)
(* twice, and its id is drawn once, when the root is first registered.     *)
(***************************************************************************)
EXTENDS Naturals

CONSTANTS
    Roots,         \* checkouts on this machine
    LegacyRoot,    \* the one that the single-project files of older versions name
    NoRoot, NoRegistry

VARIABLES
    registry,      \* registry.json
    backup,        \* its backup
    dir            \* r |-> the state directory of r

registryVars == <<registry, backup, dir>>

Identities == {"old", "new"}    \* of the Project Brain found in a checkout, of one made for it
NoIdentity == "none"

Registries == [
    projects : [Roots -> {"absent", "registered", "detached"}],
    identity : [Roots -> Identities \cup {NoIdentity}],    \* stable_project_identity
    last     : Roots \cup {NoRoot},                        \* last_active_desktop_project_id
    legacy   : {"pending", "not-needed", "complete", "recovery-required"}]

\* Assumed by Desktop.
RootsAssumption == LegacyRoot \in Roots /\ NoRoot \notin Roots /\ NoRegistry \notin Registries

EmptyRegistry == [projects |-> [r \in Roots |-> "absent"],
                  identity |-> [r \in Roots |-> NoIdentity],
                  last |-> NoRoot, legacy |-> "pending"]

Projects(g) == {r \in Roots : g.projects[r] # "absent"}

\* What a registry must satisfy to be read or written.
Valid(g) ==
    /\ g.legacy = "complete" => Projects(g) # {}
    /\ g.last # NoRoot => g.projects[g.last] = "registered"

\* "bare": made by a registration.  "planned": imported, its plan still there.
Directories == {"none", "bare", "planned", "imported"}

RegistryTypeOK ==
    /\ registry \in {g \in Registries : Valid(g)} \cup {NoRegistry}
    /\ backup \in Registries \cup {NoRegistry}
    /\ dir \in [Roots -> Directories]

Orphans == {r \in Roots : dir[r] # "none"}

\* The registry as load_registry sees it.  Without registry.json, a backup or
\* a project's directory makes every load fail.
Unreadable == registry = NoRegistry /\ (backup # NoRegistry \/ Orphans # {})
Loaded == IF registry = NoRegistry THEN EmptyRegistry ELSE registry

\* An import may find its own directory, and nothing else, in place of a registry.
Finalizable ==
    \/ registry # NoRegistry
    \/ backup = NoRegistry /\ Orphans = {LegacyRoot}
================================================================================
